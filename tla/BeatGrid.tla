------------------------------ MODULE BeatGrid ------------------------------
(***************************************************************************)
(* The beat grid editor: src/static/js/beatgrid.js.                        *)
(*                                                                         *)
(* A grid is a sequence of beat times, marks where the meter changes, and  *)
(* the anchors: the beats the user put in place.  Dragging a beat spreads  *)
(* its neighbours evenly up to the anchors around it, or moves it alone.   *)
(* Beats are counted from 0 in the marks and anchors, as in the code.      *)
(* When and where a grid is saved is module BeatGridStore.                 *)
(***************************************************************************)
EXTENDS Integers, Sequences, FiniteSets

CONSTANTS
  Grids,     \* the detected beats a track may come with
  Duration,
  Onsets,    \* times a dragged beat snaps to
  SnapTol,   \* how far the snap reaches
  MaxActs    \* bound: what the user does

VARIABLES bg, acts

gridVars == <<bg, acts>>
MinGap == 1            \* MIN_GAP is the unit of time here
UndoDepth == 2         \* UNDO_DEPTH
Times == 0..Duration
Meters == {2, 4}
LeastOf(S) == CHOOSE x \in S : \A y \in S : x <= y
MostOf(S) == CHOOSE x \in S : \A y \in S : x >= y
Clamp(lo, hi, t) == LET m == LeastOf({hi, t}) IN MostOf({lo, m})
Indices(b) == 0..(Len(b) - 1)
At(b, i) == b[i + 1]

Spaced(b) == \A n \in 1..Len(b) - 1 : b[n + 1] - b[n] >= MinGap

(* Beats come in order and apart, two of them at least.                     *)
GridAssumption ==
  /\ Duration \in Nat /\ SnapTol \in Nat /\ MaxActs \in Nat /\ Onsets \subseteq Times
  /\ \A b \in Grids : b \in Seq(Times) /\ Len(b) >= 2 /\ Spaced(b)

GridTypeOK ==
  /\ bg.beats \in Seq(Times) /\ bg.anchors \subseteq Nat
  /\ \A m \in bg.bars : m.beat \in Nat /\ m.meter \in Meters
  /\ Len(bg.undo) <= UndoDepth /\ Len(bg.redo) <= UndoDepth
  /\ bg.drag \in Nat \cup {-1} /\ bg.single \in BOOLEAN
  /\ acts \in 0..MaxActs

GridInit ==
  /\ \E b \in Grids, bars \in {{}, {[beat |-> 0, meter |-> 4]}} :
       bg = [beats |-> b, bars |-> bars, anchors |-> {}, undo |-> <<>>, redo |-> <<>>,
             drag |-> -1, single |-> FALSE]
  /\ acts = 0

Act == acts < MaxActs /\ acts' = acts + 1

(* -------------------------------- history ------------------------------- *)
snapshot(g) == [beats |-> g.beats, bars |-> g.bars, anchors |-> g.anchors]
restored(g, s) == [g EXCEPT !.beats = s.beats, !.bars = s.bars, !.anchors = s.anchors]
pushUndo(g) ==
  LET u == Append(g.undo, snapshot(g))
  IN [g EXCEPT !.redo = <<>>, !.undo = IF Len(u) > UndoDepth THEN Tail(u) ELSE u]
Last(s) == s[Len(s)]
Front(s) == SubSeq(s, 1, Len(s) - 1)

(* ------------------------------- the times ------------------------------ *)
(* The nearest onset in reach, the earlier of two.                          *)
snapTime(t) ==
  LET near == {o \in Onsets : o - t \in -SnapTol..SnapTol}
      gap(o) == IF o > t THEN o - t ELSE t - o
  IN IF near = {} THEN t
     ELSE LeastOf({o \in near : \A p \in near : gap(o) <= gap(p)})

(* The anchors around a beat, or the ends of the grid.                      *)
anchorSpan(g, i) ==
  [lo |-> MostOf({0} \cup {a \in g.anchors : a < i}),
   hi |-> LeastOf({Len(g.beats) - 1} \cup {a \in g.anchors : a > i})]

moveAlone(g, i, t) ==
  LET lo == IF i > 0 THEN At(g.beats, i - 1) + MinGap ELSE 0
      hi == IF i < Len(g.beats) - 1 THEN At(g.beats, i + 1) - MinGap ELSE Duration
  IN [g.beats EXCEPT ![i + 1] = Clamp(lo, hi, t)]

moveRippling(g, i, t) ==
  LET a == anchorSpan(g, i).lo
      b == anchorSpan(g, i).hi
      from == At(g.beats, a)
      to == At(g.beats, b)
      target == Clamp(from + MinGap * (i - a), to - MinGap * (b - i), t)
  IN [n \in DOMAIN g.beats |->
       LET k == n - 1 IN
         IF k = i THEN target
         ELSE IF a < k /\ k < i THEN from + ((target - from) * (k - a)) \div (i - a)
         ELSE IF i < k /\ k < b THEN target + ((to - target) * (k - i)) \div (b - i)
         ELSE At(g.beats, k)]

moveBeat(g, i, t) ==
  IF i \notin Indices(g.beats) THEN g
  ELSE [g EXCEPT !.beats = IF g.single THEN moveAlone(g, i, t) ELSE moveRippling(g, i, t),
                 !.anchors = @ \cup {i}]

(* Marks and anchors at and behind a place move with the beats there.       *)
shiftBars(g, at, delta) ==
  LET moved == {[m EXCEPT !.beat = IF @ >= at THEN @ + delta ELSE @] : m \in g.bars}
  IN [g EXCEPT !.bars = {m \in moved : m.beat \in Indices(g.beats)}]
shiftAnchors(g, at, delta) ==
  [g EXCEPT !.anchors = {i \in {IF a < at THEN a ELSE a + delta : a \in @} : i >= 0}]

(* -------------------------------- the meter ----------------------------- *)
MarkAt(g, i) ==
  LET before == {m \in g.bars : m.beat <= i}
      later(m) == \A k \in before : k.beat <= m.beat
  IN {m \in before : later(m)}
barLengthAt(g, i) == IF MarkAt(g, i) = {} THEN {4} ELSE {m.meter : m \in MarkAt(g, i)}

(* ------------------------------- the steps ------------------------------ *)
Idle == bg.drag = -1

pointerDown == Act /\ Idle /\ \E i \in Indices(bg.beats), single \in BOOLEAN :
  bg' = [pushUndo(bg) EXCEPT !.drag = i, !.single = single]
pointerMove == ~Idle /\ (\E t \in Times : bg' = moveBeat(bg, bg.drag, snapTime(t))) /\ UNCHANGED acts
pointerUp == ~Idle /\ bg' = [bg EXCEPT !.drag = -1] /\ UNCHANGED acts

insertBeat == Act /\ Idle /\ \E at0 \in Times :
  LET t == snapTime(at0)
      at == Cardinality({n \in DOMAIN bg.beats : bg.beats[n] < t})
      q == pushUndo(bg)
      spliced == [q EXCEPT !.beats = SubSeq(@, 1, at) \o <<t>> \o SubSeq(@, at + 1, Len(@))]
  IN /\ \A n \in DOMAIN bg.beats : bg.beats[n] - t \notin (1 - MinGap)..(MinGap - 1)
     /\ bg' = [shiftAnchors(shiftBars(spliced, at, 1), at, 1) EXCEPT !.anchors = @ \cup {at}]

(* With the delete tool, or by the right button in any of them.             *)
deleteBeat == Act /\ Idle /\ Len(bg.beats) > 2 /\ \E i \in Indices(bg.beats) :
  LET q == pushUndo(bg)
      spliced == [q EXCEPT !.beats = SubSeq(@, 1, i) \o SubSeq(@, i + 2, Len(@))]
  IN bg' = [shiftAnchors(shiftBars(spliced, i, -1), i, -1) EXCEPT !.anchors = @ \ {i}]

toggleBar == Act /\ Idle /\ \E i \in Indices(bg.beats) :
  LET here == {m \in bg.bars : m.beat = i} IN
    \/ here # {} /\ \E m \in here : bg' = [pushUndo(bg) EXCEPT !.bars = @ \ {m}]
    \/ /\ here = {}
       /\ \E n \in barLengthAt(bg, i) :
            bg' = [pushUndo(bg) EXCEPT !.bars = @ \cup {[beat |-> i, meter |-> n]}]

(* The toolbar sets the meter at the start of the track.                    *)
setBarLengthAt == Act /\ Idle /\ \E n \in Meters :
  \/ \E m \in MarkAt(bg, 0) :
       bg' = [pushUndo(bg) EXCEPT !.bars = (@ \ {m}) \cup {[m EXCEPT !.meter = n]}]
  \/ /\ MarkAt(bg, 0) = {}
     /\ bg' = [pushUndo(bg) EXCEPT !.bars = @ \cup {[beat |-> 0, meter |-> n]}]

(* Undo and redo are keys: they also work while a beat is being dragged.    *)
undoBeatGrid == Act /\ bg.undo # <<>> /\
  bg' = [restored(bg, Last(bg.undo)) EXCEPT !.undo = Front(@), !.redo = Append(@, snapshot(bg))]
redoBeatGrid == Act /\ bg.redo # <<>> /\
  bg' = [restored(bg, Last(bg.redo)) EXCEPT !.redo = Front(@), !.undo = Append(@, snapshot(bg))]

GridNext ==
  \/ pointerDown \/ pointerMove \/ pointerUp \/ insertBeat \/ deleteBeat
  \/ toggleBar \/ setBarLengthAt \/ undoBeatGrid \/ redoBeatGrid

GridSpec == GridInit /\ [][GridNext]_gridVars

(* ------------------------------ properties ------------------------------ *)
(* Beats stay apart and in the track, whatever is dragged, spread, snapped, *)
(* put in, taken out and undone: the click, the rulers and every search by  *)
(* time rest on it.                                                         *)
BeatsStayInOrder ==
  /\ Spaced(bg.beats)
  /\ \A n \in DOMAIN bg.beats : bg.beats[n] \in Times

(* Every mark and every anchor stands on a beat there is.                   *)
MarksStandOnBeats ==
  bg.anchors \cup {m.beat : m \in bg.bars} \subseteq Indices(bg.beats)

(* A drag moves no other beat the user has put in place.                    *)
AnchorsHold ==
  bg.drag # -1 /\ bg'.drag = bg.drag /\ acts' = acts =>
    \A a \in bg.anchors \ {bg.drag} : At(bg'.beats, a) = At(bg.beats, a)

(* What it rests on.  Every layout, the one shown and those that undo and   *)
(* redo may bring back, has its beats apart and its marks on them.          *)
Layouts == [beats : Seq(Times), bars : SUBSET [beat : Nat, meter : Meters], anchors : SUBSET Nat]
Editings ==
  [beats : Seq(Times), bars : SUBSET [beat : Nat, meter : Meters], anchors : SUBSET Nat,
   undo : Seq(Layouts), redo : Seq(Layouts), drag : Nat \cup {-1}, single : BOOLEAN]
WellLaid(g) ==
  /\ Len(g.beats) >= 2 /\ Spaced(g.beats)
  /\ g.anchors \subseteq Indices(g.beats) /\ \A m \in g.bars : m.beat \in Indices(g.beats)
WellEdited(g) ==
  /\ g \in Editings /\ WellLaid(g) /\ Len(g.undo) + Len(g.redo) <= UndoDepth
  /\ \A n \in DOMAIN g.undo : WellLaid(g.undo[n])
  /\ \A n \in DOMAIN g.redo : WellLaid(g.redo[n])
GridIInv == WellEdited(bg) /\ acts \in 0..MaxActs
=============================================================================
