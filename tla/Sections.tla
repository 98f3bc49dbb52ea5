------------------------------ MODULE Sections ------------------------------
(***************************************************************************)
(* The sections ribbon: src/static/js/sections.js, with the bar numbers    *)
(* beatgrid.js gives a stretch of time.                                    *)
(*                                                                         *)
(* Sections are dragged, resized, split, merged, added and removed, each   *)
(* keeping its times and the bars they span, counted on whatever beats are *)
(* in memory.  Changes are saved a moment after the last one, as whole     *)
(* snapshots sent one after the other.  Opening a track reads its sections *)
(* first and then replaces the ribbon.                                     *)
(***************************************************************************)
EXTENDS Integers, Sequences, FiniteSets

CONSTANTS
  Tracks,
  Downbeats,  \* the downbeats detected on each track
  Grids,      \* bound: the downbeats a grid in memory may have
  Found,      \* the sections detected on each track, as pairs of times
  Duration, MinSec, DefaultWidth,
  MaxIds,     \* bound: sections of a track
  MaxActs     \* bound: what the user does

VARIABLES sc, acts

sectionVars == <<sc, acts>>
None == "none"
MinOf(a, b) == IF a < b THEN a ELSE b
MaxOf(a, b) == IF a > b THEN a ELSE b
Most(S) == CHOOSE x \in S : \A y \in S : x >= y
Least(S) == CHOOSE x \in S : \A y \in S : x <= y
Times == 0..Duration
Dist(a, b) == MaxOf(a - b, b - a)

(* --------------------------------- bars --------------------------------- *)
(* The number of the bar a time falls in, 1 for what precedes the first.    *)
floorBar(beats, t) == MaxOf(1, Cardinality({b \in beats : b <= t}))
barBefore(beats, t) == MaxOf(1, Cardinality({b \in beats : b < t}))

barRangeForTime(beats, start, end) ==
  IF Cardinality(beats) < 2 THEN [lo |-> 0, hi |-> 0]
  ELSE [lo |-> floorBar(beats, start),
        hi |-> MaxOf(floorBar(beats, start), barBefore(beats, end))]

(* A section remembers the downbeats its bars were counted on (history).    *)
Sec(beats, id, start, end) ==
  [id |-> id, start |-> start, end |-> end, bars |-> barRangeForTime(beats, start, end), by |-> beats]
Detected(j) == {Sec(Downbeats[j], id, Found[j][id][1], Found[j][id][2]) : id \in DOMAIN Found[j]}

Section == [id : 1..MaxIds, start : Times, end : Times, bars : [lo : Nat, hi : Nat], by : SUBSET Times]

SectionsAssumption ==
  /\ Duration \in Nat /\ MinSec \in 1..Duration /\ DefaultWidth \in Nat /\ MaxIds \in Nat /\ MaxActs \in Nat
  /\ None \notin Tracks /\ Grids \subseteq SUBSET Times
  /\ \A j \in Tracks : /\ Downbeats[j] \subseteq Times /\ DOMAIN Found[j] \subseteq 1..MaxIds
                        /\ \A id \in DOMAIN Found[j] : /\ Found[j][id][1] \in Times /\ Found[j][id][2] \in Times
                                                       /\ Found[j][id][1] < Found[j][id][2]
Idle == [kind |-> None]
NotRead == {[id |-> 0]}
Moving(s) == s.drag # Idle /\ s.drag.changed
Settled == ~sc.timer /\ sc.chain = <<>> /\ sc.drag = Idle

SectionsTypeOK ==
  /\ sc.track \in Tracks \cup {None} /\ sc.secs \subseteq Section
  /\ sc.timer \in BOOLEAN /\ sc.drag.kind \in {None, "move", "left", "right"}
  /\ \A n \in DOMAIN sc.chain : sc.chain[n].of \in Tracks /\ sc.chain[n].secs \subseteq Section
  /\ \A j \in Tracks : sc.server[j] \subseteq Section /\ sc.want[j] \subseteq Section
  /\ sc.opening \in Tracks \cup {None} /\ sc.armed \in BOOLEAN
  /\ sc.missed \subseteq Tracks /\ sc.beats \subseteq Times /\ sc.torn \in BOOLEAN /\ acts \in 0..MaxActs

SectionsInit ==
  /\ sc = [track |-> None, secs |-> {}, drag |-> Idle, timer |-> FALSE, chain |-> <<>>,
           server |-> [j \in Tracks |-> Detected(j)], want |-> [j \in Tracks |-> Detected(j)],
           opening |-> None, read |-> NotRead, armed |-> FALSE, beats |-> {}, missed |-> {}, torn |-> FALSE]
  /\ acts = 0

Act == acts < MaxActs /\ acts' = acts + 1

(* -------------------------------- saving -------------------------------- *)
(* The snapshot and the track it is of are taken at once, in the middle of  *)
(* a gesture too (torn); requests follow one another.                       *)
queueSaveSnapshot(s) ==
  IF s.track = None THEN s
  ELSE [s EXCEPT !.chain = Append(@, [of |-> s.track, secs |-> s.secs]), !.torn = @ \/ Moving(s)]

(* Every change made by the user is to be saved.                            *)
scheduleSave(s) == [s EXCEPT !.timer = TRUE, !.want[s.track] = s.secs]

(* Nothing stops the timer of the track before (missed: an edit of that     *)
(* track may be lost, or a list is shown that a save on its way replaces).  *)
initSections(s, j, read) ==
  [s EXCEPT !.track = j, !.secs = read, !.drag = Idle, !.opening = None, !.read = NotRead,
            !.armed = @ /\ read # {},
            !.missed = @ \cup {k \in {s.track} : s.timer \/ s.drag # Idle} \cup {k \in {j} : read # s.want[k]}]

destroySections(s) ==
  [(IF s.timer THEN queueSaveSnapshot(s) ELSE s)
     EXCEPT !.timer = FALSE, !.track = None, !.secs = {}, !.drag = Idle, !.armed = FALSE,
            !.missed = @ \cup {k \in {s.track} : s.drag # Idle}]

(* ------------------------------- the track ------------------------------ *)
(* A library track is read from the server, then shown.  Its beats are in   *)
(* memory when its engine is up: those of the track before until then, none *)
(* once the player is gone, and others with each edit of the grid.          *)
Open == Act /\ sc.opening = None /\ \E j \in Tracks : sc' = [sc EXCEPT !.opening = j]
Read == sc.opening # None /\ sc.read = NotRead /\
  sc' = [sc EXCEPT !.read = sc.server[sc.opening]] /\ UNCHANGED acts
Shown == sc.opening # None /\ sc.read # NotRead /\
  sc' = initSections(sc, sc.opening, sc.read) /\ UNCHANGED acts
destroyPlayer == Act /\ sc.track # None /\ sc.opening = None /\
  sc' = [destroySections(sc) EXCEPT !.beats = {}]
setBeats == sc.track # None /\ \E beats \in Grids : sc' = [sc EXCEPT !.beats = beats] /\ UNCHANGED acts

(* ------------------------------ the gestures ---------------------------- *)
Get(s, id) == CHOOSE x \in s.secs : x.id = id
Others(s, id) == {x \in s.secs : x.id # id}
Put(s, x) == [s EXCEPT !.secs = Others(s, x.id) \cup {x}]
Synced(s, x) == [x EXCEPT !.bars = barRangeForTime(s.beats, x.start, x.end), !.by = s.beats]

(* Pushed out of the sections it lands on, one after the other, each time   *)
(* to the nearer side of that section: the result may lie on another.       *)
PushedOut(others, start, width, desired) ==
  LET away(o, at) == IF ~(at < o.end /\ at + width > o.start) THEN at
                     ELSE IF Dist(desired, o.start - width) < Dist(desired, o.end) THEN MaxOf(0, o.start - width)
                     ELSE MinOf(Duration - width, o.end)
      past[n \in 0..MaxIds] ==
        IF n = 0 THEN start
        ELSE IF \E x \in others : x.id = n THEN away(CHOOSE x \in others : x.id = n, past[n - 1])
        ELSE past[n - 1]
  IN past[MaxIds]
clampMove(s, id, desired, width) ==
  PushedOut(Others(s, id), MaxOf(0, MinOf(Duration - width, desired)), width, desired)

leftNeighborNone(s, id) == 0
leftNeighborEnd(s, id) ==
  Most({0} \cup {o.end : o \in {x \in Others(s, id) : x.end <= Get(s, id).end}})
rightNeighborStart(s, id) ==
  Least({Duration} \cup {o.start : o \in {x \in Others(s, id) : x.start >= Get(s, id).start}})

Grab == Act /\ sc.drag = Idle /\ \E x \in sc.secs, kind \in {"move", "left", "right"} :
  sc' = [sc EXCEPT !.drag = [kind |-> kind, id |-> x.id, start |-> x.start, end |-> x.end,
                         changed |-> FALSE]]

Dragged(s, t) ==
  LET x == Get(s, s.drag.id)
      moved == clampMove(s, x.id, t, x.end - x.start)
  IN CASE s.drag.kind = "move" -> [x EXCEPT !.start = moved, !.end = moved + x.end - x.start]
       [] s.drag.kind = "left" ->
            [x EXCEPT !.start = MaxOf(leftNeighborEnd(s, x.id), MinOf(x.end - MinSec, t))]
       [] OTHER -> [x EXCEPT !.end = MinOf(rightNeighborStart(s, x.id), MaxOf(x.start + MinSec, t))]

Drag == sc.drag # Idle /\ \E t \in Times :
  LET x == Dragged(sc, t)
  IN /\ sc' = Put([sc EXCEPT !.drag.changed = @ \/ x.start # sc.drag.start \/ x.end # sc.drag.end], x)
     /\ UNCHANGED acts

Drop == sc.drag # Idle /\
  LET x == Get(sc, sc.drag.id)
      idle == [sc EXCEPT !.drag = Idle]
  IN /\ sc' = (IF sc.drag.changed THEN scheduleSave(Put(idle, Synced(idle, x))) ELSE idle)
     /\ UNCHANGED acts

(* What a save sent meanwhile took with it is not taken back.               *)
Cancel == sc.drag # Idle /\
  LET back == [Get(sc, sc.drag.id) EXCEPT !.start = sc.drag.start, !.end = sc.drag.end]
      idle == Put([sc EXCEPT !.drag = Idle], back)
  IN sc' = [idle EXCEPT !.missed = @ \cup {k \in {sc.track} : ~sc.timer /\ sc.drag.changed}] /\ UNCHANGED acts

(* ------------------------------ the buttons ----------------------------- *)
Clickable == sc.drag = Idle /\ sc.track # None
FreeIds == 1..MaxIds \ {x.id : x \in sc.secs}
Overlaps(x, y) == x.start < y.end /\ x.end > y.start

(* Behind the last section that leaves no room before it.                   *)
GapStart ==
  LET ends == {0} \cup {x.end : x \in sc.secs}
      room(e) == \A x \in sc.secs : x.end > e => x.start - e >= DefaultWidth
  IN MinOf(Least({e \in ends : room(e)}), Duration - MinSec)

addSection == Act /\ Clickable /\ FreeIds # {} /\
  LET x == Sec(sc.beats, Least(FreeIds), GapStart, MinOf(GapStart + DefaultWidth, Duration))
  IN /\ x.end - x.start >= MinSec
     /\ \A y \in sc.secs : ~Overlaps(x, y)
     /\ sc' = scheduleSave([sc EXCEPT !.secs = @ \cup {x}])

deleteSection == Act /\ Clickable /\ \E x \in sc.secs :
  LET rest == Others(sc, x.id)
  IN sc' = scheduleSave([sc EXCEPT !.secs = rest, !.armed = @ /\ rest # {}])

splitSection == Act /\ Clickable /\ FreeIds # {} /\ \E x \in sc.secs, playhead \in Times :
  LET at == MaxOf(x.start + MinSec, MinOf(x.end - MinSec, playhead))
  IN /\ at > x.start /\ at < x.end
     /\ sc' = scheduleSave([sc EXCEPT !.secs =
          Others(sc, x.id) \cup {Sec(sc.beats, x.id, x.start, at),
                                 Sec(sc.beats, Least(FreeIds), at, x.end)}])

merged(x, y) == Synced(sc, [x EXCEPT !.end = y.end])
mergeSection == Act /\ Clickable /\ \E x, y \in sc.secs :
  /\ x # y /\ y.start = x.end
  /\ sc' = scheduleSave([sc EXCEPT !.secs = (@ \ {x, y}) \cup {merged(x, y)}])

(* The first click arms the button, for a while.                            *)
clearAll == Act /\ Clickable /\ sc.secs # {} /\
  sc' = (IF sc.armed THEN scheduleSave([sc EXCEPT !.armed = FALSE, !.secs = {}])
         ELSE [sc EXCEPT !.armed = TRUE])
disarmClear == sc.armed /\ sc' = [sc EXCEPT !.armed = FALSE] /\ UNCHANGED acts

(* ------------------------------ the requests ---------------------------- *)
SaveDue == sc.timer /\ sc' = queueSaveSnapshot([sc EXCEPT !.timer = FALSE]) /\ UNCHANGED acts

sendSave == sc.chain # <<>> /\
  LET save == Head(sc.chain)
  IN \/ sc' = [sc EXCEPT !.chain = Tail(@), !.server[save.of] = save.secs] /\ UNCHANGED acts
     \/ sc' = [sc EXCEPT !.chain = Tail(@), !.missed = @ \cup {save.of}] /\ UNCHANGED acts

SectionsNext ==
  \/ Open \/ Read \/ Shown \/ destroyPlayer \/ setBeats
  \/ Grab \/ Drag \/ Drop \/ Cancel
  \/ addSection \/ deleteSection \/ splitSection \/ mergeSection \/ clearAll \/ disarmClear
  \/ SaveDue \/ sendSave

SectionsSpec == SectionsInit /\ [][SectionsNext]_sectionVars

(* ------------------------------ properties ------------------------------ *)
Apart == \A x, y \in sc.secs : x # y => ~Overlaps(x, y)
Within == \A x \in sc.secs : 0 <= x.start /\ x.start < x.end /\ x.end <= Duration

(* Sections that lie beside one another in the track still do after a       *)
(* resize, a split, a merge, an addition: only a move can push one onto     *)
(* another, and only a gesture taken back or a replaced ribbon may bring    *)
(* such an order back.                                                      *)
EditsKeepApart ==
  Apart /\ Within /\ sc.drag.kind # "move" /\ (sc.drag # Idle => sc'.drag # Idle)
  /\ (sc.opening # None => sc'.opening # None) => Apart' /\ Within'

(* The bar numbers of a section are those of its times on the beats they    *)
(* were counted on, whatever edit made them, unless a list was saved in the *)
(* middle of a gesture; and of two sections counted on the same beats, one  *)
(* that ends on a downbeat does not claim the bar the next begins with.     *)
Counted(x) == x.bars = barRangeForTime(x.by, x.start, x.end)
BarsDescribeTimes ==
  sc.drag = Idle /\ ~sc.torn =>
    \A x \in sc.secs :
      /\ Counted(x)
      /\ \A y \in sc.secs : x.by = y.by /\ x.end = y.start /\ y.start \in x.by
           /\ x.start < x.end /\ (\E b \in x.by : b <= x.start) => x.bars.hi <= y.bars.lo - 1

(* Once everything is sent, the server has what the user last made of each  *)
(* track, save one a request of which failed, or that was left or opened    *)
(* while an edit of it was not saved yet.                                   *)
LastEditKept == Settled => \A j \in Tracks \ sc.missed : sc.server[j] = sc.want[j]

(* What it rests on.  A list has each section once and none that ends       *)
(* before it begins.  Unless it was missed, what the user made of the track *)
(* shown is the ribbon as it was when the gesture began, and of every track *)
(* it is what the last request on its way brings, or what the server has,   *)
(* unless the timer or a gesture still holds it back.  Wherever a list is,  *)
(* its bars are counted.                                                    *)
Lists == {S \in SUBSET Section : /\ \A x \in S : x.start <= x.end
                                /\ \A x, y \in S : x.id = y.id => x = y}
Gestures == [kind : {"move", "left", "right"}, id : 1..MaxIds, start : Times, end : Times, changed : BOOLEAN]
Saves == [of : Tracks, secs : Lists]
Ribbons ==
  [track : Tracks \cup {None}, secs : Lists, drag : {Idle} \cup Gestures, timer : BOOLEAN, chain : Seq(Saves),
   server : [Tracks -> Lists], want : [Tracks -> Lists], opening : Tracks \cup {None},
   read : {NotRead} \cup Lists, armed : BOOLEAN, beats : SUBSET Times, missed : SUBSET Tracks, torn : BOOLEAN]

AsGrabbed(s) ==
  IF s.drag = Idle THEN s.secs
  ELSE Others(s, s.drag.id) \cup {[Get(s, s.drag.id) EXCEPT !.start = s.drag.start, !.end = s.drag.end]}
HeldBack(s, j) == s.track = j /\ (s.timer \/ Moving(s))
Arrives(chain, kept, j, list) ==
  \/ \E n \in DOMAIN chain : /\ chain[n].of = j /\ chain[n].secs = list
                             /\ \A m \in DOMAIN chain : m > n => chain[m].of # j
  \/ kept = list /\ \A n \in DOMAIN chain : chain[n].of # j

OnTheRibbon(s) ==
  /\ s.track = None => s.secs = {} /\ ~s.timer
  /\ s.drag # Idle => /\ s.drag.start <= s.drag.end /\ \E x \in s.secs : x.id = s.drag.id
                      /\ ~s.drag.changed => /\ Get(s, s.drag.id).start = s.drag.start
                                            /\ Get(s, s.drag.id).end = s.drag.end
Wanted(s) == s.track # None /\ s.track \notin s.missed => s.want[s.track] = AsGrabbed(s)
OnItsWay(s) == \A j \in Tracks \ s.missed : HeldBack(s, j) \/ Arrives(s.chain, s.server[j], j, s.want[j])

AllCounted(S) == \A x \in S : Counted(x)
EveryListCounted(s) ==
  /\ AllCounted(AsGrabbed(s)) /\ \A j \in Tracks : AllCounted(s.server[j])
  /\ \A n \in DOMAIN s.chain : AllCounted(s.chain[n].secs)
  /\ s.read # NotRead => AllCounted(s.read)
SectionsIInv ==
  /\ sc \in Ribbons /\ acts \in 0..MaxActs /\ OnTheRibbon(sc) /\ Wanted(sc) /\ OnItsWay(sc)
CountedIInv == ~sc.torn => EveryListCounted(sc)
=============================================================================
