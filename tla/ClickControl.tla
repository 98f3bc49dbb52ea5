---------------------------- MODULE ClickControl -----------------------------
(***************************************************************************)
(* The click's controls in src/static/js/transport.js and what an export   *)
(* bakes in: the same grid, rate, accents and count-in are worked out once *)
(* in the browser (metronome.js) and once more on the server               *)
(* (src/app/pipeline/click_render.py).                                     *)
(*                                                                         *)
(* When a click is handed to the audio clock is module Metronome.  Beats   *)
(* are counted from 0, as in the code, and their times are even, so that   *)
(* the clicks between two beats have a time as well.                       *)
(***************************************************************************)
EXTENDS Integers, Sequences, FiniteSets

CONSTANTS
  Tracks,   \* grids as the server has them: [beats, bars], bars a set of marks
  MaxActs   \* bound: what the user does

VARIABLES cc, acts

clickVars == <<cc, acts>>
Multipliers == {"half", "one", "double"}
AccentModes == {-1, 0, 3}   \* follow the marks, none, every so many beats
NoTrack == [beats |-> <<>>, bars |-> {}]
Settings == [enabled : BOOLEAN, bar : AccentModes, countIn : BOOLEAN]
Defaults == [enabled |-> FALSE, bar |-> -1, countIn |-> FALSE]
At(b, i) == b[i + 1]
Indices(b) == 0..(Len(b) - 1)

ClickTypeOK ==
  /\ cc.set \in Settings /\ cc.store \in Settings
  /\ cc.read \in BOOLEAN /\ cc.raced \in BOOLEAN /\ cc.button \in BOOLEAN /\ cc.avail \in BOOLEAN
  /\ cc.hasBars \in BOOLEAN /\ cc.up \in BOOLEAN /\ cc.on \in BOOLEAN /\ cc.marks \in BOOLEAN
  /\ cc.count \in Nat /\ cc.mult \in Multipliers /\ acts \in 0..MaxActs
  /\ {cc.shown.beats, cc.stored.beats} \subseteq {t.beats : t \in Tracks} \cup {<<>>}

Fresh(store) ==
  [set |-> Defaults, store |-> store, read |-> FALSE, raced |-> FALSE, button |-> FALSE,
   avail |-> FALSE, hasBars |-> FALSE, up |-> FALSE, on |-> FALSE, marks |-> FALSE, count |-> 0,
   mult |-> "one", shown |-> NoTrack, stored |-> NoTrack]

ClickInit == cc = Fresh(Defaults) /\ acts = 0

Act == acts < MaxActs /\ acts' = acts + 1

(* ------------------------------ the browser ----------------------------- *)
LastMark(bars, i) == CHOOSE b \in bars : b.beat <= i /\ \A c \in bars : c.beat <= i => c.beat <= b.beat
FirstMark(bars) == CHOOSE b \in bars : \A c \in bars : b.beat <= c.beat
Marked(bars, i) == \E b \in bars : b.beat <= i

rescale(b, mult) ==
  CASE mult = "one"    -> b
    [] mult = "half"   -> [i \in 1..(Len(b) + 1) \div 2 |-> b[2 * i - 1]]
    [] mult = "double" -> [i \in 1..2 * Len(b) - 1 |->
         IF i % 2 = 1 THEN b[(i + 1) \div 2] ELSE (b[i \div 2] + b[i \div 2 + 1]) \div 2]

NoBeat == -1
sourceIndex(i, mult) ==
  CASE mult = "one"    -> i
    [] mult = "half"   -> 2 * i
    [] mult = "double" -> IF i % 2 = 0 THEN i \div 2 ELSE NoBeat

(* Before the first mark its meter is carried back.                         *)
isDownbeat(bars, i) ==
  bars # {} /\ LET mark == IF Marked(bars, i) THEN LastMark(bars, i) ELSE FirstMark(bars)
               IN (i - mark.beat) % mark.meter = 0

accented(q, src) ==
  src # NoBeat /\ IF q.marks THEN isDownbeat(q.shown.bars, src) ELSE q.count > 0 /\ src % q.count = 0

(* The value in the middle of f[lo], ..., f[hi] once they are sorted.       *)
Median(f, K) == LET half == Cardinality(K) \div 2 IN
  f[CHOOSE k \in K : /\ Cardinality({j \in K : f[j] < f[k]}) <= half
                     /\ Cardinality({j \in K : f[j] <= f[k]}) > half]
LeastOf(S) == CHOOSE x \in S : \A y \in S : x <= y
MostOf(S) == CHOOSE x \in S : \A y \in S : x >= y

countInBeatsPerBar(bars, mode, i) ==
  IF mode > 0 THEN mode ELSE IF Marked(bars, i) THEN LastMark(bars, i).meter ELSE 4

(* How long a beat takes where playback begins; 0 when it cannot be told.   *)
intervalNear(grid, start, span) ==
  IF Len(grid) < 2 THEN 0
  ELSE LET before == Cardinality({i \in Indices(grid) : At(grid, i) < start})
           from == LeastOf({before, Len(grid) - 2})
           K == from..LeastOf({from + span, Len(grid) - 1}) - 1
       IN Median([k \in K |-> At(grid, k + 1) - At(grid, k)], K)

startIndex(b, start) == MostOf({0} \cup {i \in Indices(b) : At(b, i) <= start})

computeCountIn(q, start) ==
  LET b == q.shown.beats
      bpb == countInBeatsPerBar(q.shown.bars, q.set.bar, startIndex(b, start))
      interval == intervalNear(rescale(b, q.mult), start, bpb)
  IN [lead |-> interval * bpb,
      clicks |-> IF interval = 0 THEN {}
                 ELSE {[at |-> j * interval, accent |-> j = 0] : j \in 0..bpb - 1}]

(* What is heard of a loop over start..end-1, counted in or not.            *)
heard(q, start, end, counted) ==
  LET grid == rescale(q.shown.beats, q.mult)
      in == IF counted THEN computeCountIn(q, start) ELSE [lead |-> 0, clicks |-> {}]
  IN in.clicks \cup
     {[at |-> At(grid, i) - start + in.lead, accent |-> accented(q, sourceIndex(i, q.mult))] :
        i \in {k \in Indices(grid) : At(grid, k) \in start..end - 1}}

(* ------------------------------ the server ------------------------------ *)
(* rescale_beats with source_index: the clicks and the beat each stands for.*)
rescale_beats(b, mult) ==
  LET beats(step) == {[at |-> At(b, i), src |-> i] : i \in {k \in Indices(b) : k % step = 0}}
  IN CASE mult = "one"    -> beats(1)
       [] mult = "half"   -> beats(2)
       [] mult = "double" -> beats(1) \cup
            {[at |-> (At(b, i) + At(b, i + 1)) \div 2, src |-> NoBeat] : i \in 0..Len(b) - 2}

is_downbeat(src, bars, mode) ==
  src # NoBeat /\ mode # 0 /\
    IF mode > 0 THEN src % mode = 0
    ELSE Marked(bars, src) /\ (src - LastMark(bars, src).beat) % LastMark(bars, src).meter = 0

count_in_beats(b, bars, mult, mode, start) ==
  LET times == {c.at : c \in rescale_beats(b, mult)}
      index == MostOf({0} \cup {i \in Indices(b) : At(b, i) <= start})
      bpb == IF mode > 0 THEN mode ELSE IF Marked(bars, index) THEN LastMark(bars, index).meter ELSE 4
      later(t) == {u \in times : u > t}
      gap == [t \in {u \in times : later(u) # {}} |-> LeastOf(later(t)) - t]
      from == IF \E t \in DOMAIN gap : t >= start THEN LeastOf({t \in DOMAIN gap : t >= start})
              ELSE MostOf(DOMAIN gap)
      span == {t \in DOMAIN gap : t >= from /\ Cardinality({u \in times : u >= from /\ u < t}) < bpb}
  IN IF Cardinality(times) < 2 THEN [lead |-> 0, clicks |-> {}]
     ELSE [lead |-> bpb * Median(gap, span),
           clicks |-> {[at |-> j * Median(gap, span), accent |-> j % bpb = 0] : j \in 0..bpb - 1}]

(* The parameters of the request: rate and accents as they are monitored,   *)
(* and the two boxes of the export menu.                                    *)
clickParams(q) == [mult |-> IF q.up THEN q.mult ELSE "one", mode |-> q.set.bar]
mixdownUrl(q, region, counted) ==
  [click |-> q.avail, countIn |-> q.avail /\ counted, with |-> clickParams(q), start |-> region[1], end |-> region[2]]

(* render_count_in_wav, and render_click_wav trimmed to the region.         *)
countedIn(g, u) ==
  IF u.countIn THEN count_in_beats(g.beats, g.bars, u.with.mult, u.with.mode, u.start)
  ELSE [lead |-> 0, clicks |-> {}]
exportedUnmoved(g, u) ==
  countedIn(g, u).clicks \cup
    {[at |-> c.at - u.start, accent |-> is_downbeat(c.src, g.bars, u.with.mode)] :
       c \in {d \in rescale_beats(g.beats, u.with.mult) : u.start <= d.at /\ d.at < u.end}}
exported(g, u) ==
  LET in == countedIn(g, u)
  IN in.clicks \cup
     {[at |-> c.at - u.start + in.lead, accent |-> is_downbeat(c.src, g.bars, u.with.mode)] :
        c \in {d \in rescale_beats(g.beats, u.with.mult) : u.click /\ u.start <= d.at /\ d.at < u.end}}

(* ----------------------------- the settings ----------------------------- *)
saveMetroPrefs(q) == [q EXCEPT !.store = q.set]

applyMetronomeAccent(q) ==
  IF ~q.up THEN q
  ELSE IF q.set.bar < 0 /\ q.hasBars THEN [q EXCEPT !.marks = TRUE]
  ELSE [q EXCEPT !.marks = FALSE, !.count = MostOf({0, q.set.bar})]

(* The stored settings answer after the page is there: what happened before *)
(* (raced) was done with other settings, and some of it is not done again.  *)
Raced(q) == [q EXCEPT !.raced = @ \/ ~q.read]

PrefsArrive ==
  /\ ~cc.read
  /\ cc' = [cc EXCEPT !.read = TRUE, !.set = cc.store, !.button = @ \/ (cc.store.enabled /\ cc.avail)]
  /\ UNCHANGED acts

PageOpened == Act /\ cc' = Fresh(cc.store)

(* ------------------------------- the track ------------------------------ *)
createMetronome(q, t) ==
  [q EXCEPT !.up = TRUE, !.on = q.set.enabled, !.marks = FALSE, !.count = MostOf({0, q.set.bar}),
            !.mult = "one", !.shown = t, !.stored = t]

updateMetronomeAvailability(q, t) ==
  IF t.beats = <<>> THEN [q EXCEPT !.avail = FALSE, !.button = FALSE]
  ELSE [q EXCEPT !.avail = TRUE, !.button = q.set.enabled, !.hasBars = t.bars # {}]

gridReady(q, t) ==
  applyMetronomeAccent(updateMetronomeAvailability(createMetronome(q, t), t))

GridArrives == Act /\ \E t \in Tracks : cc' = Raced(gridReady(cc, t))

(* teardownMetronome; the next track may have no grid, or no audio clock.   *)
teardown(q) == [q EXCEPT !.up = FALSE, !.on = FALSE, !.shown = NoTrack, !.stored = NoTrack]
NoGrid == Act /\ cc.avail /\ cc' = updateMetronomeAvailability(teardown(cc), NoTrack)
TrackSwitched == cc.up /\ Act /\ cc' = teardown(cc)

(* The editor's onChange hands every correction to the running click.       *)
onChange(q, g) ==
  applyMetronomeAccent([q EXCEPT !.shown = g, !.hasBars = g.bars # {}])
barLengthAt(bars, i) == IF Marked(bars, i) THEN LastMark(bars, i).meter ELSE 4
toggleBar(bars, i) ==
  IF \E b \in bars : b.beat = i THEN {b \in bars : b.beat # i}
  ELSE bars \cup {[beat |-> i, meter |-> barLengthAt(bars, i)]}
setBarLengthAt(bars, i, n) ==
  LET old == IF Marked(bars, i) THEN {LastMark(bars, i)} ELSE {}
      at == IF old = {} THEN 0 ELSE LastMark(bars, i).beat
  IN (bars \ old) \cup {[beat |-> at, meter |-> n]}
MarksEdited == Act /\ cc.up /\ \E i \in Indices(cc.shown.beats), n \in {0, 2, 3} :
  LET bars == cc.shown.bars
  IN cc' = onChange(cc, [cc.shown EXCEPT !.bars = IF n = 0 THEN toggleBar(bars, i)
                                                  ELSE setBarLengthAt(bars, i, n)])
EditsSaved == cc.up /\ cc.stored # cc.shown /\ cc' = [cc EXCEPT !.stored = cc.shown] /\ UNCHANGED acts

(* ------------------------------- the user ------------------------------- *)
toggled(q) == [q EXCEPT !.set.enabled = ~@, !.button = ~q.set.enabled, !.on = q.up /\ ~q.set.enabled]
toggleMetronome == Act /\ cc.avail /\ cc' = Raced(saveMetroPrefs(toggled(cc)))

accentChosen(q, mode) == saveMetroPrefs(applyMetronomeAccent([q EXCEPT !.set.bar = mode]))
AccentChosen == Act /\ \E mode \in AccentModes : cc' = Raced(accentChosen(cc, mode))

countIn(q) == saveMetroPrefs([q EXCEPT !.set.countIn = ~@])
CountInToggled == Act /\ cc' = Raced(countIn(cc))

setMultiplier == Act /\ cc.up /\ \E x \in Multipliers : cc' = [cc EXCEPT !.mult = x]

ClickNext ==
  \/ PrefsArrive \/ PageOpened \/ GridArrives \/ NoGrid \/ TrackSwitched \/ MarksEdited \/ EditsSaved
  \/ toggleMetronome \/ AccentChosen \/ CountInToggled \/ setMultiplier

ClickSpec == ClickInit /\ [][ClickNext]_clickVars

(* ------------------------------ properties ------------------------------ *)
(* What the controls show, what the running click does and what the next    *)
(* page will restore are one and the same, through tracks, edits of the     *)
(* marks and reloads; unless the settings were read after their first use.  *)
ControlsAgree ==
  cc.read /\ ~cc.raced =>
    /\ cc.set = cc.store
    /\ cc.button = (cc.avail /\ cc.set.enabled)
    /\ cc.up => /\ cc.on = cc.set.enabled
                /\ cc.marks = (cc.set.bar < 0 /\ cc.shown.bars # {})
                /\ cc.marks \/ cc.count = MostOf({0, cc.set.bar})

(* An export of a saved grid has the clicks that were monitored: at the     *)
(* same times, led in by the same count, and with the same accents from the *)
(* first mark on; before it the export has none where the click has some.   *)
Regions == LET ends == {At(cc.shown.beats, i) : i \in Indices(cc.shown.beats)} \cup {0}
           IN {r \in ends \X ends : r[1] < r[2]}
Exportable == cc.up /\ cc.read /\ ~cc.raced /\ cc.stored = cc.shown
ExportSoundsAsHeard ==
  Exportable => \A r \in Regions, counted \in BOOLEAN :
    LET a == heard(cc, r[1], r[2], counted)
        b == exported(cc.stored, mixdownUrl(cc, r, counted))
    IN /\ {c.at : c \in a} = {c.at : c \in b}
       /\ ~cc.marks \/ (\E m \in cc.shown.bars : At(cc.shown.beats, m.beat) <= r[1]) => a = b
=============================================================================
