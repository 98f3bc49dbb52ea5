----------------------------- MODULE Metronome -----------------------------
(***************************************************************************)
(* The click track: src/static/js/metronome.js, over the engine whose      *)
(* clock it follows (module AudioEngine).                                  *)
(*                                                                         *)
(* A timer wakes the metronome now and then to hand the clicks of the next *)
(* Horizon to the audio clock.  The engine's schedule epoch tells it that  *)
(* seek, loop, rate or pause have moved the track under the clicks it has  *)
(* already handed over.  Between two wake-ups the engine does as it likes. *)
(***************************************************************************)
EXTENDS AudioEngine, Sequences, SequencesExt

CONSTANTS
  Grids,    \* beat grids the editor can put in, ascending, all even
  Horizon   \* LOOKAHEAD_SEC, in halves

MetronomeAssumption ==
  /\ Horizon \in Nat /\ Grids \subseteq Seq(Nat)
  /\ \A g \in Grids : Len(g) > 0
       /\ \A i \in 1..Len(g) : g[i] % 2 = 0 /\ (i > 1 => g[i - 1] < g[i])

VARIABLE metro
vars == <<engineVars, metro>>

Multipliers == {"half", "one", "double"}

(* rescale: every other beat, or a click in the middle of every interval.   *)
rescale(base, mult) ==
  IF mult = "half" THEN [i \in 1..(Len(base) + 1) \div 2 |-> base[2 * i - 1]]
  ELSE IF mult = "double"
  THEN [i \in 1..2 * Len(base) - 1 |->
         IF i % 2 = 1 THEN base[(i + 1) \div 2] ELSE (base[i \div 2] + base[i \div 2 + 1]) \div 2]
  ELSE base

(* The beat that click i of the rescaled grid stands for, or 0 for none.    *)
sourceIndex(i, mult) ==
  IF mult = "double" THEN (IF i % 2 = 1 THEN (i + 1) \div 2 ELSE 0)
  ELSE IF mult = "half" THEN 2 * i - 1 ELSE i

accented(i, m) ==
  LET src == sourceIndex(i, m.mult) IN
    m.beatsPerBar > 0 /\ src > 0 /\ (src - 1) % m.beatsPerBar = 0

MetroTypeOK ==
  /\ EngineTypeOK
  /\ metro.enabled \in BOOLEAN /\ metro.alive \in BOOLEAN
  /\ metro.base \in Grids /\ metro.mult \in Multipliers
  /\ metro.grid = rescale(metro.base, metro.mult)
  /\ metro.beatsPerBar \in {0, 2} /\ metro.epoch \in -1..eng.epoch
  /\ metro.cursor \in 1..Len(metro.grid) + 1
  /\ \A c \in metro.queued : c.when \in Int /\ c.beat \in Nat \ {0} /\ c.accent \in BOOLEAN
  /\ ~metro.enabled => metro.queued = {}

MetroInit ==
  /\ EngineInit
  /\ \E g \in Grids : metro =
       [enabled |-> FALSE, alive |-> TRUE, base |-> g, mult |-> "one", grid |-> g,
        beatsPerBar |-> 2, epoch |-> -1, cursor |-> 1, queued |-> {}]

(* indexAtOrAfter the source time of the clock, in halves on both sides.    *)
sourceNow == 2 * eng.startOffset + (now - eng.startCtxTime) * srcRate(eng)
indexAtOrAfter(g) ==
  CHOOSE i \in 1..Len(g) + 1 : (i > Len(g) \/ 2 * g[i] >= sourceNow)
                               /\ \A j \in 1..i - 1 : 2 * g[j] < sourceNow

cancelQueued(m) == [m EXCEPT !.queued = {}]
reanchor(m) == IF m.enabled THEN [cancelQueued(m) EXCEPT !.epoch = -1] ELSE m

(* The clicks from the cursor up to the horizon, those already past left    *)
(* out, and the cursor behind them.                                         *)
schedule(m) ==
  LET due(i) == sourceTimeToCtxTime(eng, m.grid[i])
      next == CHOOSE k \in m.cursor..Len(m.grid) + 1 :
                /\ k > Len(m.grid) \/ due(k) > now + Horizon
                /\ \A i \in m.cursor..k - 1 : due(i) <= now + Horizon
      new == {i \in m.cursor..next - 1 : due(i) > now}
  IN [m EXCEPT !.cursor = next,
       !.queued = @ \cup {[when |-> due(i), beat |-> m.grid[i], accent |-> accented(i, m)] : i \in new}]

anchored(m) ==
  IF eng.epoch = m.epoch THEN m
  ELSE [cancelQueued(m) EXCEPT !.epoch = eng.epoch, !.cursor = indexAtOrAfter(m.grid)]

tickMetro(m) ==
  IF ~m.alive \/ ~m.enabled THEN m
  ELSE IF ~isClockReady(eng) THEN [cancelQueued(m) EXCEPT !.epoch = -1]
  ELSE schedule(anchored(m))

(* ------------------------------- the steps ------------------------------ *)
Tick == metro' = tickMetro(metro) /\ metro' # metro /\ UNCHANGED engineVars

setEnabled == Act /\ metro.alive
  /\ metro' = (IF metro.enabled THEN [cancelQueued(metro) EXCEPT !.enabled = FALSE, !.epoch = -1]
               ELSE tickMetro([metro EXCEPT !.enabled = TRUE, !.epoch = -1]))
  /\ UNCHANGED <<eng, now>>

setBeats == Act
  /\ \E g \in Grids \ {metro.base} :
       metro' = reanchor([metro EXCEPT !.base = g, !.grid = rescale(g, metro.mult), !.cursor = 1])
  /\ UNCHANGED <<eng, now>>

setMultiplier == Act
  /\ \E x \in Multipliers \ {metro.mult} :
       metro' = reanchor([metro EXCEPT !.mult = x, !.grid = rescale(metro.base, x), !.cursor = 1])
  /\ UNCHANGED <<eng, now>>

setBeatsPerBar == Act
  /\ \E n \in {0, 2} \ {metro.beatsPerBar} : metro' = reanchor([metro EXCEPT !.beatsPerBar = n])
  /\ UNCHANGED <<eng, now>>

destroyMetro == Act /\ metro.alive
  /\ metro' = [cancelQueued(metro) EXCEPT !.alive = FALSE, !.enabled = FALSE, !.epoch = -1]
  /\ UNCHANGED <<eng, now>>

(* A click sounds, and leaves the queue, as the clock passes it.            *)
EngineStep == EngineNext
  /\ metro' = [metro EXCEPT !.queued = {c \in @ : c.when >= now'}]

MetroNext == Tick \/ setEnabled \/ setBeats \/ setMultiplier \/ setBeatsPerBar \/ destroyMetro
             \/ EngineStep
MetroSpec == MetroInit /\ [][MetroNext]_vars /\ WF_vars(Tick)

(* ------------------------------ properties ------------------------------ *)
(* Since the metronome last woke up, nothing moved the track under it.      *)
InStep == ~eng.surprised /\ metro.enabled /\ isClockReady(eng) /\ metro.epoch = eng.epoch

(* A click handed to the audio clock sounds when its beat does, on a beat   *)
(* of the grid, and accented only on a beat that opens a bar.               *)
ClicksOnTheBeat ==
  InStep => \A c \in metro.queued :
    /\ c.when = sourceTimeToCtxTime(eng, c.beat)
    /\ \E i \in 1..Len(metro.grid) : metro.grid[i] = c.beat
    /\ c.accent => \E i \in 1..Len(metro.base) : metro.base[i] = c.beat /\ (i - 1) % metro.beatsPerBar = 0

(* No two clicks at one time, and none left out up to the cursor.           *)
OneClickPerBeat ==
  InStep =>
    /\ \A c, d \in metro.queued : c.when = d.when => c = d
    /\ \A i \in 1..metro.cursor - 1 :
         sourceTimeToCtxTime(eng, metro.grid[i]) > now => \E c \in metro.queued : c.beat = metro.grid[i]
=============================================================================
