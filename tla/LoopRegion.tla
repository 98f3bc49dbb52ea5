----------------------------- MODULE LoopRegion -----------------------------
(***************************************************************************)
(* The loop of the studio: src/static/js/loopRegion.js, and the gestures   *)
(* and fields of transport.js that set it.                                 *)
(*                                                                         *)
(* Four ways lead to the same two bounds: dragging over the timeline,      *)
(* dragging the region or one of its edges, typing or turning the wheel    *)
(* over a field, and the switch.  A gesture holds what the bounds were     *)
(* when it began, and the track may change under it.                       *)
(***************************************************************************)
EXTENDS Integers

CONSTANTS
  Durations,  \* of the tracks
  MinLoop,    \* MIN_LOOP_SEC
  MaxActs     \* bound: what the user does

VARIABLES lp, acts

loopVars == <<lp, acts>>
Longest == CHOOSE d \in Durations : \A e \in Durations : e <= d
Times == 0..Longest
MinOf(a, b) == IF a < b THEN a ELSE b
MaxOf(a, b) == IF a > b THEN a ELSE b
NoDrag == [kind |-> "none"]
NoLoop == [on |-> FALSE, start |-> 0, end |-> 0]

(* Where a drag of the region lands.                                        *)
Edges == {"start", "end"}
loopDragResult(d, t, duration) ==
  IF d.kind = "start" THEN [start |-> MaxOf(0, MinOf(t, d.fromEnd - MinLoop)), end |-> d.fromEnd]
  ELSE IF d.kind = "end"
  THEN [start |-> d.fromStart, end |-> MinOf(duration, MaxOf(t, d.fromStart + MinLoop))]
  ELSE LET shift == MaxOf(-d.fromStart, MinOf(t - d.grab, duration - d.fromEnd))
       IN [start |-> d.fromStart + shift, end |-> d.fromEnd + shift]

(* A track is long enough for the loop that canplay proposes.               *)
LoopAssumption ==
  /\ Durations \subseteq Nat /\ MinLoop \in Nat \ {0} /\ MaxActs \in Nat
  /\ \E d \in Durations : \A e \in Durations : e <= d
  /\ \A d \in Durations : d \div 2 - d \div 4 >= MinLoop

Loops == [on : BOOLEAN, start : Times, end : Times]
Drags ==
  {NoDrag} \cup [kind : {"draw"}, from : Times, moved : BOOLEAN]
    \cup [kind : Edges \cup {"move"}, grab : Times, fromStart : Times, fromEnd : Times]
LoopRecords ==
  [duration : Durations \cup {0}, loop : Loops, engine : {"none", "starting", "up"}, told : Loops,
   drag : Drags, foreign : BOOLEAN, unset : BOOLEAN]
LoopTypeOK == lp \in LoopRecords /\ acts \in 0..MaxActs

LoopInit ==
  /\ lp = [duration |-> 0, loop |-> NoLoop, engine |-> "none", told |-> NoLoop,
           drag |-> NoDrag, foreign |-> FALSE, unset |-> TRUE]
  /\ acts = 0

Act == acts < MaxActs /\ acts' = acts + 1

(* updateLoopRegionVisual: every change goes to the engine there is.        *)
Shown(p) == IF p.engine # "none" THEN [p EXCEPT !.told = p.loop] ELSE p
Bounded(p, start, end) == [p EXCEPT !.loop.start = start, !.loop.end = end]
Looping(p, start, end) == [p EXCEPT !.loop = [on |-> TRUE, start |-> start, end |-> end]]

(* ------------------------------- the track ------------------------------ *)
(* wireUpAudio switches the loop off on whatever engine still plays.        *)
Open == Act /\ \E d \in Durations :
  lp' = [Shown([lp EXCEPT !.duration = d, !.loop = NoLoop])
           EXCEPT !.foreign = lp.drag.kind # "none", !.unset = TRUE]

(* canplay proposes a loop, and a new engine starts.                        *)
canplay == lp.duration > 0 /\
  lp' = [Bounded(lp, lp.duration \div 4, lp.duration \div 2)
           EXCEPT !.engine = "starting", !.told = NoLoop, !.unset = FALSE,
                  !.foreign = lp.drag.kind # "none"]
  /\ UNCHANGED acts
engineReady == lp.engine = "starting" /\ lp' = Shown([lp EXCEPT !.engine = "up"]) /\ UNCHANGED acts

destroyPlayer == Act /\ lp.duration > 0 /\
  lp' = [lp EXCEPT !.duration = 0, !.loop = NoLoop, !.engine = "none", !.told = NoLoop,
                   !.foreign = lp.drag.kind # "none", !.unset = TRUE]

(* ------------------------------ the gestures ---------------------------- *)
(* One gesture at a time.                                                   *)
Free == lp.duration > 0 /\ lp.drag.kind = "none"

startDrag == Act /\ Free /\ \E t \in 0..lp.duration :
  lp' = Shown([Looping(lp, t, t)
                 EXCEPT !.drag = [kind |-> "draw", from |-> t, moved |-> FALSE],
                        !.foreign = FALSE, !.unset = FALSE])

moveDrag == lp.drag.kind = "draw" /\ \E t \in 0..lp.duration :
  /\ lp.duration > 0
  /\ lp' = Shown([Bounded(lp, MinOf(t, lp.drag.from), MaxOf(t, lp.drag.from))
                    EXCEPT !.drag.moved = @ \/ t - lp.drag.from \notin (1 - MinLoop)..(MinLoop - 1)])
  /\ UNCHANGED acts

(* A press that did not move, or made too short a loop, was a click.        *)
finishDrag == lp.drag.kind = "draw" /\
  LET clicked == ~lp.drag.moved \/ lp.loop.end - lp.loop.start < MinLoop
      q == [lp EXCEPT !.drag = NoDrag]
  IN /\ lp' = (IF clicked THEN Shown([q EXCEPT !.loop.on = FALSE, !.unset = TRUE]) ELSE q)
     /\ UNCHANGED acts

(* The region can only be taken hold of while it is shown.                  *)
grabRegion == Act /\ Free /\ lp.loop.on /\
  \E kind \in Edges \cup {"move"}, t \in lp.loop.start..lp.loop.end :
    lp' = [lp EXCEPT !.drag = [kind |-> kind, grab |-> t, fromStart |-> lp.loop.start,
                               fromEnd |-> lp.loop.end]]

moveRegion == lp.drag.kind \in Edges \cup {"move"} /\ lp.duration > 0 /\ \E t \in 0..lp.duration :
  LET next == loopDragResult(lp.drag, t, lp.duration)
  IN lp' = Shown(Bounded(lp, next.start, next.end)) /\ UNCHANGED acts

finishRegion == lp.drag.kind \in Edges \cup {"move"} /\
  lp' = [lp EXCEPT !.drag = NoDrag] /\ UNCHANGED acts

(* --------------------------- fields and switch -------------------------- *)
(* Typed or turned, one bound changes if the loop it makes is long enough.  *)
commitLoopInput == Act /\ Free /\ \E t \in 0..lp.duration :
  \/ lp.loop.end - t >= MinLoop /\ lp' = Shown([Looping(lp, t, lp.loop.end) EXCEPT !.unset = FALSE])
  \/ t - lp.loop.start >= MinLoop /\ lp' = Shown([Looping(lp, lp.loop.start, t) EXCEPT !.unset = FALSE])

nudgeLoopInput == Act /\ Free /\ \E d \in {-1, 1} :
  \/ /\ lp.loop.start + d \in 0..lp.duration /\ lp.loop.end - (lp.loop.start + d) >= MinLoop
     /\ lp' = Shown([Looping(lp, lp.loop.start + d, lp.loop.end) EXCEPT !.unset = FALSE])
  \/ /\ lp.loop.end + d \in 0..lp.duration /\ lp.loop.end + d - lp.loop.start >= MinLoop
     /\ lp' = Shown([Looping(lp, lp.loop.start, lp.loop.end + d) EXCEPT !.unset = FALSE])

toggleLoop == Act /\ lp' = Shown([lp EXCEPT !.loop.on = ~@])

LoopNext ==
  \/ Open \/ canplay \/ engineReady \/ destroyPlayer
  \/ startDrag \/ moveDrag \/ finishDrag \/ grabRegion \/ moveRegion \/ finishRegion
  \/ commitLoopInput \/ nudgeLoopInput \/ toggleLoop

LoopSpec == LoopInit /\ [][LoopNext]_loopVars

(* ------------------------------ properties ------------------------------ *)
(* The loop lies in the track, whatever gestures made it.  A gesture that   *)
(* began on another track may leave it outside, until it is drawn anew or   *)
(* the next track is opened.                                                *)
LoopInTrack == ~lp.foreign =>
  0 <= lp.loop.start /\ lp.loop.start <= lp.loop.end /\ lp.loop.end <= lp.duration

(* Once a gesture is over, a loop that is on is long enough to be heard,    *)
(* unless the switch turned on bounds nobody set: those a click on the      *)
(* timeline left behind, or those of a track that is still loading.         *)
LoopIsAudible ==
  lp.loop.on /\ lp.drag.kind = "none" /\ lp.duration > 0 /\ ~lp.unset /\ ~lp.foreign =>
    lp.loop.end - lp.loop.start >= MinLoop

(* The engine wraps where the screen says.                                  *)
EngineLoopsAsShown == lp.engine = "up" /\ (lp.loop.on \/ lp.told.on) => lp.told = lp.loop

(* What makes them inductive: a gesture holds bounds of the track it began  *)
(* on, in order; and bounds somebody set are far enough apart also while    *)
(* the loop is off or one of them is moved.                                 *)
DragsInTrack ==
  /\ lp.drag.kind = "draw" /\ ~lp.foreign => lp.drag.from <= lp.duration
  /\ lp.drag.kind \in Edges \cup {"move"} =>
       /\ lp.drag.fromStart <= lp.drag.grab /\ lp.drag.grab <= lp.drag.fromEnd
       /\ ~lp.foreign => lp.drag.fromEnd <= lp.duration
LongEnough == lp.duration > 0 /\ ~lp.unset /\ ~lp.foreign =>
  /\ lp.drag.kind # "draw" => lp.loop.end - lp.loop.start >= MinLoop
  /\ lp.drag.kind \in Edges \cup {"move"} => lp.drag.fromEnd - lp.drag.fromStart >= MinLoop
LoopIInv ==
  LoopTypeOK /\ DragsInTrack /\ LongEnough /\ LoopInTrack /\ LoopIsAudible /\ EngineLoopsAsShown
=============================================================================
