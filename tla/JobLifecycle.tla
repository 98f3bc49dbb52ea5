---------------------------- MODULE JobLifecycle ----------------------------
(***************************************************************************)
(* What the import queue promises about each job, with no queue, worker,   *)
(* lock, thread or wake-up in sight.  ImportQueue implements it.           *)
(*                                                                         *)
(* A job waits, is started, has work done for it and ends in exactly one   *)
(* way.  Two promises are not obvious from the code:                       *)
(*   - the pipeline is busy with at most one job at a time;                *)
(*   - a cancel that arrives before the first stage of a job was launched  *)
(*     is never forgotten: no work at all is done for that job afterwards. *)
(***************************************************************************)
CONSTANT Jobs

VARIABLE phase

Ended == {"done", "error", "cancelled"}

Phase == {"new", "waiting", "starting", "working", "dropping", "abandoned"} \cup Ended

TypeOK == phase \in [Jobs -> Phase]

Busy == {j \in Jobs : phase[j] \in {"starting", "working"}}

Init == phase \in [Jobs -> {"new", "waiting"}]

Move(j, from, to) == /\ phase[j] \in from
                     /\ phase' = [phase EXCEPT ![j] = to]

(* The user submits a link or a file. *)
Submit(j) == Move(j, {"new"}, "waiting")

(* The single consumer takes a waiting job, and only when it is free. *)
Start(j) == Busy = {} /\ Move(j, {"waiting"}, "starting")

(* The first stage that costs anything is launched. *)
Work(j) == Move(j, {"starting"}, "working")

(* Cancel before any work: from here the job can only be closed out. *)
Withdraw(j) == Move(j, {"waiting", "starting"}, "dropping")

Complete(j) == Move(j, {"working"}, "done")

Fail(j) == Move(j, {"starting", "working", "dropping"}, "error")

CloseOut(j) == Move(j, {"working", "dropping"}, "cancelled")

(* An exception outside the pipeline's own handler: the worker moves on and *)
(* nobody ever closes the job out.                                          *)
Abandon(j) == Move(j, {"starting", "dropping"}, "abandoned")

Next == \E j \in Jobs : \/ Submit(j) \/ Start(j) \/ Work(j) \/ Withdraw(j)
                        \/ Complete(j) \/ Fail(j) \/ CloseOut(j) \/ Abandon(j)

Spec == Init /\ [][Next]_phase
=============================================================================
