----------------------------- MODULE ImportQueue -----------------------------
(***************************************************************************)
(* The import queue of the backend: app/pipeline/jobqueue.py, the request  *)
(* handlers of app/api/jobs.py and app/api/queue.py that act on it, and    *)
(* the outcome handling of app/pipeline/runner.py.                         *)
(*                                                                         *)
(* Three kinds of actors interleave.                                       *)
(*   - The event loop runs the queue worker and the async handlers         *)
(*     (create_job).  It is single-threaded: between two awaits of the     *)
(*     worker no other coroutine runs.  LoopFree says when one may.        *)
(*   - Handler threads (Threads) run the sync endpoints cancel_job,        *)
(*     delete_job, start_queue and reorder_queue.  They interleave with    *)
(*     everything, between any two steps below.                            *)
(*   - The pipeline thread runs the stages of the job being processed.     *)
(* A step ends where the code takes a lock, reads or writes state another  *)
(* actor can see, or awaits.                                               *)
(*                                                                         *)
(* A definition marked "Variant" is not part of the specification: it is   *)
(* what a plausible mistake would make of the definition after it, and the *)
(* README says which property each one breaks.                             *)
(***************************************************************************)
EXTENDS Naturals, FiniteSets, SequencesExt

CONSTANTS
  Jobs,        \* job ids, restored or submitted in this run of the process
  Uploads,     \* those that are file uploads; the rest are links
  Threads,     \* threadpool threads that run the sync handlers
  MaxPending,  \* MAX_PENDING_UPLOAD_JOBS / MAX_PENDING_URL_JOBS
  Stages,      \* how many subprocesses the pipeline launches for one job
  None

ASSUME UploadsAssumption == Uploads \subseteq Jobs
ASSUME LimitsAssumption == MaxPending \in Nat \ {0} /\ Stages \in Nat \ {0}
ASSUME NoneAssumption == None \notin Jobs
ASSUME FiniteJobsAssumption == IsFiniteSet(Jobs)

VARIABLES
  queue,      \* _queue: ids waiting, oldest first
  running,    \* _running_id
  paused,     \* _paused
  stopping,   \* _stopping
  wake,       \* _wake, the asyncio.Event
  scheduled,  \* a call_soon_threadsafe(_wake.set) the loop has not run yet
  registry,   \* ids in registry._jobs
  status,     \* Job.status; "new", "uploading" and "refused" precede registration
  cancelReq,  \* Job.cancel_requested
  dir,        \* the job's directory, which holds an upload while it waits
  wpc, wjob,  \* where the worker is, and the job in its hand
  pipe,       \* where the pipeline thread is in the current stage
  stage,      \* how many stages were launched for the current job
  tpc, tjob   \* where each handler thread is, and the job it serves

queueVars == <<queue, running, paused, stopping>>
wakeVars  == <<wake, scheduled>>
jobVars   == <<registry, status, cancelReq, dir>>
workVars  == <<wpc, wjob, pipe, stage>>
thrVars   == <<tpc, tjob>>
vars == <<queueVars, wakeVars, jobVars, workVars, thrVars>>

Terminal == {"done", "error", "cancelled"}
Status   == {"new", "uploading", "refused", "queued", "processing"} \cup Terminal

(* The worker is at an await, so the loop may run another coroutine. *)
LoopFree == wpc \in {"wait", "run", "stopped"}

(* Jobs of j's kind that count against the capacity limit. *)
PendingLike(j) == {k \in registry : /\ status[k] = "queued"
                                    /\ (k \in Uploads) <=> (j \in Uploads)}

(* The one place of e in a queue, and the queue without it. *)
Position(s, e) == CHOOSE i \in DOMAIN s : s[i] = e
Without(s, e)  == RemoveAt(s, Position(s, e))

(***************************************************************************)
(* Process start.  restore() has turned the jobs of the last session back  *)
(* into "queued"; lifespan starts the worker, which finds nothing and      *)
(* waits, then pauses the queue and enqueues them.                         *)
(***************************************************************************)
Init ==
  /\ \E n \in 0..Cardinality(Jobs) : \E q \in [1..n -> Jobs] :
        /\ IsInjective(q)
        /\ queue = q
        /\ registry = ToSet(q)
        /\ paused = (n > 0)
        /\ scheduled = (n > 0)
  /\ running = None
  /\ stopping = FALSE
  /\ wake = FALSE
  /\ status = [j \in Jobs |-> IF j \in registry THEN "queued" ELSE "new"]
  /\ cancelReq = [j \in Jobs |-> FALSE]
  /\ dir \in {d \in [Jobs -> BOOLEAN] : \A j \in Jobs : d[j] => j \in registry}
  /\ wpc = "wait" /\ wjob = None
  /\ pipe = "off" /\ stage = 0
  /\ tpc = [t \in Threads |-> "idle"]
  /\ tjob = [t \in Threads |-> None]

----------------------------------------------------------------------------
(* Submitting: POST /api/jobs, on the event loop. *)

(* register_if_capacity, then enqueue (which also lifts a pause), then the *)
(* wake-up.  No await in between.                                          *)
Accept(j) ==
  /\ Cardinality(PendingLike(j)) < MaxPending
  /\ registry' = registry \cup {j}
  /\ status' = [status EXCEPT ![j] = "queued"]
  /\ queue' = Append(queue, j)
  /\ paused' = FALSE
  /\ scheduled' = TRUE

CreateUrl(j) ==
  /\ LoopFree /\ ~stopping
  /\ j \notin Uploads /\ status[j] = "new"
  /\ Accept(j)
  /\ UNCHANGED <<running, stopping, wake, cancelReq, dir, workVars, thrVars>>

(* The early capacity check, then the job's directory; the copy and the *)
(* probe that follow are awaited.                                       *)
UploadBegin(j) ==
  /\ LoopFree /\ ~stopping
  /\ j \in Uploads /\ status[j] = "new"
  /\ Cardinality(PendingLike(j)) < MaxPending
  /\ status' = [status EXCEPT ![j] = "uploading"]
  /\ dir' = [dir EXCEPT ![j] = TRUE]
  /\ UNCHANGED <<queueVars, wakeVars, registry, cancelReq, workVars, thrVars>>

UploadAccept(j) ==
  /\ LoopFree
  /\ status[j] = "uploading"
  /\ Accept(j)
  /\ UNCHANGED <<running, stopping, wake, cancelReq, dir, workVars, thrVars>>

(* Unreadable or too long a file, or no room left by now. *)
UploadRefuse(j) ==
  /\ LoopFree
  /\ status[j] = "uploading"
  /\ status' = [status EXCEPT ![j] = "refused"]
  /\ dir' = [dir EXCEPT ![j] = FALSE]
  /\ UNCHANGED <<queueVars, wakeVars, registry, cancelReq, workVars, thrVars>>

(* The copy itself fails (a full disk): only HTTPException is caught, so *)
(* the directory stays.                                                  *)
UploadCopyFails(j) ==
  /\ LoopFree
  /\ status[j] = "uploading"
  /\ status' = [status EXCEPT ![j] = "refused"]
  /\ UNCHANGED <<queueVars, wakeVars, registry, cancelReq, dir, workVars, thrVars>>

----------------------------------------------------------------------------
(* The wake-up callback, and shutdown; both on the event loop. *)

LoopSetsWake ==
  /\ LoopFree /\ scheduled
  /\ wake' = TRUE
  /\ scheduled' = FALSE
  /\ UNCHANGED <<queueVars, jobVars, workVars, thrVars>>

(* request_stop, then _kill_worker, which terminates the running subprocess *)
(* when that is the demucs worker.                                          *)
RequestStop ==
  /\ LoopFree /\ ~stopping
  /\ stopping' = TRUE
  /\ scheduled' = TRUE
  /\ \/ pipe' = pipe
     \/ pipe = "alive" /\ pipe' = "dying"
  /\ UNCHANGED <<queue, running, paused, wake, jobVars, wpc, wjob, stage, thrVars>>

----------------------------------------------------------------------------
(* The queue worker, _worker_loop. *)

WorkerStop ==
  /\ wpc = "top" /\ stopping
  /\ wpc' = "stopped"
  /\ UNCHANGED <<queueVars, wakeVars, jobVars, wjob, pipe, stage, thrVars>>

(* Paused, or nothing to pop. *)
WorkerFindsNone ==
  /\ wpc = "top" /\ ~stopping
  /\ paused \/ queue = <<>>
  /\ wpc' = "idle"
  /\ UNCHANGED <<queueVars, wakeVars, jobVars, wjob, pipe, stage, thrVars>>

(* _wake.clear(), and the await that follows. *)
WorkerSleeps ==
  /\ wpc = "idle"
  /\ wake' = FALSE
  /\ wpc' = "wait"
  /\ UNCHANGED <<queueVars, scheduled, jobVars, wjob, pipe, stage, thrVars>>

WorkerWakes ==
  /\ wpc = "wait" /\ wake
  /\ wpc' = "top"
  /\ UNCHANGED <<queueVars, wakeVars, jobVars, wjob, pipe, stage, thrVars>>

WorkerPop ==
  /\ wpc = "top" /\ ~stopping /\ ~paused /\ queue # <<>>
  /\ wjob' = Head(queue)
  /\ queue' = Tail(queue)
  /\ wpc' = "popped"
  /\ UNCHANGED <<running, paused, stopping, wakeVars, jobVars, pipe, stage, thrVars>>

(* Variant: a cancelled job is skipped instead of finalised (issue 520). *)
WorkerVetsAndSkips ==
  /\ wpc = "popped"
  /\ \/ /\ wjob \in registry /\ ~cancelReq[wjob] /\ status[wjob] \notin Terminal
        /\ wpc' = "vetted" /\ wjob' = wjob
     \/ /\ wjob \notin registry \/ cancelReq[wjob] \/ status[wjob] \in Terminal
        /\ wpc' = "top" /\ wjob' = None
  /\ UNCHANGED <<queueVars, wakeVars, jobVars, pipe, stage, thrVars>>

(* registry_get, and the check for a cancel that arrived while it waited. *)
WorkerVets ==
  /\ wpc = "popped"
  /\ \/ /\ wjob \in registry /\ ~cancelReq[wjob] /\ status[wjob] \notin Terminal
        /\ wpc' = "vetted" /\ wjob' = wjob
     \/ /\ wjob \in registry /\ cancelReq[wjob] /\ status[wjob] \notin Terminal
        /\ wpc' = "drop" /\ wjob' = wjob
     \/ /\ wjob \notin registry \/ status[wjob] \in Terminal
        /\ wpc' = "top" /\ wjob' = None
  /\ UNCHANGED <<queueVars, wakeVars, jobVars, pipe, stage, thrVars>>

(* _finalise_dropped_job: the status, then the directory and the record. *)
WorkerDrops ==
  /\ wpc = "drop"
  /\ status' = [status EXCEPT ![wjob] = "cancelled"]
  /\ wpc' = "dropped"
  /\ UNCHANGED <<queueVars, wakeVars, registry, cancelReq, dir, wjob, pipe, stage, thrVars>>

(* Variant: the directory is left to a sweep that never comes. *)
WorkerDropKeepsDir ==
  /\ wpc = "dropped"
  /\ wpc' = "top" /\ wjob' = None
  /\ UNCHANGED <<queueVars, wakeVars, jobVars, pipe, stage, thrVars>>

WorkerDropCleans ==
  /\ wpc = "dropped"
  /\ dir' = [dir EXCEPT ![wjob] = FALSE]
  /\ wpc' = "top" /\ wjob' = None
  /\ UNCHANGED <<queueVars, wakeVars, registry, status, cancelReq, pipe, stage, thrVars>>

(* _set_running, then the status write: handler threads see the gap. *)
WorkerSetsRunning ==
  /\ wpc = "vetted"
  /\ running' = wjob
  /\ wpc' = "claimed"
  /\ UNCHANGED <<queue, paused, stopping, wakeVars, jobVars, wjob, pipe, stage, thrVars>>

WorkerClaims ==
  /\ wpc = "claimed"
  /\ status' = [status EXCEPT ![wjob] = "processing"]
  /\ wpc' = "dispatch"
  /\ UNCHANGED <<queueVars, wakeVars, registry, cancelReq, dir, wjob, pipe, stage, thrVars>>

(* _dispatch hands the job to the pipeline and awaits it. *)
Dispatch ==
  /\ wpc = "dispatch"
  /\ wjob \in Uploads => dir[wjob]
  /\ dir' = [dir EXCEPT ![wjob] = TRUE]
  /\ wpc' = "run" /\ pipe' = "check"
  /\ UNCHANGED <<queueVars, wakeVars, registry, status, cancelReq, wjob, stage, thrVars>>

(* The uploaded file is gone, or the link's directory cannot be made. *)
DispatchRefuses ==
  /\ wpc = "dispatch"
  /\ wjob \in Uploads => ~dir[wjob]
  /\ status' = [status EXCEPT ![wjob] = "error"]
  /\ wpc' = "release"
  /\ UNCHANGED <<queueVars, wakeVars, registry, cancelReq, dir, wjob, pipe, stage, thrVars>>

(* Anything else raised on the way (an unreadable directory) is logged by *)
(* the worker, which leaves the status as it is.                          *)
DispatchRaises ==
  /\ wpc = "dispatch"
  /\ wpc' = "release"
  /\ UNCHANGED <<queueVars, wakeVars, jobVars, wjob, pipe, stage, thrVars>>

(* _run_async after the await: the outcome becomes the status. *)
WorkerSettles ==
  /\ wpc = "run" /\ pipe \in {"ok", "cancelled", "failed"}
  /\ status' = [status EXCEPT ![wjob] =
                   IF pipe = "ok" THEN "done"
                   ELSE IF pipe = "cancelled" \/ cancelReq[wjob] THEN "cancelled"
                   ELSE "error"]
  /\ wpc' = "settled"
  /\ UNCHANGED <<queueVars, wakeVars, registry, cancelReq, dir, wjob, pipe, stage, thrVars>>

(* ... and the directory is kept, quarantined or removed. *)
WorkerCleans ==
  /\ wpc = "settled"
  /\ dir' = [dir EXCEPT ![wjob] = dir[wjob] /\ status[wjob] = "done"]
  /\ wpc' = "release" /\ pipe' = "off"
  /\ UNCHANGED <<queueVars, wakeVars, registry, status, cancelReq, wjob, stage, thrVars>>

WorkerReleases ==
  /\ wpc = "release"
  /\ running' = None
  /\ wpc' = "top" /\ wjob' = None /\ stage' = 0
  /\ UNCHANGED <<queue, paused, stopping, wakeVars, jobVars, pipe, thrVars>>

Worker == \/ WorkerStop \/ WorkerFindsNone \/ WorkerSleeps \/ WorkerWakes
          \/ WorkerPop \/ WorkerVets \/ WorkerDrops \/ WorkerDropCleans
          \/ WorkerSetsRunning \/ WorkerClaims
          \/ Dispatch \/ DispatchRefuses \/ DispatchRaises
          \/ WorkerSettles \/ WorkerCleans \/ WorkerReleases

----------------------------------------------------------------------------
(* The pipeline thread.  Every stage checks for a cancel, launches a       *)
(* subprocess and registers it (set_proc) so that cancel_job can reach it; *)
(* between the check and the registration a cancel finds no process.       *)

Pipeline(from, to) == /\ wpc = "run" /\ pipe \in from
                      /\ pipe' = to
                      /\ UNCHANGED <<queueVars, wakeVars, jobVars, wpc, wjob, thrVars>>

PipeCancelled == /\ Pipeline({"check"}, "cancelled")
                 /\ cancelReq[wjob]
                 /\ UNCHANGED stage

(* Variants: no look at the flag before a stage; one stage too many. *)
PipeLaunchUnchecked == /\ Pipeline({"check"}, "launch")
                       /\ stage < Stages
                       /\ stage' = stage + 1

PipeLaunch == /\ Pipeline({"check"}, "launch")
              /\ ~cancelReq[wjob] /\ stage < Stages
              /\ stage' = stage + 1

PipeRegisters == Pipeline({"launch"}, "alive") /\ UNCHANGED stage

PipeExits == Pipeline({"alive", "dying"}, "check") /\ UNCHANGED stage

PipeFails == Pipeline({"launch", "alive", "dying"}, "failed") /\ UNCHANGED stage

PipeCompletes == /\ Pipeline({"check"}, "ok")
                 /\ ~cancelReq[wjob] /\ stage = Stages
                 /\ UNCHANGED stage

PipelineThread == \/ PipeCancelled \/ PipeLaunch \/ PipeRegisters
                  \/ PipeExits \/ PipeFails \/ PipeCompletes

----------------------------------------------------------------------------
(* The handler threads. *)

Goto(t, pc) == tpc' = [tpc EXCEPT ![t] = pc]
Leave(t)    == Goto(t, "idle") /\ tjob' = [tjob EXCEPT ![t] = None]
At(t, pc)   == tpc[t] = pc

(* cancel_job finds the job, not yet in a terminal status. *)
CancelBegin(t, j) ==
  /\ At(t, "idle") /\ j \in registry /\ status[j] \notin Terminal
  /\ Goto(t, "flag") /\ tjob' = [tjob EXCEPT ![t] = j]
  /\ UNCHANGED <<queueVars, wakeVars, jobVars, workVars>>

CancelFlag(t) ==
  /\ At(t, "flag")
  /\ cancelReq' = [cancelReq EXCEPT ![tjob[t]] = TRUE]
  /\ Goto(t, "discard")
  /\ UNCHANGED <<queueVars, wakeVars, registry, status, dir, workVars, tjob>>

(* Variant: "not running yet" is taken for "still waiting". *)
CancelDiscardUnlessRunning(t) ==
  /\ At(t, "discard")
  /\ IF running # tjob[t]
     THEN /\ queue' = IF tjob[t] \in ToSet(queue) THEN Without(queue, tjob[t]) ELSE queue
          /\ Goto(t, "finalise")
     ELSE queue' = queue /\ Goto(t, "runs")
  /\ UNCHANGED <<running, paused, stopping, wakeVars, jobVars, workVars, tjob>>

(* jobqueue.discard: whoever removes the job from the queue owns it. *)
CancelDiscard(t) ==
  /\ At(t, "discard")
  /\ \/ /\ tjob[t] \in ToSet(queue)
        /\ queue' = Without(queue, tjob[t])
        /\ Goto(t, "finalise")
     \/ /\ tjob[t] \notin ToSet(queue)
        /\ queue' = queue
        /\ Goto(t, "runs")
  /\ UNCHANGED <<running, paused, stopping, wakeVars, jobVars, workVars, tjob>>

CancelFinalise(t) ==
  /\ At(t, "finalise")
  /\ status' = [status EXCEPT ![tjob[t]] = "cancelled"]
  /\ Goto(t, "clean")
  /\ UNCHANGED <<queueVars, wakeVars, registry, cancelReq, dir, workVars, tjob>>

CancelCleans(t) ==
  /\ At(t, "clean")
  /\ dir' = [dir EXCEPT ![tjob[t]] = FALSE]
  /\ Leave(t)
  /\ UNCHANGED <<queueVars, wakeVars, registry, status, cancelReq, workVars>>

(* Only the running job's process may be terminated. *)
CancelAsksRunning(t) ==
  /\ At(t, "runs")
  /\ IF running = tjob[t] THEN Goto(t, "kill") /\ UNCHANGED tjob ELSE Leave(t)
  /\ UNCHANGED <<queueVars, wakeVars, jobVars, workVars>>

CancelKills(t) ==
  /\ At(t, "kill")
  /\ pipe' = IF wjob = tjob[t] /\ pipe = "alive" THEN "dying" ELSE pipe
  /\ Leave(t)
  /\ UNCHANGED <<queueVars, wakeVars, jobVars, wpc, wjob, stage>>

(* delete_job takes only a job in a terminal status. *)
DeleteBegin(t, j) ==
  /\ At(t, "idle") /\ j \in registry /\ status[j] \in Terminal
  /\ Goto(t, "rmtree") /\ tjob' = [tjob EXCEPT ![t] = j]
  /\ UNCHANGED <<queueVars, wakeVars, jobVars, workVars>>

DeleteRemovesDir(t) ==
  /\ At(t, "rmtree")
  /\ dir' = [dir EXCEPT ![tjob[t]] = FALSE]
  /\ Goto(t, "forget")
  /\ UNCHANGED <<queueVars, wakeVars, registry, status, cancelReq, workVars, tjob>>

DeleteForgets(t) ==
  /\ At(t, "forget")
  /\ registry' = registry \ {tjob[t]}
  /\ Leave(t)
  /\ UNCHANGED <<queueVars, wakeVars, status, cancelReq, dir, workVars>>

(* start_queue: _paused is cleared without the lock, then the wake-up. *)
StartQueue(t) ==
  /\ At(t, "idle")
  /\ paused' = FALSE
  /\ Goto(t, "notify")
  /\ UNCHANGED <<queue, running, stopping, wakeVars, jobVars, workVars, tjob>>

(* Variant: the thread touches the event itself. *)
NotifyDirectly(t) ==
  /\ At(t, "notify")
  /\ wake' = TRUE
  /\ Leave(t)
  /\ UNCHANGED <<queueVars, scheduled, jobVars, workVars>>

Notify(t) ==
  /\ At(t, "notify")
  /\ scheduled' = TRUE
  /\ Leave(t)
  /\ UNCHANGED <<queueVars, wake, jobVars, workVars>>

(* reorder: j moves behind the anchor, to the front when there is none, to *)
(* the back when the anchor has left the queue meanwhile.                  *)
Moved(q, j, anchor) ==
  LET rest == Without(q, j)
  IN  IF anchor = None THEN <<j>> \o rest
      ELSE IF anchor \in ToSet(rest) THEN InsertAt(rest, Position(rest, anchor) + 1, j)
      ELSE Append(rest, j)

Reorder(t, j, anchor) ==
  /\ At(t, "idle") /\ j # anchor
  /\ j \in ToSet(queue)
  /\ queue' = Moved(queue, j, anchor)
  /\ UNCHANGED <<running, paused, stopping, wakeVars, jobVars, workVars, thrVars>>

HandlerStep(t) == \/ CancelFlag(t) \/ CancelDiscard(t) \/ CancelFinalise(t)
                  \/ CancelCleans(t) \/ CancelAsksRunning(t) \/ CancelKills(t)
                  \/ DeleteRemovesDir(t) \/ DeleteForgets(t) \/ Notify(t)

Handler(t) == \/ HandlerStep(t)
              \/ StartQueue(t)
              \/ \E j \in Jobs : CancelBegin(t, j) \/ DeleteBegin(t, j)
              \/ \E j \in Jobs, a \in Jobs \cup {None} : Reorder(t, j, a)

Submission == \E j \in Jobs : \/ CreateUrl(j) \/ UploadBegin(j) \/ UploadAccept(j)
                              \/ UploadRefuse(j) \/ UploadCopyFails(j)

Next == \/ Submission \/ LoopSetsWake \/ RequestStop \/ Worker \/ PipelineThread
        \/ \E t \in Threads : Handler(t)

Spec == Init /\ [][Next]_vars

(* The loop and the worker are scheduled, a handler thread that started a   *)
(* request finishes it, and the pipeline thread returns: every subprocess   *)
(* it waits for has a timeout or a stall watchdog.  No user is made to act. *)
Fairness == /\ WF_vars(Worker) /\ WF_vars(LoopSetsWake) /\ WF_vars(PipelineThread)
            /\ \A t \in Threads : WF_vars(HandlerStep(t))

FairSpec == Spec /\ Fairness

----------------------------------------------------------------------------
WorkerPc == {"top", "idle", "wait", "popped", "vetted", "drop", "dropped", "claimed",
             "dispatch", "run", "settled", "release", "stopped"}
PipePc == {"off", "check", "launch", "alive", "dying", "ok", "cancelled", "failed"}
ThreadPc == {"idle", "flag", "discard", "finalise", "clean", "runs", "kill",
             "rmtree", "forget", "notify"}

(* Every variable holds a value the program can give it. *)
TypeOK ==
  /\ queue \in Seq(Jobs)
  /\ running \in Jobs \cup {None}
  /\ paused \in BOOLEAN /\ stopping \in BOOLEAN
  /\ wake \in BOOLEAN /\ scheduled \in BOOLEAN
  /\ registry \in SUBSET Jobs
  /\ status \in [Jobs -> Status]
  /\ cancelReq \in [Jobs -> BOOLEAN]
  /\ dir \in [Jobs -> BOOLEAN]
  /\ wpc \in WorkerPc /\ wjob \in Jobs \cup {None}
  /\ pipe \in PipePc /\ stage \in 0..Stages
  /\ tpc \in [Threads -> ThreadPc] /\ tjob \in [Threads -> Jobs \cup {None}]

(* A job is in one place only: the waiting line holds it once, and not while *)
(* the worker has it in its hand.  Everything in the line is a registered    *)
(* job that still waits (jobqueue.discard, _pop_next, enqueue).              *)
QueueCoherent ==
  /\ IsInjective(queue)
  /\ \A j \in ToSet(queue) : j \in registry /\ status[j] = "queued" /\ j # wjob

(* Issue 520 of the source's comments: no registered job waits without an    *)
(* owner.  It is in the line, in the worker's hand, or with the one handler  *)
(* that took it out of the line and is about to finalise it.                 *)
NoLimbo ==
  \A j \in registry : status[j] = "queued" =>
     \/ j \in ToSet(queue)
     \/ wjob = j
     \/ \E t \in Threads : At(t, "finalise") /\ tjob[t] = j

(* discard's promise: once a handler owns a job, the worker never touches    *)
(* it, and no second handler owns it too.                                    *)
DiscardGivesOwnership ==
  \A t \in Threads : At(t, "finalise") =>
     /\ status[tjob[t]] = "queued" /\ cancelReq[tjob[t]]
     /\ wjob # tjob[t] /\ tjob[t] \notin ToSet(queue)
     /\ \A u \in Threads \ {t} : ~(At(u, "finalise") /\ tjob[u] = tjob[t])

(* A cancelled job's directory (up to 400 MB of upload) is freed: only while *)
(* whoever cancelled it is between the status and the removal does it exist. *)
CancelledFreesItsFiles ==
  \A j \in Jobs : status[j] = "cancelled" /\ dir[j] =>
     \/ wjob = j /\ wpc \in {"dropped", "settled"}
     \/ \E t \in Threads : At(t, "clean") /\ tjob[t] = j

(* A job that was closed out stays as it was closed out, whatever handler,   *)
(* worker and pipeline thread do in whatever order.                          *)
TerminalIsFinal ==
  [][\A j \in Jobs : status[j] \in Terminal => status'[j] = status[j]]_vars

(* An import that is not paused gets its turn, however the wake-ups, the     *)
(* pause and the reorderings fall: no enqueue or start is ever slept on.     *)
EveryJobGetsItsTurn ==
  \A j \in Jobs : (status[j] = "queued" /\ ~paused) ~> (status[j] # "queued" \/ stopping)

(* A worker's exception outside _run_async leaves a job like this. *)
Abandoned(j) == status[j] = "processing" /\ wjob # j

(* Every accepted cancel ends in a terminal status, also one that falls      *)
(* between the pop and the claim, or while the queue is paused.              *)
CancelIsAnswered ==
  \A j \in Jobs : cancelReq[j] ~> (status[j] \in Terminal \/ Abandoned(j) \/ stopping)

(* The rest of the inductive invariant.  The worker's hand: which job it     *)
(* holds at which point, in which status, and what the UI is told of it.     *)
WorkerHand ==
  /\ wjob = None <=> wpc \in {"top", "idle", "wait", "stopped"}
  /\ running = IF wpc \in {"claimed", "dispatch", "run", "settled", "release"}
                THEN wjob ELSE None
  /\ wpc \in {"popped", "vetted", "drop", "claimed"} => status[wjob] = "queued"
  /\ wpc = "drop" => cancelReq[wjob]
  /\ wpc = "dropped" => status[wjob] = "cancelled"
  /\ wpc \in {"dispatch", "run"} => status[wjob] = "processing"
  /\ wpc = "settled" => status[wjob] \in Terminal
  /\ wpc = "release" => status[wjob] \in Terminal \cup {"processing"}

(* Status and registry agree: a job enters the registry as it is queued,     *)
(* leaves it only in a terminal status, and is not cancelled before.         *)
Unregistered == {"new", "uploading", "refused"}
RegistryAgrees ==
  \A j \in Jobs : /\ status[j] \in {"queued", "processing"} => j \in registry
                  /\ status[j] \in Unregistered => j \notin registry /\ ~cancelReq[j]

(* A handler thread serves a registered job that suits what it is doing.     *)
HandlersServe ==
  \A t \in Threads :
    /\ tpc[t] \notin {"idle", "notify"} =>
          tjob[t] \in Jobs /\ status[tjob[t]] \notin Unregistered
    /\ tpc[t] \in {"discard", "finalise"} => cancelReq[tjob[t]]
    /\ tpc[t] \in {"rmtree", "forget"} => status[tjob[t]] \in Terminal

(* The pipeline thread runs only inside the worker's await, and counts its   *)
(* stages for that job alone.                                                *)
PipelineInStep ==
  /\ pipe # "off" <=> wpc \in {"run", "settled"}
  /\ wpc \notin {"run", "settled", "release"} => stage = 0
  /\ pipe \in {"launch", "alive", "dying", "ok", "failed"} => stage > 0
  /\ pipe = "cancelled" => cancelReq[wjob]
  /\ wpc = "release" /\ stage > 0 => status[wjob] \in Terminal

IInv == /\ TypeOK /\ QueueCoherent /\ NoLimbo /\ DiscardGivesOwnership
        /\ WorkerHand /\ RegistryAgrees /\ HandlersServe /\ PipelineInStep

----------------------------------------------------------------------------
(* What the queue promises (JobLifecycle), read off the state above. *)

PhaseOf(j) ==
  IF status[j] \in Unregistered THEN "new"
  ELSE IF status[j] \in Terminal THEN status[j]
  ELSE IF status[j] = "queued" THEN IF cancelReq[j] THEN "dropping" ELSE "waiting"
  ELSE IF wjob # j THEN "abandoned"
  ELSE IF stage > 0 THEN "working"
  ELSE IF cancelReq[j] THEN "dropping" ELSE "starting"

phase == [j \in Jobs |-> PhaseOf(j)]

Lifecycle == INSTANCE JobLifecycle WITH phase <- phase
ImplementsLifecycle == Lifecycle!Spec
=============================================================================
