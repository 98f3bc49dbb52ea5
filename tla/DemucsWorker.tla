----------------------------- MODULE DemucsWorker -----------------------------
(***************************************************************************)
(* The persistent separation worker: app/pipeline/separate.py, the process *)
(* it talks to (app/pipeline/demucs_worker.py), and those who may end that *)
(* process: the pipeline itself, the stall watchdog, cancel_job (in        *)
(* app/api/jobs.py) and the shutdown of the backend (app/main.py).         *)
(*                                                                         *)
(* One job at a time is separated (ImportQueue), each on the device of the *)
(* settings and, when that fails on a GPU, once more on the CPU.  The      *)
(* process stays warm for the next job after a clean success only.         *)
(*                                                                         *)
(* The pipeline stages before and after the separation are left out but    *)
(* for their cancel checks.                                                *)
(***************************************************************************)
EXTENDS Naturals, Sequences, FiniteSets

CONSTANTS
  Jobs,     \* the jobs of one run of the backend
  Devices,  \* what get_demucs_device may answer: "gpu" (cuda, mps), "cpu"
  Threads,  \* threadpool threads that run cancel_job
  None

ASSUME DevicesAssumption == Devices \subseteq {"gpu", "cpu"} /\ Devices # {}
ASSUME JobsAssumption == IsFiniteSet(Jobs) /\ None \notin Jobs \cup Nat

(* No job needs more than one process per device: the number is no bound. *)
Procs == 1..2 * Cardinality(Jobs)

VARIABLES
  running,   \* jobqueue.running_id()
  cancelReq, \* Job.cancel_requested
  outcome,   \* how the separation of the job ended
  cached,    \* _worker["proc"]
  device,    \* the device each process was started with
  life,      \* "unborn", "alive", "dying" (signalled, poll() still None), "dead"
  inbox,     \* requests on its stdin, the one being served first
  out,       \* verdict lines on its stderr that nobody has read yet
  procOf,    \* registry._procs
  ppc, proc, \* the pipeline thread, and `proc` of _run_demucs
  compute,   \* Job.compute_device; "fallback" once the CPU stands in for a GPU
  verdict,   \* job_ok: "none", "ok", "bad", "raised" (an exception), "cancelled"
  wd,        \* the watchdog thread of this attempt
  cpc, cjob, cproc, \* the cancel threads
  spc, victim,      \* shutdown, and the process it popped
  separated, \* history: jobs whose stems some process wrote
  faulty,    \* history: jobs whose process failed or stalled by itself
  cut        \* history: jobs whose read raised when another ended their process

procVars   == <<cached, device, life, inbox, out>>
pipeVars   == <<ppc, proc, compute, verdict>>
cancelVars == <<cpc, cjob, cproc>>
stopVars   == <<spc, victim>>
histVars   == <<separated, faulty, cut>>
vars == <<running, cancelReq, outcome, procVars, procOf, pipeVars, wd, cancelVars, stopVars, histVars>>

Init ==
  /\ running = None
  /\ cancelReq = [j \in Jobs |-> FALSE]
  /\ outcome = [j \in Jobs |-> "none"]
  /\ cached = None
  /\ device = [p \in Procs |-> "cpu"] /\ life = [p \in Procs |-> "unborn"]
  /\ inbox = [p \in Procs |-> <<>>] /\ out = [p \in Procs |-> <<>>]
  /\ procOf = [j \in Jobs |-> None]
  /\ ppc = "idle" /\ proc = None /\ verdict = "none"
  /\ compute = [j \in Jobs |-> "none"]
  /\ wd = "off"
  /\ cpc = [t \in Threads |-> "idle"]
  /\ cjob = [t \in Threads |-> None] /\ cproc = [t \in Threads |-> None]
  /\ spc = "up" /\ victim = None
  /\ separated = {} /\ faulty = {} /\ cut = {}

(* Popen.terminate() and kill(): nothing happens to a process that is gone. *)
Terminated(p) == [life EXCEPT ![p] = IF @ = "alive" THEN "dying" ELSE @]

----------------------------------------------------------------------------
(* The pipeline thread. *)

PipeStep(from, to) ==
  /\ ppc = from /\ ppc' = to
  /\ UNCHANGED <<cancelReq, cancelVars, stopVars>>

(* The event loop is not inside the shutdown code. *)
LoopFree == spc \in {"up", "down"}

(* The queue worker hands over a job; the device is read once per job. *)
Take(j) ==
  /\ PipeStep("idle", "check")
  /\ spc = "up"
  /\ outcome[j] = "none"
  /\ running' = j
  /\ \E d \in Devices : compute' = [compute EXCEPT ![j] = d]
  /\ verdict' = "none"
  /\ UNCHANGED <<outcome, procVars, procOf, proc, wd, histVars>>

(* _check_cancel before the separation. *)
CheckCancel ==
  /\ \/ PipeStep("check", "settle") /\ cancelReq[running] /\ verdict' = "cancelled"
     \/ PipeStep("check", "get") /\ ~cancelReq[running] /\ verdict' = verdict
  /\ UNCHANGED <<running, outcome, procVars, procOf, proc, compute, wd, histVars>>

(* The device of this attempt. *)
Device == IF compute[running] = "gpu" THEN "gpu" ELSE "cpu"

Reusable == cached # None /\ device[cached] = Device /\ life[cached] # "dead"

(* _get_worker: the warm process, if it fits and poll() says it lives. *)
Reuse ==
  /\ PipeStep("get", "register")
  /\ Reusable
  /\ proc' = cached
  /\ UNCHANGED <<running, outcome, procVars, procOf, compute, verdict, wd, histVars>>

(* Otherwise _kill_worker: forget the process, terminate it ... *)
Evict ==
  /\ PipeStep("get", "evict")
  /\ ~Reusable
  /\ proc' = cached
  /\ cached' = None
  /\ life' = IF cached = None THEN life ELSE Terminated(cached)
  /\ UNCHANGED <<running, outcome, device, inbox, out, procOf, compute, verdict, wd, histVars>>

Gone(p) == p # None => life[p] = "dead"

(* Variant: nobody waits for the old process. *)
SpawnAtOnce ==
  /\ PipeStep("evict", "register")
  /\ \E p \in Procs : /\ life[p] = "unborn" /\ \A q \in 1..p - 1 : life[q] # "unborn"
                      /\ proc' = p /\ cached' = p
                      /\ life' = [life EXCEPT ![p] = "alive"]
                      /\ device' = [device EXCEPT ![p] = Device]
  /\ UNCHANGED <<running, outcome, inbox, out, procOf, compute, verdict, wd, histVars>>

(* ... and wait until it is gone (terminate, 5 s, kill). *)
Spawn ==
  /\ PipeStep("evict", "register")
  /\ Gone(proc)
  /\ \E p \in Procs : /\ life[p] = "unborn" /\ \A q \in 1..p - 1 : life[q] # "unborn"
                      /\ proc' = p /\ cached' = p
                      /\ life' = [life EXCEPT ![p] = "alive"]
                      /\ device' = [device EXCEPT ![p] = Device]
  /\ UNCHANGED <<running, outcome, inbox, out, procOf, compute, verdict, wd, histVars>>

(* Popen raises; nothing was registered yet, so nothing is cleaned up. *)
SpawnFails ==
  /\ PipeStep("evict", "settle")
  /\ Gone(proc)
  /\ proc' = None
  /\ verdict' = "raised"
  /\ faulty' = faulty \cup {running}
  /\ UNCHANGED <<running, outcome, procVars, procOf, compute, wd, separated, cut>>

(* set_proc: from here on a cancel reaches the process. *)
Registers ==
  /\ PipeStep("register", "write")
  /\ procOf' = [procOf EXCEPT ![running] = proc]
  /\ UNCHANGED <<running, outcome, procVars, proc, compute, verdict, wd, histVars>>

(* The request goes out, also into the pipe of a process that is about to  *)
(* die.  The watchdog of this attempt starts.                              *)
Writes ==
  /\ PipeStep("write", "read")
  /\ life[proc] # "dead"
  /\ inbox' = [inbox EXCEPT ![proc] = Append(@, running)]
  /\ wd' = "armed"
  /\ UNCHANGED <<running, outcome, cached, device, life, out, procOf, proc, compute, verdict, histVars>>

(* Variant: the entry in the registry is left behind. *)
BrokenPipeStaysRegistered ==
  /\ PipeStep("write", "reap")
  /\ life[proc] # "alive"
  /\ verdict' = "bad"
  /\ UNCHANGED <<running, outcome, procVars, procOf, proc, compute, wd, histVars>>

(* The process is not accepting input (BrokenPipeError). *)
BrokenPipe ==
  /\ PipeStep("write", "reap")
  /\ life[proc] # "alive"
  /\ procOf' = [procOf EXCEPT ![running] = None]
  /\ verdict' = "bad"
  /\ UNCHANGED <<running, outcome, procVars, proc, compute, wd, histVars>>

(* @@DONE@@ or @@ERROR@@. *)
ReadsVerdict ==
  /\ PipeStep("read", "clear")
  /\ out[proc] # <<>>
  /\ verdict' = IF Head(out[proc]) = "done" THEN "ok" ELSE "bad"
  /\ out' = [out EXCEPT ![proc] = Tail(@)]
  /\ UNCHANGED <<running, outcome, cached, device, life, inbox, procOf, proc, compute, wd, histVars>>

(* End of file, once everything written before was read. *)
ReadsEof ==
  /\ PipeStep("read", "clear")
  /\ out[proc] = <<>> /\ life[proc] = "dead"
  /\ verdict' = "bad"
  /\ UNCHANGED <<running, outcome, procVars, procOf, proc, compute, wd, histVars>>

(* The read loop raises (issue 514 of the source's comments): the job's own *)
(* trouble (_set), or read(1) racing the terminate() of a cancel or of       *)
(* shutdown, whosever job it was meant for.  An exception is no verdict that *)
(* the CPU is asked to try again on.                                         *)
ReadRaises ==
  /\ PipeStep("read", "clear")
  /\ verdict' = "raised"
  /\ \/ life[proc] = "alive" /\ faulty' = faulty \cup {running} /\ cut' = cut
     \/ life[proc] # "alive" /\ cut' = cut \cup {running} /\ faulty' = faulty
  /\ UNCHANGED <<running, outcome, procVars, procOf, proc, compute, wd, separated>>

(* finally: the watchdog's event, then set_proc(None) ... *)
Deregisters ==
  /\ PipeStep("clear", "join")
  /\ procOf' = [procOf EXCEPT ![running] = None]
  /\ UNCHANGED <<running, outcome, procVars, proc, compute, verdict, wd, histVars>>

(* Variant: only a reported failure costs the process its place. *)
JoinsReapsReported ==
  /\ wd = "off"
  /\ \/ PipeStep("join", "judge") /\ verdict \in {"ok", "raised"}
     \/ PipeStep("join", "reap") /\ verdict = "bad"
  /\ UNCHANGED <<running, outcome, procVars, procOf, proc, compute, verdict, wd, histVars>>

(* ... then the watchdog has left (2 s is ample: it only has to wake up), *)
(* and a process is kept after a clean success only.                      *)
Joins ==
  /\ wd = "off"
  /\ \/ PipeStep("join", "judge") /\ verdict = "ok"
     \/ PipeStep("join", "reap") /\ verdict # "ok"
  /\ UNCHANGED <<running, outcome, procVars, procOf, proc, compute, verdict, wd, histVars>>

(* _kill_worker on whatever _worker holds by now. *)
Reaps ==
  /\ PipeStep("reap", "reaped")
  /\ proc' = cached
  /\ cached' = None
  /\ life' = IF cached = None THEN life ELSE Terminated(cached)
  /\ UNCHANGED <<running, outcome, device, inbox, out, procOf, compute, verdict, wd, histVars>>

Reaped ==
  /\ PipeStep("reaped", "judge")
  /\ Gone(proc)
  /\ UNCHANGED <<running, outcome, procVars, procOf, proc, compute, verdict, wd, histVars>>

(* Variant: a failed GPU attempt is final. *)
FallBackNever ==
  /\ PipeStep("judge", "settle")
  /\ UNCHANGED <<running, outcome, procVars, procOf, proc, compute, verdict, wd, histVars>>

(* A GPU attempt that returned a failure, of a job nobody cancelled: the   *)
(* partial stems are wiped ...                                             *)
FallBack ==
  /\ PipeStep("judge", "recheck")
  /\ verdict = "bad" /\ Device = "gpu" /\ ~cancelReq[running]
  /\ UNCHANGED <<running, outcome, procVars, procOf, proc, compute, verdict, wd, histVars>>

(* ... and after another look at the flag the CPU is tried. *)
Recheck ==
  /\ \/ /\ PipeStep("recheck", "settle") /\ cancelReq[running]
        /\ verdict' = "cancelled" /\ compute' = compute
     \/ /\ PipeStep("recheck", "get") /\ ~cancelReq[running]
        /\ verdict' = "none" /\ compute' = [compute EXCEPT ![running] = "fallback"]
  /\ UNCHANGED <<running, outcome, procVars, procOf, proc, wd, histVars>>

(* Whatever an attempt of a cancelled job came to is a cancel. *)
Judge ==
  /\ PipeStep("judge", "settle")
  /\ verdict = "bad" /\ Device = "gpu" => cancelReq[running]
  /\ verdict' = IF cancelReq[running] THEN "cancelled" ELSE verdict
  /\ UNCHANGED <<running, outcome, procVars, procOf, proc, compute, wd, histVars>>

(* The rest of the pipeline, with its own checks for a cancel, the outcome, *)
(* and the queue worker's release.                                          *)
Settle ==
  /\ PipeStep("settle", "idle")
  /\ LoopFree
  /\ \/ /\ cancelReq[running]
        /\ outcome' = [outcome EXCEPT ![running] = "cancelled"]
     \/ /\ verdict = "ok"
        /\ outcome' = [outcome EXCEPT ![running] = "ok"]
     \/ /\ ~cancelReq[running] /\ verdict # "ok"
        /\ outcome' = [outcome EXCEPT ![running] = "failed"]
  /\ running' = None /\ proc' = None
  /\ UNCHANGED <<procVars, procOf, compute, verdict, wd, histVars>>

PipelineGoesOn == \/ CheckCancel \/ Reuse \/ Evict \/ Spawn \/ Registers
                  \/ Writes \/ BrokenPipe \/ ReadsVerdict \/ ReadsEof
                  \/ Deregisters \/ Joins \/ Reaps \/ Reaped
                  \/ FallBack \/ Recheck \/ Judge \/ Settle

Pipeline == PipelineGoesOn \/ SpawnFails \/ ReadRaises

----------------------------------------------------------------------------
(* The worker process p: main() of demucs_worker.py. *)

ProcStep(p) ==
  UNCHANGED <<running, cancelReq, outcome, cached, device, procOf, pipeVars, wd, cancelVars, stopVars>>

WorkerDone(p) ==
  /\ life[p] \in {"alive", "dying"} /\ inbox[p] # <<>>
  /\ inbox' = [inbox EXCEPT ![p] = Tail(@)]
  /\ out' = [out EXCEPT ![p] = Append(@, "done")]
  /\ separated' = separated \cup {Head(inbox[p])}
  /\ ProcStep(p) /\ UNCHANGED <<life, faulty, cut>>

(* An exception: the report, then the process exits. *)
WorkerError(p) ==
  /\ life[p] \in {"alive", "dying"} /\ inbox[p] # <<>>
  /\ out' = [out EXCEPT ![p] = Append(@, "error")]
  /\ life' = [life EXCEPT ![p] = "dead"]
  /\ faulty' = faulty \cup {Head(inbox[p])}
  /\ inbox' = [inbox EXCEPT ![p] = <<>>]
  /\ ProcStep(p) /\ UNCHANGED <<separated, cut>>

(* It is killed from outside or crashes without a word, also when idle. *)
WorkerCrash(p) ==
  /\ life[p] = "alive"
  /\ life' = [life EXCEPT ![p] = "dead"]
  /\ inbox' = [inbox EXCEPT ![p] = <<>>]
  /\ faulty' = IF p = proc /\ running # None THEN faulty \cup {running} ELSE faulty
  /\ ProcStep(p) /\ UNCHANGED <<out, separated, cut>>

(* The signal takes effect. *)
WorkerDies(p) ==
  /\ life[p] = "dying"
  /\ life' = [life EXCEPT ![p] = "dead"]
  /\ inbox' = [inbox EXCEPT ![p] = <<>>]
  /\ ProcStep(p) /\ UNCHANGED <<out, histVars>>

----------------------------------------------------------------------------
(* The watchdog of the current attempt. *)

WatchdogStep(from, to) ==
  /\ wd = from /\ wd' = to
  /\ UNCHANGED <<running, cancelReq, outcome, cached, device, inbox, out, procOf, pipeVars,
                 cancelVars, stopVars, separated, cut>>

(* No output for TIMEOUT_DEMUCS_STALL ... *)
WatchdogSeesStall ==
  /\ WatchdogStep("armed", "firing")
  /\ ppc = "read" /\ life[proc] # "dead"
  /\ faulty' = faulty \cup {running}
  /\ UNCHANGED life

(* Variant: the stall is logged, no more. *)
WatchdogLogs ==
  /\ WatchdogStep("firing", "off")
  /\ UNCHANGED <<life, faulty>>

(* ... and terminate(), whatever has been read in between. *)
WatchdogFires ==
  /\ WatchdogStep("firing", "off")
  /\ life' = Terminated(proc)
  /\ UNCHANGED faulty

(* The attempt is over, or the process is gone. *)
WatchdogLeaves ==
  /\ WatchdogStep("armed", "off")
  /\ ppc # "read" \/ life[proc] = "dead"
  /\ UNCHANGED <<life, faulty>>

Watchdog == WatchdogSeesStall \/ WatchdogFires \/ WatchdogLeaves

----------------------------------------------------------------------------
(* cancel_job of a job that was taken out of the queue. *)

CancelStep(t, from, to) ==
  /\ cpc[t] = from /\ cpc' = [cpc EXCEPT ![t] = to]
  /\ UNCHANGED <<running, outcome, cached, device, inbox, out, procOf, pipeVars, wd, stopVars, histVars>>

CancelFlag(t, j) ==
  /\ CancelStep(t, "idle", "ask")
  /\ outcome[j] = "none"
  /\ cancelReq' = [cancelReq EXCEPT ![j] = TRUE]
  /\ cjob' = [cjob EXCEPT ![t] = j]
  /\ UNCHANGED <<life, cproc>>

(* Only the running job owns the worker. *)
CancelAsks(t) ==
  /\ \/ CancelStep(t, "ask", "fetch") /\ running = cjob[t] /\ UNCHANGED cjob
     \/ CancelStep(t, "ask", "idle") /\ running # cjob[t] /\ cjob' = [cjob EXCEPT ![t] = None]
  /\ UNCHANGED <<cancelReq, life, cproc>>

(* get_proc, and poll(). *)
CancelFetches(t) ==
  LET p == procOf[cjob[t]]
  IN  /\ \/ /\ CancelStep(t, "fetch", "kill") /\ ~Gone(p)
            /\ cproc' = [cproc EXCEPT ![t] = p] /\ UNCHANGED cjob
         \/ /\ CancelStep(t, "fetch", "idle") /\ Gone(p)
            /\ cjob' = [cjob EXCEPT ![t] = None] /\ UNCHANGED cproc
      /\ UNCHANGED <<cancelReq, life>>

CancelKills(t) ==
  /\ CancelStep(t, "kill", "idle")
  /\ life' = Terminated(cproc[t])
  /\ cjob' = [cjob EXCEPT ![t] = None] /\ cproc' = [cproc EXCEPT ![t] = None]
  /\ UNCHANGED cancelReq

CancelGoesOn(t) == CancelAsks(t) \/ CancelFetches(t) \/ CancelKills(t)

----------------------------------------------------------------------------
(* lifespan after the yield: request_stop, then _kill_worker, on the loop. *)

StopStep(from, to) ==
  /\ spc = from /\ spc' = to
  /\ UNCHANGED <<running, cancelReq, outcome, device, inbox, out, procOf, pipeVars, wd, cancelVars, histVars>>

StopPops ==
  /\ StopStep("up", "popped")
  /\ victim' = cached /\ cached' = None
  /\ UNCHANGED life

StopTerminates ==
  /\ StopStep("popped", "waiting")
  /\ life' = IF victim = None THEN life ELSE Terminated(victim)
  /\ UNCHANGED <<cached, victim>>

StopEnds ==
  /\ StopStep("waiting", "down")
  /\ Gone(victim)
  /\ victim' = None
  /\ UNCHANGED <<cached, life>>

Shutdown == StopTerminates \/ StopEnds

Next == \/ \E j \in Jobs : Take(j)
        \/ Pipeline
        \/ \E p \in Procs : WorkerDone(p) \/ WorkerError(p) \/ WorkerCrash(p) \/ WorkerDies(p)
        \/ Watchdog
        \/ \E t \in Threads : CancelGoesOn(t) \/ \E j \in Jobs : CancelFlag(t, j)
        \/ StopPops \/ Shutdown

Spec == Init /\ [][Next]_vars

(* Only _kill_worker lets SIGKILL follow when five seconds after SIGTERM    *)
(* the process is still there; the watchdog and a cancel leave it at that.  *)
BeingKilled(p) == (ppc \in {"evict", "reaped"} /\ p = proc) \/ (spc = "waiting" /\ p = victim)

(* The pipeline thread runs, a process that _kill_worker ends dies, the     *)
(* loop finishes its shutdown, and the watchdog ends a silence of           *)
(* TIMEOUT_DEMUCS_STALL.  Nothing is assumed of the worker process itself,  *)
(* which may outlive a SIGTERM.                                             *)
Fairness == /\ WF_vars(PipelineGoesOn) /\ WF_vars(Watchdog) /\ WF_vars(Shutdown)
            /\ \A p \in Procs : WF_vars(BeingKilled(p) /\ WorkerDies(p))

FairSpec == Spec /\ Fairness

----------------------------------------------------------------------------
PipePc == {"idle", "check", "get", "evict", "register", "write", "read", "clear", "join",
           "reap", "reaped", "judge", "recheck", "settle"}

(* A worker is asked for one job at a time. *)
TypeOK ==
  /\ running \in Jobs \cup {None}
  /\ cancelReq \in [Jobs -> BOOLEAN]
  /\ outcome \in [Jobs -> {"none", "ok", "cancelled", "failed"}]
  /\ cached \in Procs \cup {None}
  /\ device \in [Procs -> {"gpu", "cpu"}]
  /\ life \in [Procs -> {"unborn", "alive", "dying", "dead"}]
  /\ inbox \in [Procs -> {<<>>} \cup {<<j>> : j \in Jobs}]
  /\ out \in [Procs -> {<<>>, <<"done">>, <<"error">>}]
  /\ procOf \in [Jobs -> Procs \cup {None}]
  /\ ppc \in PipePc /\ proc \in Procs \cup {None}
  /\ compute \in [Jobs -> {"none", "gpu", "cpu", "fallback"}]
  /\ verdict \in {"none", "ok", "bad", "raised", "cancelled"}
  /\ wd \in {"off", "armed", "firing"}
  /\ cpc \in [Threads -> {"idle", "ask", "fetch", "kill"}]
  /\ cjob \in [Threads -> Jobs \cup {None}] /\ cproc \in [Threads -> Procs \cup {None}]
  /\ spc \in {"up", "popped", "waiting", "down"} /\ victim \in Procs \cup {None}
  /\ separated \in SUBSET Jobs /\ faulty \in SUBSET Jobs /\ cut \in SUBSET Jobs

(* A separation that counts as done was done for this job: no "@@DONE@@" of *)
(* an earlier job, left unread by an exception or a cancel, is taken for it. *)
OkMeansSeparated == \A j \in Jobs : outcome[j] = "ok" => j \in separated

(* At most one worker holds the model and the device, also while an old one *)
(* is dying; but for the one that shutdown took over.                       *)
Holding(p) == life[p] \in {"alive", "dying"}
AtMostOneWorker ==
  \A p, q \in Procs \ {victim} : Holding(p) /\ Holding(q) => p = q

(* A cancel can reach a process under the running job's id only (set_proc's *)
(* entries never outlive the attempt they were made for).                   *)
NoStaleRegistration ==
  \A j \in Jobs : procOf[j] # None => running = j /\ procOf[j] = proc

(* Whoever ends another job's process, a GPU job survives it on the CPU: if *)
(* nobody cancelled it, its process did not fail or stall by itself, and no *)
(* shutdown hit it, it does not fail.  The one exception is the read that   *)
(* raises in the first attempt: no second attempt follows an exception.     *)
BystanderSurvives ==
  \A j \in Jobs : outcome[j] = "failed" /\ ~cancelReq[j] /\ j \notin faulty /\ spc = "up" =>
     compute[j] = "cpu" \/ (compute[j] = "gpu" /\ j \in cut)

(* jobs.py: a cancel of the running job does not "kill someone else's       *)
(* separation".                                                             *)
CancelSparesOthers ==
  \A j \in Jobs : outcome[j] = "failed" /\ faulty = {} /\ spc = "up" => cancelReq[j]

(* No separation holds up the queue for ever, whatever the worker does, but *)
(* for one case: the watchdog or a cancel sent SIGTERM, the process outlives *)
(* it, and the pipeline goes on reading from it.                            *)
Outlived(j) == running = j /\ ppc = "read" /\ life[proc] = "dying"
SeparationEnds == \A j \in Jobs : (running = j ~> running # j) \/ <>[]Outlived(j)

----------------------------------------------------------------------------
(* The rest of the inductive invariant.  Where the processes are: one that  *)
(* still runs is the cached one, or is being ended by the pipeline or by    *)
(* shutdown.                                                                *)
ProcessesAccounted ==
  /\ \A p \in Procs : Holding(p) =>
        p \in {cached, victim} \/ (ppc \in {"evict", "reaped"} /\ p = proc)
  /\ cached # None => life[cached] # "unborn" /\ cached # victim
  /\ victim # None => life[victim] # "unborn"
  /\ \A p \in Procs : /\ life[p] = "unborn" => inbox[p] = <<>> /\ out[p] = <<>>
                      /\ inbox[p] # <<>> => out[p] = <<>>
  /\ spc \in {"up", "down"} => victim = None
  /\ \A t \in Threads : cpc[t] # "idle" => cjob[t] \in Jobs

(* The warm process has nothing left to do or to say. *)
WarmIsClean ==
  cached # None /\ ppc \in {"idle", "check", "get", "judge", "recheck", "settle"} =>
     inbox[cached] = <<>> /\ out[cached] = <<>>

(* The attempt: what is on the pipes of its process is its own.             *)
AttemptIsItsOwn ==
  /\ ppc # "idle" <=> running # None
  /\ ppc \in {"register", "write", "read", "clear", "join", "reap"} =>
        /\ proc # None /\ life[proc] # "unborn"
        /\ cached \in {proc, None}
  /\ ppc \in {"evict", "reaped"} => cached = None
  /\ ppc \in {"register", "write"} => inbox[proc] = <<>> /\ out[proc] = <<>>
  /\ ppc = "read" =>
        /\ inbox[proc] \in {<<>>, <<running>>}
        /\ out[proc] = <<"done">> => running \in separated
  /\ verdict = "ok" =>
        /\ running # None => running \in separated
        /\ ppc \in {"clear", "join"} => inbox[proc] = <<>> /\ out[proc] = <<>>
  /\ ppc \in {"check", "get", "evict", "register", "write", "read"} => verdict = "none"
  /\ wd # "off" => ppc \in {"read", "clear", "join"}
  /\ ppc \notin {"write", "read", "clear"} => \A j \in Jobs : procOf[j] = None

CoreInv == /\ TypeOK /\ OkMeansSeparated /\ NoStaleRegistration
           /\ ProcessesAccounted /\ WarmIsClean /\ AttemptIsItsOwn

(* What a verdict stands for, up to the outcome.  A bad one has cost the    *)
(* process its place, so that a second attempt starts without one.          *)
VerdictsAreMeant ==
  /\ running # None => outcome[running] = "none" /\ compute[running] # "none"
  /\ ppc \in {"clear", "join", "reap", "reaped", "judge", "recheck", "settle"} => verdict # "none"
  /\ ppc # "idle" /\ verdict = "raised" => running \in faulty \cup cut
  /\ ppc # "idle" /\ verdict = "cancelled" => cancelReq[running]
  /\ ppc \in {"clear", "join", "reap", "reaped", "judge", "recheck"} => verdict # "cancelled"
  /\ ppc \in {"judge", "recheck"} /\ verdict = "bad" => cached = None
  /\ ppc = "recheck" => verdict = "bad"
  /\ ppc = "settle" /\ verdict = "bad" /\ ~cancelReq[running] => Device = "cpu"
  /\ wd = "firing" => running \in faulty

(* A cancel holds on to processes that ran under a cancelled job's id. *)
CancelsAreAimed ==
  \A t \in Threads : /\ cpc[t] # "idle" => cancelReq[cjob[t]]
                     /\ cpc[t] = "kill" => cproc[t] \in Procs /\ life[cproc[t]] # "unborn"

(* The second attempt has a process of its own that no cancel holds.        *)
Undisturbed == /\ running # None /\ compute[running] = "fallback"
               /\ ~cancelReq[running] /\ running \notin faulty /\ spc = "up"

FallbackGoesWell ==
  Undisturbed =>
    /\ ppc \notin {"check", "reap", "reaped", "recheck"} /\ verdict \in {"none", "ok"}
    /\ ppc = "get" => cached = None
    /\ ppc \in {"register", "write", "read"} =>
         /\ life[proc] = "alive"
         /\ \A t \in Threads : cpc[t] = "kill" => cproc[t] # proc
    /\ ppc = "read" => out[proc] # <<"error">>

IInv == /\ CoreInv /\ VerdictsAreMeant /\ CancelsAreAimed /\ FallbackGoesWell /\ BystanderSurvives
=============================================================================
