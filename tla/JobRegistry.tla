----------------------------- MODULE JobRegistry -----------------------------
(***************************************************************************)
(* The job registry across crashes: app/core/registry.py (the table in     *)
(* memory, registry.json, restore at start-up), and everyone who changes   *)
(* the table, the file and the job directories: the imports, the worker    *)
(* with the file side of app/pipeline/runner.py and collect.py, cancel and *)
(* delete in app/api/jobs.py, and the hourly sweep.                        *)
(*                                                                         *)
(* The process may die between any two steps.  Memory is lost; the file    *)
(* and the directories are what the next start finds.                      *)
(*                                                                         *)
(* The order of the waiting line, and the race for a job between cancel    *)
(* and worker, are ImportQueue's; here the line is a set and a cancel      *)
(* finds a job either waiting or claimed.                                  *)
(***************************************************************************)
EXTENDS Naturals, FiniteSets

CONSTANTS
  Jobs,        \* job ids; an id is never used twice (uuid4)
  Uploads,     \* those that are file uploads; the rest are links
  Untitled,    \* those whose title is never learnt (Job.title stays None)
  Stems,       \* the stems a separation produces (STEM_NAMES)
  Threads,     \* threadpool threads that run cancel, delete and edits
  AutoDelete,  \* get_auto_delete_jobs: the user asked for the sweep
  MaxResume,   \* _MAX_RESUME_ATTEMPTS
  MaxCrashes,  \* bound: how often the process dies
  None

ASSUME KindsAssumption == Uploads \subseteq Jobs /\ Untitled \subseteq Jobs
ASSUME StemsAssumption == Stems # {}
ASSUME SettingAssumption == AutoDelete \in BOOLEAN
ASSUME BoundsAssumption == MaxResume \in Nat /\ MaxCrashes \in Nat
ASSUME NoneAssumption == None \notin Jobs

VARIABLES
  proc,       \* "down", "loaded" (restore read the file), "up"
  mem,        \* _jobs: Job.status, "none" when the id is not in the table
  attempts,   \* Job.resume_attempts
  deletedIds, \* _deleted
  line,       \* ids waiting in jobqueue._queue
  cancelReq,  \* Job.cancel_requested
  disk,       \* registry.json: its records and its "deleted" list
  present,    \* ids that have a directory under JOBS_DIR
  source,     \* ids whose directory holds source.*
  stems,      \* which stems/<name>.wav exist
  accepting,  \* the import that is registered but not yet persisted
  uploading,  \* uploads being copied and probed
  wpc, wjob,  \* the worker and its pipeline
  tpc, tjob,  \* the handler threads
  spc, sjob, snap, todo, removed, \* the sweep, its snapshot and directory list
  told,       \* history: the last thing the user was told of the job
  doomed,     \* history: ids a delete or a sweep has begun to remove
  starts,     \* history: how often the job was started
  crashes     \* how often the process died

memVars    == <<mem, attempts, deletedIds, line, cancelReq>>
dirVars    == <<present, source, stems>>
workVars   == <<wpc, wjob>>
thrVars    == <<tpc, tjob>>
sweepVars  == <<spc, sjob, snap, todo, removed>>
importVars == <<accepting, uploading>>
histVars   == <<told, doomed, starts, crashes>>
vars == <<proc, memVars, disk, dirVars, importVars, workVars, thrVars, sweepVars, histVars>>

Terminal  == {"done", "error", "cancelled"}
Resumable == {"queued", "processing"}
Persisted == {"done"} \cup Resumable
Status    == {"none"} \cup Resumable \cup Terminal

NoRecords == [status   |-> [j \in Jobs |-> "none"],
              attempts |-> [j \in Jobs |-> 0],
              deleted  |-> {}]

Init ==
  /\ proc = "up"
  /\ mem = [j \in Jobs |-> "none"] /\ attempts = [j \in Jobs |-> 0]
  /\ deletedIds = {} /\ line = {}
  /\ cancelReq = [j \in Jobs |-> FALSE]
  /\ disk = NoRecords
  /\ present = {} /\ source = {} /\ stems = [j \in Jobs |-> {}]
  /\ accepting = None /\ uploading = {}
  /\ wpc = "idle" /\ wjob = None
  /\ tpc = [t \in Threads |-> "idle"] /\ tjob = [t \in Threads |-> None]
  /\ spc = "idle" /\ sjob = None /\ snap = {} /\ todo = {} /\ removed = FALSE
  /\ told = [j \in Jobs |-> "nothing"] /\ doomed = {}
  /\ starts = [j \in Jobs |-> 0] /\ crashes = 0

----------------------------------------------------------------------------
(* What every actor uses. *)

(* Variant: the deletion records are dropped without a look at the disk. *)
PrunedBlindly == {}

(* _prune_deleted keeps a deletion record as long as the directory exists. *)
Pruned == deletedIds \cap present

(* persist: prune, then write file and replace it under the lock.  (The    *)
(* prune takes the lock separately; what slips in between only keeps a     *)
(* record longer.)  Cancelled and failed jobs are not written.             *)
Persist ==
  /\ deletedIds' = Pruned
  /\ disk' = [status   |-> [j \in Jobs |-> IF mem[j] \in Persisted THEN mem[j] ELSE "none"],
              attempts |-> [j \in Jobs |-> IF mem[j] \in Persisted THEN attempts[j] ELSE 0],
              deleted  |-> Pruned]

(* rmtree of a job's directory: all of it, or whatever part it could. *)
RemoveTree(j) ==
  \/ /\ present' = present \ {j}
     /\ source' = source \ {j}
     /\ stems' = [stems EXCEPT ![j] = {}]
  \/ /\ j \in present
     /\ present' = present
     /\ source' \in {source, source \ {j}}
     /\ \E left \in SUBSET stems[j] : stems' = [stems EXCEPT ![j] = left]

(* The event loop is at an await: the worker waits for a job or for the   *)
(* pipeline thread, and no import is half-way through its last stretch.   *)
LoopFree == proc = "up" /\ accepting = None /\ wpc \in {"idle", "run"}

----------------------------------------------------------------------------
(* Imports, on the event loop. *)

(* An upload's bytes reach the job directory before the job exists. *)
UploadStores(j) ==
  /\ LoopFree
  /\ j \in Uploads /\ told[j] = "nothing"
  /\ told' = [told EXCEPT ![j] = "asked"]
  /\ uploading' = uploading \cup {j}
  /\ present' = present \cup {j} /\ source' = source \cup {j}
  /\ UNCHANGED <<proc, memVars, disk, stems, accepting, workVars, thrVars, sweepVars, doomed, starts, crashes>>

(* Too long, unreadable, or the queue is full. *)
UploadRefuses(j) ==
  /\ LoopFree
  /\ j \in uploading
  /\ uploading' = uploading \ {j}
  /\ RemoveTree(j)
  /\ told' = [told EXCEPT ![j] = "refused"]
  /\ UNCHANGED <<proc, memVars, disk, accepting, workVars, thrVars, sweepVars, doomed, starts, crashes>>

(* register_if_capacity and enqueue ... *)
Register(j) ==
  /\ LoopFree
  /\ \/ j \in uploading
     \/ j \notin Uploads /\ told[j] = "nothing"
  /\ told' = [told EXCEPT ![j] = "asked"]
  /\ uploading' = uploading \ {j}
  /\ mem' = [mem EXCEPT ![j] = "queued"]
  /\ line' = line \cup {j}
  /\ accepting' = j
  /\ UNCHANGED <<proc, attempts, deletedIds, cancelReq, disk, dirVars, workVars, thrVars, sweepVars, doomed, starts, crashes>>

(* Variant: the answer goes out before the file is written. *)
AcknowledgeUnsaved ==
  /\ accepting # None
  /\ told' = [told EXCEPT ![accepting] = IF @ = "asked" THEN "accepted" ELSE @]
  /\ accepting' = None
  /\ UNCHANGED <<proc, memVars, disk, dirVars, uploading, workVars, thrVars, sweepVars, doomed, starts, crashes>>

(* ... then persist, and the id goes to the client.  A handler thread may *)
(* have cancelled the job in between.                                     *)
Acknowledge ==
  /\ accepting # None
  /\ Persist
  /\ told' = [told EXCEPT ![accepting] = IF @ = "asked" THEN "accepted" ELSE @]
  /\ accepting' = None
  /\ UNCHANGED <<proc, mem, attempts, line, cancelReq, dirVars, uploading, workVars, thrVars, sweepVars, doomed, starts, crashes>>

----------------------------------------------------------------------------
(* The worker and the pipeline. *)

WorkerStep(from, to) ==
  /\ proc = "up" /\ wpc = from /\ wpc' = to
  /\ UNCHANGED <<proc, accepting, uploading, thrVars, sweepVars, doomed, crashes>>

(* Pipeline steps run in their own thread; the rest needs the loop. *)
OnLoop(from, to) == accepting = None /\ WorkerStep(from, to)

Claim(j) ==
  /\ OnLoop("idle", "run")
  /\ j \in line
  /\ line' = line \ {j} /\ wjob' = j
  /\ mem' = [mem EXCEPT ![j] = "processing"]
  /\ starts' = [starts EXCEPT ![j] = @ + 1]
  /\ present' = IF j \in Uploads THEN present ELSE present \cup {j}
  /\ UNCHANGED <<attempts, deletedIds, cancelReq, disk, source, stems, told>>

(* The uploaded file a local job is to read is not there. *)
SourceMissing == wjob \in Uploads \ source /\ stems[wjob] = {}

(* A link's audio is downloaded; an upload's is there. *)
Download ==
  /\ WorkerStep("run", "run")
  /\ wjob \in present \ (Uploads \cup source)
  /\ stems[wjob] = {}
  /\ source' = source \cup {wjob}
  /\ UNCHANGED <<wjob, memVars, disk, present, stems, told, starts>>

(* collect moves the separated stems into stems/ one by one. *)
Collect ==
  /\ WorkerStep("run", "run")
  /\ wjob \in source \cap present
  /\ \E s \in Stems \ stems[wjob] : stems' = [stems EXCEPT ![wjob] = @ \cup {s}]
  /\ UNCHANGED <<wjob, memVars, disk, present, source, told, starts>>

(* cleanup_source, once collect is through. *)
DropSource ==
  /\ WorkerStep("run", "run")
  /\ wjob \in source /\ stems[wjob] = Stems
  /\ source' = source \ {wjob}
  /\ UNCHANGED <<wjob, memVars, disk, present, stems, told, starts>>

(* The three outcomes of _run_async.  Done: status, metadata, persist. *)
Finish ==
  /\ OnLoop("run", "save")
  /\ stems[wjob] = Stems /\ wjob \notin source
  /\ mem' = [mem EXCEPT ![wjob] = "done"]
  /\ told' = [told EXCEPT ![wjob] = "done"]
  /\ UNCHANGED <<wjob, attempts, deletedIds, line, cancelReq, disk, dirVars, starts>>

(* Cancelled: status, persist, then the directory. *)
StopCancelled ==
  /\ OnLoop("run", "saveFirst")
  /\ cancelReq[wjob] /\ ~SourceMissing
  /\ mem' = [mem EXCEPT ![wjob] = "cancelled"]
  /\ UNCHANGED <<wjob, attempts, deletedIds, line, cancelReq, disk, dirVars, told, starts>>

SaveCancelled ==
  /\ OnLoop("saveFirst", "remove")
  /\ Persist
  /\ told' = [told EXCEPT ![wjob] = IF @ = "deleted" THEN @ ELSE "cancelled"]
  /\ UNCHANGED <<wjob, mem, attempts, line, cancelReq, dirVars, starts>>

RemoveCancelled ==
  /\ OnLoop("remove", "idle")
  /\ RemoveTree(wjob)
  /\ wjob' = None
  /\ UNCHANGED <<memVars, disk, told, starts>>

(* Failed: status, quarantine (the directory is stripped and moved away, or *)
(* removed), persist.                                                       *)
Fail ==
  /\ OnLoop("run", "quarantine")
  /\ ~cancelReq[wjob] /\ ~SourceMissing
  /\ mem' = [mem EXCEPT ![wjob] = "error"]
  /\ told' = [told EXCEPT ![wjob] = "failed"]
  /\ UNCHANGED <<wjob, attempts, deletedIds, line, cancelReq, disk, dirVars, starts>>

(* _dispatch: an upload without its file fails at once, cancelled or not. *)
FailMissing ==
  /\ OnLoop("run", "save")
  /\ SourceMissing
  /\ mem' = [mem EXCEPT ![wjob] = "error"]
  /\ told' = [told EXCEPT ![wjob] = "failed"]
  /\ UNCHANGED <<wjob, attempts, deletedIds, line, cancelReq, disk, dirVars, starts>>

Quarantine ==
  /\ OnLoop("quarantine", "save")
  /\ RemoveTree(wjob)
  /\ UNCHANGED <<wjob, memVars, disk, told, starts>>

Save ==
  /\ OnLoop("save", "idle")
  /\ Persist
  /\ wjob' = None
  /\ UNCHANGED <<mem, attempts, line, cancelReq, dirVars, told, starts>>

Worker == \/ \E j \in Jobs : Claim(j)
          \/ Download \/ Collect \/ DropSource
          \/ Finish \/ StopCancelled \/ SaveCancelled \/ RemoveCancelled
          \/ Fail \/ FailMissing \/ Quarantine \/ Save

----------------------------------------------------------------------------
(* The handler threads. *)

ThreadStep(t, from, to) ==
  /\ proc = "up" /\ tpc[t] = from
  /\ tpc' = [tpc EXCEPT ![t] = to]
  /\ tjob' = IF to = "idle" THEN [tjob EXCEPT ![t] = None] ELSE tjob
  /\ UNCHANGED <<proc, importVars, workVars, sweepVars, starts, crashes>>

Takes(t, j, to) ==
  /\ proc = "up" /\ tpc[t] = "idle"
  /\ tpc' = [tpc EXCEPT ![t] = to]
  /\ tjob' = [tjob EXCEPT ![t] = j]
  /\ UNCHANGED <<proc, importVars, workVars, sweepVars, starts, crashes>>

(* cancel_job of a waiting job: out of the line, status, directory, persist. *)
CancelWaiting(t, j) ==
  /\ Takes(t, j, "cancelRemove")
  /\ j \in line
  /\ line' = line \ {j}
  /\ cancelReq' = [cancelReq EXCEPT ![j] = TRUE]
  /\ mem' = [mem EXCEPT ![j] = "cancelled"]
  /\ told' = [told EXCEPT ![j] = "cancelling"]
  /\ UNCHANGED <<attempts, deletedIds, disk, dirVars, doomed>>

CancelRemoves(t) ==
  /\ ThreadStep(t, "cancelRemove", "cancelSave")
  /\ RemoveTree(tjob[t])
  /\ UNCHANGED <<memVars, disk, told, doomed>>

CancelSaves(t) ==
  /\ ThreadStep(t, "cancelSave", "idle")
  /\ Persist
  /\ told' = [told EXCEPT ![tjob[t]] = IF @ = "deleted" THEN @ ELSE "cancelled"]
  /\ UNCHANGED <<mem, attempts, line, cancelReq, dirVars, doomed>>

(* cancel_job of the running job: the flag, and its subprocess. *)
CancelRunning(t, j) ==
  /\ proc = "up" /\ tpc[t] = "idle"
  /\ mem[j] = "processing"
  /\ cancelReq' = [cancelReq EXCEPT ![j] = TRUE]
  /\ told' = [told EXCEPT ![j] = "cancelling"]
  /\ UNCHANGED <<proc, mem, attempts, deletedIds, line, disk, dirVars, importVars, workVars, thrVars, sweepVars, doomed, starts, crashes>>

(* delete_job: directory, deletion record, table, persist. *)
DeleteBegins(t, j) ==
  /\ Takes(t, j, "deleteRemove")
  /\ mem[j] \in Terminal
  /\ doomed' = doomed \cup {j}
  /\ UNCHANGED <<memVars, disk, dirVars, told>>

DeleteRemoves(t) ==
  /\ ThreadStep(t, "deleteRemove", "deleteMark")
  /\ RemoveTree(tjob[t])
  /\ UNCHANGED <<memVars, disk, told, doomed>>

(* Variant: the record is only kept when the files went away. *)
DeleteMarksIfGone(t) ==
  /\ ThreadStep(t, "deleteMark", "deleteForget")
  /\ deletedIds' = IF tjob[t] \in present THEN deletedIds ELSE deletedIds \cup {tjob[t]}
  /\ UNCHANGED <<mem, attempts, line, cancelReq, disk, dirVars, told, doomed>>

DeleteMarks(t) ==
  /\ ThreadStep(t, "deleteMark", "deleteForget")
  /\ deletedIds' = deletedIds \cup {tjob[t]}
  /\ UNCHANGED <<mem, attempts, line, cancelReq, disk, dirVars, told, doomed>>

DeleteForgets(t) ==
  /\ ThreadStep(t, "deleteForget", "deleteSave")
  /\ mem' = [mem EXCEPT ![tjob[t]] = "none"]
  /\ UNCHANGED <<attempts, deletedIds, line, cancelReq, disk, dirVars, told, doomed>>

DeleteSaves(t) ==
  /\ ThreadStep(t, "deleteSave", "idle")
  /\ Persist
  /\ told' = [told EXCEPT ![tjob[t]] = "deleted"]
  /\ UNCHANGED <<mem, attempts, line, cancelReq, dirVars, doomed>>

(* Every other handler that persists: edits, reorder, vocal split. *)
EditSaves(t) ==
  /\ proc = "up" /\ tpc[t] = "idle"
  /\ Persist
  /\ UNCHANGED <<proc, mem, attempts, line, cancelReq, dirVars, importVars, workVars, thrVars, sweepVars, histVars>>

Handler(t) == \/ \E j \in Jobs : CancelWaiting(t, j) \/ CancelRunning(t, j) \/ DeleteBegins(t, j)
              \/ CancelRemoves(t) \/ CancelSaves(t)
              \/ DeleteRemoves(t) \/ DeleteMarks(t) \/ DeleteForgets(t) \/ DeleteSaves(t)
              \/ EditSaves(t)

----------------------------------------------------------------------------
(* sweep_old_jobs, in a thread of its own. *)

SweepStep(from, to) ==
  /\ proc = "up" /\ spc = from /\ spc' = to
  /\ UNCHANGED <<proc, line, cancelReq, attempts, importVars, workVars, thrVars, starts, crashes>>

(* all_jobs, and the directory listing. *)
SweepBegins ==
  /\ AutoDelete
  /\ SweepStep("idle", "scan")
  /\ snap' = {j \in Jobs : mem[j] # "none"}
  /\ todo' = present
  /\ removed' = FALSE
  /\ UNCHANGED <<sjob, mem, deletedIds, disk, dirVars, told, doomed>>

(* Variant: only the age counts. *)
SweepMayTakeOld(j) == j \in snap \/ (mem[j] = "none" /\ j \notin uploading)

(* A job of the snapshot has to be closed out; a directory of none has to  *)
(* be old, which one that is just being filled or was just filled is not.  *)
SweepMayTake(j) == IF j \in snap THEN mem[j] \in Terminal \cup {"none"}
                   ELSE mem[j] = "none" /\ j \notin uploading

SweepRemoves ==
  /\ SweepStep("scan", "forget")
  /\ \E j \in todo : /\ SweepMayTake(j)
                     /\ sjob' = j /\ todo' = todo \ {j}
                     /\ doomed' = doomed \cup {j}
                     /\ RemoveTree(j)
  /\ UNCHANGED <<snap, removed, mem, deletedIds, disk, told>>

SweepForgets ==
  /\ SweepStep("forget", "scan")
  /\ mem' = [mem EXCEPT ![sjob] = "none"]
  /\ removed' = TRUE /\ sjob' = None
  /\ UNCHANGED <<snap, todo, deletedIds, disk, dirVars, told, doomed>>

(* Whatever is left is young or in use; persist if anything went. *)
SweepEnds ==
  /\ SweepStep("scan", "idle")
  /\ IF removed THEN Persist ELSE UNCHANGED <<deletedIds, disk>>
  /\ snap' = {} /\ todo' = {} /\ removed' = FALSE
  /\ UNCHANGED <<sjob, mem, dirVars, told, doomed>>

Sweep == SweepBegins \/ SweepRemoves \/ SweepForgets \/ SweepEnds

----------------------------------------------------------------------------
(* The process dies, and starts again. *)

Crash ==
  /\ proc # "down" /\ crashes < MaxCrashes
  /\ crashes' = crashes + 1
  /\ proc' = "down"
  /\ mem' = [j \in Jobs |-> "none"] /\ attempts' = [j \in Jobs |-> 0]
  /\ deletedIds' = {} /\ line' = {}
  /\ cancelReq' = [j \in Jobs |-> FALSE]
  /\ accepting' = None /\ uploading' = {}
  /\ wpc' = "idle" /\ wjob' = None
  /\ tpc' = [t \in Threads |-> "idle"] /\ tjob' = [t \in Threads |-> None]
  /\ spc' = "idle" /\ sjob' = None /\ snap' = {} /\ todo' = {} /\ removed' = FALSE
  /\ UNCHANGED <<disk, dirVars, told, doomed, starts>>

InFlight(j) == disk.status[j] \in Resumable

(* Variants: nobody looks for stems; nobody looks for orphans. *)
LandedIgnored(j) == stems[j] # stems[j]
AdoptedNever(j)  == stems[j] # stems[j]

(* _recover_done_job: any stem on disk counts as a finished separation. *)
Landed(j) == stems[j] # {}

(* Orphan recovery: a directory of a finished job no record stands for. *)
Adopted(j) == Landed(j) /\ j \notin disk.deleted

Record(j) == IF disk.status[j] = "done" /\ j \in Untitled THEN "none" ELSE disk.status[j]

RestoredStatus(j) ==
  IF Record(j) = "done" THEN "done"
  ELSE IF Record(j) = "none" THEN IF Adopted(j) THEN "done" ELSE "none"
  ELSE IF Landed(j) THEN "done"
  ELSE IF disk.attempts[j] + 1 > MaxResume THEN "error"
  ELSE "queued"

(* Recovered jobs are built afresh from the directory; a job put back in    *)
(* the line, or given up, has used up one more attempt.                     *)
RestoredAttempts(j) ==
  IF Record(j) = "done" THEN disk.attempts[j]
  ELSE IF InFlight(j) /\ ~Landed(j) THEN disk.attempts[j] + 1
  ELSE 0

(* restore, up to its own persist.  The jobs to resume enter the line, in a *)
(* paused queue, once the process serves.                                   *)
Restore ==
  /\ proc = "down"
  /\ proc' = "loaded"
  /\ mem' = [j \in Jobs |-> RestoredStatus(j)]
  /\ attempts' = [j \in Jobs |-> RestoredAttempts(j)]
  /\ deletedIds' = disk.deleted
  /\ told' = [j \in Jobs |-> IF RestoredStatus(j) = "error" THEN "failed" ELSE told[j]]
  /\ UNCHANGED <<line, cancelReq, disk, dirVars, importVars, workVars, thrVars, sweepVars, doomed, starts, crashes>>

(* Variant: the bumped counter stays in memory. *)
ServeUnsaved ==
  /\ proc = "loaded"
  /\ proc' = "up"
  /\ line' = {j \in Jobs : mem[j] = "queued"}
  /\ UNCHANGED <<mem, attempts, deletedIds, cancelReq, disk, dirVars, importVars, workVars, thrVars, sweepVars, histVars>>

Serve ==
  /\ proc = "loaded"
  /\ proc' = "up"
  /\ IF \E j \in Jobs : InFlight(j) \/ (Record(j) = "none" /\ Adopted(j))
     THEN Persist ELSE UNCHANGED <<deletedIds, disk>>
  /\ line' = {j \in Jobs : mem[j] = "queued"}
  /\ UNCHANGED <<mem, attempts, cancelReq, dirVars, importVars, workVars, thrVars, sweepVars, histVars>>

Next == \/ \E j \in Jobs : UploadStores(j) \/ UploadRefuses(j) \/ Register(j)
        \/ Acknowledge
        \/ Worker
        \/ \E t \in Threads : Handler(t)
        \/ Sweep
        \/ Crash \/ Restore \/ Serve

Spec == Init /\ [][Next]_vars

----------------------------------------------------------------------------
TypeOK ==
  /\ proc \in {"down", "loaded", "up"}
  /\ mem \in [Jobs -> Status]
  /\ attempts \in [Jobs -> Nat]
  /\ deletedIds \in SUBSET Jobs /\ line \in SUBSET Jobs
  /\ cancelReq \in [Jobs -> BOOLEAN]
  /\ disk \in [status : [Jobs -> {"none"} \cup Persisted], attempts : [Jobs -> Nat], deleted : SUBSET Jobs]
  /\ present \in SUBSET Jobs /\ source \in SUBSET present
  /\ stems \in [Jobs -> SUBSET Stems]
  /\ accepting \in Jobs \cup {None} /\ uploading \in SUBSET Uploads
  /\ wpc \in {"idle", "run", "save", "saveFirst", "remove", "quarantine"}
  /\ wjob \in Jobs \cup {None}
  /\ tpc \in [Threads -> {"idle", "cancelRemove", "cancelSave", "deleteRemove",
                          "deleteMark", "deleteForget", "deleteSave"}]
  /\ tjob \in [Threads -> Jobs \cup {None}]
  /\ spc \in {"idle", "scan", "forget"} /\ sjob \in Jobs \cup {None}
  /\ snap \in SUBSET Jobs /\ todo \in SUBSET Jobs /\ removed \in BOOLEAN
  /\ told \in [Jobs -> {"nothing", "asked", "refused", "accepted", "cancelling",
                      "cancelled", "done", "failed", "deleted"}]
  /\ doomed \in SUBSET Jobs
  /\ starts \in [Jobs -> Nat] /\ crashes \in 0..MaxCrashes

(* Issue 521: a song the user deleted does not come back, also when its     *)
(* files outlived the delete and however often the process dies.            *)
DeletedStaysDeleted == \A j \in Jobs : told[j] = "deleted" => mem[j] = "none"

(* A finished import is still there after a crash, all its stems with it,   *)
(* unless its removal was begun.                                            *)
FinishedSurvives ==
  \A j \in Jobs \ doomed : told[j] = "done" =>
     /\ stems[j] = Stems
     /\ proc # "down" => mem[j] = "done"

(* An import that was acknowledged is never silently lost: until the user   *)
(* hears its outcome the running process knows it.                          *)
AcceptedNotLost ==
  \A j \in Jobs \ doomed : told[j] = "accepted" /\ proc # "down" => mem[j] # "none"

(* A waiting upload still has the file it is to be run on, up to 400 MB     *)
(* that exist nowhere else.                                                 *)
WaitingUploadHasItsFile ==
  \A j \in Uploads : told[j] = "accepted" /\ mem[j] = "queued" => j \in source

(* A job that takes the process down every time is not retried for ever:    *)
(* the counter reaches the disk before the job can start again.             *)
NoCrashLoop == \A j \in Jobs : starts[j] <= MaxResume + 1

(* The file does not forget a finished import while memory still has it.    *)
FileKeepsFinished ==
  [][\A j \in Jobs : disk.status[j] = "done" /\ disk'.status[j] # "done" => j \in doomed]_vars

(* The rest of the inductive invariant.  A restart finds nobody at work. *)
Quiet ==
  proc # "up" => /\ line = {} /\ accepting = None /\ uploading = {}
                 /\ wpc = "idle" /\ spc = "idle" /\ snap = {}
                 /\ \A t \in Threads : tpc[t] = "idle"
                 /\ \A j \in Jobs : ~cancelReq[j]

(* Stems lie in a directory, and a deletion record is of a deletion. *)
DiskShape ==
  /\ \A j \in Jobs : stems[j] # {} => j \in present
  /\ deletedIds \subseteq doomed /\ disk.deleted \subseteq doomed

(* An id that is not yet a job is nowhere. *)
FreshIdsUnknown ==
  /\ \A j \in uploading : told[j] = "asked"
  /\ \A j \in Jobs : told[j] = "nothing" \/ j \in uploading =>
       /\ mem[j] = "none" /\ disk.status[j] = "none" /\ starts[j] = 0 /\ attempts[j] = 0
       /\ told[j] = "nothing" => j \notin present \cup todo
       /\ j \notin doomed \cup snap /\ j \notin {wjob, accepting}
       /\ \A t \in Threads : j # tjob[t]

(* Whoever works on a job finds it in the status that suits the work. *)
ActorsInStep ==
  /\ \A j \in line : mem[j] = "queued"
  /\ \A j \in Jobs : cancelReq[j] /\ mem[j] \in Resumable => told[j] # "done"
  /\ wpc # "idle" => wjob \in Jobs
  /\ wpc = "run" => mem[wjob] = "processing"
  /\ wpc \in {"saveFirst", "remove", "quarantine"} =>
       mem[wjob] \in {"cancelled", "error", "none"} /\ told[wjob] # "done"
  /\ spc = "forget" => sjob \in doomed /\ mem[sjob] \in Terminal \cup {"none"}
  /\ \A t \in Threads :
       /\ tpc[t] # "idle" => tjob[t] \in Jobs
       /\ tpc[t] \in {"cancelRemove", "cancelSave"} =>
            mem[tjob[t]] \in {"cancelled", "none"} /\ told[tjob[t]] # "done"
       /\ tpc[t] \in {"deleteRemove", "deleteMark", "deleteForget", "deleteSave"} =>
            tjob[t] \in doomed /\ mem[tjob[t]] \in Terminal \cup {"none"}
       /\ tpc[t] \in {"deleteForget", "deleteSave"} /\ tjob[t] \in present => tjob[t] \in deletedIds
       /\ tpc[t] = "deleteSave" => mem[tjob[t]] = "none"

(* A deleted job has no record, and none of its files goes without one. *)
DeletedLeavesNoTrace ==
  \A j \in Jobs : told[j] = "deleted" =>
     /\ mem[j] = "none" /\ disk.status[j] = "none"
     /\ j \in present => j \in disk.deleted /\ (proc # "down" => j \in deletedIds)

(* What is started is counted, on disk before it can be started again. *)
StartsCounted ==
  \A j \in Jobs :
     /\ starts[j] <= MaxResume + 1
     /\ mem[j] \in Resumable => attempts[j] <= MaxResume
     /\ mem[j] = "queued" => starts[j] <= attempts[j]
     /\ mem[j] = "processing" => starts[j] <= attempts[j] + 1
     /\ InFlight(j) => starts[j] <= disk.attempts[j] + 1
     /\ proc = "up" /\ mem[j] \in Resumable /\ InFlight(j) => disk.attempts[j] = attempts[j]
     /\ proc = "loaded" /\ mem[j] = "queued" => InFlight(j)

CoreInv == /\ TypeOK /\ Quiet /\ DiskShape /\ FreshIdsUnknown /\ ActorsInStep
           /\ FinishedSurvives /\ DeletedLeavesNoTrace /\ StartsCounted

(* Once a cancel or a failure has begun, the job is past its acceptance.   *)
Undecided == {"nothing", "asked", "accepted"}

EndingsAreTold ==
  /\ \A j \in Jobs : cancelReq[j] \/ mem[j] \in {"cancelled", "error"} => told[j] \notin Undecided
  /\ wpc \in {"saveFirst", "remove", "quarantine"} => told[wjob] \notin Undecided
  /\ \A t \in Threads : tpc[t] \in {"cancelRemove", "cancelSave"} => told[tjob[t]] \notin Undecided

(* A finished import is in the file, and its stems are there to adopt it   *)
(* by where the file's record is not taken over.                           *)
FinishedOnFile ==
  \A j \in Jobs \ doomed :
     /\ disk.status[j] = "done" \/ mem[j] = "done" => stems[j] # {}
     /\ disk.status[j] = "done" /\ proc # "down" => mem[j] = "done"

(* An import on its way in has its file; the acknowledged one is in the     *)
(* registry's file as well, and what memory has closed out is not on file   *)
(* as a job to be run again.                                                *)
AcceptedOnFile ==
  /\ uploading \subseteq source
  /\ \A j \in Jobs : mem[j] = "queued" \/ j \in uploading => stems[j] = {}
  /\ accepting # None /\ told[accepting] = "asked" =>
       mem[accepting] = "queued" /\ (accepting \in Uploads => accepting \in source)
  /\ \A j \in Jobs : told[j] = "accepted" =>
       /\ j \notin doomed => disk.status[j] # "none" /\ (proc # "down" => mem[j] \in Persisted)
       /\ proc = "up" /\ InFlight(j) => mem[j] \in Resumable
       /\ (mem[j] \in Resumable \/ (proc # "up" /\ InFlight(j))) /\ j \in Uploads /\ stems[j] = {} =>
            j \in source

IInv == CoreInv /\ EndingsAreTold /\ FinishedOnFile /\ AcceptedOnFile
=============================================================================
