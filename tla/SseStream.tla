------------------------------ MODULE SseStream ------------------------------
(***************************************************************************)
(* The event stream of one job: app/api/events.py, reading the Job that    *)
(* app/core/models.py (_set) changes in other threads.                     *)
(*                                                                         *)
(* The streams are generators on the event loop: one runs at a time, and   *)
(* between two of its awaits nothing else of the loop runs.  The pipeline  *)
(* thread and cancel_job write from threads of their own, field by field.  *)
(* Three fields stand for all that _set writes; progress and stage hold the *)
(* number of the _set that wrote them.  Others (the device, the timings,   *)
(* the stems and their peaks, the video) are written directly and move no  *)
(* version: aside counts those writes.                                     *)
(***************************************************************************)
EXTENDS Integers, FiniteSets

CONSTANTS
  Clients,   \* connections, each used again once its stream is gone
  MaxSlots,  \* _MAX_SSE_CONNECTIONS
  MaxWrites, \* bound: the number of _set calls before the last one
  MaxAside,  \* bound: the number of fields written directly
  NoFrame

ASSUME LimitsAssumption == MaxSlots \in Nat \ {0} /\ MaxWrites \in Nat \ {0} /\ MaxAside \in Nat
ASSUME ClientsAssumption == IsFiniteSet(Clients)

Terminal == {"done", "error", "cancelled"}
Numbers == 0..MaxWrites + 1
State == [status : {"queued", "processing", "separating"} \cup Terminal,
          progress : Numbers, stage : Numbers]

ASSUME NoFrameAssumption == NoFrame \notin State

VARIABLES
  job,       \* the fields
  version,   \* Job.version
  setting,   \* a thread is inside _set,
  base, target, \* which found the job like this and will leave it like that,
  pending,   \* and has these fields still to write
  aside,     \* how many fields were written without _set
  phase,     \* "waiting", "running", "returned" (the pipeline thread), "settled"
  sseActive, \* _sse_active
  held,      \* SseSlot._held of the client's slot
  pc,        \* the client's stream
  late,      \* loop.time() passed the deadline
  lastV, v, snapshot, asideRead, \* its variables; aside as the snapshot has it
  told, asideTold       \* the last frame it sent

jobVars    == <<job, version, setting, base, target, pending, phase, aside>>
streamVars == <<lastV, v, snapshot, asideRead, told, asideTold>>
sseVars == <<jobVars, sseActive, held, pc, late, streamVars>>

NoFields == [status |-> "queued", progress |-> 0, stage |-> 0]

StreamInit ==
  /\ job = NoFields
  /\ version = 0
  /\ setting = FALSE /\ base = job /\ target = job /\ pending = {}
  /\ phase = "waiting" /\ aside = 0
  /\ sseActive = 0 /\ held = [c \in Clients |-> FALSE]
  /\ pc = [c \in Clients |-> "off"]
  /\ late = [c \in Clients |-> FALSE]
  /\ lastV = [c \in Clients |-> -1] /\ v = [c \in Clients |-> -1]
  /\ snapshot = [c \in Clients |-> NoFields] /\ told = [c \in Clients |-> NoFrame]
  /\ asideRead = [c \in Clients |-> 0] /\ asideTold = [c \in Clients |-> 0]

----------------------------------------------------------------------------
(* The writers. *)

Running == {"look", "judge", "status", "progress", "stage", "aside", "check"}
LoopFree == \A c \in Clients : pc[c] \notin Running

Fields == {"status", "progress", "stage"}

(* The job once a _set of these values has landed. *)
With(values) == [f \in Fields |-> IF f \in DOMAIN values THEN values[f] ELSE job[f]]

Progressed == [progress |-> version + 1, stage |-> version + 1]
Staged     == [stage |-> version + 1]
Entered(s) == [status |-> s, progress |-> version + 1, stage |-> version + 1]
Closed(s)  == [status |-> s, stage |-> version + 1]

(* A _set on the event loop: no stream sees it half done. *)
SetsAtOnce(values) ==
  /\ LoopFree /\ ~setting
  /\ job' = With(values) /\ base' = job' /\ target' = job'
  /\ version' = version + 1
  /\ UNCHANGED <<setting, pending, aside, sseActive, held, pc, late, streamVars>>

(* A _set in another thread begins ... *)
Begins(values) ==
  /\ ~setting /\ setting' = TRUE
  /\ target' = With(values)
  /\ pending' = DOMAIN values
  /\ UNCHANGED <<job, base, version, aside, sseActive, held, pc, late, streamVars>>

(* The order in which its callers name the fields. *)
Before == [status |-> {}, progress |-> {"status"}, stage |-> {"status", "progress"}]

(* ... writes one field after the other ... *)
WritesField ==
  /\ \E f \in pending : /\ pending \cap Before[f] = {}
                        /\ job' = [job EXCEPT ![f] = target[f]]
                        /\ pending' = pending \ {f}
  /\ UNCHANGED <<version, setting, base, target, phase, aside, sseActive, held, pc, late, streamVars>>

(* ... and bumps the version. *)
Bumps ==
  /\ setting /\ pending = {}
  /\ version' = version + 1
  /\ setting' = FALSE /\ base' = job
  /\ UNCHANGED <<job, target, pending, phase, aside, sseActive, held, pc, late, streamVars>>

(* The queue worker claims the job, or closes it out if a cancel came first. *)
Claims == phase = "waiting" /\ phase' = "running" /\ SetsAtOnce(Entered("processing"))
Drops  == phase = "waiting" /\ phase' = "settled" /\ SetsAtOnce(Closed("cancelled"))

(* cancel_job takes a waiting job out of the queue. *)
CancelDiscards == phase = "waiting" /\ phase' = "settled" /\ Begins(Closed("cancelled"))

(* A stage begins, reports progress, or says what it is doing. *)
PipelineSets ==
  /\ phase = "running" /\ phase' = phase
  /\ version < MaxWrites
  /\ \E values \in {Entered("separating"), Progressed, Staged} : Begins(values)

(* Variant: something is still to be written when the job is over. *)
PipelineWritesLate ==
  /\ phase \in {"running", "settled"} /\ ~setting
  /\ aside < MaxAside /\ aside' = aside + 1
  /\ UNCHANGED <<job, version, setting, base, target, pending, phase, sseActive, held, pc, late, streamVars>>

(* Or it writes a field of the Job as it is, and the version does not move. *)
PipelineWrites ==
  /\ phase = "running" /\ ~setting
  /\ aside < MaxAside /\ aside' = aside + 1
  /\ UNCHANGED <<job, version, setting, base, target, pending, phase, sseActive, held, pc, late, streamVars>>

PipelineReturns ==
  /\ phase = "running" /\ ~setting
  /\ phase' = "returned"
  /\ UNCHANGED <<job, version, setting, base, target, pending, aside, sseActive, held, pc, late, streamVars>>

(* _run_async, back on the loop. *)
Settles ==
  /\ phase = "returned" /\ phase' = "settled"
  /\ \E values \in {Entered("done"), Closed("error"), Closed("cancelled")} : SetsAtOnce(values)

Writers == WritesField \/ Bumps
Writing == Writers \/ Claims \/ Drops \/ CancelDiscards \/ PipelineSets
           \/ PipelineWrites \/ PipelineReturns \/ Settles

----------------------------------------------------------------------------
(* The slots. *)

(* Variant: release counts down whether or not the slot is still held. *)
ReleasesTwice(c) ==
  /\ held' = [held EXCEPT ![c] = FALSE]
  /\ sseActive' = sseActive - 1

(* SseSlot.release. *)
Releases(c) ==
  /\ held' = [held EXCEPT ![c] = FALSE]
  /\ sseActive' = IF held[c] THEN sseActive - 1 ELSE sseActive

(* job_events: the slot is claimed before the generator exists.  At the    *)
(* limit the answer is 503 and nothing changes.                            *)
Connects(c) ==
  /\ pc[c] = "off" /\ LoopFree
  /\ sseActive < MaxSlots
  /\ sseActive' = sseActive + 1
  /\ held' = [held EXCEPT ![c] = TRUE]
  /\ pc' = [pc EXCEPT ![c] = "made"]
  /\ UNCHANGED <<jobVars, late, streamVars>>

(* The client is gone before the body begins: no finally will run. *)
NeverStarts(c) ==
  /\ pc[c] = "made" /\ LoopFree
  /\ pc' = [pc EXCEPT ![c] = "ended"]
  /\ UNCHANGED <<jobVars, sseActive, held, late, streamVars>>

(* Variant: without __del__ (issue 513). *)
CollectedOnly(c) ==
  /\ pc[c] = "ended"
  /\ pc' = [pc EXCEPT ![c] = "off"]
  /\ UNCHANGED <<jobVars, sseActive, held, late, streamVars>>

(* The generator and its slot are collected: __del__. *)
Collected(c) ==
  /\ pc[c] = "ended"
  /\ Releases(c)
  /\ pc' = [pc EXCEPT ![c] = "off"]
  /\ UNCHANGED <<jobVars, late, streamVars>>

----------------------------------------------------------------------------
(* The stream of client c. *)

StreamStep(c, from, to) ==
  /\ pc[c] = from /\ pc' = [pc EXCEPT ![c] = to]
  /\ UNCHANGED <<jobVars, sseActive, held, late>>

(* Out of the loop: finally.  The generator's variables are gone. *)
Ends(c) ==
  /\ pc' = [pc EXCEPT ![c] = "ended"]
  /\ Releases(c)
  /\ late' = [late EXCEPT ![c] = FALSE]
  /\ lastV' = [lastV EXCEPT ![c] = -1] /\ v' = [v EXCEPT ![c] = -1]
  /\ snapshot' = [snapshot EXCEPT ![c] = NoFields] /\ asideRead' = [asideRead EXCEPT ![c] = 0]
  /\ told' = [told EXCEPT ![c] = NoFrame] /\ asideTold' = [asideTold EXCEPT ![c] = 0]
  /\ UNCHANGED jobVars

Starts(c) ==
  /\ LoopFree
  /\ StreamStep(c, "made", "look") /\ UNCHANGED streamVars

Wakes(c) == LoopFree /\ StreamStep(c, "asleep", "look") /\ UNCHANGED streamVars

Expires(c) == pc[c] = "look" /\ late[c] /\ Ends(c)

(* Has the version moved? *)
Looks(c) ==
  /\ ~late[c]
  /\ v' = [v EXCEPT ![c] = version]
  /\ \/ version # lastV[c] /\ StreamStep(c, "look", "status")
     \/ version = lastV[c] /\ StreamStep(c, "look", "judge")
  /\ UNCHANGED <<lastV, snapshot, asideRead, told, asideTold>>

(* It has not: go back to sleep, or close if the job is over. *)
GoesOn(c) ==
  /\ job.status \notin Terminal
  /\ StreamStep(c, "judge", "asleep") /\ UNCHANGED streamVars
FindsJobOver(c) ==
  /\ pc[c] = "judge" /\ job.status \in Terminal
  /\ Ends(c)

(* to_state, one field after the other. *)
Reads(c) ==
  /\ \/ StreamStep(c, "status", "progress")
     \/ StreamStep(c, "progress", "stage")
     \/ StreamStep(c, "stage", "aside")
  /\ snapshot' = [snapshot EXCEPT ![c][pc[c]] = job[pc[c]]]
  /\ UNCHANGED <<lastV, v, asideRead, told, asideTold>>
ReadsAside(c) ==
  /\ StreamStep(c, "aside", "check")
  /\ asideRead' = [asideRead EXCEPT ![c] = aside]
  /\ UNCHANGED <<lastV, v, snapshot, told, asideTold>>

(* A snapshot that was sent or discarded is not looked at again. *)
Forgets(c) ==
  /\ snapshot' = [snapshot EXCEPT ![c] = NoFields] /\ asideRead' = [asideRead EXCEPT ![c] = 0]
  /\ UNCHANGED <<lastV, v>>

(* Variant: the snapshot is sent as it is. *)
ChecksNothing(c) ==
  /\ StreamStep(c, "check", "sending")
  /\ told' = [told EXCEPT ![c] = snapshot[c]] /\ asideTold' = [asideTold EXCEPT ![c] = asideRead[c]]
  /\ Forgets(c)

(* A snapshot during which a _set landed is discarded. *)
Checks(c) ==
  /\ \/ /\ StreamStep(c, "check", "sending") /\ version = v[c]
        /\ told' = [told EXCEPT ![c] = snapshot[c]]
        /\ asideTold' = [asideTold EXCEPT ![c] = asideRead[c]]
     \/ /\ StreamStep(c, "check", "look") /\ version # v[c]
        /\ UNCHANGED <<told, asideTold>>
  /\ Forgets(c)

(* Variant: the version is read once more, after the yield. *)
ReadsVersionAgain(c) ==
  /\ LoopFree
  /\ StreamStep(c, "sending", "asleep")
  /\ told[c].status \notin Terminal
  /\ lastV' = [lastV EXCEPT ![c] = version] /\ v' = [v EXCEPT ![c] = -1]
  /\ UNCHANGED <<snapshot, asideRead, told, asideTold>>

(* Back from the yield. *)
Sent(c) ==
  /\ LoopFree
  /\ StreamStep(c, "sending", "asleep")
  /\ told[c].status \notin Terminal
  /\ lastV' = [lastV EXCEPT ![c] = v[c]] /\ v' = [v EXCEPT ![c] = -1]
  /\ UNCHANGED <<snapshot, asideRead, told, asideTold>>
SentLast(c) ==
  /\ LoopFree
  /\ pc[c] = "sending" /\ told[c].status \in Terminal
  /\ Ends(c)

(* The client leaves while the generator waits. *)
Disconnects(c) == LoopFree /\ pc[c] \in {"sending", "asleep"} /\ Ends(c)

(* Four hours. *)
TimePasses(c) ==
  /\ ~late[c] /\ pc[c] \in {"look", "sending", "asleep"}
  /\ late' = [late EXCEPT ![c] = TRUE]
  /\ UNCHANGED <<jobVars, sseActive, held, pc, streamVars>>

StreamGoesOn(c) == \/ Starts(c) \/ Wakes(c) \/ Expires(c) \/ Looks(c) \/ GoesOn(c)
                   \/ FindsJobOver(c) \/ Reads(c) \/ ReadsAside(c) \/ Checks(c) \/ Sent(c) \/ SentLast(c)
                   \/ Collected(c)

StreamNext ==
  \/ Writing
  \/ \E c \in Clients : \/ StreamGoesOn(c) \/ Connects(c) \/ NeverStarts(c)
                        \/ Disconnects(c) \/ TimePasses(c)

StreamSpec == StreamInit /\ [][StreamNext]_sseVars

(* A thread finishes its _set; the event loop gets round to every stream;  *)
(* what nothing refers to is collected.  Nobody has to connect or leave,   *)
(* no job has to end, and the four hours need not pass.                    *)
StreamFairness == WF_sseVars(Writers) /\ \A c \in Clients : SF_sseVars(StreamGoesOn(c))

StreamFairSpec == StreamSpec /\ StreamFairness

----------------------------------------------------------------------------
(* The budget is never overdrawn; a stream never runs before its turn. *)
StreamTypeOK ==
  /\ job \in State /\ version \in Numbers
  /\ setting \in BOOLEAN /\ base \in State /\ target \in State
  /\ pending \in SUBSET Fields
  /\ phase \in {"waiting", "running", "returned", "settled"}
  /\ sseActive \in 0..MaxSlots
  /\ held \in [Clients -> BOOLEAN]
  /\ pc \in [Clients -> Running \cup {"off", "made", "sending", "asleep", "ended"}]
  /\ late \in [Clients -> BOOLEAN]
  /\ lastV \in [Clients -> Numbers \cup {-1}] /\ v \in [Clients -> Numbers \cup {-1}]
  /\ snapshot \in [Clients -> State] /\ told \in [Clients -> State \cup {NoFrame}]
  /\ aside \in 0..MaxAside
  /\ asideRead \in [Clients -> 0..MaxAside] /\ asideTold \in [Clients -> 0..MaxAside]

(* Every slot counted is held by a stream that can still give it back: none *)
(* leaks, none is given back twice.                                         *)
SlotsCounted ==
  /\ sseActive = Cardinality({c \in Clients : held[c]})
  /\ \A c \in Clients : held[c] => pc[c] # "off"

(* A stream that sees no new version has shown its client what _set wrote   *)
(* as it is, unless a _set is under way: none of its changes is slept       *)
(* through.  What is written directly shows with the next of them.          *)
ShowsTheJob ==
  \A c \in Clients : pc[c] = "asleep" /\ lastV[c] = version /\ ~setting => told[c] = job

(* The frame that ends a stream shows all that was written directly: no     *)
(* device, timing or stem is missing from what the page keeps of the job.   *)
LastFrameIsWhole ==
  \A c \in Clients : told[c] # NoFrame /\ told[c].status \in Terminal => asideTold[c] = aside

(* Of what _set writes, a frame that is sent while nobody writes is the job *)
(* at that moment; one that is sent in the middle of a _set mixes the job   *)
(* before and after this one _set, never more of them.                      *)
FrameIsExact ==
  [][\A c \in Clients : told'[c] \notin {told[c], NoFrame} =>
       /\ ~setting => told'[c] = job
       /\ \A f \in Fields : told'[c][f] \in {base[f], target[f]}]_sseVars

(* Every change reaches every client that stays, or a later one does.       *)
ChangeReachesClient ==
  \A c \in Clients, n \in 1..MaxWrites + 1 :
    pc[c] \in Running \cup {"sending", "asleep"} /\ version = n ~>
       \/ pc[c] \in {"ended", "off"}
       \/ told[c] # NoFrame /\ told[c].stage >= n

(* A slot comes back when the job is over, and when the client left before  *)
(* the stream began (issue 513).                                            *)
SlotComesBack ==
  \A c \in Clients : held[c] /\ (pc[c] = "ended" \/ job.status \in Terminal) ~> ~held[c]

----------------------------------------------------------------------------
(* The rest of the inductive invariant.  No writer at work: the job is what *)
(* the last _set made of it.  How far the version can be in which phase.    *)
WritersInStep ==
  /\ ~setting => pending = {} /\ base = job /\ target = job
  /\ setting => /\ \A f \in Fields \ pending : job[f] = target[f]
                /\ \A f \in pending : job[f] = base[f]
  /\ {job.status, target.status} \cap Terminal # {} => phase = "settled"
  /\ phase = "waiting" => version = 0 /\ ~setting
  /\ phase = "running" => version <= MaxWrites /\ (setting => version < MaxWrites)
  /\ phase = "returned" => version <= MaxWrites /\ ~setting
  /\ phase = "settled" /\ setting => version <= MaxWrites

(* A stream that is serialising remembers an older version than the one it  *)
(* serialises.  What it has read so far is the job's, unless a _set came in *)
(* between, and then only that _set's; what it sent last is the job's,      *)
(* unless the version has moved.                                            *)
Unmoved(w) == w = version /\ ~setting
ReadAfter == [status |-> {"progress", "stage", "aside", "check"}, progress |-> {"stage", "aside", "check"},
              stage |-> {"aside", "check"}]
StreamsInStep ==
  \A c \in Clients :
    /\ pc[c] \in {"off", "made", "ended"} => lastV[c] = -1 /\ told[c] = NoFrame
    /\ lastV[c] <= version
    /\ pc[c] \in {"status", "progress", "stage", "aside", "check", "sending"} =>
          lastV[c] < v[c] /\ v[c] <= version
    /\ pc[c] \in {"judge", "asleep"} => lastV[c] # -1
    /\ pc[c] = "sending" \/ lastV[c] # -1 => told[c] # NoFrame
    /\ \A f \in Fields : pc[c] \in ReadAfter[f] /\ v[c] = version =>
          /\ snapshot[c][f] \in {base[f], target[f]}
          /\ ~setting => snapshot[c][f] = job[f]
    /\ pc[c] = "sending" /\ Unmoved(v[c]) => told[c] = job
    /\ pc[c] \in {"look", "judge", "asleep"} /\ lastV[c] # -1 /\ Unmoved(lastV[c]) =>
          told[c] = job

(* Whoever has seen the job end sees the last of what is written directly.  *)
EndsShown ==
  \A c \in Clients :
    /\ snapshot[c].status \in Terminal => phase = "settled" /\ (pc[c] = "check" => asideRead[c] = aside)
    /\ told[c] # NoFrame /\ told[c].status \in Terminal => phase = "settled" /\ asideTold[c] = aside

StreamIInv == StreamTypeOK /\ SlotsCounted /\ WritersInStep /\ StreamsInStep /\ EndsShown
=============================================================================
