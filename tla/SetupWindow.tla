------------------------------ MODULE SetupWindow ------------------------------
(***************************************************************************)
(* The window of the desktop app before the backend is up: runSetup and    *)
(* installRuntimePack of src/desktop/ui/setup.js, against the commands of  *)
(* the shell.  A run of setup is suspended at each command; Retry starts   *)
(* another one, which may overtake the first: the GPU step shows the       *)
(* button and goes on.  A command answers or times out in the end, but for *)
(* the ones that start the Python of the runtime and wait without a limit: *)
(* the probes and the check of the GPU may never answer.                   *)
(***************************************************************************)
EXTENDS Integers, FiniteSets

CONSTANT MaxActs  \* bound: clicks on Retry and commands that fail or hang

SetupAssumption == MaxActs \in Nat

VARIABLES sw, acts

setupVars == <<sw, acts>>
Steps == {"runtime", "workspace", "ffmpeg", "gpu", "model", "backend"}
Runs == 1..(MaxActs + 1)
(* Where a run waits: for a command, for the 200 ms before the workspace    *)
(* step, for the health of the backend, for what never answers (hung); or   *)
(* it is over.                                                              *)
Waits == {"none", "probe", "status", "ensure", "pack", "listen", "local", "download", "verify", "extract", "again",
          "pause", "workspace", "ffmpeg", "gpu", "model", "start", "health", "hung", "over"}

(* runtime, aside: the install and the one an extract has moved aside: not  *)
(* there, without a Python that runs, of another version, or the one this   *)
(* build expects (or it expects none).  settled: the torch device is.       *)
(* archive: the downloaded pack.  sees: what a run knows of the disk.       *)
Kinds == {"none", "broken", "stale", "current"}
Disks == [runtime : Kinds, aside : Kinds, ffmpeg : BOOLEAN, settled : BOOLEAN]
Views == [python : BOOLEAN, current : BOOLEAN, ffmpeg : BOOLEAN, settled : BOOLEAN]
view(d) == [python |-> d.runtime \in {"stale", "current"}, current |-> d.runtime = "current",
            ffmpeg |-> d.ffmpeg, settled |-> d.settled]
Unseen == [python |-> FALSE, current |-> FALSE, ffmpeg |-> FALSE, settled |-> FALSE]

Windows == [disk : Disks, archive : {"none", "bad", "good"}, at : [Runs -> Waits], sees : [Runs -> Views],
            step : [Steps -> {"plain", "active", "done", "error"}], retry : BOOLEAN, opened : BOOLEAN, handles : BOOLEAN,
            starting : 0..(MaxActs + 1), listening : SUBSET Runs, unlisten : 0..(MaxActs + 1)]
SetupTypeOK == sw \in Windows /\ acts \in 0..MaxActs

Act == acts < MaxActs /\ acts' = acts + 1
Untouched == [s \in Steps |-> "plain"]

(* runSetup up to its first command.                                        *)
begun(q, r) == [q EXCEPT !.retry = FALSE, !.step = [Untouched EXCEPT !["runtime"] = "active"], !.at[r] = "probe"]

(* The window opens on any disk the launches before have left, also one     *)
(* that was closed between the two renames of an extract.                   *)
SetupInit ==
  /\ \E d \in Disks, a \in {"none", "bad", "good"} :
       sw = begun([disk |-> d, archive |-> a, at |-> [r \in Runs |-> "none"], sees |-> [r \in Runs |-> Unseen],
                  step |-> Untouched, retry |-> FALSE, opened |-> FALSE, handles |-> FALSE, starting |-> 0,
                  listening |-> {}, unlisten |-> 0], 1)
  /\ acts = 0

(* ------------------------- the pieces of a run -------------------------- *)
Waiting(r, where) == ~sw.opened /\ sw.at[r] = where
to(q, r, where) == [q EXCEPT !.at[r] = where]
setStep(q, s, state) == [q EXCEPT !.step[s] = state]
runStep(q, r, s) == to(setStep(q, s, "active"), r, s)

showError(q) ==
  [q EXCEPT !.step = [s \in Steps |-> IF @[s] = "active" THEN "error" ELSE @[s]], !.retry = TRUE]

(* The finally of installRuntimePack, for a run that is inside of it.       *)
unlistened(q, r) ==
  IF r \in q.listening THEN [q EXCEPT !.listening = @ \ {r}, !.unlisten = 0] ELSE q

StepOf == [w \in Waits |-> CASE w \in {"workspace", "ffmpeg", "gpu", "model"} -> w
                             [] w \in {"start", "health"} -> "backend"
                             [] OTHER -> "runtime"]
(* The error of a command ends its run: the step, the listener, the window. *)
thrown(q, r) == to(showError(unlistened(setStep(q, StepOf[q.at[r]], "error"), r)), r, "over")

(* ------------------------------- the disk ------------------------------- *)
(* ensure_workspace puts the runtime an extract has moved aside back, if it *)
(* can be renamed.                                                          *)
recovered(d) ==
  {d} \cup IF d.runtime = "none" THEN {[d EXCEPT !.runtime = d.aside, !.aside = "none"]} ELSE {}
(* A directory that is removed may be left half removed.                    *)
removing(kind) == IF kind = "none" THEN {"none"} ELSE {"none", "broken", kind}
(* What an extract that fails may leave: all as it was, the runtime moved   *)
(* aside for good removed, or the one that is in use moved aside.           *)
halfway(d) ==
  {[d EXCEPT !.aside = a] : a \in removing(d.aside)} \cup {[d EXCEPT !.runtime = "none", !.aside = d.runtime]}
swapped(d) ==
  [runtime : {"current", "broken"}, aside : removing(d.runtime), ffmpeg : {d.ffmpeg}, settled : {d.settled}]

(* --------------------------- commands answer ---------------------------- *)
Probed(r) == Waiting(r, "probe") /\ sw' = [to(sw, r, "status") EXCEPT !.sees[r] = view(sw.disk)] /\ UNCHANGED acts

(* The probe does not tell the version: it is asked for now.                *)
early(q, r) == q.sees[r].python /\ q.sees[r].ffmpeg /\ q.sees[r].settled /\ q.sees[r].current
allButBackend(q, r) ==
  to([q EXCEPT !.step = [s \in Steps |-> IF s = "backend" THEN "active" ELSE "done"]], r, "start")
StatusKnown(r) == Waiting(r, "status") /\
  LET q == [sw EXCEPT !.sees[r].current = sw.disk.runtime = "current"]
  IN sw' = (CASE early(q, r) -> allButBackend(q, r)
              [] ~early(q, r) /\ ~(q.sees[r].python /\ q.sees[r].current) -> to(q, r, "ensure")
              [] OTHER -> to(setStep(q, "runtime", "done"), r, "pause"))
  /\ UNCHANGED acts

Ensured(r) == Waiting(r, "ensure") /\ (\E d \in recovered(sw.disk) : sw' = [to(sw, r, "pack") EXCEPT !.disk = d])
  /\ UNCHANGED acts

(* A listener an earlier run left behind goes before the next one comes.    *)
dropLeft(q) == IF q.unlisten = 0 THEN q ELSE [q EXCEPT !.listening = @ \ {q.unlisten}, !.unlisten = 0]
PackKnown(r) == Waiting(r, "pack") /\ sw' = to(dropLeft(sw), r, "listen") /\ UNCHANGED acts
Listening(r) == Waiting(r, "listen") /\
  sw' = [to(sw, r, IF sw.archive = "none" THEN "download" ELSE "local")
           EXCEPT !.listening = @ \cup {r}, !.unlisten = r] /\ UNCHANGED acts

(* A local archive that is not the expected one is removed, and downloaded  *)
(* again.                                                                   *)
LocalVerified(r) == Waiting(r, "local") /\
  sw' = (IF sw.archive = "good" THEN to(sw, r, "extract") ELSE [to(sw, r, "download") EXCEPT !.archive = "none"])
  /\ UNCHANGED acts
Downloaded(r) == Waiting(r, "download") /\ sw' = [to(sw, r, "verify") EXCEPT !.archive = "good"] /\ UNCHANGED acts
Verified(r) == Waiting(r, "verify") /\ sw.archive = "good" /\ sw' = to(sw, r, "extract") /\ UNCHANGED acts
Extracted(r) == Waiting(r, "extract") /\ sw.archive = "good" /\
  (\E e \in recovered(sw.disk) : \E d \in swapped(e) :
     sw' = to(unlistened([sw EXCEPT !.disk = d, !.archive = "none"], r), r, "again"))
  /\ UNCHANGED acts
(* A pack whose Python does not run is an error.                            *)
ProbedAgain(r) == Waiting(r, "again") /\
  sw' = (IF view(sw.disk).python
         THEN to([setStep(sw, "runtime", "done") EXCEPT !.sees[r] = view(sw.disk)], r, "pause")
         ELSE thrown(sw, r))
  /\ UNCHANGED acts

PauseOver(r) == Waiting(r, "pause") /\ sw' = runStep(sw, r, "workspace") /\ UNCHANGED acts
WorkspaceDone(r) == Waiting(r, "workspace") /\ (\E d \in recovered(sw.disk) :
  LET q == setStep([sw EXCEPT !.disk = d], "workspace", "done")
  IN sw' = (IF q.sees[r].ffmpeg THEN runStep(setStep(q, "ffmpeg", "done"), r, "gpu") ELSE runStep(q, r, "ffmpeg")))
  /\ UNCHANGED acts
FfmpegDone(r) == Waiting(r, "ffmpeg") /\
  sw' = runStep(setStep([sw EXCEPT !.disk.ffmpeg = TRUE], "ffmpeg", "done"), r, "gpu") /\ UNCHANGED acts

(* A GPU that cannot be used is shown as an error, and the run goes on.     *)
GpuDone(r) == Waiting(r, "gpu") /\ (\E settled, unverified \in BOOLEAN :
  /\ settled => ~unverified
  /\ LET q == [sw EXCEPT !.disk.settled = settled]
     IN sw' = runStep(setStep(IF unverified THEN showError(q) ELSE q, "gpu", "done"), r, "model"))
  /\ UNCHANGED acts

(* Models that cannot be fetched now are fetched when they are needed.      *)
ModelDone(r) == Waiting(r, "model") /\
  sw' = to(setStep(setStep(sw, "model", "done"), "backend", "active"), r, "start") /\ UNCHANGED acts

(* start_backend: one that is up is used, one that is starting is an error. *)
StartBackend(r) == Waiting(r, "start") /\
  sw' = (CASE sw.handles -> [to(setStep(sw, "backend", "done"), r, "over") EXCEPT !.opened = TRUE]
           [] ~sw.handles /\ sw.starting # 0 -> thrown(sw, r)
           [] OTHER -> [to(sw, r, "health") EXCEPT !.starting = r])
  /\ UNCHANGED acts
BackendUp(r) == Waiting(r, "health") /\
  sw' = [to(setStep(sw, "backend", "done"), r, "over") EXCEPT !.starting = 0, !.handles = TRUE, !.opened = TRUE]
  /\ UNCHANGED acts

(* A command fails or times out; a failed local check and a failed warm-up  *)
(* are no errors.  An archive that is not the expected one is removed.      *)
left(d, where) ==
  CASE where \in {"ensure", "workspace"} -> recovered(d)
    [] where = "extract" -> UNION {halfway(e) : e \in recovered(d)}
    [] OTHER -> {d}
CommandFails(r) == Act /\ ~sw.opened
  /\ sw.at[r] \notin {"none", "over", "local", "listen", "pause", "model", "start", "hung"}
  /\ \E d \in left(sw.disk, sw.at[r]),
        a \in {sw.archive} \cup IF sw.at[r] \in {"download", "verify", "extract"} THEN {"none"} ELSE {} :
       sw' = thrown([sw EXCEPT !.starting = IF @ = r THEN 0 ELSE @, !.disk = d, !.archive = a], r)

(* The Python that is asked does not come back, and nothing ends it.        *)
Hangs(r) == Act /\ ~sw.opened /\ sw.at[r] \in {"probe", "again", "gpu"} /\ sw' = to(sw, r, "hung")

RetryClicked == Act /\ ~sw.opened /\ sw.retry /\ sw' = begun(sw, acts + 2)

Answers == \E r \in Runs :
  \/ Probed(r) \/ StatusKnown(r) \/ Ensured(r) \/ PackKnown(r) \/ Listening(r) \/ LocalVerified(r) \/ Downloaded(r)
  \/ Verified(r) \/ Extracted(r) \/ ProbedAgain(r) \/ PauseOver(r) \/ WorkspaceDone(r) \/ FfmpegDone(r)
  \/ GpuDone(r) \/ ModelDone(r) \/ StartBackend(r) \/ BackendUp(r)
SetupNext == Answers \/ (\E r \in Runs : CommandFails(r)) \/ (\E r \in Runs : Hangs(r)) \/ RetryClicked
SetupSpec == SetupInit /\ [][SetupNext]_setupVars /\ WF_setupVars(Answers)

(* ------------------------------ properties ------------------------------ *)
(* A backend runs on the runtime this build expects, with ffmpeg in place:  *)
(* never on the one an upgrade has left, whatever run started it.           *)
NeverStartsStale == sw.handles \/ sw.starting # 0 => sw.disk.runtime = "current" /\ sw.disk.ffmpeg

(* A step that is ticked off is done, though two runs paint one list.       *)
TickedIsDone ==
  /\ sw.step["runtime"] = "done" => sw.disk.runtime = "current"
  /\ sw.step["ffmpeg"] = "done" => sw.disk.ffmpeg
  /\ sw.step["backend"] = "done" => sw.handles

(* Listeners of the download do not stack up over retries (#146), and the   *)
(* window never stands still without a way on, unless a run hangs.          *)
OneProgressListener == Cardinality(sw.listening) <= 1 /\ sw.listening \subseteq {sw.unlisten}
NeverLeftAlone == (\A r \in Runs : sw.at[r] \in {"none", "over"}) => sw.opened \/ sw.retry

(* Must end: the app opens, or Retry can be clicked, unless a run hangs.    *)
SetupHolds == ~sw.opened /\ ~sw.retry /\ \A r \in Runs : sw.at[r] # "hung"

(* What it rests on.  A run that installs the runtime is the only one, and  *)
(* no Retry is offered; and where two runs are under way, or one and Retry, *)
(* the runtime is the expected one and stays.                               *)
Ready(q) == q.disk.runtime = "current"
Under(q, r) == q.at[r] \notin {"none", "over"}
Installing == {"ensure", "pack", "listen", "local", "download", "verify", "extract", "again"}
AfterRuntime == {"pause", "workspace", "ffmpeg", "gpu", "model", "start", "health"}
AfterFfmpeg == {"gpu", "model", "start", "health"}
RunOK(q, r) ==
  /\ q.sees[r].ffmpeg => q.disk.ffmpeg
  /\ q.at[r] = "status" /\ Ready(q) => q.sees[r].python
  /\ q.at[r] \in Installing =>
       /\ ~q.retry /\ q.step["runtime"] # "done"
       /\ \A x \in Runs \ {r} : ~Under(q, x)
  /\ q.at[r] = "again" => q.disk.runtime \in {"current", "broken"}
  /\ q.at[r] \in AfterRuntime => Ready(q)
  /\ q.at[r] \in AfterFfmpeg => q.disk.ffmpeg
RunsOK ==
  /\ \A r \in Runs : RunOK(sw, r)
  /\ \A r \in Runs : Under(sw, r) /\ (sw.retry \/ \E x \in Runs \ {r} : Under(sw, x)) => Ready(sw)
  /\ sw.starting # 0 => sw.starting \in Runs /\ sw.at[sw.starting] = "health"
=============================================================================
