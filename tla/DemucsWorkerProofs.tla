-------------------------- MODULE DemucsWorkerProofs --------------------------
(***************************************************************************)
(* Proofs about DemucsWorker, for every set of jobs and cancel threads and *)
(* whatever devices the settings name.                                     *)
(*                                                                         *)
(* IInv is inductive: its core first, then, given the core, what it says   *)
(* of verdicts, cancels and second attempts.  There is one lemma per actor, with one step per     *)
(* action; an action whose leaf is large has one step per part of CoreInv.    *)
(***************************************************************************)
EXTENDS DemucsWorker, FiniteSetTheorems, TLAPS

USE DEF procVars, pipeVars, cancelVars, stopVars, histVars, PipePc, PipeStep, LoopFree, Gone, Holding

LEMMA ProcsAreNumbers == Procs \subseteq Nat /\ None \notin Procs /\ None \notin Jobs
<1>1. 2 * Cardinality(Jobs) \in Nat
  BY JobsAssumption, FS_CardinalityType
<1>2. QED
  BY <1>1, JobsAssumption DEF Procs

(* The pipes hold one request or one verdict line. *)
LEMMA OneLine ==
  ASSUME NEW x
  PROVE  /\ Append(<<>>, x) = <<x>> /\ <<x>> # <<>>
         /\ Head(<<x>>) = x /\ Tail(<<x>>) = <<>>
OBVIOUS

LEMMA InitHolds == Init => CoreInv
BY ProcsAreNumbers DEF Init, CoreInv, TypeOK, OkMeansSeparated, NoStaleRegistration,
   ProcessesAccounted, WarmIsClean, AttemptIsItsOwn

----------------------------------------------------------------------------
LEMMA PipelineKeeps ==
  ASSUME CoreInv, Pipeline \/ \E j \in Jobs : Take(j)
  PROVE  CoreInv'
<1> USE ProcsAreNumbers
<1> USE DEF CoreInv, TypeOK, OkMeansSeparated, NoStaleRegistration,
            ProcessesAccounted, WarmIsClean, AttemptIsItsOwn
<1>1. ASSUME NEW j \in Jobs, Take(j) PROVE CoreInv'
  BY <1>1, DevicesAssumption DEF Take
<1>2. CASE CheckCancel
  BY <1>2 DEF CheckCancel
<1>3. CASE Reuse
  BY <1>3 DEF Reuse, Reusable, Device
<1>4. CASE Evict
  BY <1>4 DEF Evict, Reusable, Terminated, Device
<1>5. CASE Spawn
  BY <1>5 DEF Spawn, Device
<1>6. CASE SpawnFails
  BY <1>6 DEF SpawnFails
<1>7. CASE Registers
  BY <1>7 DEF Registers
<1>8. CASE Writes
  <2>1. /\ running \in Jobs /\ proc \in Procs /\ inbox[proc] = <<>> /\ out[proc] = <<>>
        /\ Append(inbox[proc], running) = <<running>> /\ <<running>> # <<>>
    BY <1>8, OneLine DEF Writes
  <2>2. /\ inbox' = [inbox EXCEPT ![proc] = <<running>>]
        /\ inbox' \in [Procs -> {<<>>} \cup {<<j>> : j \in Jobs}]
    BY <1>8, <2>1 DEF Writes
  <2>3. QED
    BY <1>8, <2>1, <2>2 DEF Writes
<1>9. CASE BrokenPipe
  BY <1>9 DEF BrokenPipe
<1>10. CASE ReadsVerdict
  <2>1. /\ running \in Jobs /\ proc \in Procs /\ inbox[proc] = <<>>
        /\ out[proc] \in {<<"done">>, <<"error">>}
    BY <1>10 DEF ReadsVerdict
  <2>2. /\ out' = [out EXCEPT ![proc] = <<>>]
        /\ verdict' \in {"ok", "bad"}
        /\ verdict' = "ok" => running \in separated
    BY <1>10, <2>1, OneLine DEF ReadsVerdict
  <2>3. QED
    BY <1>10, <2>1, <2>2 DEF ReadsVerdict
<1>11. CASE ReadsEof
  BY <1>11 DEF ReadsEof
<1>12. CASE ReadRaises
  BY <1>12 DEF ReadRaises
<1>13. CASE Deregisters
  BY <1>13 DEF Deregisters
<1>14. CASE Joins
  BY <1>14 DEF Joins
<1>15. CASE Reaps
  BY <1>15 DEF Reaps, Terminated
<1>16. CASE Reaped
  BY <1>16 DEF Reaped
<1>17. CASE FallBack
  BY <1>17 DEF FallBack, Device
<1>18. CASE Judge
  BY <1>18 DEF Judge, Device
<1>19. CASE Settle
  BY <1>19 DEF Settle
<1>20. CASE Recheck
  BY <1>20 DEF Recheck
<1>21. QED
  BY <1>1, <1>2, <1>3, <1>4, <1>5, <1>6, <1>7, <1>8, <1>9, <1>10, <1>11, <1>12, <1>13, <1>14,
     <1>15, <1>16, <1>17, <1>18, <1>19, <1>20 DEF Pipeline, PipelineGoesOn

LEMMA WorkerKeeps ==
  ASSUME CoreInv, NEW p \in Procs, WorkerDone(p) \/ WorkerError(p) \/ WorkerCrash(p) \/ WorkerDies(p)
  PROVE  CoreInv'
<1>1. CASE WorkerDone(p)
  <2>1. PICK j \in Jobs : inbox[p] = <<j>> /\ out[p] = <<>>
    BY <1>1 DEF WorkerDone, CoreInv, TypeOK, ProcessesAccounted, WarmIsClean, AttemptIsItsOwn
  <2>2. /\ inbox' = [inbox EXCEPT ![p] = <<>>]
        /\ out' = [out EXCEPT ![p] = <<"done">>] /\ <<"done">> # <<>>
        /\ separated' = separated \cup {j}
    BY <1>1, <2>1, OneLine DEF WorkerDone
  <2>3. /\ life[p] # "unborn" /\ UNCHANGED <<life, faulty, cut>>
    BY <1>1 DEF WorkerDone
  <2>4. ppc = "read" /\ p = proc => j = running
    BY <2>1, OneLine DEF CoreInv, AttemptIsItsOwn
  <2>5. /\ \A q \in Procs \ {p} : inbox'[q] = inbox[q] /\ out'[q] = out[q]
        /\ inbox'[p] = <<>> /\ out'[p] = <<"done">> /\ inbox[p] # <<>>
    BY <2>1, <2>2, OneLine DEF CoreInv, TypeOK
  <2>6. ProcStep(p)
    BY <1>1 DEF WorkerDone
  <2>a. TypeOK'
    BY <2>1, <2>2, <2>3, <2>6 DEF CoreInv, TypeOK, ProcStep
  <2>b. OkMeansSeparated' /\ NoStaleRegistration'
    BY <2>2, <2>3, <2>6 DEF CoreInv, OkMeansSeparated, NoStaleRegistration, ProcStep
  <2>7. ProcessesAccounted'
    BY <2>3, <2>5, <2>6, ProcsAreNumbers DEF CoreInv, TypeOK, ProcessesAccounted, ProcStep
  <2>8. WarmIsClean'
    BY <2>3, <2>5, <2>6 DEF CoreInv, TypeOK, WarmIsClean, ProcStep
  <2>9. AttemptIsItsOwn'
    BY <2>2, <2>3, <2>4, <2>5, <2>6 DEF CoreInv, TypeOK, AttemptIsItsOwn, ProcStep
  <2>10. QED
    BY <2>a, <2>b, <2>7, <2>8, <2>9 DEF CoreInv
<1>2. CASE WorkerError(p)
  <2>1. PICK j \in Jobs : inbox[p] = <<j>> /\ out[p] = <<>>
    BY <1>2 DEF WorkerError, CoreInv, TypeOK, ProcessesAccounted, WarmIsClean, AttemptIsItsOwn
  <2>2. /\ inbox' = [inbox EXCEPT ![p] = <<>>]
        /\ out' = [out EXCEPT ![p] = <<"error">>] /\ <<"error">> # <<>>
        /\ <<"error">> # <<"done">>
        /\ faulty' = faulty \cup {j}
    BY <1>2, <2>1, OneLine DEF WorkerError
  <2>3. /\ life' = [life EXCEPT ![p] = "dead"] /\ life[p] # "unborn" /\ UNCHANGED <<separated, cut>>
        /\ ProcStep(p)
    BY <1>2 DEF WorkerError
  <2>4. TypeOK'
    BY <2>1, <2>2, <2>3 DEF CoreInv, TypeOK, ProcStep
  <2>a. OkMeansSeparated' /\ NoStaleRegistration'
    BY <2>3 DEF CoreInv, OkMeansSeparated, NoStaleRegistration, ProcStep
  <2>5. /\ \A q \in Procs \ {p} : inbox'[q] = inbox[q] /\ out'[q] = out[q]
        /\ inbox'[p] = <<>> /\ out'[p] = <<"error">> /\ inbox[p] # <<>>
        /\ \A q \in Procs : life'[q] = "unborn" => life[q] = "unborn"
    BY <2>1, <2>2, <2>3, OneLine DEF CoreInv, TypeOK
  <2>6. ProcessesAccounted'
    BY <2>3, <2>5, ProcsAreNumbers DEF CoreInv, TypeOK, ProcessesAccounted, ProcStep
  <2>7. WarmIsClean'
    BY <2>3, <2>5 DEF CoreInv, TypeOK, WarmIsClean, ProcStep
  <2>8. AttemptIsItsOwn'
    BY <2>2, <2>3, <2>5 DEF CoreInv, TypeOK, AttemptIsItsOwn, ProcStep
  <2>9. QED
    BY <2>4, <2>a, <2>6, <2>7, <2>8 DEF CoreInv
<1>3. CASE WorkerCrash(p)
  BY <1>3, ProcsAreNumbers DEF WorkerCrash, CoreInv, TypeOK, OkMeansSeparated, NoStaleRegistration,
     ProcessesAccounted, WarmIsClean, AttemptIsItsOwn, ProcStep
<1>4. CASE WorkerDies(p)
  BY <1>4, ProcsAreNumbers DEF WorkerDies, CoreInv, TypeOK, OkMeansSeparated, NoStaleRegistration,
     ProcessesAccounted, WarmIsClean, AttemptIsItsOwn, ProcStep
<1>5. QED
  BY <1>1, <1>2, <1>3, <1>4

LEMMA WatchdogKeeps ==
  ASSUME CoreInv, Watchdog
  PROVE  CoreInv'
<1> USE ProcsAreNumbers
<1> USE DEF CoreInv, TypeOK, OkMeansSeparated, NoStaleRegistration,
            ProcessesAccounted, WarmIsClean, AttemptIsItsOwn, WatchdogStep
<1>1. CASE WatchdogSeesStall
  BY <1>1 DEF WatchdogSeesStall
<1>2. CASE WatchdogFires
  BY <1>2 DEF WatchdogFires, Terminated
<1>3. CASE WatchdogLeaves
  BY <1>3 DEF WatchdogLeaves
<1>4. QED
  BY <1>1, <1>2, <1>3 DEF Watchdog

LEMMA CancelKeeps ==
  ASSUME CoreInv, NEW t \in Threads, CancelGoesOn(t) \/ \E j \in Jobs : CancelFlag(t, j)
  PROVE  CoreInv'
<1> USE ProcsAreNumbers
<1> USE DEF CoreInv, TypeOK, OkMeansSeparated, NoStaleRegistration,
            ProcessesAccounted, WarmIsClean, AttemptIsItsOwn, CancelStep
<1>1. ASSUME NEW j \in Jobs, CancelFlag(t, j) PROVE CoreInv'
  BY <1>1 DEF CancelFlag
<1>2. CASE CancelAsks(t)
  <2>1. /\ cpc' \in [Threads -> {"idle", "ask", "fetch", "kill"}]
        /\ cjob' \in [Threads -> Jobs \cup {None}]
        /\ \A u \in Threads : cpc'[u] # "idle" => cjob'[u] \in Jobs
    BY <1>2 DEF CancelAsks
  <2>2. QED
    BY <1>2, <2>1 DEF CancelAsks
<1>3. CASE CancelFetches(t)
  BY <1>3 DEF CancelFetches
<1>4. CASE CancelKills(t)
  <2>1. /\ cpc' \in [Threads -> {"idle", "ask", "fetch", "kill"}]
        /\ cjob' \in [Threads -> Jobs \cup {None}] /\ cproc' \in [Threads -> Procs \cup {None}]
        /\ \A u \in Threads : cpc'[u] # "idle" => cjob'[u] \in Jobs
    BY <1>4 DEF CancelKills
  <2>2. /\ life' \in [Procs -> {"unborn", "alive", "dying", "dead"}]
        /\ \A p \in Procs : /\ Holding(p)' <=> Holding(p)
                            /\ life'[p] = "unborn" <=> life[p] = "unborn"
    BY <1>4 DEF CancelKills, Terminated
  <2>3. UNCHANGED cancelReq
    BY <1>4 DEF CancelKills
  <2>4. UNCHANGED <<running, outcome, cached, device, inbox, out, procOf, pipeVars, wd, stopVars, histVars>>
    BY <1>4 DEF CancelKills
  <2>5. TypeOK' /\ OkMeansSeparated' /\ NoStaleRegistration' /\ WarmIsClean' /\ AttemptIsItsOwn'
    BY <2>1, <2>2, <2>3, <2>4
  <2>6. ProcessesAccounted'
    BY <2>1, <2>2, <2>4
  <2>7. QED
    BY <2>5, <2>6
<1>5. QED
  BY <1>1, <1>2, <1>3, <1>4 DEF CancelGoesOn

LEMMA StopKeeps ==
  ASSUME CoreInv, StopPops \/ Shutdown
  PROVE  CoreInv'
<1> USE ProcsAreNumbers
<1> USE DEF CoreInv, TypeOK, OkMeansSeparated, NoStaleRegistration,
            ProcessesAccounted, WarmIsClean, AttemptIsItsOwn, StopStep
<1>1. CASE StopPops
  <2>1. /\ spc = "up" /\ spc' = "popped" /\ victim = None
        /\ victim' = cached /\ cached' = None /\ UNCHANGED life
    BY <1>1 DEF StopPops
  <2>2. UNCHANGED <<running, cancelReq, outcome, device, inbox, out, procOf, pipeVars, wd, cancelVars, histVars>>
    BY <1>1 DEF StopPops
  <2>3. TypeOK' /\ OkMeansSeparated' /\ NoStaleRegistration' /\ WarmIsClean'
    BY <2>1, <2>2
  <2>4. ProcessesAccounted'
    BY <2>1, <2>2
  <2>5. AttemptIsItsOwn'
    BY <2>1, <2>2
  <2>6. QED
    BY <2>3, <2>4, <2>5
<1>2. CASE StopTerminates
  BY <1>2 DEF StopTerminates, Terminated
<1>3. CASE StopEnds
  <2>1. UNCHANGED <<cached, life>>
    BY <1>3 DEF StopEnds
  <2>2. spc' = "down" /\ victim' = None
    BY <1>3 DEF StopEnds
  <2>3. \A p \in Procs : Holding(p) => p # victim
    BY <1>3 DEF StopEnds
  <2>4. UNCHANGED <<running, cancelReq, outcome, device, inbox, out, procOf, pipeVars, wd, cancelVars, histVars>>
    BY <1>3 DEF StopEnds
  <2>5. QED
    BY <2>1, <2>2, <2>3, <2>4
<1>4. QED
  BY <1>1, <1>2, <1>3 DEF Shutdown

LEMMA StutterKeeps == ASSUME CoreInv, UNCHANGED vars PROVE CoreInv'
BY DEF vars, CoreInv, TypeOK, OkMeansSeparated, NoStaleRegistration,
   ProcessesAccounted, WarmIsClean, AttemptIsItsOwn

----------------------------------------------------------------------------
(* A verdict of an attempt is explained by what happened to the job. *)
LEMMA VerdictsStep ==
  ASSUME CoreInv, VerdictsAreMeant, Next
  PROVE  VerdictsAreMeant'
<1> USE ProcsAreNumbers
<1> USE DEF VerdictsAreMeant, Device
<1>1. TypeOK /\ NoStaleRegistration /\ ProcessesAccounted /\ AttemptIsItsOwn
  BY DEF CoreInv
<1> USE DEF TypeOK
<1>2. ASSUME NEW j \in Jobs, Take(j) PROVE VerdictsAreMeant'
  BY <1>1, <1>2, DevicesAssumption DEF Take, AttemptIsItsOwn
<1>3. CASE Pipeline
  <2>1. CASE CheckCancel
    BY <1>1, <2>1 DEF CheckCancel, AttemptIsItsOwn
  <2>2. CASE Reuse
    BY <1>1, <2>2 DEF Reuse, AttemptIsItsOwn, Reusable, Device
  <2>3. CASE Evict
    BY <1>1, <2>3 DEF Evict, AttemptIsItsOwn, Terminated, Reusable
  <2>4. CASE Spawn
    BY <1>1, <2>4 DEF Spawn, AttemptIsItsOwn, Device
  <2>5. CASE SpawnFails
    BY <1>1, <2>5 DEF SpawnFails, AttemptIsItsOwn
  <2>6. CASE Registers
    BY <1>1, <2>6 DEF Registers, AttemptIsItsOwn
  <2>7. CASE Writes
    BY <1>1, <2>7 DEF Writes, AttemptIsItsOwn
  <2>8. CASE BrokenPipe
    BY <1>1, <2>8 DEF BrokenPipe, AttemptIsItsOwn
  <2>9. CASE ReadsVerdict
    BY <1>1, <2>9 DEF ReadsVerdict, AttemptIsItsOwn
  <2>10. CASE ReadsEof
    BY <1>1, <2>10 DEF ReadsEof, AttemptIsItsOwn
  <2>11. CASE ReadRaises
    BY <1>1, <2>11 DEF ReadRaises, AttemptIsItsOwn
  <2>12. CASE Deregisters
    BY <1>1, <2>12 DEF Deregisters, AttemptIsItsOwn
  <2>13. CASE Joins
    BY <1>1, <2>13 DEF Joins, AttemptIsItsOwn
  <2>14. CASE Reaps
    BY <1>1, <2>14 DEF Reaps, AttemptIsItsOwn, Terminated
  <2>15. CASE Reaped
    BY <1>1, <2>15 DEF Reaped, AttemptIsItsOwn
  <2>16. CASE FallBack
    BY <1>1, <2>16 DEF FallBack, AttemptIsItsOwn, Device
  <2>17. CASE Recheck
    BY <1>1, <2>17 DEF Recheck, AttemptIsItsOwn, Device
  <2>18. CASE Judge
    BY <1>1, <2>18 DEF Judge, AttemptIsItsOwn, Device
  <2>19. CASE Settle
    BY <1>1, <2>19 DEF Settle, AttemptIsItsOwn
  <2>20. QED
    BY <1>3, <2>1, <2>2, <2>3, <2>4, <2>5, <2>6, <2>7, <2>8, <2>9, <2>10, <2>11, <2>12, <2>13, <2>14, <2>15, <2>16, <2>17, <2>18, <2>19
       DEF Pipeline, PipelineGoesOn
<1>4. ASSUME NEW p \in Procs, WorkerDone(p) \/ WorkerError(p) \/ WorkerCrash(p) \/ WorkerDies(p)
      PROVE  VerdictsAreMeant'
  <2> USE DEF ProcStep
  <2>1. CASE WorkerDone(p)
    BY <1>1, <2>1 DEF WorkerDone, AttemptIsItsOwn
  <2>2. CASE WorkerError(p)
    BY <1>1, <2>2 DEF WorkerError, AttemptIsItsOwn
  <2>3. CASE WorkerCrash(p)
    BY <1>1, <2>3 DEF WorkerCrash, AttemptIsItsOwn
  <2>4. CASE WorkerDies(p)
    BY <1>1, <2>4 DEF WorkerDies, AttemptIsItsOwn
  <2>5. QED
    BY <1>4, <2>1, <2>2, <2>3, <2>4
<1>5. CASE Watchdog
  BY <1>1, <1>5 DEF Watchdog, WatchdogStep, WatchdogSeesStall, WatchdogFires, WatchdogLeaves, Terminated, AttemptIsItsOwn
<1>6. ASSUME NEW t \in Threads, CancelGoesOn(t) \/ \E j \in Jobs : CancelFlag(t, j)
      PROVE  VerdictsAreMeant'
  <2> USE DEF CancelStep
  <2>1. ASSUME NEW j \in Jobs, CancelFlag(t, j) PROVE VerdictsAreMeant'
    BY <1>1, <2>1 DEF CancelFlag, ProcessesAccounted, AttemptIsItsOwn
  <2>2. CASE CancelAsks(t)
    BY <1>1, <2>2 DEF CancelAsks, ProcessesAccounted
  <2>3. CASE CancelFetches(t)
    BY <1>1, <2>3 DEF CancelFetches, ProcessesAccounted, AttemptIsItsOwn, NoStaleRegistration
  <2>4. CASE CancelKills(t)
    BY <1>1, <2>4 DEF CancelKills, Terminated, ProcessesAccounted, AttemptIsItsOwn
  <2>5. QED
    BY <1>6, <2>1, <2>2, <2>3, <2>4 DEF CancelGoesOn
<1>7. CASE StopPops \/ Shutdown
  BY <1>1, <1>7 DEF StopPops, Shutdown, StopTerminates, StopEnds, StopStep, Terminated
<1>8. QED
  BY <1>2, <1>3, <1>4, <1>5, <1>6, <1>7 DEF Next

(* A cancel only ever holds a process it found under a cancelled job. *)
LEMMA CancelsStep ==
  ASSUME CoreInv, CancelsAreAimed, Next
  PROVE  CancelsAreAimed'
<1> USE ProcsAreNumbers
<1> USE DEF CancelsAreAimed
<1>1. TypeOK /\ NoStaleRegistration /\ ProcessesAccounted /\ AttemptIsItsOwn
  BY DEF CoreInv
<1> USE DEF TypeOK
<1>2. ASSUME NEW j \in Jobs, Take(j) PROVE CancelsAreAimed'
  BY <1>1, <1>2, DevicesAssumption DEF Take, AttemptIsItsOwn
<1>3. CASE Pipeline
  <2>1. CASE CheckCancel
    BY <1>1, <2>1 DEF CheckCancel, AttemptIsItsOwn
  <2>2. CASE Reuse
    BY <1>1, <2>2 DEF Reuse, AttemptIsItsOwn, Reusable, Device
  <2>3. CASE Evict
    BY <1>1, <2>3 DEF Evict, AttemptIsItsOwn, Terminated, Reusable
  <2>4. CASE Spawn
    BY <1>1, <2>4 DEF Spawn, AttemptIsItsOwn, Device
  <2>5. CASE SpawnFails
    BY <1>1, <2>5 DEF SpawnFails, AttemptIsItsOwn
  <2>6. CASE Registers
    BY <1>1, <2>6 DEF Registers, AttemptIsItsOwn
  <2>7. CASE Writes
    BY <1>1, <2>7 DEF Writes, AttemptIsItsOwn
  <2>8. CASE BrokenPipe
    BY <1>1, <2>8 DEF BrokenPipe, AttemptIsItsOwn
  <2>9. CASE ReadsVerdict
    BY <1>1, <2>9 DEF ReadsVerdict, AttemptIsItsOwn
  <2>10. CASE ReadsEof
    BY <1>1, <2>10 DEF ReadsEof, AttemptIsItsOwn
  <2>11. CASE ReadRaises
    BY <1>1, <2>11 DEF ReadRaises, AttemptIsItsOwn
  <2>12. CASE Deregisters
    BY <1>1, <2>12 DEF Deregisters, AttemptIsItsOwn
  <2>13. CASE Joins
    BY <1>1, <2>13 DEF Joins, AttemptIsItsOwn
  <2>14. CASE Reaps
    BY <1>1, <2>14 DEF Reaps, AttemptIsItsOwn, Terminated
  <2>15. CASE Reaped
    BY <1>1, <2>15 DEF Reaped, AttemptIsItsOwn
  <2>16. CASE FallBack
    BY <1>1, <2>16 DEF FallBack, AttemptIsItsOwn, Device
  <2>17. CASE Recheck
    BY <1>1, <2>17 DEF Recheck, AttemptIsItsOwn, Device
  <2>18. CASE Judge
    BY <1>1, <2>18 DEF Judge, AttemptIsItsOwn, Device
  <2>19. CASE Settle
    BY <1>1, <2>19 DEF Settle, AttemptIsItsOwn
  <2>20. QED
    BY <1>3, <2>1, <2>2, <2>3, <2>4, <2>5, <2>6, <2>7, <2>8, <2>9, <2>10, <2>11, <2>12, <2>13, <2>14, <2>15, <2>16, <2>17, <2>18, <2>19
       DEF Pipeline, PipelineGoesOn
<1>4. ASSUME NEW p \in Procs, WorkerDone(p) \/ WorkerError(p) \/ WorkerCrash(p) \/ WorkerDies(p)
      PROVE  CancelsAreAimed'
  <2> USE DEF ProcStep
  <2>1. CASE WorkerDone(p)
    BY <1>1, <2>1 DEF WorkerDone, AttemptIsItsOwn
  <2>2. CASE WorkerError(p)
    BY <1>1, <2>2 DEF WorkerError, AttemptIsItsOwn
  <2>3. CASE WorkerCrash(p)
    BY <1>1, <2>3 DEF WorkerCrash, AttemptIsItsOwn
  <2>4. CASE WorkerDies(p)
    BY <1>1, <2>4 DEF WorkerDies, AttemptIsItsOwn
  <2>5. QED
    BY <1>4, <2>1, <2>2, <2>3, <2>4
<1>5. CASE Watchdog
  <2>1. \A p \in Procs : life'[p] = "unborn" => life[p] = "unborn"
    BY <1>1, <1>5 DEF Watchdog, WatchdogSeesStall, WatchdogFires, WatchdogLeaves, Terminated
  <2>2. UNCHANGED <<cancelReq, cancelVars>>
    BY <1>5 DEF Watchdog, WatchdogStep, WatchdogSeesStall, WatchdogFires, WatchdogLeaves
  <2>3. QED
    BY <2>1, <2>2
<1>6. ASSUME NEW t \in Threads, CancelGoesOn(t) \/ \E j \in Jobs : CancelFlag(t, j)
      PROVE  CancelsAreAimed'
  <2> USE DEF CancelStep
  <2>1. ASSUME NEW j \in Jobs, CancelFlag(t, j) PROVE CancelsAreAimed'
    BY <1>1, <2>1 DEF CancelFlag, ProcessesAccounted, AttemptIsItsOwn
  <2>2. CASE CancelAsks(t)
    BY <1>1, <2>2 DEF CancelAsks, ProcessesAccounted
  <2>3. CASE CancelFetches(t)
    BY <1>1, <2>3 DEF CancelFetches, ProcessesAccounted, AttemptIsItsOwn, NoStaleRegistration
  <2>4. CASE CancelKills(t)
    BY <1>1, <2>4 DEF CancelKills, Terminated, ProcessesAccounted, AttemptIsItsOwn
  <2>5. QED
    BY <1>6, <2>1, <2>2, <2>3, <2>4 DEF CancelGoesOn
<1>7. CASE StopPops \/ Shutdown
  <2>1. \A p \in Procs : life'[p] = "unborn" => life[p] = "unborn"
    BY <1>1, <1>7 DEF StopPops, Shutdown, StopTerminates, StopEnds, Terminated
  <2>2. UNCHANGED <<cancelReq, cancelVars>>
    BY <1>7 DEF StopPops, Shutdown, StopTerminates, StopEnds, StopStep
  <2>3. QED
    BY <2>1, <2>2
<1>8. QED
  BY <1>2, <1>3, <1>4, <1>5, <1>6, <1>7 DEF Next

(* Nothing but its own process, a cancel of it or the shutdown can end the *)
(* second attempt of a job.                                                *)
LEMMA FallbackStep ==
  ASSUME CoreInv, VerdictsAreMeant, CancelsAreAimed, FallbackGoesWell, Next
  PROVE  FallbackGoesWell'
<1> USE ProcsAreNumbers
<1> USE DEF VerdictsAreMeant, CancelsAreAimed, FallbackGoesWell, Undisturbed, Device
<1>1. TypeOK /\ NoStaleRegistration /\ ProcessesAccounted /\ AttemptIsItsOwn
  BY DEF CoreInv
<1> USE DEF TypeOK
<1>2. ASSUME NEW j \in Jobs, Take(j) PROVE FallbackGoesWell'
  BY <1>1, <1>2, DevicesAssumption DEF Take, AttemptIsItsOwn
<1>3. CASE Pipeline
  <2>1. CASE CheckCancel
    BY <1>1, <2>1 DEF CheckCancel, AttemptIsItsOwn
  <2>2. CASE Reuse
    BY <1>1, <2>2 DEF Reuse, AttemptIsItsOwn, Reusable, Device
  <2>3. CASE Evict
    BY <1>1, <2>3 DEF Evict, AttemptIsItsOwn, Terminated, Reusable
  <2>4. CASE Spawn
    BY <1>1, <2>4 DEF Spawn, AttemptIsItsOwn, Device
  <2>5. CASE SpawnFails
    BY <1>1, <2>5 DEF SpawnFails, AttemptIsItsOwn
  <2>6. CASE Registers
    BY <1>1, <2>6 DEF Registers, AttemptIsItsOwn
  <2>7. CASE Writes
    BY <1>1, <2>7 DEF Writes, AttemptIsItsOwn
  <2>8. CASE BrokenPipe
    BY <1>1, <2>8 DEF BrokenPipe, AttemptIsItsOwn
  <2>9. CASE ReadsVerdict
    BY <1>1, <2>9 DEF ReadsVerdict, AttemptIsItsOwn
  <2>10. CASE ReadsEof
    BY <1>1, <2>10 DEF ReadsEof, AttemptIsItsOwn
  <2>11. CASE ReadRaises
    BY <1>1, <2>11 DEF ReadRaises, AttemptIsItsOwn
  <2>12. CASE Deregisters
    BY <1>1, <2>12 DEF Deregisters, AttemptIsItsOwn
  <2>13. CASE Joins
    BY <1>1, <2>13 DEF Joins, AttemptIsItsOwn
  <2>14. CASE Reaps
    BY <1>1, <2>14 DEF Reaps, AttemptIsItsOwn, Terminated
  <2>15. CASE Reaped
    BY <1>1, <2>15 DEF Reaped, AttemptIsItsOwn
  <2>16. CASE FallBack
    BY <1>1, <2>16 DEF FallBack, AttemptIsItsOwn, Device
  <2>17. CASE Recheck
    BY <1>1, <2>17 DEF Recheck, AttemptIsItsOwn, Device
  <2>18. CASE Judge
    BY <1>1, <2>18 DEF Judge, AttemptIsItsOwn, Device
  <2>19. CASE Settle
    BY <1>1, <2>19 DEF Settle, AttemptIsItsOwn
  <2>20. QED
    BY <1>3, <2>1, <2>2, <2>3, <2>4, <2>5, <2>6, <2>7, <2>8, <2>9, <2>10, <2>11, <2>12, <2>13, <2>14, <2>15, <2>16, <2>17, <2>18, <2>19
       DEF Pipeline, PipelineGoesOn
<1>4. ASSUME NEW p \in Procs, WorkerDone(p) \/ WorkerError(p) \/ WorkerCrash(p) \/ WorkerDies(p)
      PROVE  FallbackGoesWell'
  <2> USE DEF ProcStep
  <2>1. CASE WorkerDone(p)
    <3>1. out[p] = <<>> /\ out' = [out EXCEPT ![p] = <<"done">>] /\ <<"done">> # <<"error">>
      BY <1>1, <2>1, OneLine DEF WorkerDone, ProcessesAccounted
    <3>2. UNCHANGED <<life, faulty>> /\ ProcStep(p)
      BY <2>1 DEF WorkerDone
    <3>3. \A q \in Procs : out'[q] = out[q] \/ out'[q] = <<"done">>
      BY <1>1, <3>1
    <3>4. QED
      BY <1>1, <3>1, <3>2, <3>3 DEF AttemptIsItsOwn
  <2>2. CASE WorkerError(p)
    BY <1>1, <2>2 DEF WorkerError, AttemptIsItsOwn
  <2>3. CASE WorkerCrash(p)
    BY <1>1, <2>3 DEF WorkerCrash, AttemptIsItsOwn
  <2>4. CASE WorkerDies(p)
    BY <1>1, <2>4 DEF WorkerDies, AttemptIsItsOwn
  <2>5. QED
    BY <1>4, <2>1, <2>2, <2>3, <2>4
<1>5. CASE Watchdog
  BY <1>1, <1>5 DEF Watchdog, WatchdogStep, WatchdogSeesStall, WatchdogFires, WatchdogLeaves, Terminated, AttemptIsItsOwn
<1>6. ASSUME NEW t \in Threads, CancelGoesOn(t) \/ \E j \in Jobs : CancelFlag(t, j)
      PROVE  FallbackGoesWell'
  <2> USE DEF CancelStep
  <2>1. ASSUME NEW j \in Jobs, CancelFlag(t, j) PROVE FallbackGoesWell'
    BY <1>1, <2>1 DEF CancelFlag, ProcessesAccounted, AttemptIsItsOwn
  <2>2. CASE CancelAsks(t)
    BY <1>1, <2>2 DEF CancelAsks, ProcessesAccounted
  <2>3. CASE CancelFetches(t)
    BY <1>1, <2>3 DEF CancelFetches, ProcessesAccounted, AttemptIsItsOwn, NoStaleRegistration
  <2>4. CASE CancelKills(t)
    BY <1>1, <2>4 DEF CancelKills, Terminated, ProcessesAccounted, AttemptIsItsOwn
  <2>5. QED
    BY <1>6, <2>1, <2>2, <2>3, <2>4 DEF CancelGoesOn
<1>7. CASE StopPops \/ Shutdown
  BY <1>1, <1>7 DEF StopPops, Shutdown, StopTerminates, StopEnds, StopStep, Terminated
<1>8. QED
  BY <1>2, <1>3, <1>4, <1>5, <1>6, <1>7 DEF Next

(* A failure without a cancel or a fault of its own is one on the CPU.     *)
LEMMA BystanderStep ==
  ASSUME CoreInv, VerdictsAreMeant, FallbackGoesWell, BystanderSurvives, Next
  PROVE  BystanderSurvives'
<1> USE ProcsAreNumbers
<1> USE DEF VerdictsAreMeant, FallbackGoesWell, Undisturbed, BystanderSurvives, Device
<1>1. TypeOK /\ NoStaleRegistration /\ ProcessesAccounted /\ AttemptIsItsOwn
  BY DEF CoreInv
<1> USE DEF TypeOK
<1>2. ASSUME NEW j \in Jobs, Take(j) PROVE BystanderSurvives'
  BY <1>1, <1>2, DevicesAssumption DEF Take, AttemptIsItsOwn
<1>3. CASE Pipeline
  <2>1. CASE CheckCancel
    BY <1>1, <2>1 DEF CheckCancel, AttemptIsItsOwn
  <2>2. CASE Reuse
    BY <1>1, <2>2 DEF Reuse, AttemptIsItsOwn, Reusable, Device
  <2>3. CASE Evict
    BY <1>1, <2>3 DEF Evict, AttemptIsItsOwn, Terminated, Reusable
  <2>4. CASE Spawn
    BY <1>1, <2>4 DEF Spawn, AttemptIsItsOwn, Device
  <2>5. CASE SpawnFails
    BY <1>1, <2>5 DEF SpawnFails, AttemptIsItsOwn
  <2>6. CASE Registers
    BY <1>1, <2>6 DEF Registers, AttemptIsItsOwn
  <2>7. CASE Writes
    BY <1>1, <2>7 DEF Writes, AttemptIsItsOwn
  <2>8. CASE BrokenPipe
    BY <1>1, <2>8 DEF BrokenPipe, AttemptIsItsOwn
  <2>9. CASE ReadsVerdict
    BY <1>1, <2>9 DEF ReadsVerdict, AttemptIsItsOwn
  <2>10. CASE ReadsEof
    BY <1>1, <2>10 DEF ReadsEof, AttemptIsItsOwn
  <2>11. CASE ReadRaises
    BY <1>1, <2>11 DEF ReadRaises, AttemptIsItsOwn
  <2>12. CASE Deregisters
    BY <1>1, <2>12 DEF Deregisters, AttemptIsItsOwn
  <2>13. CASE Joins
    BY <1>1, <2>13 DEF Joins, AttemptIsItsOwn
  <2>14. CASE Reaps
    BY <1>1, <2>14 DEF Reaps, AttemptIsItsOwn, Terminated
  <2>15. CASE Reaped
    BY <1>1, <2>15 DEF Reaped, AttemptIsItsOwn
  <2>16. CASE FallBack
    BY <1>1, <2>16 DEF FallBack, AttemptIsItsOwn, Device
  <2>17. CASE Recheck
    BY <1>1, <2>17 DEF Recheck, AttemptIsItsOwn, Device
  <2>18. CASE Judge
    BY <1>1, <2>18 DEF Judge, AttemptIsItsOwn, Device
  <2>19. CASE Settle
    BY <1>1, <2>19 DEF Settle, AttemptIsItsOwn
  <2>20. QED
    BY <1>3, <2>1, <2>2, <2>3, <2>4, <2>5, <2>6, <2>7, <2>8, <2>9, <2>10, <2>11, <2>12, <2>13, <2>14, <2>15, <2>16, <2>17, <2>18, <2>19
       DEF Pipeline, PipelineGoesOn
<1>4. ASSUME NEW p \in Procs, WorkerDone(p) \/ WorkerError(p) \/ WorkerCrash(p) \/ WorkerDies(p)
      PROVE  BystanderSurvives'
  <2> USE DEF ProcStep
  <2>1. CASE WorkerDone(p)
    BY <1>1, <2>1 DEF WorkerDone, AttemptIsItsOwn
  <2>2. CASE WorkerError(p)
    BY <1>1, <2>2 DEF WorkerError, AttemptIsItsOwn
  <2>3. CASE WorkerCrash(p)
    BY <1>1, <2>3 DEF WorkerCrash, AttemptIsItsOwn
  <2>4. CASE WorkerDies(p)
    BY <1>1, <2>4 DEF WorkerDies, AttemptIsItsOwn
  <2>5. QED
    BY <1>4, <2>1, <2>2, <2>3, <2>4
<1>5. CASE Watchdog
  BY <1>1, <1>5 DEF Watchdog, WatchdogStep, WatchdogSeesStall, WatchdogFires, WatchdogLeaves, Terminated, AttemptIsItsOwn
<1>6. ASSUME NEW t \in Threads, CancelGoesOn(t) \/ \E j \in Jobs : CancelFlag(t, j)
      PROVE  BystanderSurvives'
  <2> USE DEF CancelStep
  <2>1. ASSUME NEW j \in Jobs, CancelFlag(t, j) PROVE BystanderSurvives'
    BY <1>1, <2>1 DEF CancelFlag, ProcessesAccounted, AttemptIsItsOwn
  <2>2. CASE CancelAsks(t)
    BY <1>1, <2>2 DEF CancelAsks, ProcessesAccounted
  <2>3. CASE CancelFetches(t)
    BY <1>1, <2>3 DEF CancelFetches, ProcessesAccounted, AttemptIsItsOwn, NoStaleRegistration
  <2>4. CASE CancelKills(t)
    BY <1>1, <2>4 DEF CancelKills, Terminated, ProcessesAccounted, AttemptIsItsOwn
  <2>5. QED
    BY <1>6, <2>1, <2>2, <2>3, <2>4 DEF CancelGoesOn
<1>7. CASE StopPops \/ Shutdown
  BY <1>1, <1>7 DEF StopPops, Shutdown, StopTerminates, StopEnds, StopStep, Terminated
<1>8. QED
  BY <1>2, <1>3, <1>4, <1>5, <1>6, <1>7 DEF Next

LEMMA RestHoldsFirst ==
  Init => VerdictsAreMeant /\ CancelsAreAimed /\ FallbackGoesWell /\ BystanderSurvives
BY DEF Init, VerdictsAreMeant, CancelsAreAimed, FallbackGoesWell, Undisturbed, BystanderSurvives

LEMMA RestStutters ==
  ASSUME VerdictsAreMeant, CancelsAreAimed, FallbackGoesWell, BystanderSurvives, UNCHANGED vars
  PROVE  VerdictsAreMeant' /\ CancelsAreAimed' /\ FallbackGoesWell' /\ BystanderSurvives'
BY DEF vars, VerdictsAreMeant, CancelsAreAimed, FallbackGoesWell, Undisturbed, BystanderSurvives, Device

(* The invariant of the worker holds in every reachable state: whichever of *)
(* pipeline, cancel, watchdog and shutdown ends a process, and when.        *)
THEOREM Inductive == Spec => []IInv
<1>1. IInv /\ [Next]_vars => CoreInv'
  BY PipelineKeeps, WorkerKeeps, WatchdogKeeps, CancelKeeps, StopKeeps, StutterKeeps DEF Next, IInv
<1>2. IInv /\ [Next]_vars => IInv'
  BY <1>1, VerdictsStep, CancelsStep, FallbackStep, BystanderStep, RestStutters DEF IInv
<1>3. Init => IInv
  BY InitHolds, RestHoldsFirst DEF IInv
<1>4. QED
  BY <1>2, <1>3, PTL DEF Spec

(* No job is marked as separated on the word of a process that did it for   *)
(* another job (separate.py's rule to keep a worker after a clean success   *)
(* only).                                                                   *)
THEOREM NoForeignResult == Spec => []OkMeansSeparated
<1>1. IInv => OkMeansSeparated
  BY DEF IInv, CoreInv
<1>2. QED
  BY <1>1, Inductive, PTL

(* set_proc's entries: a cancel finds a process under the running job only. *)
THEOREM RegistrationsAreCurrent == Spec => []NoStaleRegistration
<1>1. IInv => NoStaleRegistration
  BY DEF IInv, CoreInv
<1>2. QED
  BY <1>1, Inductive, PTL

(* Two workers never hold the device at once (_get_worker ends and awaits   *)
(* the old process before it starts one), shutdown's victim excepted.       *)
THEOREM OneWorker == Spec => []AtMostOneWorker
<1>1. IInv => AtMostOneWorker
  BY ProcsAreNumbers DEF IInv, CoreInv, ProcessesAccounted, AttemptIsItsOwn, AtMostOneWorker
<1>2. QED
  BY <1>1, Inductive, PTL

(* A GPU separation that another job's late cancel (or whatever else is not  *)
(* its own doing) took down is not lost: FallBack's second attempt has a     *)
(* process no such cancel can reach.                                         *)
THEOREM BystandersFallBack == Spec => []BystanderSurvives
<1>1. IInv => BystanderSurvives
  BY DEF IInv
<1>2. QED
  BY <1>1, Inductive, PTL
=============================================================================
