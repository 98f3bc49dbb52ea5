-------------------------- MODULE JobRegistryProofs --------------------------
(***************************************************************************)
(* Proofs about JobRegistry, for every set of jobs, stems and handler      *)
(* threads, every resume limit and any number of crashes.                  *)
(*                                                                         *)
(* IInv is inductive: first its core, then, given the core, what it says   *)
(* of endings, finished jobs and accepted ones.  What a save of the file and a removal of a          *)
(* directory do is stated once (SaveFacts, RemovalFacts); the steps of the *)
(* actors then need those facts only.                                      *)
(***************************************************************************)
EXTENDS JobRegistry, TLAPS

USE KindsAssumption, StemsAssumption, SettingAssumption, BoundsAssumption, NoneAssumption
USE DEF memVars, dirVars, workVars, thrVars, sweepVars, importVars, histVars,
        Terminal, Resumable, Persisted, Status, InFlight

----------------------------------------------------------------------------
(* A save writes a well-formed file that agrees with memory: persisted jobs *)
(* with their attempts, and the deletions whose directory is still there.   *)
LEMMA SaveFacts ==
  ASSUME TypeOK, Persist
  PROVE  /\ disk' \in [status : [Jobs -> {"none"} \cup Persisted], attempts : [Jobs -> Nat],
                       deleted : SUBSET Jobs]
         /\ \A j \in Jobs : /\ disk'.status[j] = IF mem[j] \in Persisted THEN mem[j] ELSE "none"
                            /\ mem[j] \in Persisted => disk'.attempts[j] = attempts[j]
         /\ deletedIds' = deletedIds \cap present
         /\ disk'.deleted = deletedIds \cap present
  BY DEF TypeOK, Persist, Pruned

(* A removal touches one directory; what is left of it is still a directory. *)
LEMMA RemovalFacts ==
  ASSUME TypeOK, DiskShape, NEW j \in Jobs, RemoveTree(j)
  PROVE  /\ present' \in SUBSET present /\ source' \in SUBSET present'
         /\ stems' \in [Jobs -> SUBSET Stems]
         /\ \A k \in Jobs \ {j} : stems'[k] = stems[k] /\ (k \in present' <=> k \in present)
         /\ \A k \in Jobs : stems'[k] # {} => k \in present'
         /\ \A k \in Jobs \ {j} : k \in source' <=> k \in source
<1>1. CASE /\ present' = present \ {j} /\ source' = source \ {j}
           /\ stems' = [stems EXCEPT ![j] = {}]
  BY <1>1 DEF TypeOK, DiskShape
<1>2. CASE /\ j \in present /\ present' = present
           /\ source' \in {source, source \ {j}}
           /\ \E left \in SUBSET stems[j] : stems' = [stems EXCEPT ![j] = left]
  BY <1>2 DEF TypeOK, DiskShape
<1>3. QED
  BY <1>1, <1>2 DEF RemoveTree

----------------------------------------------------------------------------
LEMMA ImportsKeep ==
  ASSUME CoreInv, NEW j \in Jobs, UploadStores(j) \/ UploadRefuses(j) \/ Register(j)
  PROVE  CoreInv'
<1> USE DEF CoreInv, TypeOK, Quiet, DiskShape, FreshIdsUnknown, ActorsInStep,
            FinishedSurvives, DeletedLeavesNoTrace, StartsCounted, LoopFree
<1>1. CASE UploadStores(j)
  BY <1>1 DEF UploadStores
<1>2. CASE UploadRefuses(j)
  <2>1. j \in Jobs /\ RemoveTree(j)
    BY <1>2 DEF UploadRefuses
  <2> HIDE DEF CoreInv, TypeOK, DiskShape
  <2>2. /\ present' \in SUBSET present /\ source' \in SUBSET present'
        /\ stems' \in [Jobs -> SUBSET Stems]
        /\ \A k \in Jobs \ {j} : stems'[k] = stems[k] /\ (k \in present' <=> k \in present)
        /\ \A k \in Jobs : stems'[k] # {} => k \in present'
    BY <2>1, RemovalFacts DEF CoreInv
  <2> USE DEF CoreInv, TypeOK, DiskShape
  <2>3. TypeOK' /\ DiskShape'
    BY <1>2, <2>1, <2>2 DEF UploadRefuses
  <2>4. Quiet' /\ FreshIdsUnknown'
    BY <1>2, <2>1, <2>2 DEF UploadRefuses
  <2>5. ActorsInStep'
    BY <1>2, <2>1, <2>2 DEF UploadRefuses
  <2>6. FinishedSurvives' /\ DeletedLeavesNoTrace' /\ StartsCounted'
    BY <1>2, <2>1, <2>2 DEF UploadRefuses
  <2>7. QED
    BY <2>3, <2>4, <2>5, <2>6 DEF CoreInv
<1>3. CASE Register(j)
  BY <1>3 DEF Register
<1>4. QED
  BY <1>1, <1>2, <1>3

LEMMA AcknowledgeKeeps ==
  ASSUME CoreInv, Acknowledge
  PROVE  CoreInv'
<1> USE DEF CoreInv, TypeOK, Quiet, DiskShape, FreshIdsUnknown, ActorsInStep,
            FinishedSurvives, DeletedLeavesNoTrace, StartsCounted
<1>1. CASE Acknowledge
  <2>1. Persist
    BY <1>1 DEF Acknowledge
  <2> HIDE DEF CoreInv, TypeOK
  <2>2. /\ disk' \in [status : [Jobs -> {"none"} \cup Persisted], attempts : [Jobs -> Nat],
                       deleted : SUBSET Jobs]
        /\ \A k \in Jobs : /\ disk'.status[k] = IF mem[k] \in Persisted THEN mem[k] ELSE "none"
                           /\ mem[k] \in Persisted => disk'.attempts[k] = attempts[k]
        /\ deletedIds' = deletedIds \cap present
        /\ disk'.deleted = deletedIds \cap present
    BY <2>1, SaveFacts DEF CoreInv
  <2> USE DEF CoreInv, TypeOK
  <2>3. TypeOK' /\ DiskShape'
    BY <1>1, <2>1, <2>2 DEF Acknowledge
  <2>4. Quiet' /\ FreshIdsUnknown'
    BY <1>1, <2>1, <2>2 DEF Acknowledge
  <2>5. ActorsInStep'
    BY <1>1, <2>1, <2>2 DEF Acknowledge
  <2>6. FinishedSurvives' /\ DeletedLeavesNoTrace' /\ StartsCounted'
    BY <1>1, <2>1, <2>2 DEF Acknowledge
  <2>7. QED
    BY <2>3, <2>4, <2>5, <2>6 DEF CoreInv
<1>2. QED
  BY <1>1

LEMMA PipelineKeeps ==
  ASSUME CoreInv, (\E j \in Jobs : Claim(j)) \/ Download \/ Collect \/ DropSource \/ Finish
  PROVE  CoreInv'
<1> USE DEF CoreInv, TypeOK, Quiet, DiskShape, FreshIdsUnknown, ActorsInStep,
            FinishedSurvives, DeletedLeavesNoTrace, StartsCounted, OnLoop, WorkerStep
<1>1. CASE \E j \in Jobs : Claim(j)
  BY <1>1 DEF Claim
<1>2. CASE Download
  BY <1>2 DEF Download
<1>3. CASE Collect
  BY <1>3 DEF Collect
<1>4. CASE DropSource
  BY <1>4 DEF DropSource
<1>5. CASE Finish
  BY <1>5 DEF Finish
<1>6. QED
  BY <1>1, <1>2, <1>3, <1>4, <1>5

LEMMA OutcomesKeep ==
  ASSUME CoreInv, StopCancelled \/ SaveCancelled \/ RemoveCancelled \/ Fail \/ FailMissing \/ Quarantine \/ Save
  PROVE  CoreInv'
<1> USE DEF CoreInv, TypeOK, Quiet, DiskShape, FreshIdsUnknown, ActorsInStep,
            FinishedSurvives, DeletedLeavesNoTrace, StartsCounted, OnLoop, WorkerStep
<1>1. CASE StopCancelled
  BY <1>1 DEF StopCancelled
<1>2. CASE SaveCancelled
  <2>1. Persist
    BY <1>2 DEF SaveCancelled
  <2> HIDE DEF CoreInv, TypeOK
  <2>2. /\ disk' \in [status : [Jobs -> {"none"} \cup Persisted], attempts : [Jobs -> Nat],
                       deleted : SUBSET Jobs]
        /\ \A k \in Jobs : /\ disk'.status[k] = IF mem[k] \in Persisted THEN mem[k] ELSE "none"
                           /\ mem[k] \in Persisted => disk'.attempts[k] = attempts[k]
        /\ deletedIds' = deletedIds \cap present
        /\ disk'.deleted = deletedIds \cap present
    BY <2>1, SaveFacts DEF CoreInv
  <2> USE DEF CoreInv, TypeOK
  <2>3. TypeOK' /\ DiskShape'
    BY <1>2, <2>1, <2>2 DEF SaveCancelled
  <2>4. Quiet' /\ FreshIdsUnknown'
    BY <1>2, <2>1, <2>2 DEF SaveCancelled
  <2>5. ActorsInStep'
    BY <1>2, <2>1, <2>2 DEF SaveCancelled
  <2>6. FinishedSurvives' /\ DeletedLeavesNoTrace' /\ StartsCounted'
    BY <1>2, <2>1, <2>2 DEF SaveCancelled
  <2>7. QED
    BY <2>3, <2>4, <2>5, <2>6 DEF CoreInv
<1>3. CASE RemoveCancelled
  <2>1. wjob \in Jobs /\ RemoveTree(wjob)
    BY <1>3 DEF RemoveCancelled
  <2> HIDE DEF CoreInv, TypeOK, DiskShape
  <2>2. /\ present' \in SUBSET present /\ source' \in SUBSET present'
        /\ stems' \in [Jobs -> SUBSET Stems]
        /\ \A k \in Jobs \ {wjob} : stems'[k] = stems[k] /\ (k \in present' <=> k \in present)
        /\ \A k \in Jobs : stems'[k] # {} => k \in present'
    BY <2>1, RemovalFacts DEF CoreInv
  <2> USE DEF CoreInv, TypeOK, DiskShape
  <2>3. TypeOK' /\ DiskShape'
    BY <1>3, <2>1, <2>2 DEF RemoveCancelled
  <2>4. Quiet' /\ FreshIdsUnknown'
    BY <1>3, <2>1, <2>2 DEF RemoveCancelled
  <2>5. ActorsInStep'
    BY <1>3, <2>1, <2>2 DEF RemoveCancelled
  <2>6. FinishedSurvives' /\ DeletedLeavesNoTrace' /\ StartsCounted'
    BY <1>3, <2>1, <2>2 DEF RemoveCancelled
  <2>7. QED
    BY <2>3, <2>4, <2>5, <2>6 DEF CoreInv
<1>4. CASE Fail
  BY <1>4 DEF Fail
<1>5. CASE FailMissing
  BY <1>5 DEF FailMissing
<1>6. CASE Quarantine
  <2>1. wjob \in Jobs /\ RemoveTree(wjob)
    BY <1>6 DEF Quarantine
  <2> HIDE DEF CoreInv, TypeOK, DiskShape
  <2>2. /\ present' \in SUBSET present /\ source' \in SUBSET present'
        /\ stems' \in [Jobs -> SUBSET Stems]
        /\ \A k \in Jobs \ {wjob} : stems'[k] = stems[k] /\ (k \in present' <=> k \in present)
        /\ \A k \in Jobs : stems'[k] # {} => k \in present'
    BY <2>1, RemovalFacts DEF CoreInv
  <2> USE DEF CoreInv, TypeOK, DiskShape
  <2>3. TypeOK' /\ DiskShape'
    BY <1>6, <2>1, <2>2 DEF Quarantine
  <2>4. Quiet' /\ FreshIdsUnknown'
    BY <1>6, <2>1, <2>2 DEF Quarantine
  <2>5. ActorsInStep'
    BY <1>6, <2>1, <2>2 DEF Quarantine
  <2>6. FinishedSurvives' /\ DeletedLeavesNoTrace' /\ StartsCounted'
    BY <1>6, <2>1, <2>2 DEF Quarantine
  <2>7. QED
    BY <2>3, <2>4, <2>5, <2>6 DEF CoreInv
<1>7. CASE Save
  <2>1. Persist
    BY <1>7 DEF Save
  <2> HIDE DEF CoreInv, TypeOK
  <2>2. /\ disk' \in [status : [Jobs -> {"none"} \cup Persisted], attempts : [Jobs -> Nat],
                       deleted : SUBSET Jobs]
        /\ \A k \in Jobs : /\ disk'.status[k] = IF mem[k] \in Persisted THEN mem[k] ELSE "none"
                           /\ mem[k] \in Persisted => disk'.attempts[k] = attempts[k]
        /\ deletedIds' = deletedIds \cap present
        /\ disk'.deleted = deletedIds \cap present
    BY <2>1, SaveFacts DEF CoreInv
  <2> USE DEF CoreInv, TypeOK
  <2>3. TypeOK' /\ DiskShape'
    BY <1>7, <2>1, <2>2 DEF Save
  <2>4. Quiet' /\ FreshIdsUnknown'
    BY <1>7, <2>1, <2>2 DEF Save
  <2>5. ActorsInStep'
    BY <1>7, <2>1, <2>2 DEF Save
  <2>6. FinishedSurvives' /\ DeletedLeavesNoTrace' /\ StartsCounted'
    BY <1>7, <2>1, <2>2 DEF Save
  <2>7. QED
    BY <2>3, <2>4, <2>5, <2>6 DEF CoreInv
<1>8. QED
  BY <1>1, <1>2, <1>3, <1>4, <1>5, <1>6, <1>7

LEMMA HandlersKeep ==
  ASSUME CoreInv, NEW t \in Threads, Handler(t)
  PROVE  CoreInv'
<1> USE DEF CoreInv, TypeOK, Quiet, DiskShape, FreshIdsUnknown, ActorsInStep,
            FinishedSurvives, DeletedLeavesNoTrace, StartsCounted, Takes, ThreadStep
<1>1. CASE \E j \in Jobs : CancelWaiting(t, j)
  BY <1>1 DEF CancelWaiting
<1>2. CASE \E j \in Jobs : CancelRunning(t, j)
  BY <1>2 DEF CancelRunning
<1>3. CASE \E j \in Jobs : DeleteBegins(t, j)
  BY <1>3 DEF DeleteBegins
<1>4. CASE CancelRemoves(t)
  <2>1. tjob[t] \in Jobs /\ RemoveTree(tjob[t])
    BY <1>4 DEF CancelRemoves
  <2> HIDE DEF CoreInv, TypeOK, DiskShape
  <2>2. /\ present' \in SUBSET present /\ source' \in SUBSET present'
        /\ stems' \in [Jobs -> SUBSET Stems]
        /\ \A k \in Jobs \ {tjob[t]} : stems'[k] = stems[k] /\ (k \in present' <=> k \in present)
        /\ \A k \in Jobs : stems'[k] # {} => k \in present'
    BY <2>1, RemovalFacts DEF CoreInv
  <2> USE DEF CoreInv, TypeOK, DiskShape
  <2>3. TypeOK' /\ DiskShape'
    BY <1>4, <2>1, <2>2 DEF CancelRemoves
  <2>4. Quiet' /\ FreshIdsUnknown'
    BY <1>4, <2>1, <2>2 DEF CancelRemoves
  <2>5. ActorsInStep'
    BY <1>4, <2>1, <2>2 DEF CancelRemoves
  <2>6. FinishedSurvives' /\ DeletedLeavesNoTrace' /\ StartsCounted'
    BY <1>4, <2>1, <2>2 DEF CancelRemoves
  <2>7. QED
    BY <2>3, <2>4, <2>5, <2>6 DEF CoreInv
<1>5. CASE CancelSaves(t)
  <2>1. Persist
    BY <1>5 DEF CancelSaves
  <2> HIDE DEF CoreInv, TypeOK
  <2>2. /\ disk' \in [status : [Jobs -> {"none"} \cup Persisted], attempts : [Jobs -> Nat],
                       deleted : SUBSET Jobs]
        /\ \A k \in Jobs : /\ disk'.status[k] = IF mem[k] \in Persisted THEN mem[k] ELSE "none"
                           /\ mem[k] \in Persisted => disk'.attempts[k] = attempts[k]
        /\ deletedIds' = deletedIds \cap present
        /\ disk'.deleted = deletedIds \cap present
    BY <2>1, SaveFacts DEF CoreInv
  <2> USE DEF CoreInv, TypeOK
  <2>3. TypeOK' /\ DiskShape'
    BY <1>5, <2>1, <2>2 DEF CancelSaves
  <2>4. Quiet' /\ FreshIdsUnknown'
    BY <1>5, <2>1, <2>2 DEF CancelSaves
  <2>5. ActorsInStep'
    BY <1>5, <2>1, <2>2 DEF CancelSaves
  <2>6. FinishedSurvives' /\ DeletedLeavesNoTrace' /\ StartsCounted'
    BY <1>5, <2>1, <2>2 DEF CancelSaves
  <2>7. QED
    BY <2>3, <2>4, <2>5, <2>6 DEF CoreInv
<1>6. CASE DeleteRemoves(t)
  <2>1. tjob[t] \in Jobs /\ RemoveTree(tjob[t])
    BY <1>6 DEF DeleteRemoves
  <2> HIDE DEF CoreInv, TypeOK, DiskShape
  <2>2. /\ present' \in SUBSET present /\ source' \in SUBSET present'
        /\ stems' \in [Jobs -> SUBSET Stems]
        /\ \A k \in Jobs \ {tjob[t]} : stems'[k] = stems[k] /\ (k \in present' <=> k \in present)
        /\ \A k \in Jobs : stems'[k] # {} => k \in present'
    BY <2>1, RemovalFacts DEF CoreInv
  <2> USE DEF CoreInv, TypeOK, DiskShape
  <2>3. TypeOK' /\ DiskShape'
    BY <1>6, <2>1, <2>2 DEF DeleteRemoves
  <2>4. Quiet' /\ FreshIdsUnknown'
    BY <1>6, <2>1, <2>2 DEF DeleteRemoves
  <2>5. ActorsInStep'
    BY <1>6, <2>1, <2>2 DEF DeleteRemoves
  <2>6. FinishedSurvives' /\ DeletedLeavesNoTrace' /\ StartsCounted'
    BY <1>6, <2>1, <2>2 DEF DeleteRemoves
  <2>7. QED
    BY <2>3, <2>4, <2>5, <2>6 DEF CoreInv
<1>7. CASE DeleteMarks(t)
  BY <1>7 DEF DeleteMarks
<1>8. CASE DeleteForgets(t)
  BY <1>8 DEF DeleteForgets
<1>9. CASE DeleteSaves(t)
  <2>1. Persist
    BY <1>9 DEF DeleteSaves
  <2> HIDE DEF CoreInv, TypeOK
  <2>2. /\ disk' \in [status : [Jobs -> {"none"} \cup Persisted], attempts : [Jobs -> Nat],
                       deleted : SUBSET Jobs]
        /\ \A k \in Jobs : /\ disk'.status[k] = IF mem[k] \in Persisted THEN mem[k] ELSE "none"
                           /\ mem[k] \in Persisted => disk'.attempts[k] = attempts[k]
        /\ deletedIds' = deletedIds \cap present
        /\ disk'.deleted = deletedIds \cap present
    BY <2>1, SaveFacts DEF CoreInv
  <2> USE DEF CoreInv, TypeOK
  <2>3. TypeOK' /\ DiskShape'
    BY <1>9, <2>1, <2>2 DEF DeleteSaves
  <2>4. Quiet' /\ FreshIdsUnknown'
    BY <1>9, <2>1, <2>2 DEF DeleteSaves
  <2>5. ActorsInStep'
    BY <1>9, <2>1, <2>2 DEF DeleteSaves
  <2>6. FinishedSurvives' /\ DeletedLeavesNoTrace' /\ StartsCounted'
    BY <1>9, <2>1, <2>2 DEF DeleteSaves
  <2>7. QED
    BY <2>3, <2>4, <2>5, <2>6 DEF CoreInv
<1>10. CASE EditSaves(t)
  <2>1. Persist
    BY <1>10 DEF EditSaves
  <2> HIDE DEF CoreInv, TypeOK
  <2>2. /\ disk' \in [status : [Jobs -> {"none"} \cup Persisted], attempts : [Jobs -> Nat],
                       deleted : SUBSET Jobs]
        /\ \A k \in Jobs : /\ disk'.status[k] = IF mem[k] \in Persisted THEN mem[k] ELSE "none"
                           /\ mem[k] \in Persisted => disk'.attempts[k] = attempts[k]
        /\ deletedIds' = deletedIds \cap present
        /\ disk'.deleted = deletedIds \cap present
    BY <2>1, SaveFacts DEF CoreInv
  <2> USE DEF CoreInv, TypeOK
  <2>3. TypeOK' /\ DiskShape'
    BY <1>10, <2>1, <2>2 DEF EditSaves
  <2>4. Quiet' /\ FreshIdsUnknown'
    BY <1>10, <2>1, <2>2 DEF EditSaves
  <2>5. ActorsInStep'
    BY <1>10, <2>1, <2>2 DEF EditSaves
  <2>6. FinishedSurvives' /\ DeletedLeavesNoTrace' /\ StartsCounted'
    BY <1>10, <2>1, <2>2 DEF EditSaves
  <2>7. QED
    BY <2>3, <2>4, <2>5, <2>6 DEF CoreInv
<1>11. QED
  BY <1>1, <1>2, <1>3, <1>4, <1>5, <1>6, <1>7, <1>8, <1>9, <1>10 DEF Handler

LEMMA SweepKeeps ==
  ASSUME CoreInv, Sweep
  PROVE  CoreInv'
<1> USE DEF CoreInv, TypeOK, Quiet, DiskShape, FreshIdsUnknown, ActorsInStep,
            FinishedSurvives, DeletedLeavesNoTrace, StartsCounted, SweepStep
<1>1. CASE SweepBegins
  <2>1. TypeOK' /\ DiskShape'
    BY <1>1 DEF SweepBegins
  <2>2. Quiet' /\ FreshIdsUnknown'
    BY <1>1 DEF SweepBegins
  <2>3. ActorsInStep'
    BY <1>1 DEF SweepBegins
  <2>4. FinishedSurvives' /\ DeletedLeavesNoTrace' /\ StartsCounted'
    BY <1>1 DEF SweepBegins
  <2>5. QED
    BY <2>1, <2>2, <2>3, <2>4 DEF CoreInv
<1>2. CASE SweepRemoves
  <2>1. PICK j \in todo : /\ SweepMayTake(j)
                          /\ sjob' = j /\ todo' = todo \ {j}
                          /\ doomed' = doomed \cup {j}
                          /\ RemoveTree(j)
    BY <1>2 DEF SweepRemoves
  <2> HIDE DEF CoreInv, TypeOK, DiskShape
  <2>2. /\ j \in Jobs
        /\ present' \in SUBSET present /\ source' \in SUBSET present'
        /\ stems' \in [Jobs -> SUBSET Stems]
        /\ \A k \in Jobs \ {j} : stems'[k] = stems[k] /\ (k \in present' <=> k \in present)
        /\ \A k \in Jobs : stems'[k] # {} => k \in present'
    BY <2>1, RemovalFacts DEF CoreInv, TypeOK
  <2> USE DEF CoreInv, TypeOK, DiskShape
  <2>3. /\ j \notin uploading /\ told[j] # "nothing" /\ mem[j] \in Terminal \cup {"none"}
    BY <2>1, <2>2 DEF SweepMayTake
  <2>4. TypeOK' /\ DiskShape'
    BY <1>2, <2>1, <2>2 DEF SweepRemoves
  <2>5. Quiet' /\ FreshIdsUnknown'
    BY <1>2, <2>1, <2>2, <2>3 DEF SweepRemoves
  <2>6. ActorsInStep'
    BY <1>2, <2>1, <2>2, <2>3 DEF SweepRemoves
  <2>7. FinishedSurvives' /\ DeletedLeavesNoTrace' /\ StartsCounted'
    BY <1>2, <2>1, <2>2, <2>3 DEF SweepRemoves
  <2>8. QED
    BY <2>4, <2>5, <2>6, <2>7 DEF CoreInv
<1>3. CASE SweepForgets
  BY <1>3 DEF SweepForgets
<1>4. CASE SweepEnds
  <2>1. CASE removed
    <3>1. Persist
      BY <1>4, <2>1 DEF SweepEnds
    <3> HIDE DEF CoreInv, TypeOK
    <3>2. /\ disk' \in [status : [Jobs -> {"none"} \cup Persisted], attempts : [Jobs -> Nat],
                         deleted : SUBSET Jobs]
          /\ \A k \in Jobs : /\ disk'.status[k] = IF mem[k] \in Persisted THEN mem[k] ELSE "none"
                             /\ mem[k] \in Persisted => disk'.attempts[k] = attempts[k]
          /\ deletedIds' = deletedIds \cap present
          /\ disk'.deleted = deletedIds \cap present
      BY <3>1, SaveFacts DEF CoreInv
    <3> USE DEF CoreInv, TypeOK
    <3>3. TypeOK' /\ DiskShape'
      BY <1>4, <2>1, <3>1, <3>2 DEF SweepEnds
    <3>4. Quiet' /\ FreshIdsUnknown'
      BY <1>4, <2>1, <3>1, <3>2 DEF SweepEnds
    <3>5. ActorsInStep'
      BY <1>4, <2>1, <3>1, <3>2 DEF SweepEnds
    <3>6. FinishedSurvives' /\ DeletedLeavesNoTrace' /\ StartsCounted'
      BY <1>4, <2>1, <3>1, <3>2 DEF SweepEnds
    <3>7. QED
      BY <3>3, <3>4, <3>5, <3>6 DEF CoreInv
  <2>2. CASE ~removed
    <3>1. TypeOK' /\ DiskShape'
      <4>1. removed' \in BOOLEAN
        BY <1>4 DEF SweepEnds
      <4>2. QED
        BY <1>4, <2>2, <4>1 DEF SweepEnds
    <3>2. Quiet' /\ FreshIdsUnknown'
      BY <1>4, <2>2 DEF SweepEnds
    <3>3. ActorsInStep'
      BY <1>4, <2>2 DEF SweepEnds
    <3>4. FinishedSurvives' /\ DeletedLeavesNoTrace' /\ StartsCounted'
      BY <1>4, <2>2 DEF SweepEnds
    <3>5. QED
      BY <3>1, <3>2, <3>3, <3>4 DEF CoreInv
  <2>3. QED
    BY <2>1, <2>2
<1>5. QED
  BY <1>1, <1>2, <1>3, <1>4 DEF Sweep

LEMMA RestartsKeep ==
  ASSUME CoreInv, Crash \/ Restore \/ Serve
  PROVE  CoreInv'
<1> USE DEF CoreInv, TypeOK, Quiet, DiskShape, FreshIdsUnknown, ActorsInStep,
            FinishedSurvives, DeletedLeavesNoTrace, StartsCounted
<1>1. CASE Crash
  <2>1. TypeOK' /\ DiskShape'
    <3>1. removed' \in BOOLEAN
      BY <1>1 DEF Crash
    <3>2. cancelReq' \in [Jobs -> BOOLEAN]
      BY <1>1 DEF Crash
    <3>3. QED
      BY <1>1, <3>1, <3>2 DEF Crash
  <2>2. Quiet' /\ FreshIdsUnknown'
    BY <1>1 DEF Crash
  <2>3. ActorsInStep'
    BY <1>1 DEF Crash
  <2>4. FinishedSurvives' /\ DeletedLeavesNoTrace' /\ StartsCounted'
    BY <1>1 DEF Crash
  <2>5. QED
    BY <2>1, <2>2, <2>3, <2>4 DEF CoreInv
<1>2. CASE Restore
  <2>1. TypeOK' /\ DiskShape'
    BY <1>2 DEF Restore, RestoredStatus, RestoredAttempts, Record, Adopted, Landed
  <2>2. Quiet' /\ FreshIdsUnknown'
    BY <1>2 DEF Restore, RestoredStatus, RestoredAttempts, Record, Adopted, Landed
  <2>3. ActorsInStep'
    BY <1>2 DEF Restore, RestoredStatus, RestoredAttempts, Record, Adopted, Landed
  <2>4. FinishedSurvives' /\ DeletedLeavesNoTrace' /\ StartsCounted'
    BY <1>2 DEF Restore, RestoredStatus, RestoredAttempts, Record, Adopted, Landed
  <2>5. QED
    BY <2>1, <2>2, <2>3, <2>4 DEF CoreInv
<1>3. CASE Serve
  <2>1. CASE \E j \in Jobs : InFlight(j) \/ (Record(j) = "none" /\ Adopted(j))
    <3>1. Persist
      BY <1>3, <2>1 DEF Serve
    <3> HIDE DEF CoreInv, TypeOK
    <3>2. /\ disk' \in [status : [Jobs -> {"none"} \cup Persisted], attempts : [Jobs -> Nat],
                         deleted : SUBSET Jobs]
          /\ \A k \in Jobs : /\ disk'.status[k] = IF mem[k] \in Persisted THEN mem[k] ELSE "none"
                             /\ mem[k] \in Persisted => disk'.attempts[k] = attempts[k]
          /\ deletedIds' = deletedIds \cap present
          /\ disk'.deleted = deletedIds \cap present
      BY <3>1, SaveFacts DEF CoreInv
    <3> USE DEF CoreInv, TypeOK
    <3>3. TypeOK' /\ DiskShape'
      BY <1>3, <2>1, <3>1, <3>2 DEF Serve
    <3>4. Quiet' /\ FreshIdsUnknown'
      BY <1>3, <2>1, <3>1, <3>2 DEF Serve
    <3>5. ActorsInStep'
      BY <1>3, <2>1, <3>1, <3>2 DEF Serve
    <3>6. FinishedSurvives' /\ DeletedLeavesNoTrace' /\ StartsCounted'
      BY <1>3, <2>1, <3>1, <3>2 DEF Serve
    <3>7. QED
      BY <3>3, <3>4, <3>5, <3>6 DEF CoreInv
  <2>2. CASE ~\E j \in Jobs : InFlight(j) \/ (Record(j) = "none" /\ Adopted(j))
    <3>1. TypeOK' /\ DiskShape'
      BY <1>3, <2>2 DEF Serve
    <3>2. Quiet' /\ FreshIdsUnknown'
      BY <1>3, <2>2 DEF Serve
    <3>3. ActorsInStep'
      BY <1>3, <2>2 DEF Serve
    <3>4. FinishedSurvives' /\ DeletedLeavesNoTrace' /\ StartsCounted'
      BY <1>3, <2>2 DEF Serve
    <3>5. QED
      BY <3>1, <3>2, <3>3, <3>4 DEF CoreInv
  <2>3. QED
    BY <2>1, <2>2
<1>4. QED
  BY <1>1, <1>2, <1>3

LEMMA IdleKeeps ==
  ASSUME CoreInv, UNCHANGED vars
  PROVE  CoreInv'
  BY DEF vars, CoreInv, TypeOK, Quiet, DiskShape, FreshIdsUnknown, ActorsInStep,
         FinishedSurvives, DeletedLeavesNoTrace, StartsCounted

LEMMA CoreStep ==
  ASSUME CoreInv, [Next]_vars
  PROVE  CoreInv'
<1>1. CASE \E j \in Jobs : UploadStores(j) \/ UploadRefuses(j) \/ Register(j)
  BY <1>1, ImportsKeep
<1>2. CASE Acknowledge
  BY <1>2, AcknowledgeKeeps
<1>3. CASE Worker
  BY <1>3, PipelineKeeps, OutcomesKeep DEF Worker
<1>4. CASE \E t \in Threads : Handler(t)
  BY <1>4, HandlersKeep
<1>5. CASE Sweep
  BY <1>5, SweepKeeps
<1>6. CASE Crash \/ Restore \/ Serve
  BY <1>6, RestartsKeep
<1>7. CASE UNCHANGED vars
  BY <1>7, IdleKeeps
<1>8. QED
  BY <1>1, <1>2, <1>3, <1>4, <1>5, <1>6, <1>7 DEF Next

----------------------------------------------------------------------------
(* The rest of IInv, one lemma per part; each rests on the core.            *)
LEMMA EndingsStep ==
  ASSUME CoreInv, EndingsAreTold, Next
  PROVE  EndingsAreTold'
<1> USE DEF EndingsAreTold, Undecided
<1>1. TypeOK /\ Quiet /\ FreshIdsUnknown /\ ActorsInStep
  BY DEF CoreInv
<1>2. ASSUME NEW j \in Jobs, UploadStores(j) \/ UploadRefuses(j) \/ Register(j)
      PROVE  EndingsAreTold'
  BY <1>1, <1>2 DEF UploadStores, UploadRefuses, Register, LoopFree, TypeOK, FreshIdsUnknown, ActorsInStep
<1>3. CASE Acknowledge
  BY <1>1, <1>3 DEF Acknowledge, TypeOK
<1>4. CASE Worker
  <2> USE DEF OnLoop, WorkerStep
  <2>1. ASSUME NEW j \in Jobs, Claim(j) PROVE EndingsAreTold'
    BY <1>1, <2>1 DEF Claim, TypeOK, ActorsInStep
  <2>2. CASE Download \/ Collect \/ DropSource \/ Quarantine \/ Save \/ RemoveCancelled
    BY <1>1, <2>2 DEF Download, Collect, DropSource, Quarantine, Save, RemoveCancelled, TypeOK
  <2>3. CASE Finish \/ Fail \/ FailMissing
    BY <1>1, <2>3 DEF Finish, Fail, FailMissing, TypeOK, ActorsInStep
  <2>4. CASE StopCancelled \/ SaveCancelled
    BY <1>1, <2>4 DEF StopCancelled, SaveCancelled, TypeOK, ActorsInStep
  <2>5. QED
    BY <1>4, <2>1, <2>2, <2>3, <2>4 DEF Worker
<1>5. ASSUME NEW t \in Threads, Handler(t) PROVE EndingsAreTold'
  <2> USE DEF Takes, ThreadStep
  <2>1. ASSUME NEW j \in Jobs, CancelWaiting(t, j) \/ CancelRunning(t, j) PROVE EndingsAreTold'
    <3>1. CASE CancelWaiting(t, j)
      BY <1>1, <3>1 DEF CancelWaiting, TypeOK, ActorsInStep
    <3>2. CASE CancelRunning(t, j)
      BY <1>1, <3>2 DEF CancelRunning, TypeOK, ActorsInStep
    <3>3. QED
      BY <2>1, <3>1, <3>2
  <2>2. ASSUME NEW j \in Jobs, DeleteBegins(t, j) PROVE EndingsAreTold'
    BY <1>1, <2>2 DEF DeleteBegins, TypeOK
  <2>3. CASE CancelRemoves(t) \/ CancelSaves(t) \/ EditSaves(t)
    BY <1>1, <2>3 DEF CancelRemoves, CancelSaves, EditSaves, TypeOK, ActorsInStep
  <2>4. CASE DeleteRemoves(t) \/ DeleteMarks(t) \/ DeleteForgets(t) \/ DeleteSaves(t)
    BY <1>1, <2>4 DEF DeleteRemoves, DeleteMarks, DeleteForgets, DeleteSaves, TypeOK, ActorsInStep
  <2>5. QED
    BY <1>5, <2>1, <2>2, <2>3, <2>4 DEF Handler
<1>6. CASE Sweep
  BY <1>1, <1>6 DEF Sweep, SweepBegins, SweepRemoves, SweepForgets, SweepEnds, SweepStep, TypeOK
<1>7. CASE Crash
  BY <1>1, <1>7 DEF Crash, TypeOK
<1>8. CASE Restore
  BY <1>1, <1>8 DEF Restore, RestoredStatus, Record, TypeOK, Quiet
<1>9. CASE Serve
  BY <1>1, <1>9 DEF Serve, TypeOK
<1>10. QED
  BY <1>2, <1>3, <1>4, <1>5, <1>6, <1>7, <1>8, <1>9 DEF Next

(* A save writes what memory says; a finished job is not touched by a       *)
(* removal unless it is doomed.                                             *)
LEMMA FinishedStep ==
  ASSUME CoreInv, FinishedOnFile, Next
  PROVE  FinishedOnFile'
<1> USE DEF FinishedOnFile
<1>1. TypeOK /\ Quiet /\ DiskShape /\ FreshIdsUnknown /\ ActorsInStep
  BY DEF CoreInv
<1>2. ASSUME Persist, UNCHANGED <<mem, stems, doomed>>, proc # "down"
      PROVE  FinishedOnFile'
  <2>1. \A j \in Jobs : disk'.status[j] = IF mem[j] \in Persisted THEN mem[j] ELSE "none"
    BY <1>1, <1>2, SaveFacts
  <2>2. QED
    BY <1>2, <2>1
<1>3. ASSUME NEW k \in Jobs, RemoveTree(k), UNCHANGED <<disk, mem, proc>>, doomed \subseteq doomed',
             k \in doomed' \/ (mem[k] # "done" /\ disk.status[k] # "done")
      PROVE  FinishedOnFile'
  <2>1. \A j \in Jobs \ {k} : stems'[j] = stems[j]
    BY <1>1, <1>3, RemovalFacts
  <2>2. QED
    BY <1>3, <2>1
<1>4. ASSUME NEW j \in Jobs, UploadStores(j) \/ Register(j)
      PROVE  FinishedOnFile'
  BY <1>1, <1>4 DEF UploadStores, Register, LoopFree, TypeOK, FreshIdsUnknown
<1>5. ASSUME NEW j \in Jobs, UploadRefuses(j)
      PROVE  FinishedOnFile'
  <2>1. mem[j] = "none" /\ disk.status[j] = "none"
    BY <1>1, <1>5 DEF UploadRefuses, FreshIdsUnknown
  <2>2. RemoveTree(j) /\ UNCHANGED <<disk, mem, proc, doomed>>
    BY <1>5 DEF UploadRefuses
  <2>3. QED
    BY <1>3, <2>1, <2>2
<1>6. CASE Acknowledge
  <2>1. proc # "down"
    BY <1>1, <1>6 DEF Acknowledge, Quiet
  <2>2. QED
    BY <1>2, <1>6, <2>1 DEF Acknowledge
<1>7. CASE Worker
  <2> USE DEF OnLoop, WorkerStep
  <2>1. ASSUME NEW j \in Jobs, Claim(j) PROVE FinishedOnFile'
    BY <1>1, <2>1 DEF Claim, TypeOK, ActorsInStep
  <2>2. CASE Download \/ DropSource
    BY <2>2 DEF Download, DropSource
  <2>3. CASE Collect
    BY <1>1, <2>3 DEF Collect, TypeOK
  <2>4. CASE Finish
    BY <1>1, <2>4, StemsAssumption DEF Finish, TypeOK
  <2>5. CASE StopCancelled \/ Fail \/ FailMissing
    BY <1>1, <2>5 DEF StopCancelled, Fail, FailMissing, TypeOK, ActorsInStep
  <2>6. CASE SaveCancelled \/ Save
    BY <1>2, <2>6 DEF SaveCancelled, Save
  <2>7. CASE RemoveCancelled \/ Quarantine
    <3>1. wjob \in Jobs /\ mem[wjob] # "done" /\ proc = "up"
      BY <1>1, <2>7 DEF RemoveCancelled, Quarantine, ActorsInStep
    <3>2. RemoveTree(wjob) /\ UNCHANGED <<disk, mem, proc, doomed>>
      BY <2>7 DEF RemoveCancelled, Quarantine
    <3>3. wjob \in doomed' \/ disk.status[wjob] # "done"
      BY <3>1, <3>2
    <3>4. QED
      BY <1>3, <3>1, <3>2, <3>3
  <2>8. QED
    BY <1>7, <2>1, <2>2, <2>3, <2>4, <2>5, <2>6, <2>7 DEF Worker
<1>8. ASSUME NEW t \in Threads, Handler(t) PROVE FinishedOnFile'
  <2> USE DEF Takes, ThreadStep
  <2>1. ASSUME NEW j \in Jobs, CancelWaiting(t, j) PROVE FinishedOnFile'
    BY <1>1, <2>1 DEF CancelWaiting, TypeOK, ActorsInStep
  <2>2. ASSUME NEW j \in Jobs, CancelRunning(t, j) \/ DeleteBegins(t, j) PROVE FinishedOnFile'
    BY <2>2 DEF CancelRunning, DeleteBegins
  <2>3. CASE CancelSaves(t) \/ DeleteSaves(t) \/ EditSaves(t)
    BY <1>2, <2>3 DEF CancelSaves, DeleteSaves, EditSaves, histVars
  <2>4. CASE CancelRemoves(t) \/ DeleteRemoves(t)
    <3>1. tjob[t] \in Jobs /\ proc = "up" /\ (mem[tjob[t]] # "done" \/ tjob[t] \in doomed)
      BY <1>1, <2>4 DEF CancelRemoves, DeleteRemoves, ActorsInStep
    <3>2. RemoveTree(tjob[t]) /\ UNCHANGED <<disk, mem, proc, doomed>>
      BY <2>4 DEF CancelRemoves, DeleteRemoves
    <3>3. tjob[t] \in doomed' \/ disk.status[tjob[t]] # "done"
      BY <3>1, <3>2
    <3>4. QED
      BY <1>3, <3>1, <3>2, <3>3
  <2>5. CASE DeleteMarks(t)
    BY <2>5 DEF DeleteMarks
  <2>6. CASE DeleteForgets(t)
    BY <1>1, <2>6 DEF DeleteForgets, TypeOK, ActorsInStep
  <2>7. QED
    BY <1>8, <2>1, <2>2, <2>3, <2>4, <2>5, <2>6 DEF Handler
<1>9. CASE Sweep
  <2> USE DEF SweepStep
  <2>1. CASE SweepBegins
    BY <2>1 DEF SweepBegins
  <2>2. CASE SweepRemoves
    <3>1. PICK j \in todo : doomed' = doomed \cup {j} /\ RemoveTree(j)
      BY <2>2 DEF SweepRemoves
    <3>2. j \in Jobs /\ UNCHANGED <<disk, mem, proc>>
      BY <1>1, <2>2, <3>1 DEF SweepRemoves, TypeOK
    <3>3. QED
      BY <1>3, <3>1, <3>2
  <2>3. CASE SweepForgets
    BY <1>1, <2>3 DEF SweepForgets, TypeOK, ActorsInStep
  <2>4. CASE SweepEnds
    BY <1>2, <2>4 DEF SweepEnds
  <2>5. QED
    BY <1>9, <2>1, <2>2, <2>3, <2>4 DEF Sweep
<1>10. CASE Crash
  BY <1>1, <1>10 DEF Crash, TypeOK
<1>11. CASE Restore
  BY <1>1, <1>11 DEF Restore, RestoredStatus, Record, Adopted, Landed, DiskShape, TypeOK
<1>12. CASE Serve
  BY <1>2, <1>12 DEF Serve, histVars
<1>13. QED
  BY <1>4, <1>5, <1>6, <1>7, <1>8, <1>9, <1>10, <1>11, <1>12 DEF Next

(* What is accepted stays on file, and what waits keeps its upload.         *)
LEMMA AcceptedStep ==
  ASSUME CoreInv, EndingsAreTold, FinishedOnFile, AcceptedOnFile, Next
  PROVE  AcceptedOnFile'
<1> USE DEF AcceptedOnFile, Undecided
<1>1. TypeOK /\ Quiet /\ DiskShape /\ FreshIdsUnknown /\ ActorsInStep
  BY DEF CoreInv
<1>2. ASSUME Persist, proc # "down",
             \A j \in Jobs : told'[j] = "accepted" =>
                told[j] = "accepted" \/ (j = accepting /\ told[j] = "asked"),
             UNCHANGED <<mem, stems, source, uploading, doomed>>,
             accepting' = None \/ (accepting' = accepting /\ (told'[accepting] = "asked" => told[accepting] = "asked")),
             proc' = "up"
      PROVE  AcceptedOnFile'
  <2>1. \A j \in Jobs : disk'.status[j] = IF mem[j] \in Persisted THEN mem[j] ELSE "none"
    BY <1>1, <1>2, SaveFacts
  <2>2. accepting \in Jobs \cup {None}
    BY <1>1 DEF TypeOK
  <2>3. uploading' \subseteq source' /\ (accepting' # None /\ told'[accepting'] = "asked" =>
          mem'[accepting'] = "queued" /\ (accepting' \in Uploads => accepting' \in source'))
    BY <1>2
  <2>4. ASSUME NEW j \in Jobs, told'[j] = "accepted"
        PROVE  /\ j \notin doomed => mem[j] \in Persisted
               /\ mem[j] \in Resumable /\ j \in Uploads /\ stems[j] = {} => j \in source
    BY <1>2, <2>2, <2>4
  <2>5. QED
    BY <1>2, <2>1, <2>3, <2>4
<1>3. ASSUME NEW k \in Jobs, RemoveTree(k),
             UNCHANGED <<disk, mem, proc, accepting>>, doomed \subseteq doomed',
             uploading' \subseteq uploading \ {k}, proc = "up",
             \A j \in Jobs : told'[j] \in {"accepted", "asked"} => told'[j] = told[j],
             accepting = k => told'[k] # "asked",
             told'[k] = "accepted" => mem[k] \notin Resumable,
             mem[k] # "queued", k \notin uploading'
      PROVE  AcceptedOnFile'
  <2>1. \A j \in Jobs \ {k} : stems'[j] = stems[j] /\ (j \in source' <=> j \in source)
    BY <1>1, <1>3, RemovalFacts
  <2>2. accepting \in Jobs \cup {None} /\ uploading \subseteq Jobs
    BY <1>1, KindsAssumption DEF TypeOK
  <2>3. uploading' \subseteq source'
    BY <1>3, <2>1, <2>2
  <2>4. accepting' # None /\ told'[accepting'] = "asked" =>
          mem'[accepting'] = "queued" /\ (accepting' \in Uploads => accepting' \in source')
    BY <1>3, <2>1, <2>2
  <2>5. \A j \in Jobs : mem'[j] = "queued" \/ j \in uploading' => stems'[j] = {}
    BY <1>3, <2>1, <2>2
  <2>6. QED
    BY <1>3, <2>1, <2>3, <2>4, <2>5
<1>4. ASSUME NEW j \in Jobs, UploadStores(j) \/ Register(j)
      PROVE  AcceptedOnFile'
  <2>1. CASE UploadStores(j)
    BY <1>1, <2>1, NoneAssumption DEF UploadStores, LoopFree, TypeOK, DiskShape, FreshIdsUnknown
  <2>2. CASE Register(j)
    BY <1>1, <2>2, NoneAssumption DEF Register, LoopFree, TypeOK, DiskShape, FreshIdsUnknown
  <2>3. QED
    BY <1>4, <2>1, <2>2
<1>5. ASSUME NEW j \in Jobs, UploadRefuses(j)
      PROVE  AcceptedOnFile'
  <2>1. RemoveTree(j) /\ UNCHANGED <<disk, mem, proc, accepting, doomed>> /\ proc = "up"
        /\ uploading' = uploading \ {j} /\ told' = [told EXCEPT ![j] = "refused"] /\ accepting = None
    BY <1>5 DEF UploadRefuses, LoopFree
  <2>2. mem[j] = "none" /\ j \notin uploading' /\ j # None
    BY <1>1, <1>5, <2>1, NoneAssumption DEF UploadRefuses, FreshIdsUnknown
  <2>3. \A k \in Jobs : told'[k] \in {"accepted", "asked"} => told'[k] = told[k]
    BY <1>1, <2>1 DEF TypeOK
  <2>4. told'[j] = "refused"
    BY <1>1, <2>1 DEF TypeOK
  <2>5. QED
    BY <1>3, <2>1, <2>2, <2>3, <2>4
<1>6. CASE Acknowledge
  <2>1. proc = "up"
    BY <1>1, <1>6 DEF Acknowledge, Quiet
  <2>2. QED
    BY <1>1, <1>2, <1>6, <2>1 DEF Acknowledge, TypeOK
<1>7. CASE Worker
  <2> USE DEF OnLoop, WorkerStep
  <2>1. ASSUME NEW j \in Jobs, Claim(j) PROVE AcceptedOnFile'
    BY <1>1, <2>1 DEF Claim, TypeOK, ActorsInStep
  <2>2. CASE Download
    BY <1>1, <2>2 DEF Download, TypeOK
  <2>3. CASE Collect
    BY <1>1, <2>3 DEF Collect, TypeOK, FreshIdsUnknown, ActorsInStep
  <2>4. CASE DropSource
    BY <1>1, <2>4, StemsAssumption DEF DropSource, TypeOK, FreshIdsUnknown, ActorsInStep
  <2>5. CASE Finish \/ Fail \/ FailMissing
    BY <1>1, <2>5 DEF Finish, Fail, FailMissing, TypeOK, ActorsInStep
  <2>6. CASE StopCancelled
    BY <1>1, <2>6 DEF StopCancelled, EndingsAreTold, TypeOK, ActorsInStep
  <2>7. CASE SaveCancelled
    BY <1>1, <1>2, <2>7 DEF SaveCancelled, TypeOK
  <2>8. CASE Save
    BY <1>2, <2>8 DEF Save
  <2>9. CASE RemoveCancelled \/ Quarantine
    <3>1. wjob \in Jobs /\ told[wjob] \notin Undecided /\ proc = "up" /\ wjob \notin uploading
          /\ mem[wjob] # "queued"
      BY <1>1, <2>9 DEF RemoveCancelled, Quarantine, EndingsAreTold, ActorsInStep, FreshIdsUnknown
    <3>2. RemoveTree(wjob) /\ UNCHANGED <<disk, mem, proc, accepting, doomed, uploading, told>>
      BY <2>9 DEF RemoveCancelled, Quarantine
    <3>3. QED
      BY <1>3, <3>1, <3>2
  <2>10. QED
    BY <1>7, <2>1, <2>2, <2>3, <2>4, <2>5, <2>6, <2>7, <2>8, <2>9 DEF Worker
<1>8. ASSUME NEW t \in Threads, Handler(t) PROVE AcceptedOnFile'
  <2> USE DEF Takes, ThreadStep
  <2>1. ASSUME NEW j \in Jobs, CancelWaiting(t, j) \/ CancelRunning(t, j) PROVE AcceptedOnFile'
    BY <1>1, <2>1 DEF CancelWaiting, CancelRunning, TypeOK, ActorsInStep
  <2>2. ASSUME NEW j \in Jobs, DeleteBegins(t, j) PROVE AcceptedOnFile'
    BY <2>2 DEF DeleteBegins
  <2>3. CASE CancelSaves(t)
    BY <1>1, <1>2, <2>3 DEF CancelSaves, TypeOK, EndingsAreTold, ActorsInStep
  <2>4. CASE DeleteSaves(t)
    BY <1>1, <1>2, <2>4 DEF DeleteSaves, TypeOK
  <2>5. CASE EditSaves(t)
    BY <1>2, <2>5 DEF EditSaves, histVars
  <2>6. CASE CancelRemoves(t) \/ DeleteRemoves(t)
    <3>1. tjob[t] \in Jobs /\ proc = "up" /\ mem[tjob[t]] \notin Resumable /\ tjob[t] \notin uploading
      BY <1>1, <2>6 DEF CancelRemoves, DeleteRemoves, ActorsInStep, FreshIdsUnknown
    <3>2. RemoveTree(tjob[t]) /\ UNCHANGED <<disk, mem, proc, accepting, doomed, uploading, told>>
      BY <2>6 DEF CancelRemoves, DeleteRemoves
    <3>3. accepting = tjob[t] => told[tjob[t]] # "asked"
      BY <3>1, NoneAssumption
    <3>4. QED
      BY <1>3, <3>1, <3>2, <3>3
  <2>7. CASE DeleteMarks(t)
    BY <2>7 DEF DeleteMarks
  <2>8. CASE DeleteForgets(t)
    BY <1>1, <2>8 DEF DeleteForgets, TypeOK, ActorsInStep
  <2>9. QED
    BY <1>8, <2>1, <2>2, <2>3, <2>4, <2>5, <2>6, <2>7, <2>8 DEF Handler
<1>9. CASE Sweep
  <2> USE DEF SweepStep
  <2>1. CASE SweepBegins
    BY <2>1 DEF SweepBegins
  <2>2. CASE SweepRemoves
    <3>1. PICK j \in todo : SweepMayTake(j) /\ doomed' = doomed \cup {j} /\ RemoveTree(j)
      BY <2>2 DEF SweepRemoves
    <3>2. j \in Jobs /\ UNCHANGED <<disk, mem, proc, accepting, uploading, told>> /\ proc = "up"
      BY <1>1, <2>2, <3>1 DEF SweepRemoves, TypeOK
    <3>3. mem[j] \notin Resumable /\ j \notin uploading
      BY <1>1, <3>1, <3>2 DEF SweepMayTake, FreshIdsUnknown
    <3>4. accepting = j => told[j] # "asked"
      BY <3>2, <3>3, NoneAssumption
    <3>5. QED
      BY <1>3, <3>1, <3>2, <3>3, <3>4
  <2>3. CASE SweepForgets
    BY <1>1, <2>3 DEF SweepForgets, TypeOK, ActorsInStep
  <2>4. CASE SweepEnds
    BY <1>2, <2>4 DEF SweepEnds
  <2>5. QED
    BY <1>9, <2>1, <2>2, <2>3, <2>4 DEF Sweep
<1>10. CASE Crash
  BY <1>1, <1>10 DEF Crash, TypeOK, Quiet
<1>11. CASE Restore
  BY <1>1, <1>11 DEF Restore, RestoredStatus, Record, Adopted, Landed, DiskShape, TypeOK, Quiet, FinishedOnFile
<1>12. CASE Serve
  BY <1>1, <1>2, <1>12 DEF Serve, histVars, Quiet, TypeOK
<1>13. QED
  BY <1>4, <1>5, <1>6, <1>7, <1>8, <1>9, <1>10, <1>11, <1>12 DEF Next

LEMMA StepKeeps ==
  ASSUME IInv, [Next]_vars
  PROVE  IInv'
<1>1. CASE Next
  BY <1>1, CoreStep, EndingsStep, FinishedStep, AcceptedStep DEF IInv
<1>2. CASE UNCHANGED vars
  BY <1>2, CoreStep DEF IInv, vars, EndingsAreTold, FinishedOnFile, AcceptedOnFile
<1>3. QED
  BY <1>1, <1>2

(* The invariant the theorems below are read off: imports, worker, handler   *)
(* threads, sweep and restart keep it, whatever of them a crash cuts short.  *)
THEOREM Inductive == Spec => []IInv
<1>1. Init => IInv
  <2>1. ASSUME Init PROVE TypeOK
    <3>1. removed \in BOOLEAN /\ cancelReq \in [Jobs -> BOOLEAN]
      BY <2>1 DEF Init
    <3>2. disk \in [status : [Jobs -> {"none"} \cup Persisted], attempts : [Jobs -> Nat],
                    deleted : SUBSET Jobs]
      BY <2>1 DEF Init, NoRecords
    <3>3. QED
      BY <2>1, <3>1, <3>2 DEF Init, TypeOK
  <2>2. ASSUME Init PROVE /\ Quiet /\ DiskShape /\ FreshIdsUnknown /\ ActorsInStep
                          /\ FinishedSurvives /\ DeletedLeavesNoTrace /\ StartsCounted
    BY <2>2 DEF Init, NoRecords, Quiet, DiskShape, FreshIdsUnknown, ActorsInStep,
                FinishedSurvives, DeletedLeavesNoTrace, StartsCounted
  <2>3. ASSUME Init PROVE EndingsAreTold /\ FinishedOnFile /\ AcceptedOnFile
    BY <2>3 DEF Init, NoRecords, EndingsAreTold, FinishedOnFile, AcceptedOnFile, Undecided
  <2>4. QED
    BY <2>1, <2>2, <2>3 DEF IInv, CoreInv
<1>2. QED
  BY <1>1, StepKeeps, PTL DEF Spec

(* Memory, file, directories and actors stay well-typed through every crash. *)
THEOREM Typed == Spec => []TypeOK
<1>1. IInv => TypeOK
  BY DEF IInv, CoreInv, CoreInv
<1>2. QED
  BY <1>1, Inductive, PTL

(* Issue 521: delete_job's answer is final.  The deletion record outlives    *)
(* every directory that outlived its delete, so restore never adopts it.     *)
THEOREM DeletedIsFinal == Spec => []DeletedStaysDeleted
<1>1. IInv => DeletedStaysDeleted
  BY DEF IInv, CoreInv, DeletedLeavesNoTrace, DeletedStaysDeleted
<1>2. QED
  BY <1>1, Inductive, PTL

(* A finished import survives: whatever the file said of it when the process *)
(* died, restore finds the record or the stems.                              *)
THEOREM FinishedIsKept == Spec => []FinishedSurvives
<1>1. IInv => FinishedSurvives
  BY DEF IInv, CoreInv, CoreInv
<1>2. QED
  BY <1>1, Inductive, PTL

(* A job is started at most _MAX_RESUME_ATTEMPTS + 1 times, however often it *)
(* takes the process down with it.                                           *)
THEOREM CrashLoopEnds == Spec => []NoCrashLoop
<1>1. IInv => NoCrashLoop
  BY DEF IInv, CoreInv, StartsCounted, NoCrashLoop
<1>2. QED
  BY <1>1, Inductive, PTL

(* The answer to an import is a promise: until its outcome is told or its    *)
(* removal begun, the process that is up knows the job, also after crashes.  *)
THEOREM AcceptedIsKnown == Spec => []AcceptedNotLost
<1>1. IInv => AcceptedNotLost
  BY DEF IInv, AcceptedOnFile, AcceptedNotLost
<1>2. QED
  BY <1>1, Inductive, PTL

(* An accepted upload that waits, before or after a restart, has the file    *)
(* _find_local_source will look for: no sweep, cancel or crash took it.      *)
THEOREM WaitingUploadsAreRunnable == Spec => []WaitingUploadHasItsFile
<1>1. IInv => WaitingUploadHasItsFile
  <2>1. ASSUME IInv, NEW j \in Uploads, told[j] = "accepted", mem[j] = "queued"
        PROVE  j \in source
    <3>1. j \in Jobs
      BY KindsAssumption
    <3>2. stems[j] = {}
      BY <2>1, <3>1 DEF IInv, AcceptedOnFile
    <3>3. QED
      BY <2>1, <3>1, <3>2 DEF IInv, AcceptedOnFile
  <2>2. QED
    BY <2>1 DEF WaitingUploadHasItsFile
<1>2. QED
  BY <1>1, Inductive, PTL

(* No save of registry.json drops a finished import that nobody removes,     *)
(* whoever saves and whatever of the table changed since it was read.        *)
THEOREM FileNeverForgets == Spec => FileKeepsFinished
<1>1. ASSUME IInv, [Next]_vars
      PROVE  \/ disk' = disk
             \/ Persist /\ proc # "down"
  <2>1. Quiet
    BY <1>1 DEF IInv, CoreInv
  <2>2. ASSUME NEW j \in Jobs, UploadStores(j) \/ UploadRefuses(j) \/ Register(j) PROVE disk' = disk
    BY <2>2 DEF UploadStores, UploadRefuses, Register
  <2>3. CASE Acknowledge
    BY <2>1, <2>3 DEF Acknowledge, Quiet
  <2>4. CASE Worker
    BY <2>4 DEF Worker, OnLoop, WorkerStep, Claim, Download, Collect, DropSource, Finish, StopCancelled,
                SaveCancelled, RemoveCancelled, Fail, FailMissing, Quarantine, Save
  <2>5. CASE \E t \in Threads : Handler(t)
    BY <2>5 DEF Handler, Takes, ThreadStep, CancelWaiting, CancelRunning, DeleteBegins, CancelRemoves,
                CancelSaves, DeleteRemoves, DeleteMarks, DeleteForgets, DeleteSaves, EditSaves
  <2>6. CASE Sweep
    BY <2>6 DEF Sweep, SweepStep, SweepBegins, SweepRemoves, SweepForgets, SweepEnds
  <2>7. CASE Crash \/ Restore \/ Serve \/ UNCHANGED vars
    BY <2>7 DEF Crash, Restore, Serve, vars
  <2>8. QED
    BY <1>1, <2>2, <2>3, <2>4, <2>5, <2>6, <2>7 DEF Next
<1>2. ASSUME IInv, [Next]_vars
      PROVE  [\A j \in Jobs : disk.status[j] = "done" /\ disk'.status[j] # "done" => j \in doomed]_vars
  <2>1. ASSUME Persist, proc # "down", NEW j \in Jobs \ doomed, disk.status[j] = "done"
        PROVE  disk'.status[j] = "done"
    <3>1. TypeOK /\ mem[j] = "done"
      BY <1>2, <2>1 DEF IInv, CoreInv, FinishedOnFile
    <3>2. QED
      BY <2>1, <3>1, SaveFacts
  <2>2. QED
    BY <1>1, <1>2, <2>1
<1>3. QED
  BY <1>2, Inductive, PTL DEF Spec, FileKeepsFinished
=============================================================================
