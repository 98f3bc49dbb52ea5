----------------------------- MODULE StreamProofs -----------------------------
(***************************************************************************)
(* The event stream of a job at both of its ends: proofs about SseStream,  *)
(* for every set of clients, every number of slots and every number of     *)
(* writes, and about JobView, for every set of jobs, tracks and            *)
(* submissions and every number of reconnects.                             *)
(*                                                                         *)
(* StreamIInv is inductive.  The writers cannot disturb the slots, nor a   *)
(* stream the job, so each lemma looks at what its actors can disturb only.*)
(*                                                                         *)
(* IInv is inductive.  There is one lemma per conjunct; what an answer of  *)
(* the server may do to the page, whoever asked for it, is said once       *)
(* (StateApplied) and cited by all of them.                                *)
(***************************************************************************)
EXTENDS SseStream, JobView, FiniteSetTheorems, SequenceTheorems, TLAPS

(* ------------------- SseStream: the end of the server ------------------- *)
USE DEF jobVars, streamVars, sseVars, Running, Terminal, LoopFree

LEMMA NumbersFacts ==
  /\ MaxWrites \in Nat /\ MaxWrites >= 1 /\ MaxSlots \in Nat
  /\ \A n : n \in Numbers <=> n \in Nat /\ n <= MaxWrites + 1
  /\ NoFields \in State
BY LimitsAssumption DEF Numbers, State, NoFields

(* What a _set makes of the job is a job, if the version may still move. *)
LEMMA WithIsState ==
  ASSUME job \in State, version \in Nat, version <= MaxWrites,
         NEW s \in {"processing", "separating"} \cup Terminal,
         NEW values \in {Progressed, Staged, Entered(s), Closed(s)}
  PROVE  With(values) \in State /\ DOMAIN values \in SUBSET Fields
<1>1. version + 1 \in Numbers
  BY NumbersFacts
<1>2. CASE values = Progressed
  BY <1>1, <1>2 DEF With, Progressed, State, Fields
<1>3. CASE values = Staged
  BY <1>1, <1>3 DEF With, Staged, State, Fields
<1>4. CASE values = Entered(s)
  BY <1>1, <1>4 DEF With, Entered, State, Fields
<1>5. CASE values = Closed(s)
  BY <1>1, <1>5 DEF With, Closed, State, Fields
<1>6. QED
  BY <1>2, <1>3, <1>4, <1>5

LEMMA StreamInitHolds == StreamInit => StreamIInv
<1> SUFFICES ASSUME StreamInit PROVE StreamIInv
  OBVIOUS
<1>1. StreamTypeOK
  <2>1. setting \in BOOLEAN /\ held \in [Clients -> BOOLEAN] /\ late \in [Clients -> BOOLEAN]
    BY Zenon DEF StreamInit
  <2>2. version \in Numbers /\ sseActive \in 0..MaxSlots
    BY NumbersFacts DEF StreamInit
  <2>3. aside \in 0..MaxAside /\ 0 \in 0..MaxAside
    BY LimitsAssumption DEF StreamInit
  <2>4. QED
    BY <2>1, <2>2, <2>3, NumbersFacts DEF StreamInit, StreamTypeOK
<1>2. SlotsCounted
  <2>1. {c \in Clients : held[c]} = {}
    BY DEF StreamInit
  <2>2. QED
    BY <2>1, FS_EmptySet DEF StreamInit, SlotsCounted
<1>3. WritersInStep
  BY DEF StreamInit, WritersInStep
<1>4. StreamsInStep
  BY DEF StreamInit, StreamsInStep, ReadAfter, Fields, Unmoved
<1>5. EndsShown
  BY DEF StreamInit, EndsShown, NoFields
<1>6. QED
  BY <1>1, <1>2, <1>3, <1>4, <1>5 DEF StreamIInv

----------------------------------------------------------------------------
(* The writers. *)

(* A step that moves the version, or happens inside a _set, leaves nothing  *)
(* a stream holds unmoved that was not so before.                           *)
LEMMA WritersSpareStreams ==
  ASSUME StreamTypeOK, WritersInStep, StreamsInStep,
         UNCHANGED <<sseActive, held, pc, late, streamVars>>,
         \/ version' = version + 1
         \/ version' = version /\ setting' /\ base' = base /\ (setting => target' = target)
         \/ UNCHANGED <<version, setting, job, base, target>>
  PROVE  StreamsInStep'
<1>1. version \in Nat /\ \A c \in Clients : lastV[c] \in Int /\ v[c] \in Int
  BY NumbersFacts DEF StreamTypeOK
<1>2. CASE version' = version + 1
  BY <1>1, <1>2 DEF StreamsInStep, ReadAfter, Fields, Unmoved
<1>3. CASE version' = version /\ setting' /\ base' = base /\ (setting => target' = target)
  <2>1. ASSUME NEW c \in Clients, NEW f \in Fields, pc[c] \in ReadAfter[f], v[c] = version
        PROVE  snapshot[c][f] \in {base'[f], target'[f]}
    BY <1>3, <2>1 DEF StreamsInStep, WritersInStep
  <2>2. QED
    BY <1>1, <1>3, <2>1 DEF StreamsInStep, Unmoved
<1>4. CASE UNCHANGED <<version, setting, job, base, target>>
  BY <1>4 DEF StreamsInStep, Unmoved
<1>5. QED
  BY <1>2, <1>3, <1>4

(* Before the job is over nobody has seen it end; after, nothing is written *)
(* but by _set.                                                             *)
LEMMA WritersSpareEnds ==
  ASSUME EndsShown, UNCHANGED <<pc, streamVars>>,
         phase = "settled" => phase' = "settled" /\ aside' = aside
  PROVE  EndsShown'
BY DEF EndsShown

LEMMA SetsAtOnceKeeps ==
  ASSUME StreamIInv, NEW values, SetsAtOnce(values), With(values) \in State, version <= MaxWrites,
         phase # "settled", phase' = "settled" \/ (phase' = "running" /\ version' <= MaxWrites),
         phase' = "running" => With(values).status \notin Terminal
  PROVE  StreamIInv'
<1>1. version \in Nat /\ version' = version + 1 /\ version' \in Numbers
  BY NumbersFacts DEF StreamIInv, StreamTypeOK, SetsAtOnce
<1>2. StreamTypeOK'
  BY <1>1 DEF StreamIInv, StreamTypeOK, SetsAtOnce
<1>3. SlotsCounted'
  BY DEF StreamIInv, SlotsCounted, SetsAtOnce
<1>4. WritersInStep'
  BY DEF StreamIInv, WritersInStep, SetsAtOnce
<1>5. StreamsInStep'
  BY <1>1, WritersSpareStreams DEF StreamIInv, SetsAtOnce
<1>6. EndsShown'
  BY WritersSpareEnds DEF StreamIInv, SetsAtOnce
<1>7. QED
  BY <1>2, <1>3, <1>4, <1>5, <1>6 DEF StreamIInv

LEMMA BeginsKeeps ==
  ASSUME StreamIInv, NEW values, Begins(values), With(values) \in State, DOMAIN values \in SUBSET Fields,
         phase # "settled",
         \/ phase' = "settled" /\ version <= MaxWrites
         \/ phase' = "running" /\ version < MaxWrites /\ With(values).status \notin Terminal
  PROVE  StreamIInv'
<1>1. version' = version /\ version \in Nat /\ setting' = TRUE
  BY NumbersFacts DEF StreamIInv, StreamTypeOK, Begins
<1>2. StreamTypeOK'
  BY <1>1 DEF StreamIInv, StreamTypeOK, Begins
<1>3. SlotsCounted'
  BY DEF StreamIInv, SlotsCounted, Begins
<1>4. WritersInStep'
  <2>1. \A f \in Fields \ DOMAIN values : job[f] = With(values)[f]
    BY DEF With
  <2>2. base = job /\ job.status \notin Terminal
    BY DEF StreamIInv, WritersInStep, Begins
  <2>3. QED
    BY <1>1, <2>1, <2>2, NumbersFacts DEF StreamIInv, WritersInStep, Begins
<1>5. StreamsInStep'
  BY <1>1, WritersSpareStreams DEF StreamIInv, Begins
<1>6. EndsShown'
  BY WritersSpareEnds DEF StreamIInv, Begins
<1>7. QED
  BY <1>2, <1>3, <1>4, <1>5, <1>6 DEF StreamIInv

LEMMA WritesFieldKeeps == ASSUME StreamIInv, WritesField PROVE StreamIInv'
<1> USE DEF StreamIInv
<1>1. PICK f \in pending : /\ job' = [job EXCEPT ![f] = target[f]]
                           /\ pending' = pending \ {f}
  BY DEF WritesField
<1>2. f \in Fields /\ setting /\ UNCHANGED <<version, setting, base, target, phase, aside>>
  BY DEF StreamTypeOK, WritersInStep, WritesField
<1>3. job' \in State
  BY <1>1, <1>2 DEF StreamTypeOK, State, Fields
<1>4. StreamTypeOK'
  BY <1>1, <1>3 DEF StreamTypeOK, WritesField
<1>5. SlotsCounted'
  BY DEF SlotsCounted, WritesField
<1>6. WritersInStep'
  <2>1. \A g \in Fields \ pending' : job'[g] = target[g]
    BY <1>1, <1>2 DEF StreamTypeOK, State, Fields, WritersInStep
  <2>2. \A g \in pending' : job'[g] = base[g]
    BY <1>1, <1>2 DEF StreamTypeOK, State, Fields, WritersInStep
  <2>3. job'.status \in {job.status, target.status}
    BY <1>1, <1>2 DEF StreamTypeOK, State, Fields
  <2>4. QED
    BY <1>2, <2>1, <2>2, <2>3 DEF WritersInStep
<1>7. StreamsInStep'
  BY <1>2, WritersSpareStreams DEF WritesField
<1>8. EndsShown'
  BY <1>2, WritersSpareEnds DEF WritesField
<1>9. QED
  BY <1>4, <1>5, <1>6, <1>7, <1>8

LEMMA BumpsKeeps == ASSUME StreamIInv, Bumps PROVE StreamIInv'
<1> USE DEF StreamIInv
<1>1. version \in Nat /\ version' = version + 1 /\ version <= MaxWrites
  BY NumbersFacts DEF StreamTypeOK, WritersInStep, Bumps
<1>2. StreamTypeOK'
  <2>1. version' \in Numbers
    BY <1>1, NumbersFacts
  <2>2. setting' \in BOOLEAN
    BY Zenon DEF Bumps
  <2>3. QED
    BY <2>1, <2>2 DEF StreamTypeOK, Bumps
<1>3. SlotsCounted'
  BY DEF SlotsCounted, Bumps
<1>4. WritersInStep'
  <2>1. job = target
    BY DEF StreamTypeOK, WritersInStep, Bumps, State, Fields
  <2>2. QED
    BY <1>1, <2>1, NumbersFacts DEF StreamTypeOK, WritersInStep, Bumps
<1>5. StreamsInStep'
  BY <1>1, WritersSpareStreams DEF Bumps
<1>6. EndsShown'
  BY WritersSpareEnds DEF Bumps
<1>7. QED
  BY <1>2, <1>3, <1>4, <1>5, <1>6

LEMMA WritingKeeps == ASSUME StreamIInv, Writing PROVE StreamIInv'
<1>1. job \in State /\ version \in Nat /\ MaxWrites \in Nat /\ MaxWrites >= 1
  BY NumbersFacts DEF StreamIInv, StreamTypeOK
<1>2. CASE Claims
  <2>1. version = 0 /\ With(Entered("processing")) \in State
    BY <1>1, <1>2, WithIsState DEF StreamIInv, WritersInStep, Claims
  <2>4. With(Entered("processing")).status = "processing"
    BY DEF With, Entered, Fields
  <2>2. version' <= MaxWrites
    BY <1>1, <1>2, <2>1 DEF Claims, SetsAtOnce
  <2>3. QED
    BY <1>1, <1>2, <2>1, <2>2, <2>4, SetsAtOnceKeeps DEF Claims
<1>3. CASE Drops
  <2>1. version <= MaxWrites /\ With(Closed("cancelled")) \in State
    BY <1>1, <1>3, WithIsState DEF StreamIInv, WritersInStep, Drops
  <2>2. QED
    BY <1>3, <2>1, SetsAtOnceKeeps DEF Drops
<1>4. CASE CancelDiscards
  <2>1. /\ version <= MaxWrites /\ With(Closed("cancelled")) \in State
        /\ DOMAIN Closed("cancelled") \in SUBSET Fields
    BY <1>1, <1>4, WithIsState DEF StreamIInv, WritersInStep, CancelDiscards
  <2>2. QED
    BY <1>4, <2>1, BeginsKeeps DEF CancelDiscards
<1>5. CASE PipelineSets
  <2>1. PICK values \in {Entered("separating"), Progressed, Staged} : Begins(values)
    BY <1>5 DEF PipelineSets
  <2>2. phase' = "running" /\ version < MaxWrites
    BY <1>5 DEF PipelineSets
  <2>3. With(values) \in State /\ DOMAIN values \in SUBSET Fields
    BY <1>1, <2>1, <2>2, WithIsState
  <2>4. With(values).status \notin Terminal
    <3>1. job.status \notin Terminal
      BY <1>5 DEF StreamIInv, WritersInStep, PipelineSets
    <3>2. With(values).status \in {job.status, "separating"}
      BY <2>1 DEF With, Entered, Progressed, Staged, Fields
    <3>3. QED
      BY <3>1, <3>2
  <2>5. QED
    BY <1>5, <2>1, <2>2, <2>3, <2>4, BeginsKeeps DEF PipelineSets
<1>a. CASE PipelineWrites
  <2>1. StreamTypeOK' /\ SlotsCounted'
    <3>1. aside' \in 0..MaxAside
      BY <1>a, LimitsAssumption DEF StreamIInv, StreamTypeOK, PipelineWrites
    <3>2. QED
      BY <1>a, <3>1 DEF StreamIInv, StreamTypeOK, SlotsCounted, PipelineWrites
  <2>2. WritersInStep'
    BY <1>a DEF StreamIInv, WritersInStep, PipelineWrites
  <2>3. StreamsInStep'
    BY <1>a, WritersSpareStreams DEF StreamIInv, PipelineWrites
  <2>4. EndsShown'
    BY <1>a, WritersSpareEnds DEF StreamIInv, PipelineWrites
  <2>5. QED
    BY <2>1, <2>2, <2>3, <2>4 DEF StreamIInv
<1>6. CASE PipelineReturns
  <2>1. StreamTypeOK' /\ SlotsCounted'
    BY <1>6 DEF StreamIInv, StreamTypeOK, SlotsCounted, PipelineReturns
  <2>2. WritersInStep'
    BY <1>6 DEF StreamIInv, WritersInStep, PipelineReturns
  <2>3. StreamsInStep'
    BY <1>6, WritersSpareStreams DEF StreamIInv, PipelineReturns
  <2>4. EndsShown'
    BY <1>6, WritersSpareEnds DEF StreamIInv, PipelineReturns
  <2>5. QED
    BY <2>1, <2>2, <2>3, <2>4 DEF StreamIInv
<1>7. CASE Settles
  <2>1. PICK values \in {Entered("done"), Closed("error"), Closed("cancelled")} : SetsAtOnce(values)
    BY <1>7 DEF Settles
  <2>2. phase' = "settled" /\ version <= MaxWrites
    BY <1>7 DEF StreamIInv, WritersInStep, Settles
  <2>3. With(values) \in State
    BY <1>1, <2>1, <2>2, WithIsState
  <2>4. QED
    BY <1>7, <2>1, <2>2, <2>3, SetsAtOnceKeeps DEF Settles
<1>8. QED
  BY <1>2, <1>3, <1>4, <1>5, <1>a, <1>6, <1>7, WritesFieldKeeps, BumpsKeeps DEF Writing, Writers
----------------------------------------------------------------------------
(* The slots. *)

LEMMA HoldersAreFew ==
  ASSUME StreamTypeOK
  PROVE  /\ IsFiniteSet({d \in Clients : held[d]})
         /\ Cardinality({d \in Clients : held[d]}) \in Nat
BY FS_Subset, FS_CardinalityType, ClientsAssumption

LEMMA ReleasesCounts ==
  ASSUME StreamTypeOK, SlotsCounted, NEW c \in Clients, Releases(c)
  PROVE  /\ sseActive' \in 0..MaxSlots /\ held' \in [Clients -> BOOLEAN]
         /\ sseActive' = Cardinality({d \in Clients : held'[d]})
         /\ ~held'[c] /\ \A d \in Clients : held'[d] => held[d]
<1> DEFINE S == {d \in Clients : held[d]}
<1>1. IsFiniteSet(S) /\ Cardinality(S) \in Nat
  BY HoldersAreFew
<1>2. held' \in [Clients -> BOOLEAN] /\ ~held'[c] /\ \A d \in Clients \ {c} : held'[d] = held[d]
  BY DEF Releases, StreamTypeOK
<1>3. {d \in Clients : held'[d]} = S \ {c}
  BY <1>2
<1>4. Cardinality(S \ {c}) = IF c \in S THEN Cardinality(S) - 1 ELSE Cardinality(S)
  BY <1>1, FS_RemoveElement
<1>5. sseActive' = Cardinality(S \ {c})
  BY <1>4 DEF Releases, SlotsCounted
<1>6. Cardinality(S \ {c}) \in Nat
  BY <1>1, FS_RemoveElement, FS_CardinalityType
<1>7. sseActive' \in 0..MaxSlots
  <2>1. sseActive' <= sseActive
    BY <1>1, NumbersFacts DEF Releases, StreamTypeOK
  <2>2. QED
    BY <1>5, <1>6, <2>1, NumbersFacts DEF StreamTypeOK
<1>8. QED
  BY <1>2, <1>3, <1>5, <1>7

LEMMA ConnectsKeeps ==
  ASSUME StreamIInv, NEW c \in Clients, Connects(c)
  PROVE  StreamIInv'
<1> DEFINE S == {d \in Clients : held[d]}
<1>1. IsFiniteSet(S) /\ Cardinality(S) \in Nat /\ c \notin S /\ sseActive = Cardinality(S)
  BY HoldersAreFew DEF StreamIInv, SlotsCounted, Connects
<1>2. /\ held' \in [Clients -> BOOLEAN] /\ held'[c]
      /\ \A d \in Clients \ {c} : held'[d] = held[d]
  BY DEF Connects, StreamIInv, StreamTypeOK
<1>3. {d \in Clients : held'[d]} = S \cup {c}
  BY <1>2
<1>4. Cardinality(S \cup {c}) = Cardinality(S) + 1
  BY <1>1, FS_AddElement
<1>5. StreamTypeOK'
  <2>1. sseActive' \in 0..MaxSlots
    BY NumbersFacts DEF StreamIInv, StreamTypeOK, Connects
  <2>2. QED
    BY <1>2, <2>1 DEF StreamIInv, StreamTypeOK, Connects
<1>6. SlotsCounted'
  <2>1. sseActive' = Cardinality({d \in Clients : held'[d]})
    BY <1>1, <1>3, <1>4 DEF Connects
  <2>2. \A d \in Clients : held'[d] => pc'[d] # "off"
    BY <1>2 DEF StreamIInv, StreamTypeOK, SlotsCounted, Connects
  <2>3. QED
    BY <2>1, <2>2 DEF SlotsCounted
<1>7. WritersInStep'
  BY DEF StreamIInv, WritersInStep, Connects
<1>8. StreamsInStep'
  BY DEF StreamIInv, StreamTypeOK, StreamsInStep, ReadAfter, Fields, Unmoved, Connects
<1>9. EndsShown'
  BY DEF StreamIInv, StreamTypeOK, EndsShown, Connects
<1>10. QED
  BY <1>5, <1>6, <1>7, <1>8, <1>9 DEF StreamIInv

----------------------------------------------------------------------------
(* The streams. *)

LEMMA EndsKeeps ==
  ASSUME StreamIInv, NEW c \in Clients, Ends(c)
  PROVE  StreamIInv'
<1>1. StreamTypeOK /\ SlotsCounted /\ Releases(c)
  BY DEF StreamIInv, Ends
<1>2. /\ sseActive' \in 0..MaxSlots /\ held' \in [Clients -> BOOLEAN]
      /\ sseActive' = Cardinality({d \in Clients : held'[d]})
      /\ \A d \in Clients : held'[d] => held[d]
  BY <1>1, ReleasesCounts
<1>3. StreamTypeOK'
  <2>1. late' \in [Clients -> BOOLEAN]
    BY DEF StreamIInv, StreamTypeOK, Ends
  <2>2. 0 \in 0..MaxAside
    BY LimitsAssumption
  <2>3. QED
    BY <1>2, <2>1, <2>2, NumbersFacts DEF StreamIInv, StreamTypeOK, Ends
<1>4. SlotsCounted'
  BY <1>1, <1>2 DEF StreamTypeOK, SlotsCounted, Ends
<1>5. WritersInStep'
  BY DEF StreamIInv, WritersInStep, Ends
<1>6. StreamsInStep'
  <2>1. version \in Nat
    BY NumbersFacts DEF StreamIInv, StreamTypeOK
  <2>2. QED
    BY <2>1 DEF StreamIInv, StreamTypeOK, StreamsInStep, ReadAfter, Fields, Unmoved, Ends
<1>7. EndsShown'
  BY DEF StreamIInv, StreamTypeOK, EndsShown, Ends, NoFields
<1>8. QED
  BY <1>3, <1>4, <1>5, <1>6, <1>7 DEF StreamIInv

(* A step of a stream that neither takes nor gives back a slot. *)
LEMMA StreamStepKeeps ==
  ASSUME StreamIInv, NEW c \in Clients, UNCHANGED <<jobVars, sseActive, held>>,
         StreamTypeOK', StreamsInStep', EndsShown', pc' = [pc EXCEPT ![c] = pc'[c]], pc'[c] # "off"
  PROVE  StreamIInv'
<1>1. SlotsCounted'
  BY DEF StreamIInv, StreamTypeOK, SlotsCounted
<1>2. WritersInStep'
  BY DEF StreamIInv, WritersInStep
<1>3. QED
  BY <1>1, <1>2 DEF StreamIInv

LEMMA StreamGoesOnKeeps ==
  ASSUME StreamIInv, NEW c \in Clients, StreamGoesOn(c) \/ NeverStarts(c) \/ Disconnects(c) \/ TimePasses(c)
  PROVE  StreamIInv'
<1>1. version \in Nat /\ \A d \in Clients : lastV[d] \in Int /\ v[d] \in Int
  BY NumbersFacts DEF StreamIInv, StreamTypeOK
<1>p. \A to : pc' = [pc EXCEPT ![c] = to] => pc'[c] = to /\ pc' = [pc EXCEPT ![c] = pc'[c]]
  BY DEF StreamIInv, StreamTypeOK
<1>2. CASE Starts(c)
  <2>1. StreamTypeOK'
    BY <1>1, <1>2 DEF Starts, StreamIInv, StreamTypeOK, StreamStep
  <2>2. StreamsInStep'
    BY <1>1, <1>2 DEF Starts, StreamIInv, StreamTypeOK, StreamsInStep, ReadAfter, Fields, Unmoved, StreamStep
  <2>3. EndsShown'
    BY <1>2 DEF Starts, StreamIInv, StreamTypeOK, EndsShown, StreamStep
  <2>4. QED
    BY <1>2, <1>p, <2>1, <2>2, <2>3, StreamStepKeeps DEF Starts, StreamStep
<1>3. CASE Wakes(c)
  <2>1. StreamTypeOK'
    BY <1>1, <1>3 DEF Wakes, StreamIInv, StreamTypeOK, StreamStep
  <2>2. StreamsInStep'
    BY <1>1, <1>3 DEF Wakes, StreamIInv, StreamTypeOK, StreamsInStep, ReadAfter, Fields, Unmoved, StreamStep
  <2>3. EndsShown'
    BY <1>3 DEF Wakes, StreamIInv, StreamTypeOK, EndsShown, StreamStep
  <2>4. QED
    BY <1>3, <1>p, <2>1, <2>2, <2>3, StreamStepKeeps DEF Wakes, StreamStep
<1>4. CASE Looks(c)
  <2>1. StreamTypeOK'
    BY <1>1, <1>4 DEF Looks, StreamIInv, StreamTypeOK, StreamStep
  <2>2. StreamsInStep'
    BY <1>1, <1>4 DEF Looks, StreamIInv, StreamTypeOK, StreamsInStep, ReadAfter, Fields, Unmoved, StreamStep
  <2>3. EndsShown'
    BY <1>4 DEF Looks, StreamIInv, StreamTypeOK, EndsShown, StreamStep
  <2>4. QED
    BY <1>4, <1>p, <2>1, <2>2, <2>3, StreamStepKeeps DEF Looks, StreamStep
<1>5. CASE GoesOn(c)
  <2>1. StreamTypeOK'
    BY <1>1, <1>5 DEF GoesOn, StreamIInv, StreamTypeOK, StreamStep
  <2>2. StreamsInStep'
    BY <1>1, <1>5 DEF GoesOn, StreamIInv, StreamTypeOK, StreamsInStep, ReadAfter, Fields, Unmoved, StreamStep
  <2>3. EndsShown'
    BY <1>5 DEF GoesOn, StreamIInv, StreamTypeOK, EndsShown, StreamStep
  <2>4. QED
    BY <1>5, <1>p, <2>1, <2>2, <2>3, StreamStepKeeps DEF GoesOn, StreamStep
<1>6. CASE Reads(c)
  <2>1. PICK f \in Fields : /\ pc[c] = f
                            /\ \/ f = "status" /\ pc' = [pc EXCEPT ![c] = "progress"]
                               \/ f = "progress" /\ pc' = [pc EXCEPT ![c] = "stage"]
                               \/ f = "stage" /\ pc' = [pc EXCEPT ![c] = "aside"]
                            /\ snapshot' = [snapshot EXCEPT ![c][f] = job[f]]
    BY <1>6 DEF Reads, Fields, StreamStep
  <2>2. snapshot'[c] \in State /\ snapshot'[c][f] = job[f]
        /\ \A g \in Fields \ {f} : snapshot'[c][g] = snapshot[c][g]
    <3>1. snapshot[c] \in State /\ job \in State /\ snapshot \in [Clients -> State]
      BY DEF StreamIInv, StreamTypeOK
    <3>2. snapshot'[c] = [snapshot[c] EXCEPT ![f] = job[f]]
      BY <2>1, <3>1
    <3>3. QED
      BY <2>1, <3>1, <3>2 DEF State, Fields
  <2>3. StreamTypeOK'
    BY <1>6, <2>1, <2>2 DEF Reads, Fields, StreamIInv, StreamTypeOK, StreamStep
  <2>4. StreamsInStep'
    <3>1. job[f] \in {base[f], target[f]}
      BY <2>1 DEF StreamIInv, WritersInStep
    <3>2. QED
      BY <1>1, <1>6, <2>1, <2>2, <3>1 DEF Reads, StreamIInv, StreamTypeOK, StreamsInStep, ReadAfter, Fields, Unmoved, StreamStep
  <2>5. EndsShown'
    <3>1. job.status \in Terminal => phase = "settled"
      BY DEF StreamIInv, WritersInStep
    <3>2. snapshot'[c].status \in Terminal => phase = "settled"
      BY <2>1, <2>2, <3>1 DEF Fields, StreamIInv, EndsShown
    <3>3. \A d \in Clients \ {c} : snapshot'[d] = snapshot[d] /\ pc'[d] = pc[d]
      BY <2>1 DEF StreamIInv, StreamTypeOK
    <3>4. QED
      BY <1>6, <2>1, <3>2, <3>3 DEF Reads, Fields, StreamIInv, StreamTypeOK, EndsShown, StreamStep
  <2>6. QED
    BY <1>6, <1>p, <2>1, <2>3, <2>4, <2>5, StreamStepKeeps DEF Reads, StreamStep
<1>a. CASE ReadsAside(c)
  <2>1. StreamTypeOK'
    BY <1>1, <1>a DEF ReadsAside, StreamIInv, StreamTypeOK, StreamStep
  <2>2. StreamsInStep'
    BY <1>1, <1>a DEF ReadsAside, StreamIInv, StreamTypeOK, StreamsInStep, ReadAfter, Fields, Unmoved, StreamStep
  <2>3. EndsShown'
    BY <1>a DEF ReadsAside, StreamIInv, StreamTypeOK, EndsShown, StreamStep
  <2>4. QED
    BY <1>a, <1>p, <2>1, <2>2, <2>3, StreamStepKeeps DEF ReadsAside, StreamStep
<1>7. CASE Checks(c)
  <2>1. version = v[c] /\ ~setting => snapshot[c] = job
    BY <1>7 DEF Checks, State, StreamIInv, StreamTypeOK, StreamsInStep, ReadAfter, Fields, Unmoved, StreamStep
  <2>2. StreamTypeOK'
    BY <1>7, LimitsAssumption, NumbersFacts DEF Checks, Forgets, StreamIInv, StreamTypeOK, StreamStep
  <2>3. StreamsInStep'
    BY <1>1, <1>7, <2>1, NoFrameAssumption DEF Checks, Forgets, StreamIInv, StreamTypeOK, StreamsInStep, ReadAfter, Fields, Unmoved, StreamStep
  <2>4. EndsShown'
    BY <1>7 DEF Checks, Forgets, NoFields, StreamIInv, StreamTypeOK, EndsShown, StreamStep
  <2>5. QED
    BY <1>7, <1>p, <2>2, <2>3, <2>4, StreamStepKeeps DEF Checks, StreamStep
<1>8. CASE Sent(c)
  <2>1. StreamTypeOK'
    BY <1>8 DEF Sent, StreamIInv, StreamTypeOK, StreamStep
  <2>4. EndsShown'
    BY <1>8 DEF Sent, StreamIInv, StreamTypeOK, EndsShown, StreamStep
  <2>2. StreamsInStep'
    <3>1. lastV[c] >= -1
      BY NumbersFacts DEF StreamIInv, StreamTypeOK
    <3>2. lastV[c] < v[c] /\ v[c] <= version /\ told[c] # NoFrame
      BY <1>1, <1>8 DEF Sent, StreamIInv, StreamTypeOK, StreamsInStep, ReadAfter, Fields, Unmoved, StreamStep
    <3>3. v[c] # -1
      BY <1>1, <3>1, <3>2
    <3>4. QED
      BY <1>1, <1>8, <3>2, <3>3
      DEF Sent, StreamIInv, StreamTypeOK, StreamsInStep, ReadAfter, Fields, Unmoved, StreamStep
  <2>5. QED
    BY <1>8, <1>p, <2>1, <2>2, <2>4, StreamStepKeeps DEF Sent, StreamStep
<1>9. CASE NeverStarts(c)
  <2>1. StreamTypeOK'
    BY <1>1, <1>9 DEF NeverStarts, StreamIInv, StreamTypeOK, StreamStep
  <2>2. StreamsInStep'
    BY <1>1, <1>9 DEF NeverStarts, StreamIInv, StreamTypeOK, StreamsInStep, ReadAfter, Fields, Unmoved, StreamStep
  <2>3. EndsShown'
    BY <1>9 DEF NeverStarts, StreamIInv, StreamTypeOK, EndsShown, StreamStep
  <2>4. QED
    BY <1>9, <1>p, <2>1, <2>2, <2>3, StreamStepKeeps DEF NeverStarts, StreamStep
<1>10. CASE TimePasses(c)
  <2>1. StreamTypeOK'
    BY <1>1, <1>10 DEF TimePasses, StreamIInv, StreamTypeOK, StreamStep
  <2>2. StreamsInStep'
    BY <1>1, <1>10 DEF TimePasses, StreamIInv, StreamTypeOK, StreamsInStep, ReadAfter, Fields, Unmoved, StreamStep
  <2>3. EndsShown'
    BY <1>10 DEF TimePasses, StreamIInv, StreamTypeOK, EndsShown, StreamStep
  <2>4. SlotsCounted' /\ WritersInStep'
    BY <1>10 DEF TimePasses, StreamIInv, SlotsCounted, WritersInStep
  <2>5. QED
    BY <2>1, <2>2, <2>3, <2>4 DEF StreamIInv
<1>11. CASE Collected(c)
  <2>1. /\ sseActive' \in 0..MaxSlots /\ held' \in [Clients -> BOOLEAN]
        /\ sseActive' = Cardinality({d \in Clients : held'[d]})
        /\ ~held'[c] /\ \A d \in Clients : held'[d] => held[d]
    BY <1>11, ReleasesCounts DEF Collected, StreamIInv, StreamTypeOK
  <2>2. StreamTypeOK'
    BY <1>1, <1>11, <2>1 DEF Collected, StreamIInv, StreamTypeOK, StreamStep
  <2>3. StreamsInStep'
    BY <1>1, <1>11, <2>1 DEF Collected, StreamIInv, StreamTypeOK, StreamsInStep, ReadAfter, Fields, Unmoved, StreamStep
  <2>4. EndsShown'
    BY <1>11, <2>1 DEF Collected, StreamIInv, StreamTypeOK, EndsShown, StreamStep
  <2>5. SlotsCounted' /\ WritersInStep'
    BY <1>11, <2>1 DEF Collected, StreamIInv, StreamTypeOK, SlotsCounted, WritersInStep
  <2>6. QED
    BY <2>2, <2>3, <2>4, <2>5 DEF StreamIInv
<1>12. CASE Expires(c) \/ FindsJobOver(c) \/ SentLast(c) \/ Disconnects(c)
  BY <1>12, EndsKeeps DEF Expires, FindsJobOver, SentLast, Disconnects
<1>13. QED
  BY <1>2, <1>3, <1>4, <1>5, <1>6, <1>a, <1>7, <1>8, <1>9, <1>10, <1>11, <1>12 DEF StreamGoesOn

----------------------------------------------------------------------------
LEMMA StepKeeps == ASSUME StreamIInv, [StreamNext]_sseVars PROVE StreamIInv'
<1>1. CASE StreamNext
  BY <1>1, WritingKeeps, StreamGoesOnKeeps, ConnectsKeeps DEF StreamNext
<1>2. CASE UNCHANGED sseVars
  BY <1>2 DEF StreamIInv, StreamTypeOK, SlotsCounted, WritersInStep, StreamsInStep, EndsShown, Unmoved
<1>3. QED
  BY <1>1, <1>2

(* The invariant the theorems below follow from. *)
THEOREM StreamInductive == StreamSpec => []StreamIInv
BY StreamInitHolds, StepKeeps, PTL DEF StreamSpec

(* The slots counted are the slots held, each by a stream that can still    *)
(* give it back, and never more than the budget (events.py).                *)
THEOREM EverySlotCounted == StreamSpec => [](StreamTypeOK /\ SlotsCounted)
<1>1. StreamIInv => StreamTypeOK /\ SlotsCounted
  BY DEF StreamIInv
<1>2. QED
  BY <1>1, StreamInductive, PTL

(* No stream sleeps through what a _set changed. *)
THEOREM NoChangeSleptThrough == StreamSpec => []ShowsTheJob
<1>1. StreamIInv => ShowsTheJob
  BY DEF StreamIInv, StreamsInStep, ShowsTheJob, Unmoved
<1>2. QED
  BY <1>1, StreamInductive, PTL

(* What is written directly, without a new version, is complete in the      *)
(* frame that tells of the end.                                             *)
THEOREM TheEndIsWhole == StreamSpec => []LastFrameIsWhole
<1>1. StreamIInv => LastFrameIsWhole
  BY DEF StreamIInv, EndsShown, LastFrameIsWhole
<1>2. QED
  BY <1>1, StreamInductive, PTL

(* Of what _set writes, a frame sent while none is under way is the job,    *)
(* and one sent in the middle of it mixes two states of the job at most.    *)
THEOREM QuietFramesAreExact == StreamSpec => FrameIsExact
<1>1. ASSUME StreamIInv, [StreamNext]_sseVars
      PROVE  [\A c \in Clients : told'[c] \notin {told[c], NoFrame} =>
                /\ ~setting => told'[c] = job
                /\ \A f \in Fields : told'[c][f] \in {base[f], target[f]}]_sseVars
  <2>1. SUFFICES ASSUME StreamNext, NEW c \in Clients, told'[c] \notin {told[c], NoFrame}
                 PROVE  /\ ~setting => told'[c] = job
                        /\ \A f \in Fields : told'[c][f] \in {base[f], target[f]}
    BY <1>1
  <2>2. PICK d \in Clients : Checks(d) \/ Ends(d)
    BY <2>1 DEF StreamNext, Writing, Writers, Claims, Drops, CancelDiscards, PipelineSets, PipelineWrites,
       PipelineReturns, Settles, SetsAtOnce, Begins, WritesField, Bumps, StreamGoesOn, Starts,
       Wakes, Expires, Looks, GoesOn, FindsJobOver, Reads, ReadsAside, Sent, SentLast, Collected, Connects,
       NeverStarts, Disconnects, TimePasses, StreamStep
  <2>3. c = d /\ Checks(d) /\ version = v[d] /\ pc[d] = "check" /\ told'[d] = snapshot[d]
    BY <1>1, <2>1, <2>2 DEF Checks, Ends, StreamStep, StreamIInv, StreamTypeOK
  <2>4. ASSUME ~setting PROVE snapshot[d] = job
    BY <1>1, <2>1, <2>3, <2>4 DEF StreamIInv, StreamTypeOK, StreamsInStep, ReadAfter, Fields, State
  <2>5. \A f \in Fields : snapshot[d][f] \in {base[f], target[f]}
    BY <1>1, <2>1, <2>3 DEF StreamIInv, StreamsInStep, ReadAfter, Fields
  <2>6. QED
    BY <2>3, <2>4, <2>5
<1>2. QED
  BY <1>1, StreamInductive, PTL DEF StreamSpec, FrameIsExact

(* --------------------- JobView: the end of the page --------------------- *)
USE DEF form, stream, screen, queue, settling

LEMMA RestFacts ==
  ASSUME TypeOK, NEW f \in Flows
  PROVE  /\ flow[f].rest \in Seq(Jobs) /\ Len(flow[f].rest) \in Nat
         /\ \A i \in 1..Len(flow[f].rest) : flow[f].rest[i] \in Jobs
BY ElementOfSeq, LenProperties DEF TypeOK

(* The import a flow sends next, and those left after it. *)
LEMMA HeadFacts ==
  ASSUME TypeOK, SentOnce, NEW f \in Flows, flow[f].pc # "idle"
  PROVE  LET rest == flow[f].rest IN
         /\ Len(rest) \in Nat /\ Len(rest) >= 1
         /\ Head(rest) = rest[1] /\ rest[1] \in Jobs /\ srv[rest[1]] = "new"
         /\ Tail(rest) \in Seq(Jobs) /\ Len(Tail(rest)) = Len(rest) - 1
         /\ \A i \in 1..Len(rest) - 1 : Tail(rest)[i] = rest[i + 1]
<1>1. flow[f].rest \in Seq(Jobs) /\ flow[f].rest # <<>>
  BY DEF TypeOK, SentOnce
<1>2. Len(flow[f].rest) \in Nat /\ Len(flow[f].rest) >= 1
  BY <1>1, LenProperties, EmptySeq
<1>3. srv[flow[f].rest[1]] = "new" /\ flow[f].rest[1] \in Jobs
  BY <1>1, <1>2, RestFacts DEF SentOnce
<1>4. QED
  BY <1>1, <1>2, <1>3, HeadTailProperties

LEMMA IdleTyped ==
  Idle \in [pc : {"idle", "posting", "dialog"}, kind : Kinds,
            rest : Seq(Jobs), background : BOOLEAN, sent : Nat]
BY EmptySeq DEF Idle, Kinds

LEMMA OneSentFacts ==
  ASSUME NEW c \in [pc : {"idle", "posting", "dialog"}, kind : Kinds, rest : Seq(Jobs),
                    background : BOOLEAN, sent : Nat],
         c.rest # <<>>
  PROVE  /\ OneSent(c) \in [pc : {"idle", "posting", "dialog"}, kind : Kinds, rest : Seq(Jobs),
                            background : BOOLEAN, sent : Nat]
         /\ \/ OneSent(c) = Idle
            \/ OneSent(c).pc = c.pc /\ OneSent(c).rest = Tail(c.rest)
<1>1. Tail(c.rest) \in Seq(Jobs)
  BY HeadTailProperties
<1>2. CASE Len(c.rest) = 1
  BY <1>2, IdleTyped DEF OneSent
<1>3. CASE Len(c.rest) # 1
  <2>1. OneSent(c) = [c EXCEPT !.rest = Tail(c.rest), !.sent = c.sent + 1]
    BY <1>3 DEF OneSent
  <2>2. OneSent(c) = [pc |-> c.pc, kind |-> c.kind, rest |-> Tail(c.rest),
                      background |-> c.background, sent |-> c.sent + 1]
    BY <2>1
  <2>3. QED
    BY <1>1, <2>2
<1>4. QED
  BY <1>2, <1>3

LEMMA InitHolds == Init => IInv
<1> SUFFICES ASSUME Init PROVE IInv
  OBVIOUS
<1>1. TypeOK
  <2>1. /\ processing \in BOOLEAN /\ cancelShown \in BOOLEAN /\ stopped \in [Jobs -> BOOLEAN]
    BY Zenon DEF Init
  <2>2. QED
    BY <2>1, IdleTyped, BoundsAssumption DEF Init, TypeOK, Live, TERMINAL_STATUSES
<1>2. SentOnce
  BY DEF Init, SentOnce, Idle
<1>3. QED
  BY <1>1, <1>2, NoneAssumption, BoundsAssumption
     DEF Init, IInv, NotSeenYet, AttemptsCounted, InAttempts, InQueueAttempts, OneProbe, StudioClaims,
         SplitsCounted

(* A state that arrives touches the row of its job; the studio, the split   *)
(* and the foreground only if the job is in the foreground, which it leaves *)
(* when it is over.                                                         *)
LEMMA StateApplied ==
  ASSUME TypeOK, SplitsCounted, NEW j \in Jobs, NEW s \in Answered, applyState(j, s)
  PROVE  /\ row' \in [Jobs -> {"none", "kept", "unavailable"}]
         /\ foreground' \in {foreground, None}
         /\ cancelShown' \in BOOLEAN
         /\ rendered' \subseteq Jobs
         /\ triggered' \subseteq Jobs /\ posts' \in [Jobs -> Nat] /\ SplitsCounted'
         /\ \/ finishing' = finishing
            \/ finishing' = finishing \cup {j} /\ j = foreground /\ foreground' = None
         /\ studio' \in {studio, j} /\ (studio' = studio \/ j = foreground)
<1> USE DEF TypeOK
<1>1. CASE j = foreground /\ s = "done" /\ j \notin rendered
  <2>1. foreground' = None /\ cancelShown' = FALSE /\ rendered' = rendered \cup {j}
        /\ row' = [row EXCEPT ![j] = "kept"]
    BY <1>1 DEF applyState, TERMINAL_STATUSES
  <2>2. finishDoneJob(j)
    BY <1>1 DEF applyState
  <2>3. CASE WantsSplit(j)
    <3>1. /\ triggered' = triggered \cup {j} /\ posts' = [posts EXCEPT ![j] = @ + 1]
          /\ finishing' = finishing \cup {j} /\ studio' = studio
      BY <2>2, <2>3 DEF finishDoneJob, TriggerSplit
    <3>2. j \notin triggered
      BY <2>3 DEF WantsSplit
    <3>3. SplitsCounted' /\ posts' \in [Jobs -> Nat]
      BY <3>1, <3>2 DEF SplitsCounted
    <3>4. QED
      BY <1>1, <2>1, <3>1, <3>3
  <2>4. CASE ~WantsSplit(j)
    <3>1. studio' = j /\ UNCHANGED <<triggered, posts, finishing>>
      BY <2>2, <2>4 DEF finishDoneJob
    <3>2. QED
      BY <1>1, <2>1, <3>1 DEF SplitsCounted
  <2>5. QED
    BY <2>3, <2>4
<1>2. CASE ~(j = foreground /\ s = "done" /\ j \notin rendered)
  <2>1. UNCHANGED <<rendered, finishing, triggered, posts, studio>>
    BY <1>2 DEF applyState
  <2>2. cancelShown' \in BOOLEAN
    BY Zenon DEF applyState
  <2>3. QED
    BY <2>1, <2>2 DEF applyState, SplitsCounted
<1>3. QED
  BY <1>1, <1>2

LEMMA StateTyped ==
  ASSUME TypeOK, SplitsCounted, NEW j \in Jobs, NEW s \in Answered, applyState(j, s)
  PROVE  /\ row' \in [Jobs -> {"none", "kept", "unavailable"}]
         /\ foreground' \in {foreground, None} /\ cancelShown' \in BOOLEAN
         /\ rendered' \subseteq Jobs /\ triggered' \subseteq Jobs /\ posts' \in [Jobs -> Nat]
         /\ finishing' \subseteq Jobs /\ studio' \in {studio, j}
<1>1. finishing \subseteq Jobs
  BY DEF TypeOK
<1>2. QED
  BY <1>1, StateApplied

(* What the page can be answered, by an import that was registered. *)
LEMMA AskedStatus ==
  ASSUME TypeOK, NEW j \in Jobs, srv[j] # "new", NEW to \in {"probe", "tick"}, NEW lost \in BOOLEAN,
         Ask(j, to, lost)
  PROVE  \E a \in [job : Jobs, to : {"probe", "tick"}, status : Answered] :
           answers' = answers \cup {a} /\ a.job = j /\ a.to = to
<1> DEFINE a == [job |-> j, to |-> to, status |-> IF lost THEN "lost" ELSE srv[j]]
<1>1. a \in [job : Jobs, to : {"probe", "tick"}, status : Answered]
  BY DEF TypeOK, Answered
<1>2. answers' = answers \cup {a} /\ a.job = j /\ a.to = to
  BY DEF Ask
<1>3. QED
  BY <1>1, <1>2

(* An emptied studio: streams are closed at most. *)
LEMMA ResetFacts ==
  ASSUME TypeOK, reset
  PROVE  /\ eventSource' = None /\ poll' = None /\ cancelShown' = FALSE
         /\ foreground' = None /\ studio' = None /\ UNCHANGED <<stopped, attempt, deferred>>
         /\ conn' \in [Jobs -> {"off", "open", "probing", "backoff"}]
         /\ \A j \in Jobs : conn'[j] = conn[j] \/ (conn[j] = "open" /\ conn'[j] = "off")
<1>1. conn \in [Jobs -> {"off", "open", "probing", "backoff"}]
  BY DEF TypeOK
<1>2. QED
  BY <1>1 DEF reset, resetImportUi, CloseRemembered

(* Only an import that had the studio, or was about to, gives it up. *)
LEMMA GivenWay ==
  ASSUME TypeOK, NEW x, GivesWayTo(x)
  PROVE  yielded \subseteq yielded' /\ yielded' \subseteq Jobs
         /\ \A j \in yielded' : j \in yielded \/ j \in finishing \/ (j = foreground /\ j # x)
BY DEF TypeOK, GivesWayTo

LEMMA SubmissionFacts ==
  ASSUME NEW s \in Submissions
  PROVE  /\ s[1] \in {"files", "playlist"} /\ s[2] \in Seq(Jobs) /\ s[2] # <<>>
         /\ \A i, k \in 1..Len(s[2]) : s[2][i] = s[2][k] => i = k
BY SubmissionsAssumption

(* A snapshot asks only for jobs that an earlier one had. *)
LEMMA PublishTyped ==
  ASSUME IInv, NEW ids \in SUBSET Jobs, Publish(ids)
  PROVE  seen' = ids /\ completions' \subseteq [job : Jobs, status : Answered]
<1>1. \A j \in seen : j \in Jobs /\ srv[j] \in Answered
  BY DEF IInv, TypeOK, NotSeenYet, Answered
<1>2. completions \subseteq [job : Jobs, status : Answered]
  BY DEF IInv, TypeOK
<1>3. QED
  BY <1>1, <1>2 DEF Publish

(* A background job that is done asks for its split as the foreground does. *)
LEMMA CompletionFacts ==
  ASSUME TypeOK, SplitsCounted, NEW c \in completions, CompletionAnswered(c)
  PROVE  /\ triggered' \subseteq Jobs /\ posts' \in [Jobs -> Nat] /\ splitting' \subseteq Jobs
         /\ SplitsCounted'
<1>1. c.job \in Jobs /\ posts \in [Jobs -> Nat]
  BY DEF TypeOK
<1>2. CASE c.status = "done" /\ WantsSplit(c.job) /\ TriggerSplit(c.job)
           /\ splitting' = splitting \cup {c.job}
  <2>1. c.job \notin triggered /\ triggered' = triggered \cup {c.job}
        /\ posts' = [posts EXCEPT ![c.job] = @ + 1]
    BY <1>2 DEF WantsSplit, TriggerSplit
  <2>2. SplitsCounted' /\ posts' \in [Jobs -> Nat]
    BY <1>1, <2>1 DEF SplitsCounted
  <2>3. QED
    BY <1>1, <1>2, <2>1, <2>2 DEF TypeOK
<1>3. CASE UNCHANGED <<splitting, triggered, posts>>
  BY <1>3 DEF TypeOK, SplitsCounted
<1>4. QED
  BY <1>2, <1>3 DEF CompletionAnswered

----------------------------------------------------------------------------
LEMMA TypeStep ==
  ASSUME IInv, [Next]_vars PROVE TypeOK'
<1> USE BoundsAssumption, NoneAssumption
<1> DEFINE Statuses == {"new"} \cup Live \cup TERMINAL_STATUSES \cup {"gone"}
           Rows == {"none", "kept", "unavailable"}
           Conns == {"off", "open", "probing", "backoff"}
<1>0. TypeOK
  BY DEF IInv
<1>a. srv \in [Jobs -> Statuses] /\ row \in [Jobs -> Rows] /\ conn \in [Jobs -> Conns]
  BY <1>0 DEF TypeOK
<1>b. trouble \in 0..MaxTrouble /\ attempt \in [Jobs -> 0..(MaxAttempts + 1)]
  BY <1>0 DEF TypeOK
<1>d. /\ eventSource \in Jobs \cup {None} /\ foreground \in Jobs \cup {None}
      /\ poll \in Jobs \cup {None}
      /\ deferred \in [Jobs -> Live \cup TERMINAL_STATUSES \cup {None}]
  BY <1>0 DEF TypeOK
<1>e. flow \in [Flows -> [pc : {"idle", "posting", "dialog"}, kind : Kinds,
                          rest : Seq(Jobs), background : BOOLEAN, sent : Nat]]
  BY <1>0 DEF TypeOK
<1>c. opening \in Jobs \cup Library \cup {None} /\ studio \in Jobs \cup Library \cup {None}
  BY <1>0 DEF TypeOK
<1> USE <1>0
<1>1. ASSUME NEW j \in Jobs, ServerEnds(j) \/ ServerForgets(j) \/ CancelClicked(j) PROVE TypeOK'
  <2>1. srv' \in [Jobs -> Statuses]
    BY <1>1, <1>a DEF ServerEnds, ServerForgets, CancelClicked, TERMINAL_STATUSES
  <2>2. trouble' \in 0..MaxTrouble
    BY <1>1, <1>b DEF ServerEnds, ServerForgets, CancelClicked, Spend
  <2>3. UNCHANGED <<form, foreground, cancelShown, stream, poll, answers, row, screen, rendered,
                    finishing, triggered, queue, settling, yielded, posts>>
    BY <1>1 DEF ServerEnds, ServerForgets, CancelClicked
  <2>4. QED
    BY <2>1, <2>2, <2>3 DEF TypeOK
<1>2. ASSUME NEW x \in Jobs \cup Library, OpenTrack(x) PROVE TypeOK'
  <2>1. cancelShown' \in BOOLEAN
    BY <1>2, Zenon DEF OpenTrack, detachForegroundJob, TypeOK
  <2>2. foreground' \in {foreground, None} /\ yielded' \subseteq Jobs
    BY <1>2, GivenWay DEF OpenTrack, detachForegroundJob
  <2>3. trouble' \in 0..MaxTrouble
    BY <1>2, <1>b DEF OpenTrack, Spend
  <2>4. QED
    BY <1>2, <2>1, <2>2, <2>3 DEF OpenTrack, TypeOK
<1>3. CASE TrackOpened
  <2>1. row' \in [Jobs -> Rows] /\ studio' \in Jobs \cup Library \cup {None}
    BY <1>3, <1>a, <1>c DEF TrackOpened
  <2>2. QED
    BY <1>3, <2>1 DEF TrackOpened, TypeOK
<1>4. ASSUME NEW s \in Submissions, Submit(s[1], s[2]) PROVE TypeOK'
  <2>1. s[1] \in Kinds /\ s[2] \in Seq(Jobs)
    BY SubmissionFacts DEF Kinds
  <2>2. flow' \in [Flows -> [pc : {"idle", "posting", "dialog"}, kind : Kinds,
                             rest : Seq(Jobs), background : BOOLEAN, sent : Nat]]
    BY <1>4, <1>e, <2>1 DEF Submit
  <2>6. processing' \in BOOLEAN
    BY <1>4 DEF Submit
  <2>3. CASE studio # None \/ foreground # None
    <3>1. UNCHANGED <<stream, poll, cancelShown, foreground, studio, yielded>>
      BY <1>4, <2>3 DEF Submit
    <3>2. UNCHANGED <<srv, answers, row, opening, rendered, finishing, triggered, queue,
                      settling, posts, trouble>>
      BY <1>4 DEF Submit
    <3>3. QED
      BY <2>2, <2>6, <3>1, <3>2 DEF TypeOK
  <2>4. CASE ~(studio # None \/ foreground # None)
    <3>1. reset /\ yielded' \subseteq Jobs
      BY <1>4, <2>4, GivenWay DEF Submit
    <3>2. QED
      BY <1>4, <2>2, <2>6, <3>1, ResetFacts DEF Submit, TypeOK
  <2>5. QED
    BY <2>3, <2>4
<1>5. ASSUME NEW j \in Jobs, ImportFromUrl(j) PROVE TypeOK'
  <2>1. <<j>> \in Seq(Jobs)
    OBVIOUS
  <2>2. flow' \in [Flows -> [pc : {"idle", "posting", "dialog"}, kind : Kinds,
                             rest : Seq(Jobs), background : BOOLEAN, sent : Nat]]
    BY <1>5, <1>e, <2>1 DEF ImportFromUrl, Kinds
  <2>3. trouble' \in 0..MaxTrouble
    BY <1>5, <1>b DEF ImportFromUrl, Spend
  <2>4. yielded' \subseteq Jobs
    BY <1>5, GivenWay DEF ImportFromUrl
  <2>5. QED
    BY <1>5, <2>2, <2>3, <2>4, ResetFacts DEF ImportFromUrl, TypeOK
<1>6. CASE Preview
  <2>1. flow' \in [Flows -> [pc : {"idle", "posting", "dialog"}, kind : Kinds,
                             rest : Seq(Jobs), background : BOOLEAN, sent : Nat]]
    BY <1>6, <1>e DEF Preview, Flows
  <2>2. QED
    BY <1>6, <2>1 DEF Preview, TypeOK
<1>7. ASSUME NEW f \in Flows, Registered(f) PROVE TypeOK'
  <2> DEFINE j == Head(flow[f].rest)
  <2>1. j \in Jobs /\ Tail(flow[f].rest) \in Seq(Jobs)
    BY <1>7, HeadFacts DEF Registered, IInv
  <2> HIDE DEF j
  <2>2. flow' \in [Flows -> [pc : {"idle", "posting", "dialog"}, kind : Kinds,
                             rest : Seq(Jobs), background : BOOLEAN, sent : Nat]]
    <3>1. OneSent(flow[f]) \in [pc : {"idle", "posting", "dialog"}, kind : Kinds, rest : Seq(Jobs),
                                background : BOOLEAN, sent : Nat]
      <4>1. flow[f].rest # <<>>
        BY <1>7 DEF Registered, IInv, SentOnce
      <4>2. QED
        BY <1>e, <4>1, OneSentFacts
    <3>2. QED
      BY <1>7, <1>e, <3>1 DEF Registered
  <2>3. processing' \in BOOLEAN
    BY <1>7 DEF Registered, TypeOK
  <2>4. srv' \in [Jobs -> Statuses] /\ row' \in [Jobs -> Rows]
    BY <1>7, <1>a, <2>1 DEF Registered, Live, j
  <2>5. CASE ~flow[f].background /\ flow[f].sent = 0
    <3>1. Connect(j) /\ foreground' = j /\ cancelShown' = FALSE /\ UNCHANGED yielded
      BY <1>7, <2>5 DEF Registered, j
    <3>2. /\ conn' \in [Jobs -> Conns] /\ eventSource' = j
          /\ attempt' \in [Jobs -> 0..(MaxAttempts + 1)]
          /\ stopped' \in [Jobs -> BOOLEAN] /\ UNCHANGED deferred
      BY <1>a, <1>b, <2>1, <3>1 DEF Connect, TypeOK
    <3>3. QED
      BY <1>7, <2>1, <2>2, <2>3, <2>4, <3>1, <3>2 DEF Registered, TypeOK
  <2>6. CASE ~(~flow[f].background /\ flow[f].sent = 0)
    <3>1. yielded' = yielded \cup {j} /\ UNCHANGED <<stream, foreground, cancelShown>>
      BY <1>7, <2>6 DEF Registered, j
    <3>2. QED
      BY <1>7, <2>1, <2>2, <2>3, <2>4, <3>1 DEF Registered, TypeOK
  <2>7. QED
    BY <2>5, <2>6
<1>8. CASE PlaylistRegistered
  <2>1. flow' \in [Flows -> [pc : {"idle", "posting", "dialog"}, kind : Kinds,
                             rest : Seq(Jobs), background : BOOLEAN, sent : Nat]]
    BY <1>8, IdleTyped DEF PlaylistRegistered, TypeOK
  <2>2. processing' \in BOOLEAN
    BY <1>8 DEF PlaylistRegistered
  <2>3. /\ srv' \in [Jobs -> Statuses]
        /\ row' \in [Jobs -> Rows]
    BY <1>8 DEF PlaylistRegistered, TypeOK, Live
  <2>4. yielded' \subseteq Jobs
    BY <1>8, RestFacts DEF PlaylistRegistered, TypeOK, Flows
  <2>5. QED
    BY <1>8, <2>1, <2>2, <2>3, <2>4 DEF PlaylistRegistered, TypeOK
<1>9. ASSUME NEW f \in Flows, Refused(f) PROVE TypeOK'
  <2>1. flow' \in [Flows -> [pc : {"idle", "posting", "dialog"}, kind : Kinds,
                             rest : Seq(Jobs), background : BOOLEAN, sent : Nat]]
    BY <1>9, IdleTyped DEF Refused, TypeOK
  <2>2. processing' \in BOOLEAN
    BY <1>9 DEF Refused
  <2>3. trouble' \in 0..MaxTrouble
    BY <1>9, <1>b DEF Refused, Spend
  <2>4. QED
    BY <1>9, <2>1, <2>2, <2>3 DEF Refused, TypeOK
<1>10. ASSUME NEW j \in Jobs, SplitFinished(j) \/ FrameArrives(j) \/ Reconnects(j) PROVE TypeOK'
  <2>1. CASE SplitFinished(j)
    <3>1. row' \in [Jobs -> Rows]
      BY <2>1 DEF SplitFinished, TypeOK
    <3>2. QED
      BY <2>1, <3>1 DEF SplitFinished, TypeOK
  <2>2. CASE FrameArrives(j)
    <3>1. /\ deferred' \in [Jobs -> Live \cup TERMINAL_STATUSES \cup {None}]
          /\ attempt' \in [Jobs -> 0..(MaxAttempts + 1)]
      BY <2>2 DEF FrameArrives, TypeOK
    <3>2. QED
      BY <2>2, <3>1 DEF FrameArrives, TypeOK
  <2>3. CASE Reconnects(j)
    <3>1. /\ conn' \in [Jobs -> Conns]
          /\ eventSource' \in Jobs \cup {None}
      BY <2>3, <1>a, <1>d DEF Reconnects
    <3>2. QED
      BY <2>3, <3>1 DEF Reconnects, TypeOK
  <2>4. QED
    BY <1>10, <2>1, <2>2, <2>3
<1>11. ASSUME NEW j \in Jobs, FrameApplied(j) PROVE TypeOK'
  <2>1. deferred[j] \in Answered
    BY <1>11, <1>d DEF FrameApplied, Answered
  <2>2. applyState(j, deferred[j])
    BY <1>11 DEF FrameApplied
  <2>3. /\ deferred' \in [Jobs -> Live \cup TERMINAL_STATUSES \cup {None}]
        /\ poll' \in {poll, None}
    BY <1>11, <1>d DEF FrameApplied
  <2>4. /\ stopped' \in [Jobs -> BOOLEAN] /\ conn' \in [Jobs -> Conns]
        /\ eventSource' \in {eventSource, None}
    <3>1. stopped \in [Jobs -> BOOLEAN]
      BY DEF TypeOK
    <3>2. CASE deferred[j] \in TERMINAL_STATUSES
      <4>1. /\ stopped' = [stopped EXCEPT ![j] = TRUE] /\ eventSource' = None
            /\ conn' = [conn EXCEPT ![j] = IF @ = "open" THEN "off" ELSE @]
        BY <1>11, <3>2 DEF FrameApplied
      <4>2. QED
        BY <1>a, <3>1, <4>1
    <3>3. CASE deferred[j] \notin TERMINAL_STATUSES
      BY <1>11, <1>a, <3>1, <3>3 DEF FrameApplied
    <3>4. QED
      BY <3>2, <3>3
  <2>5. /\ row' \in [Jobs -> Rows] /\ foreground' \in {foreground, None} /\ cancelShown' \in BOOLEAN
        /\ rendered' \subseteq Jobs /\ triggered' \subseteq Jobs /\ posts' \in [Jobs -> Nat]
        /\ finishing' \subseteq Jobs /\ studio' \in {studio, j}
    BY <2>1, <2>2, StateTyped DEF IInv
  <2>6. /\ foreground' \in Jobs \cup {None} /\ studio' \in Jobs \cup Library \cup {None}
        /\ poll' \in Jobs \cup {None} /\ eventSource' \in Jobs \cup {None}
    BY <1>c, <1>d, <2>3, <2>4, <2>5
  <2>7. UNCHANGED <<srv, form, attempt, answers, opening, queue, settling, yielded, trouble>>
    BY <1>11 DEF FrameApplied
  <2>8. QED
    BY <2>3, <2>4, <2>5, <2>6, <2>7 DEF TypeOK
<1>12. ASSUME NEW j \in Jobs, StreamBreaks(j) PROVE TypeOK'
  <2>1. srv[j] # "new"
    BY <1>12 DEF StreamBreaks, IInv, NotSeenYet
  <2>2. answers' \subseteq [job : Jobs, to : {"probe", "tick"}, status : Answered]
    <3>1. \E lost \in BOOLEAN : Ask(j, "probe", lost)
      BY <1>12 DEF StreamBreaks, Ask
    <3>2. answers \subseteq [job : Jobs, to : {"probe", "tick"}, status : Answered]
      BY DEF TypeOK
    <3>3. QED
      BY <2>1, <3>1, <3>2, AskedStatus
  <2>3. trouble' \in 0..MaxTrouble
    BY <1>12, <1>b DEF StreamBreaks, Spend, Ask
  <2>4. conn' \in [Jobs -> Conns]
    BY <1>12, <1>a DEF StreamBreaks
  <2>5. QED
    BY <1>12, <2>2, <2>3, <2>4 DEF StreamBreaks, TypeOK
<1>13. ASSUME NEW a \in answers, ProbeAnswered(a) PROVE TypeOK'
  <2>1. a \in [job : Jobs, to : {"probe", "tick"}, status : Answered] /\ a.job \in Jobs /\ a.status \in Answered
    BY <1>0 DEF TypeOK
  <2> DEFINE j == a.job
  <2>2. /\ row' \in [Jobs -> Rows] /\ foreground' \in {foreground, None} /\ cancelShown' \in BOOLEAN
        /\ rendered' \subseteq Jobs /\ triggered' \subseteq Jobs /\ posts' \in [Jobs -> Nat]
        /\ finishing' \subseteq Jobs /\ studio' \in {studio, j}
    <3>1. CASE a.status \in {"gone", "lost"}
      BY <1>13, <3>1 DEF ProbeAnswered, TypeOK
    <3>2. CASE a.status \notin {"gone", "lost"}
      <4>1. applyState(j, a.status)
        BY <1>13, <3>2 DEF ProbeAnswered
      <4>2. QED
        BY <2>1, <4>1, StateTyped DEF IInv
    <3>3. QED
      BY <3>1, <3>2
  <2>3. /\ conn' \in [Jobs -> Conns] /\ attempt' \in [Jobs -> 0..(MaxAttempts + 1)]
        /\ stopped' \in [Jobs -> BOOLEAN] /\ poll' \in {poll, None, j} /\ processing' \in BOOLEAN
    <3>1. CASE a.status \in TERMINAL_STATUSES \/ a.status = "gone"
      <4>1. /\ stopped' = [stopped EXCEPT ![j] = TRUE] /\ conn' = [conn EXCEPT ![j] = "off"]
            /\ poll' \in {poll, None} /\ UNCHANGED attempt
        BY <1>13, <3>1 DEF ProbeAnswered
      <4>2. processing' \in BOOLEAN
        BY <1>13, <3>1 DEF ProbeAnswered, TypeOK
      <4>3. QED
        BY <2>1, <1>a, <1>b, <4>1, <4>2 DEF TypeOK
    <3>2. CASE ~(a.status \in TERMINAL_STATUSES \/ a.status = "gone")
      <4>1. BackOff(j) /\ poll' = PollAfter(j, poll) /\ UNCHANGED <<stopped, processing>>
        BY <1>13, <3>2 DEF ProbeAnswered
      <4>2. attempt[j] \in 0..MaxAttempts
        BY <1>13, <1>b, <2>1 DEF ProbeAnswered, IInv, AttemptsCounted, InAttempts, OneProbe
      <4>3. conn' \in [Jobs -> Conns] /\ attempt' \in [Jobs -> 0..(MaxAttempts + 1)]
        BY <1>a, <1>b, <2>1, <4>1, <4>2 DEF BackOff
      <4>4. QED
        BY <4>1, <4>3 DEF PollAfter, TypeOK
    <3>3. QED
      BY <3>1, <3>2
  <2>4. answers' \subseteq answers
    BY <1>13 DEF ProbeAnswered
  <2> HIDE DEF j
  <2>5. j \in Jobs
    BY <2>1 DEF j
  <2>6. /\ foreground' \in Jobs \cup {None} /\ studio' \in Jobs \cup Library \cup {None}
        /\ poll' \in Jobs \cup {None}
    <3>1. foreground' \in Jobs \cup {None} /\ studio' \in Jobs \cup Library \cup {None}
      BY <1>c, <1>d, <2>2, <2>5 DEF TypeOK
    <3>2. poll' \in Jobs \cup {None}
      BY <1>c, <1>d, <2>3, <2>5 DEF TypeOK
    <3>3. QED
      BY <3>1, <3>2
  <2>7. UNCHANGED <<srv, flow, eventSource, deferred, opening, queue, settling, yielded, trouble>>
    BY <1>13 DEF ProbeAnswered
  <2>8. QED
    BY <2>2, <2>3, <2>4, <2>6, <2>7 DEF TypeOK
<1>14. CASE PollTick
  <2>1. poll \in Jobs /\ srv[poll] # "new"
    BY <1>14 DEF PollTick, TypeOK, IInv, NotSeenYet
  <2>2. answers' \subseteq [job : Jobs, to : {"probe", "tick"}, status : Answered]
    <3>1. \E lost \in BOOLEAN : Ask(poll, "tick", lost)
      BY <1>14 DEF PollTick, Ask
    <3>2. answers \subseteq [job : Jobs, to : {"probe", "tick"}, status : Answered]
      BY DEF TypeOK
    <3>3. QED
      BY <2>1, <3>1, <3>2, AskedStatus
  <2>3. trouble' \in 0..MaxTrouble
    BY <1>14, <1>b DEF PollTick, Spend, Ask
  <2>4. QED
    BY <1>14, <2>2, <2>3 DEF PollTick, TypeOK
<1>15. ASSUME NEW a \in answers, TickAnswered(a) PROVE TypeOK'
  <2>1. a.job \in Jobs /\ a.status \in Answered
    BY <1>0 DEF TypeOK
  <2>2. CASE a.status \in {"gone", "lost"}
    BY <1>15, <2>2 DEF TickAnswered, TypeOK
  <2>3. CASE a.status \notin {"gone", "lost"}
    <3>1. applyState(a.job, a.status) /\ poll' \in {poll, None}
      BY <1>15, <2>3 DEF TickAnswered
    <3>2. answers' \subseteq answers
      BY <1>15 DEF TickAnswered
    <3>3. /\ row' \in [Jobs -> Rows] /\ foreground' \in {foreground, None} /\ cancelShown' \in BOOLEAN
          /\ rendered' \subseteq Jobs /\ triggered' \subseteq Jobs /\ posts' \in [Jobs -> Nat]
          /\ finishing' \subseteq Jobs /\ studio' \in {studio, a.job}
      BY <2>1, <3>1, StateTyped DEF IInv
    <3>4. /\ foreground' \in Jobs \cup {None} /\ studio' \in Jobs \cup Library \cup {None}
          /\ poll' \in Jobs \cup {None}
      BY <1>c, <1>d, <2>1, <3>1, <3>3 DEF TypeOK
    <3>5. UNCHANGED <<srv, form, stream, opening, queue, settling, yielded, trouble>>
      BY <1>15 DEF TickAnswered
    <3>6. QED
      BY <3>2, <3>3, <3>4, <3>5 DEF TypeOK
  <2>4. QED
    BY <2>2, <2>3
<1>16. CASE QueueFrame \/ QueueBreaks \/ QueueReconnects \/ RefreshAsked
  <2>1. CASE QueueFrame
    <3>1. CurrentIds \subseteq Jobs /\ \A j \in seen : srv[j] # "new"
      BY DEF CurrentIds, IInv, NotSeenYet, TypeOK
    <3>2. seen' \subseteq Jobs /\ completions' \subseteq [job : Jobs, status : Answered]
      BY <2>1, <3>1, PublishTyped DEF QueueFrame
    <3>3. QED
      BY <2>1, <3>2 DEF QueueFrame, TypeOK
  <2>2. CASE QueueBreaks
    <3>1. queueAttempt \in 0..MaxAttempts
      BY <2>2 DEF QueueBreaks, IInv, AttemptsCounted, InQueueAttempts, TypeOK
    <3>2. trouble' \in 0..MaxTrouble
      BY <2>2, <1>b DEF QueueBreaks, Spend
    <3>3. queueAttempt' \in 0..(MaxAttempts + 1) /\ queueConn' \in {"open", "backoff", "polling"}
      BY <2>2, <3>1 DEF QueueBreaks
    <3>4. QED
      BY <2>2, <3>2, <3>3 DEF QueueBreaks, TypeOK
  <2>3. CASE QueueReconnects
    BY <2>3 DEF QueueReconnects, TypeOK
  <2>4. CASE RefreshAsked
    <3>1. trouble' \in 0..MaxTrouble
      BY <2>4, <1>b DEF RefreshAsked, Spend
    <3>2. refreshes' \subseteq SUBSET Jobs
      BY <2>4 DEF RefreshAsked, CurrentIds, TypeOK
    <3>3. QED
      BY <2>4, <3>1, <3>2 DEF RefreshAsked, TypeOK
  <2>5. QED
    BY <1>16, <2>1, <2>2, <2>3, <2>4
<1>17. ASSUME NEW ids \in refreshes, RefreshAnswered(ids) PROVE TypeOK'
  <2>1. ids \subseteq Jobs
    BY DEF TypeOK
  <2>2. seen' \subseteq Jobs /\ completions' \subseteq [job : Jobs, status : Answered]
    BY <1>17, <2>1, PublishTyped DEF RefreshAnswered
  <2>3. refreshes' \subseteq refreshes
    BY <1>17 DEF RefreshAnswered
  <2>4. QED
    BY <1>17, <2>2, <2>3 DEF RefreshAnswered, TypeOK
<1>18. ASSUME NEW c \in completions, CompletionAnswered(c) PROVE TypeOK'
  <2>1. c.job \in Jobs
    BY DEF TypeOK
  <2>2. /\ triggered' \subseteq Jobs /\ posts' \in [Jobs -> Nat] /\ splitting' \subseteq Jobs
    BY <1>18, <2>1, CompletionFacts DEF TypeOK, IInv
  <2>3. row' \in [Jobs -> Rows]
    BY <1>18, <1>a, <2>1 DEF CompletionAnswered
  <2>4. trouble' \in 0..MaxTrouble
    BY <1>18, <1>b DEF CompletionAnswered, Spend
  <2>5. completions' \subseteq completions
    BY <1>18 DEF CompletionAnswered
  <2>6. QED
    BY <1>18, <2>2, <2>3, <2>4, <2>5 DEF CompletionAnswered, TypeOK
<1>19. ASSUME NEW j \in Jobs, CompletedAfterSplit(j) PROVE TypeOK'
  BY <1>19 DEF CompletedAfterSplit, TypeOK
<1>20. CASE UNCHANGED vars
  BY <1>20 DEF vars, TypeOK
<1>21. QED
  BY <1>1, <1>2, <1>3, <1>4, <1>5, <1>6, <1>7, <1>8, <1>9, <1>10, <1>11, <1>12, <1>13, <1>14,
     <1>15, <1>16, <1>17, <1>18, <1>19, <1>20 DEF Next

----------------------------------------------------------------------------
(* The steps that touch neither the studio's owner nor a split. *)
LEMMA QuietSteps ==
  ASSUME \/ \E j \in Jobs : \/ ServerEnds(j) \/ ServerForgets(j) \/ FrameArrives(j) \/ StreamBreaks(j)
                            \/ Reconnects(j) \/ CompletedAfterSplit(j) \/ CancelClicked(j)
         \/ Preview \/ PollTick \/ QueueFrame \/ QueueBreaks \/ QueueReconnects \/ RefreshAsked
         \/ \E ids \in refreshes : RefreshAnswered(ids)
         \/ UNCHANGED vars
  PROVE  UNCHANGED <<foreground, studio, finishing, triggered, yielded, posts>>
<1>1. ASSUME NEW j \in Jobs, \/ ServerEnds(j) \/ ServerForgets(j) \/ FrameArrives(j) \/ StreamBreaks(j)
                             \/ Reconnects(j) \/ CompletedAfterSplit(j) \/ CancelClicked(j)
      PROVE  UNCHANGED <<foreground, studio, finishing, triggered, yielded, posts>>
  BY <1>1 DEF ServerEnds, ServerForgets, FrameArrives, StreamBreaks, Reconnects, CompletedAfterSplit,
              CancelClicked
<1>2. CASE Preview \/ PollTick \/ QueueFrame \/ QueueBreaks \/ QueueReconnects \/ RefreshAsked
  BY <1>2 DEF Preview, PollTick, QueueFrame, QueueBreaks, QueueReconnects, RefreshAsked
<1>3. ASSUME NEW ids \in refreshes, RefreshAnswered(ids)
      PROVE  UNCHANGED <<foreground, studio, finishing, triggered, yielded, posts>>
  BY <1>3 DEF RefreshAnswered
<1>4. CASE UNCHANGED vars
  BY <1>4 DEF vars
<1>5. QED
  BY <1>1, <1>2, <1>3, <1>4

(* An answer about a job is applied as applyState says, or drops it. *)
LEMMA AnswersApply ==
  ASSUME TypeOK,
         \/ \E j \in Jobs : FrameApplied(j)
         \/ \E a \in answers : ProbeAnswered(a) \/ TickAnswered(a)
  PROVE  /\ UNCHANGED <<srv, flow, yielded, opening, seen, refreshes, queueConn, queueAttempt>>
         /\ \/ \E j \in Jobs, s \in Answered : applyState(j, s)
            \/ UNCHANGED <<foreground, finishing, triggered, posts, studio>>
<1>1. ASSUME NEW j \in Jobs, FrameApplied(j)
      PROVE  /\ UNCHANGED <<srv, flow, yielded, opening, seen, refreshes, queueConn, queueAttempt>>
             /\ deferred[j] \in Answered /\ applyState(j, deferred[j])
  <2>1. deferred[j] \in Answered
    BY <1>1 DEF FrameApplied, TypeOK, Answered
  <2>2. QED
    BY <1>1, <2>1 DEF FrameApplied
<1>2. ASSUME NEW a \in answers, ProbeAnswered(a) \/ TickAnswered(a)
      PROVE  /\ UNCHANGED <<srv, flow, yielded, opening, seen, refreshes, queueConn, queueAttempt>>
             /\ a.job \in Jobs /\ a.status \in Answered
             /\ \/ applyState(a.job, a.status)
                \/ UNCHANGED <<foreground, finishing, triggered, posts, studio>>
  <2>1. a.job \in Jobs /\ a.status \in Answered
    BY DEF TypeOK
  <2>2. CASE ProbeAnswered(a)
    BY <2>1, <2>2 DEF ProbeAnswered
  <2>3. CASE TickAnswered(a)
    BY <2>1, <2>3 DEF TickAnswered
  <2>4. QED
    BY <1>2, <2>2, <2>3
<1>3. QED
  BY <1>1, <1>2

LEMMA SplitsStep ==
  ASSUME IInv, [Next]_vars PROVE SplitsCounted'
<1> USE DEF IInv
<1>1. CASE UNCHANGED <<triggered, posts>>
  BY <1>1 DEF SplitsCounted
<1>2. CASE \/ \E j \in Jobs : FrameApplied(j)
           \/ \E a \in answers : ProbeAnswered(a) \/ TickAnswered(a)
  BY <1>1, <1>2, AnswersApply, StateApplied
<1>3. ASSUME NEW c \in completions, CompletionAnswered(c) PROVE SplitsCounted'
  BY <1>3, CompletionFacts
<1>4. CASE \/ \E s \in Submissions : Submit(s[1], s[2])
           \/ \E j \in Jobs : ImportFromUrl(j) \/ SplitFinished(j)
           \/ \E x \in Jobs \cup Library : OpenTrack(x)
           \/ \E f \in Flows : Registered(f) \/ Refused(f)
           \/ TrackOpened \/ PlaylistRegistered
  BY <1>1, <1>4 DEF Submit, ImportFromUrl, SplitFinished, OpenTrack, Registered, Refused, TrackOpened,
                    PlaylistRegistered
<1>5. QED
  BY <1>1, <1>2, <1>3, <1>4, QuietSteps DEF Next

(* Whoever takes the studio is new, and whoever gives it up has it. *)
LEMMA ClaimsStep ==
  ASSUME IInv, [Next]_vars PROVE StudioClaims'
<1>0. /\ yielded \subseteq Jobs /\ finishing \subseteq Jobs /\ foreground \in Jobs \cup {None}
      /\ None \notin Jobs
  BY NoneAssumption DEF IInv, TypeOK
<1>a. StudioClaims
  BY DEF IInv
<1>1. CASE UNCHANGED <<foreground, finishing, yielded>>
  BY <1>a, <1>1 DEF StudioClaims
<1>2. CASE \/ \E j \in Jobs : FrameApplied(j)
           \/ \E a \in answers : ProbeAnswered(a) \/ TickAnswered(a)
  <2>1. UNCHANGED yielded
    BY <1>2, AnswersApply DEF IInv
  <2>2. CASE UNCHANGED <<foreground, finishing>>
    BY <1>1, <2>1, <2>2
  <2>3. ASSUME NEW j \in Jobs, NEW s \in Answered, applyState(j, s) PROVE StudioClaims'
    <3>1. /\ foreground' \in {foreground, None}
          /\ \/ finishing' = finishing
             \/ finishing' = finishing \cup {j} /\ j = foreground /\ foreground' = None
      BY <2>3, StateApplied DEF IInv
    <3>2. QED
      BY <1>0, <1>a, <2>1, <3>1 DEF StudioClaims
  <2>4. QED
    BY <1>2, <2>2, <2>3, AnswersApply DEF IInv
<1>3. ASSUME NEW x \in Jobs \cup Library, OpenTrack(x) PROVE StudioClaims'
  <2>1. finishing' = finishing /\ (foreground' = None \/ (foreground' = foreground /\ x = foreground))
    BY <1>3 DEF OpenTrack, detachForegroundJob
  <2>2. /\ yielded' \subseteq Jobs
        /\ \A j \in yielded' : j \in yielded \/ j \in finishing \/ (j = foreground /\ j # x)
    BY <1>3, GivenWay DEF OpenTrack, IInv
  <2>3. QED
    BY <1>0, <1>a, <2>1, <2>2 DEF StudioClaims
<1>4. ASSUME \/ \E s \in Submissions : Submit(s[1], s[2])
             \/ \E j \in Jobs : ImportFromUrl(j)
             \/ \E f \in Flows : Refused(f)
      PROVE  StudioClaims'
  <2>1. /\ finishing' = finishing
        /\ \/ foreground' \in {foreground, None} /\ yielded' = yielded
           \/ foreground' = None /\ yielded' \subseteq Jobs
    BY <1>4, ResetFacts, GivenWay DEF Submit, ImportFromUrl, Refused, IInv
  <2>2. QED
    BY <1>0, <1>a, <2>1 DEF StudioClaims
<1>5. ASSUME NEW f \in Flows, Registered(f) PROVE StudioClaims'
  <2> DEFINE j == Head(flow[f].rest)
  <2>1. j \in Jobs /\ srv[j] = "new"
    BY <1>5, HeadFacts DEF Registered, IInv
  <2> HIDE DEF j
  <2>2. j # foreground /\ j \notin finishing \cup yielded
    BY <2>1 DEF IInv, NotSeenYet
  <2>3. /\ finishing' = finishing
        /\ \/ foreground' = j /\ UNCHANGED yielded
           \/ yielded' = yielded \cup {j} /\ UNCHANGED foreground
    BY <1>5 DEF Registered, j
  <2>4. QED
    BY <1>0, <1>a, <2>1, <2>2, <2>3 DEF StudioClaims
<1>6. CASE PlaylistRegistered
  <2>1. ASSUME NEW j \in yielded' \ yielded PROVE j \in Jobs /\ srv[j] = "new"
    <3>1. "form" \in Flows /\ flow["form"].pc = "dialog"
      BY <1>6 DEF PlaylistRegistered, Flows
    <3>2. PICK i \in 1..Len(flow["form"].rest) : j = flow["form"].rest[i]
      BY <1>6, <2>1 DEF PlaylistRegistered
    <3>3. QED
      BY <3>1, <3>2, RestFacts DEF IInv, SentOnce
  <2>2. UNCHANGED <<foreground, finishing>>
    BY <1>6 DEF PlaylistRegistered
  <2>3. QED
    BY <1>0, <1>a, <2>1, <2>2 DEF StudioClaims, IInv, NotSeenYet
<1>7. ASSUME NEW j \in Jobs, SplitFinished(j) PROVE StudioClaims'
  BY <1>7, <1>a DEF SplitFinished, StudioClaims
<1>8. ASSUME TrackOpened \/ \E c \in completions : CompletionAnswered(c) PROVE StudioClaims'
  BY <1>1, <1>8 DEF TrackOpened, CompletionAnswered
<1>9. QED
  BY <1>1, <1>2, <1>3, <1>4, <1>5, <1>6, <1>7, <1>8, QuietSteps DEF Next

(* An import goes to the studio only from the foreground, at the end of its *)
(* split, or by the user.                                                   *)
LEMMA StudioStep ==
  ASSUME IInv, [Next]_vars
  PROVE  [studio' # studio /\ studio' \in yielded => studio' = opening \/ studio' \in finishing]_vars
<1>0. yielded \subseteq Jobs /\ None \notin Jobs
  BY NoneAssumption DEF IInv, TypeOK
<1>1. SUFFICES ASSUME studio' # studio, studio' \in yielded, studio' # opening, studio' \notin finishing
               PROVE  FALSE
  OBVIOUS
<1>2. CASE \/ \E j \in Jobs : FrameApplied(j)
           \/ \E a \in answers : ProbeAnswered(a) \/ TickAnswered(a)
  <2>1. PICK j \in Jobs, s \in Answered : applyState(j, s)
    BY <1>1, <1>2, AnswersApply DEF IInv
  <2>2. studio' = j /\ j = foreground
    BY <1>1, <2>1, StateApplied DEF IInv
  <2>3. QED
    BY <1>1, <2>2 DEF IInv, StudioClaims
<1>3. CASE \/ \E s \in Submissions : Submit(s[1], s[2])
           \/ \E j \in Jobs : ImportFromUrl(j)
  BY <1>0, <1>1, <1>3, ResetFacts DEF Submit, ImportFromUrl, IInv
<1>4. ASSUME NEW j \in Jobs, SplitFinished(j) PROVE FALSE
  BY <1>1, <1>4 DEF SplitFinished, IInv, StudioClaims
<1>5. CASE TrackOpened
  BY <1>1, <1>5 DEF TrackOpened
<1>6. CASE \/ \E x \in Jobs \cup Library : OpenTrack(x)
           \/ \E f \in Flows : Registered(f) \/ Refused(f)
           \/ \E c \in completions : CompletionAnswered(c)
           \/ PlaylistRegistered
  BY <1>1, <1>6 DEF OpenTrack, Registered, Refused, CompletionAnswered, PlaylistRegistered
<1>7. QED
  BY <1>1, <1>2, <1>3, <1>4, <1>5, <1>6, QuietSteps DEF Next

----------------------------------------------------------------------------
LEMMA ServerEffect ==
  ASSUME NEW j \in Jobs, ServerEnds(j) \/ ServerForgets(j) \/ CancelClicked(j)
  PROVE  srv[j] # "new" /\ \E s \in Answered : srv' = [srv EXCEPT ![j] = s]
<1>1. {"done", "error", "gone", "cancelled"} \subseteq Answered
  BY DEF Answered, TERMINAL_STATUSES
<1>2. srv[j] # "new"
  BY DEF ServerEnds, ServerForgets, CancelClicked, Live, TERMINAL_STATUSES
<1>3. QED
  BY <1>1, <1>2 DEF ServerEnds, ServerForgets, CancelClicked

(* What is registered was waiting to be sent, and only that is registered.  *)
LEMMA ServerSteps ==
  ASSUME IInv, [Next]_vars
  PROVE  \/ UNCHANGED srv
         \/ \E f \in Flows : Registered(f)
         \/ PlaylistRegistered
         \/ \E j \in Jobs : /\ ServerEnds(j) \/ ServerForgets(j) \/ CancelClicked(j)
                           /\ srv[j] # "new"
                           /\ \E s \in Answered : srv' = [srv EXCEPT ![j] = s]
<1>1. ASSUME NEW j \in Jobs, ServerEnds(j) \/ ServerForgets(j) \/ CancelClicked(j)
      PROVE  srv[j] # "new" /\ \E s \in Answered : srv' = [srv EXCEPT ![j] = s]
  BY <1>1, ServerEffect
<1>2. ASSUME NEW j \in Jobs, \/ ImportFromUrl(j) \/ SplitFinished(j) \/ FrameArrives(j) \/ FrameApplied(j)
                             \/ StreamBreaks(j) \/ Reconnects(j) \/ CompletedAfterSplit(j)
      PROVE  UNCHANGED srv
  BY <1>2 DEF ImportFromUrl, SplitFinished, FrameArrives, FrameApplied, StreamBreaks, Reconnects,
              CompletedAfterSplit
<1>3. CASE TrackOpened \/ Preview \/ PollTick \/ QueueFrame \/ QueueBreaks \/ QueueReconnects \/ RefreshAsked
  BY <1>3 DEF TrackOpened, Preview, PollTick, QueueFrame, QueueBreaks, QueueReconnects, RefreshAsked
<1>4. CASE \/ \E x \in Jobs \cup Library : OpenTrack(x)
           \/ \E s \in Submissions : Submit(s[1], s[2])
           \/ \E f \in Flows : Refused(f)
           \/ \E a \in answers : ProbeAnswered(a) \/ TickAnswered(a)
           \/ \E ids \in refreshes : RefreshAnswered(ids)
           \/ \E c \in completions : CompletionAnswered(c)
  BY <1>4 DEF OpenTrack, Submit, Refused, ProbeAnswered, TickAnswered, RefreshAnswered, CompletionAnswered
<1>5. CASE UNCHANGED vars
  BY <1>5 DEF vars
<1>6. QED
  BY <1>1, <1>2, <1>3, <1>4, <1>5 DEF Next

(* No import becomes new again. *)
LEMMA NewBefore ==
  ASSUME IInv, [Next]_vars, NEW j \in Jobs, srv'[j] = "new"
  PROVE  srv[j] = "new"
<1>0. srv \in [Jobs -> {"new"} \cup Live \cup TERMINAL_STATUSES \cup {"gone"}]
  BY DEF IInv, TypeOK
<1>1. ASSUME NEW f \in Flows, Registered(f) PROVE srv[j] = "new"
  BY <1>0, <1>1 DEF Registered
<1>2. CASE PlaylistRegistered
  BY <1>0, <1>2 DEF PlaylistRegistered
<1>3. ASSUME NEW k \in Jobs, NEW s \in Answered, srv' = [srv EXCEPT ![k] = s] PROVE srv[j] = "new"
  BY <1>0, <1>3 DEF Answered, Live, TERMINAL_STATUSES
<1>4. QED
  BY <1>1, <1>2, <1>3, ServerSteps

(* The steps that leave the streams and the polling alone. *)
LEMMA StreamlessSteps ==
  ASSUME \/ \E j \in Jobs : \/ ServerEnds(j) \/ ServerForgets(j) \/ SplitFinished(j)
                            \/ CompletedAfterSplit(j) \/ CancelClicked(j)
         \/ \E x \in Jobs \cup Library : OpenTrack(x)
         \/ \E f \in Flows : Refused(f)
         \/ TrackOpened \/ Preview \/ PlaylistRegistered
         \/ QueueFrame \/ QueueBreaks \/ QueueReconnects \/ RefreshAsked
         \/ \E ids \in refreshes : RefreshAnswered(ids)
         \/ \E c \in completions : CompletionAnswered(c)
         \/ UNCHANGED vars
  PROVE  UNCHANGED <<conn, attempt, poll, answers>>
<1>1. ASSUME NEW j \in Jobs, \/ ServerEnds(j) \/ ServerForgets(j) \/ SplitFinished(j)
                             \/ CompletedAfterSplit(j) \/ CancelClicked(j)
      PROVE  UNCHANGED <<conn, attempt, poll, answers>>
  BY <1>1 DEF ServerEnds, ServerForgets, SplitFinished, CompletedAfterSplit, CancelClicked
<1>2. CASE \/ \E x \in Jobs \cup Library : OpenTrack(x)
           \/ \E f \in Flows : Refused(f)
           \/ \E ids \in refreshes : RefreshAnswered(ids)
           \/ \E c \in completions : CompletionAnswered(c)
  BY <1>2 DEF OpenTrack, Refused, RefreshAnswered, CompletionAnswered
<1>3. CASE TrackOpened \/ Preview \/ PlaylistRegistered
           \/ QueueFrame \/ QueueBreaks \/ QueueReconnects \/ RefreshAsked
  BY <1>3 DEF TrackOpened, Preview, PlaylistRegistered, QueueFrame, QueueBreaks, QueueReconnects, RefreshAsked
<1>4. CASE UNCHANGED vars
  BY <1>4 DEF vars
<1>5. QED
  BY <1>1, <1>2, <1>3, <1>4

(* Nothing listens to an import before it is registered. *)
LEMMA StreamsOfTheKnown ==
  ASSUME IInv, [Next]_vars, NEW j \in Jobs, srv'[j] = "new"
  PROVE  conn'[j] = "off" /\ j # poll'
<1>0. /\ srv[j] = "new" /\ conn[j] = "off" /\ j # poll /\ j # None
      /\ conn \in [Jobs -> {"off", "open", "probing", "backoff"}] /\ TypeOK
  BY NewBefore, NoneAssumption DEF IInv, NotSeenYet, TypeOK
<1>1. CASE UNCHANGED <<conn, attempt, poll, answers>>
  BY <1>0, <1>1
<1>2. ASSUME \/ \E s \in Submissions : Submit(s[1], s[2])
             \/ \E k \in Jobs : ImportFromUrl(k)
      PROVE  conn'[j] = "off" /\ j # poll'
  <2>1. UNCHANGED <<conn, poll>> \/ reset
    BY <1>2 DEF Submit, ImportFromUrl
  <2>2. QED
    BY <1>0, <2>1, ResetFacts
<1>3. ASSUME NEW f \in Flows, Registered(f) PROVE conn'[j] = "off" /\ j # poll'
  <2>1. Head(flow[f].rest) # j
    BY <1>0, <1>3 DEF Registered, IInv, TypeOK
  <2>2. UNCHANGED poll /\ (UNCHANGED conn \/ conn' = [conn EXCEPT ![Head(flow[f].rest)] = "open"])
    BY <1>3 DEF Registered, Connect
  <2>3. QED
    BY <1>0, <2>1, <2>2
<1>4. ASSUME NEW k \in Jobs, FrameArrives(k) \/ FrameApplied(k) \/ StreamBreaks(k) \/ Reconnects(k)
      PROVE  conn'[j] = "off" /\ j # poll'
  <2>1. CASE FrameArrives(k)
    BY <1>0, <2>1 DEF FrameArrives
  <2>2. CASE FrameApplied(k)
    BY <1>0, <2>2 DEF FrameApplied
  <2>3. CASE StreamBreaks(k)
    BY <1>0, <2>3 DEF StreamBreaks
  <2>4. CASE Reconnects(k)
    BY <1>0, <2>4 DEF Reconnects
  <2>5. QED
    BY <1>4, <2>1, <2>2, <2>3, <2>4
<1>5. ASSUME NEW a \in answers, ProbeAnswered(a) PROVE conn'[j] = "off" /\ j # poll'
  <2>1. a.job \in Jobs /\ a.job # j
    BY <1>0, <1>5 DEF ProbeAnswered, IInv, AttemptsCounted, OneProbe, TypeOK
  <2>2. conn'[j] = conn[j] /\ poll' \in {poll, None, a.job}
    BY <1>0, <1>5, <2>1 DEF ProbeAnswered, BackOff, PollAfter
  <2>3. QED
    BY <1>0, <2>1, <2>2
<1>6. CASE PollTick
  BY <1>0, <1>6 DEF PollTick
<1>7. ASSUME NEW a \in answers, TickAnswered(a) PROVE conn'[j] = "off" /\ j # poll'
  BY <1>0, <1>7 DEF TickAnswered
<1>8. QED
  BY <1>1, <1>2, <1>3, <1>4, <1>5, <1>6, <1>7, StreamlessSteps DEF Next

(* A snapshot of the queue has registered imports only. *)
LEMMA SnapshotsOfTheKnown ==
  ASSUME IInv, [Next]_vars, NEW j \in Jobs, srv'[j] = "new"
  PROVE  j \notin seen' /\ \A ids \in refreshes' : j \notin ids
<1>0. srv[j] = "new" /\ j \notin seen /\ (\A ids \in refreshes : j \notin ids) /\ j \notin CurrentIds
  BY NewBefore DEF IInv, NotSeenYet, CurrentIds, Live
<1>1. CASE UNCHANGED <<seen, refreshes>>
  BY <1>0, <1>1
<1>2. CASE QueueFrame
  BY <1>0, <1>2 DEF QueueFrame, Publish
<1>3. CASE RefreshAsked
  BY <1>0, <1>3 DEF RefreshAsked
<1>4. ASSUME NEW ids \in refreshes, RefreshAnswered(ids)
      PROVE  j \notin seen' /\ \A k \in refreshes' : j \notin k
  BY <1>0, <1>4 DEF RefreshAnswered, Publish
<1>5. CASE \/ \E k \in Jobs : \/ ServerEnds(k) \/ ServerForgets(k) \/ ImportFromUrl(k) \/ SplitFinished(k)
                             \/ FrameArrives(k) \/ FrameApplied(k) \/ StreamBreaks(k)
                             \/ Reconnects(k) \/ CompletedAfterSplit(k) \/ CancelClicked(k)
  BY <1>1, <1>5 DEF ServerEnds, ServerForgets, ImportFromUrl, SplitFinished, FrameArrives, FrameApplied,
                    StreamBreaks, Reconnects, CompletedAfterSplit, CancelClicked
<1>6. CASE \/ \E x \in Jobs \cup Library : OpenTrack(x)
           \/ \E s \in Submissions : Submit(s[1], s[2])
           \/ \E f \in Flows : Registered(f) \/ Refused(f)
           \/ \E a \in answers : ProbeAnswered(a) \/ TickAnswered(a)
           \/ \E c \in completions : CompletionAnswered(c)
  BY <1>1, <1>6 DEF OpenTrack, Submit, Registered, Refused, ProbeAnswered, TickAnswered, CompletionAnswered
<1>7. CASE TrackOpened \/ Preview \/ PlaylistRegistered \/ PollTick \/ QueueBreaks \/ QueueReconnects
           \/ UNCHANGED vars
  BY <1>1, <1>7 DEF TrackOpened, Preview, PlaylistRegistered, PollTick, QueueBreaks, QueueReconnects, vars
<1>8. QED
  BY <1>2, <1>3, <1>4, <1>5, <1>6, <1>7 DEF Next

(* The studio's owner and the jobs that gave it up were registered. *)
LEMMA ClaimsOfTheKnown ==
  ASSUME IInv, [Next]_vars, NEW j \in Jobs, srv'[j] = "new"
  PROVE  j # foreground' /\ j \notin finishing' \cup yielded'
<1>0. /\ srv[j] = "new" /\ j # foreground /\ j \notin finishing \cup yielded /\ j # None
      /\ TypeOK
  BY NewBefore, NoneAssumption DEF IInv, NotSeenYet
<1>1. CASE UNCHANGED <<foreground, finishing, yielded>>
  BY <1>0, <1>1
<1>2. CASE \/ \E k \in Jobs : FrameApplied(k)
           \/ \E a \in answers : ProbeAnswered(a) \/ TickAnswered(a)
  <2>1. UNCHANGED yielded
    BY <1>0, <1>2, AnswersApply
  <2>2. ASSUME NEW k \in Jobs, NEW s \in Answered, applyState(k, s)
        PROVE  j # foreground' /\ j \notin finishing' \cup yielded'
    <3>1. /\ foreground' \in {foreground, None}
          /\ \/ finishing' = finishing
             \/ finishing' = finishing \cup {k} /\ k = foreground /\ foreground' = None
      BY <2>2, StateApplied DEF IInv
    <3>2. QED
      BY <1>0, <2>1, <3>1
  <2>3. QED
    BY <1>0, <1>1, <1>2, <2>1, <2>2, AnswersApply
<1>3. ASSUME NEW x \in Jobs \cup Library, OpenTrack(x)
      PROVE  j # foreground' /\ j \notin finishing' \cup yielded'
  BY <1>0, <1>3, GivenWay DEF OpenTrack, detachForegroundJob
<1>4. ASSUME \/ \E s \in Submissions : Submit(s[1], s[2])
             \/ \E k \in Jobs : ImportFromUrl(k)
             \/ \E f \in Flows : Refused(f)
      PROVE  j # foreground' /\ j \notin finishing' \cup yielded'
  BY <1>0, <1>4, ResetFacts, GivenWay DEF Submit, ImportFromUrl, Refused
<1>5. ASSUME NEW f \in Flows, Registered(f)
      PROVE  j # foreground' /\ j \notin finishing' \cup yielded'
  <2>1. Head(flow[f].rest) # j
    BY <1>0, <1>5 DEF Registered, IInv, TypeOK
  <2>2. QED
    BY <1>0, <1>5, <2>1 DEF Registered
<1>6. CASE PlaylistRegistered
  BY <1>0, <1>6 DEF PlaylistRegistered
<1>7. CASE \/ TrackOpened \/ \E c \in completions : CompletionAnswered(c)
           \/ \E k \in Jobs : SplitFinished(k)
  BY <1>0, <1>7 DEF TrackOpened, CompletionAnswered, SplitFinished
<1>8. QED
  BY <1>1, <1>2, <1>3, <1>4, <1>5, <1>6, <1>7, QuietSteps DEF Next

LEMMA NotSeenStep ==
  ASSUME IInv, [Next]_vars PROVE NotSeenYet'
BY StreamsOfTheKnown, SnapshotsOfTheKnown, ClaimsOfTheKnown DEF NotSeenYet

----------------------------------------------------------------------------
LEMMA StreamAttempts ==
  ASSUME IInv, [Next]_vars PROVE InAttempts' /\ OneProbe'
<1>0. /\ TypeOK /\ InAttempts /\ OneProbe
      /\ conn \in [Jobs -> {"off", "open", "probing", "backoff"}]
      /\ attempt \in [Jobs -> 0..(MaxAttempts + 1)] /\ MaxAttempts \in Nat
      /\ \A a \in answers : a.job \in Jobs
  BY BoundsAssumption DEF IInv, AttemptsCounted, TypeOK
<1>1. CASE UNCHANGED <<conn, attempt, answers>>
  BY <1>0, <1>1 DEF InAttempts, OneProbe
<1>2. CASE reset /\ UNCHANGED answers
  <2>1. /\ UNCHANGED attempt
        /\ \A j \in Jobs : conn'[j] = conn[j] \/ (conn[j] = "open" /\ conn'[j] = "off")
    BY <1>0, <1>2, ResetFacts
  <2>2. InAttempts'
    BY <1>0, <2>1 DEF InAttempts
  <2>3. OneProbe'
    BY <1>0, <1>2, <2>1 DEF OneProbe
  <2>4. QED
    BY <2>2, <2>3
<1>3. ASSUME NEW f \in Flows, Registered(f) PROVE InAttempts' /\ OneProbe'
  <2> DEFINE j == Head(flow[f].rest)
  <2>1. j \in Jobs /\ srv[j] = "new"
    BY <1>3, HeadFacts DEF Registered, IInv
  <2>2. conn[j] = "off"
    BY <2>1 DEF IInv, NotSeenYet
  <2> HIDE DEF j
  <2>3. /\ UNCHANGED answers
        /\ \/ conn' = [conn EXCEPT ![j] = "open"] /\ attempt' = [attempt EXCEPT ![j] = 0]
           \/ UNCHANGED <<conn, attempt>>
    BY <1>3 DEF Registered, Connect, j
  <2>4. InAttempts'
    BY <1>0, <2>1, <2>3 DEF InAttempts
  <2>5. OneProbe'
    BY <1>0, <2>1, <2>2, <2>3 DEF OneProbe
  <2>6. QED
    BY <2>4, <2>5
<1>4. ASSUME NEW j \in Jobs, FrameArrives(j) PROVE InAttempts' /\ OneProbe'
  BY <1>0, <1>4 DEF FrameArrives, InAttempts, OneProbe
<1>5. ASSUME NEW j \in Jobs, FrameApplied(j) PROVE InAttempts' /\ OneProbe'
  <2>1. /\ UNCHANGED <<attempt, answers>>
        /\ \/ UNCHANGED conn
           \/ conn' = [conn EXCEPT ![j] = IF @ = "open" THEN "off" ELSE @]
    BY <1>5 DEF FrameApplied
  <2>2. InAttempts'
    BY <1>0, <2>1 DEF InAttempts
  <2>3. OneProbe'
    BY <1>0, <2>1 DEF OneProbe
  <2>4. QED
    BY <2>2, <2>3
<1>6. ASSUME NEW j \in Jobs, StreamBreaks(j) PROVE InAttempts' /\ OneProbe'
  <2>1. /\ conn[j] = "open" /\ UNCHANGED attempt /\ conn' = [conn EXCEPT ![j] = "probing"]
        /\ \E lost \in BOOLEAN : Ask(j, "probe", lost)
    BY <1>6 DEF StreamBreaks, Ask
  <2>2. srv[j] # "new"
    BY <2>1 DEF IInv, NotSeenYet
  <2>3. PICK a \in [job : Jobs, to : {"probe", "tick"}, status : Answered] :
          answers' = answers \cup {a} /\ a.job = j /\ a.to = "probe"
    BY <1>0, <2>1, <2>2, AskedStatus
  <2>4. InAttempts'
    BY <1>0, <2>1 DEF InAttempts
  <2>5. OneProbe'
    BY <1>0, <2>1, <2>3 DEF OneProbe
  <2>6. QED
    BY <2>4, <2>5
<1>7. ASSUME NEW a \in answers, ProbeAnswered(a) PROVE InAttempts' /\ OneProbe'
  <2> DEFINE j == a.job
  <2>1. j \in Jobs /\ answers' = answers \ {a} /\ a.to = "probe"
    BY <1>0, <1>7 DEF ProbeAnswered
  <2>2. \/ conn' = [conn EXCEPT ![j] = "off"] /\ UNCHANGED attempt
        \/ BackOff(j)
    BY <1>7 DEF ProbeAnswered
  <2>3. InAttempts'
    <3>1. CASE BackOff(j)
      BY <1>0, <2>1, <3>1 DEF BackOff, InAttempts
    <3>2. CASE conn' = [conn EXCEPT ![j] = "off"] /\ UNCHANGED attempt
      BY <1>0, <2>1, <3>2 DEF InAttempts
    <3>3. QED
      BY <2>2, <3>1, <3>2
  <2>4. \A k \in Jobs \ {j} : conn'[k] = conn[k]
    BY <1>0, <2>1, <2>2 DEF BackOff
  <2>5. OneProbe'
    BY <1>0, <2>1, <2>4 DEF OneProbe
  <2>6. QED
    BY <2>3, <2>5
<1>8. ASSUME NEW j \in Jobs, Reconnects(j) PROVE InAttempts' /\ OneProbe'
  <2>1. /\ conn[j] = "backoff" /\ UNCHANGED <<attempt, answers>>
        /\ \E c \in {"off", "open"} : conn' = [conn EXCEPT ![j] = c]
    BY <1>8 DEF Reconnects
  <2>2. InAttempts'
    BY <1>0, <2>1 DEF InAttempts
  <2>3. OneProbe'
    BY <1>0, <2>1 DEF OneProbe
  <2>4. QED
    BY <2>2, <2>3
<1>9. CASE PollTick
  <2>1. poll \in Jobs /\ srv[poll] # "new" /\ UNCHANGED <<conn, attempt>>
    BY <1>0, <1>9 DEF PollTick, TypeOK, IInv, NotSeenYet
  <2>2. \E lost \in BOOLEAN : Ask(poll, "tick", lost)
    BY <1>9 DEF PollTick, Ask
  <2>3. PICK a \in [job : Jobs, to : {"probe", "tick"}, status : Answered] :
          answers' = answers \cup {a} /\ a.to = "tick"
    BY <1>0, <2>1, <2>2, AskedStatus
  <2>4. QED
    BY <1>0, <2>1, <2>3 DEF InAttempts, OneProbe
<1>10. ASSUME NEW a \in answers, TickAnswered(a) PROVE InAttempts' /\ OneProbe'
  BY <1>0, <1>10 DEF TickAnswered, InAttempts, OneProbe
<1>11. ASSUME \/ \E s \in Submissions : Submit(s[1], s[2])
              \/ \E j \in Jobs : ImportFromUrl(j)
       PROVE  InAttempts' /\ OneProbe'
  <2>1. UNCHANGED answers /\ (UNCHANGED <<conn, attempt>> \/ reset)
    BY <1>11 DEF Submit, ImportFromUrl
  <2>2. QED
    BY <1>1, <1>2, <2>1
<1>12. QED
  BY <1>1, <1>3, <1>4, <1>5, <1>6, <1>7, <1>8, <1>9, <1>10, <1>11, StreamlessSteps DEF Next

LEMMA QueueAttempts ==
  ASSUME IInv, [Next]_vars PROVE InQueueAttempts'
<1>0. InQueueAttempts /\ queueAttempt \in Nat /\ MaxAttempts \in Nat
  BY BoundsAssumption DEF IInv, AttemptsCounted, TypeOK
<1>1. CASE UNCHANGED <<queueConn, queueAttempt>>
  BY <1>0, <1>1 DEF InQueueAttempts
<1>2. CASE QueueFrame \/ QueueBreaks \/ QueueReconnects
  BY <1>0, <1>2 DEF QueueFrame, QueueBreaks, QueueReconnects, InQueueAttempts
<1>3. CASE \/ \E k \in Jobs : \/ ServerEnds(k) \/ ServerForgets(k) \/ ImportFromUrl(k) \/ SplitFinished(k)
                             \/ FrameArrives(k) \/ FrameApplied(k) \/ StreamBreaks(k)
                             \/ Reconnects(k) \/ CompletedAfterSplit(k) \/ CancelClicked(k)
  BY <1>1, <1>3 DEF ServerEnds, ServerForgets, ImportFromUrl, SplitFinished, FrameArrives, FrameApplied,
                    StreamBreaks, Reconnects, CompletedAfterSplit, CancelClicked
<1>4. CASE \/ \E x \in Jobs \cup Library : OpenTrack(x)
           \/ \E s \in Submissions : Submit(s[1], s[2])
           \/ \E f \in Flows : Registered(f) \/ Refused(f)
           \/ \E a \in answers : ProbeAnswered(a) \/ TickAnswered(a)
           \/ \E ids \in refreshes : RefreshAnswered(ids)
           \/ \E c \in completions : CompletionAnswered(c)
  BY <1>1, <1>4 DEF OpenTrack, Submit, Registered, Refused, ProbeAnswered, TickAnswered, RefreshAnswered,
                    CompletionAnswered
<1>5. CASE TrackOpened \/ Preview \/ PlaylistRegistered \/ PollTick \/ RefreshAsked \/ UNCHANGED vars
  BY <1>1, <1>5 DEF TrackOpened, Preview, PlaylistRegistered, PollTick, RefreshAsked, vars
<1>6. QED
  BY <1>2, <1>3, <1>4, <1>5 DEF Next

LEMMA AttemptsStep ==
  ASSUME IInv, [Next]_vars PROVE AttemptsCounted'
BY StreamAttempts, QueueAttempts DEF AttemptsCounted

----------------------------------------------------------------------------
(* The imports a flow still has to send. *)
Waiting(f) == {flow[f].rest[i] : i \in 1..Len(flow[f].rest)}

(* What is left when a flow goes on: nothing, or all but the import it sent. *)
LEMMA SentStep ==
  ASSUME IInv, [Next]_vars PROVE SentOnce'
<1>0. /\ TypeOK /\ SentOnce /\ srv \in [Jobs -> {"new"} \cup Live \cup TERMINAL_STATUSES \cup {"gone"}]
      /\ flow \in [Flows -> [pc : {"idle", "posting", "dialog"}, kind : Kinds,
                             rest : Seq(Jobs), background : BOOLEAN, sent : Nat]]
      /\ \A f \in Flows : Len(flow[f].rest) \in Nat
      /\ \A f \in Flows : \A i \in 1..Len(flow[f].rest) : flow[f].rest[i] \in Jobs
  BY RestFacts DEF IInv, TypeOK
<1>1. CASE UNCHANGED <<srv, flow>>
  BY <1>0, <1>1 DEF SentOnce
<1>2. ASSUME NEW j \in Jobs, srv[j] # "new", NEW s \in Answered, srv' = [srv EXCEPT ![j] = s],
             UNCHANGED flow
      PROVE  SentOnce'
  BY <1>0, <1>2 DEF SentOnce
(* One flow starts over, with imports that no flow has. *)
<1>3. ASSUME NEW g \in Flows, NEW c \in [pc : {"posting"}, kind : Kinds, rest : Seq(Jobs),
                                       background : BOOLEAN, sent : Nat],
             c.rest # <<>>, \A i \in 1..Len(c.rest) : c.rest[i] \in Unsent,
             \A i, k \in 1..Len(c.rest) : c.rest[i] = c.rest[k] => i = k,
             flow' = [flow EXCEPT ![g] = c], UNCHANGED srv
      PROVE  SentOnce'
  <2>1. flow'[g] = c /\ \A f \in Flows \ {g} : flow'[f] = flow[f]
    BY <1>0, <1>3
  <2>2. \A i \in 1..Len(c.rest) : /\ srv[c.rest[i]] = "new"
                                /\ \A f \in Flows : \A k \in 1..Len(flow[f].rest) : c.rest[i] # flow[f].rest[k]
    BY <1>3 DEF Unsent
  <2>3. QED
    BY <1>0, <1>3, <2>1, <2>2 DEF SentOnce
(* One flow is over. *)
<1>4. ASSUME NEW g \in Flows, flow' = [flow EXCEPT ![g] = Idle],
             \A f \in Flows \ {g} : \A i \in 1..Len(flow[f].rest) : srv'[flow[f].rest[i]] = "new"
      PROVE  SentOnce'
  <2>1. flow'[g] = Idle /\ \A f \in Flows \ {g} : flow'[f] = flow[f]
    BY <1>0, <1>4
  <2>2. Idle.pc = "idle" /\ Idle.rest = <<>> /\ Len(Idle.rest) = 0
    BY DEF Idle
  <2>3. QED
    BY <1>0, <1>4, <2>1, <2>2 DEF SentOnce
<1>5. ASSUME NEW s \in Submissions, Submit(s[1], s[2]) PROVE SentOnce'
  <2> DEFINE c == [pc |-> "posting", kind |-> s[1], rest |-> s[2],
                   background |-> studio # None \/ foreground # None \/ s[1] = "playlist", sent |-> 0]
  <2>1. c \in [pc : {"posting"}, kind : Kinds, rest : Seq(Jobs), background : BOOLEAN, sent : Nat]
    BY SubmissionFacts DEF Kinds
  <2>2. /\ flow' = [flow EXCEPT !["form"] = c] /\ UNCHANGED srv
        /\ \A i \in 1..Len(s[2]) : s[2][i] \in Unsent
    BY <1>5 DEF Submit
  <2>3. c.rest = s[2] /\ "form" \in Flows
    BY DEF Flows
  <2> HIDE DEF c
  <2>4. /\ c.rest # <<>> /\ \A i \in 1..Len(c.rest) : c.rest[i] \in Unsent
        /\ \A i, k \in 1..Len(c.rest) : c.rest[i] = c.rest[k] => i = k
    BY <2>2, <2>3, SubmissionFacts
  <2>5. QED
    BY <1>3, <2>1, <2>2, <2>3, <2>4
<1>6. ASSUME NEW j \in Jobs, ImportFromUrl(j) PROVE SentOnce'
  <2> DEFINE c == [pc |-> "posting", kind |-> "import", rest |-> <<j>>, background |-> FALSE, sent |-> 0]
  <2>1. /\ c \in [pc : {"posting"}, kind : Kinds, rest : Seq(Jobs), background : BOOLEAN, sent : Nat]
        /\ c.rest = <<j>> /\ "import" \in Flows
    BY DEF Kinds, Flows
  <2>2. flow' = [flow EXCEPT !["import"] = c] /\ UNCHANGED srv /\ j \in Unsent
    BY <1>6 DEF ImportFromUrl
  <2>3. /\ <<j>> # <<>> /\ Len(<<j>>) = 1 /\ <<j>>[1] = j
    OBVIOUS
  <2> HIDE DEF c
  <2>4. /\ c.rest # <<>> /\ \A i \in 1..Len(c.rest) : c.rest[i] \in Unsent
        /\ \A i, k \in 1..Len(c.rest) : c.rest[i] = c.rest[k] => i = k
    BY <2>1, <2>2, <2>3
  <2>5. QED
    BY <1>3, <2>1, <2>2, <2>4
<1>7. CASE Preview
  <2>1. UNCHANGED srv /\ flow' = [flow EXCEPT !["form"].pc = "dialog"] /\ flow["form"].pc # "idle"
    BY <1>7 DEF Preview
  <2>2. \A f \in Flows : flow'[f].rest = flow[f].rest /\ (flow'[f].pc = "idle" <=> flow[f].pc = "idle")
    BY <1>0, <2>1
  <2>3. QED
    BY <1>0, <2>1, <2>2 DEF SentOnce
<1>8. ASSUME NEW g \in Flows, Refused(g) PROVE SentOnce'
  <2>1. flow' = [flow EXCEPT ![g] = Idle] /\ UNCHANGED srv
    BY <1>8 DEF Refused
  <2>2. \A f \in Flows \ {g} : \A i \in 1..Len(flow[f].rest) : srv'[flow[f].rest[i]] = "new"
    BY <1>0, <2>1 DEF SentOnce
  <2>3. QED
    BY <1>4, <2>1, <2>2
<1>9. CASE PlaylistRegistered
  <2>1. "form" \in Flows /\ flow' = [flow EXCEPT !["form"] = Idle]
        /\ srv' = [j \in Jobs |-> IF j \in Waiting("form") THEN "running" ELSE srv[j]]
    BY <1>9 DEF PlaylistRegistered, Flows, Waiting
  <2>2. ASSUME NEW f \in Flows \ {"form"}, NEW i \in 1..Len(flow[f].rest)
        PROVE  srv'[flow[f].rest[i]] = "new"
    <3>1. flow[f].rest[i] \in Jobs \ Waiting("form") /\ srv[flow[f].rest[i]] = "new"
      BY <1>0, <2>1 DEF SentOnce, Waiting
    <3>2. QED
      BY <2>1, <3>1
  <2>3. QED
    BY <1>4, <2>1, <2>2
<1>10. ASSUME NEW g \in Flows, Registered(g) PROVE SentOnce'
  <2> DEFINE rest == flow[g].rest
             j == rest[1]
             c == OneSent(flow[g])
  <2>1. /\ flow[g].pc # "idle" /\ rest # <<>> /\ Len(rest) \in Nat /\ Len(rest) >= 1 /\ Head(rest) = j
        /\ j \in Jobs /\ Len(Tail(rest)) = Len(rest) - 1
        /\ \A i \in 1..Len(rest) - 1 : Tail(rest)[i] = rest[i + 1]
    BY <1>0, <1>10, HeadFacts DEF Registered, SentOnce
  <2>2. flow' = [flow EXCEPT ![g] = c] /\ srv' = [srv EXCEPT ![j] = "running"]
    BY <1>10, <2>1 DEF Registered
  <2>3. ASSUME NEW f \in Flows, NEW i \in 1..Len(flow[f].rest), f # g \/ i # 1
        PROVE  srv'[flow[f].rest[i]] = "new"
    <3>1. flow[f].rest[i] # j /\ flow[f].rest[i] \in Jobs /\ srv[flow[f].rest[i]] = "new"
      BY <1>0, <2>1, <2>3 DEF SentOnce
    <3>2. QED
      BY <1>0, <2>2, <3>1
  <2>4. CASE c = Idle
    BY <1>4, <2>2, <2>3, <2>4
  <2>5. CASE c # Idle
    <3>1. c.pc # "idle" /\ c.rest = Tail(rest) /\ Len(rest) # 1
      BY <1>0, <2>1, <2>5, OneSentFacts DEF OneSent
    <3>2. flow'[g] = c /\ \A f \in Flows \ {g} : flow'[f] = flow[f]
      BY <1>0, <2>2
    <3>3. \A i \in 1..Len(c.rest) : i + 1 \in 1..Len(rest) /\ i + 1 # 1 /\ c.rest[i] = rest[i + 1]
      BY <2>1, <3>1
    <3>4. c.rest # <<>> /\ Len(c.rest) \in Nat
      <4>1. Len(c.rest) \in Nat /\ Len(c.rest) # 0
        BY <2>1, <3>1
      <4>2. QED
        BY <4>1, EmptySeq
    <3> HIDE DEF c, rest, j
    <3> DEFINE old(f, i) == IF f = g THEN i + 1 ELSE i
    <3>5. ASSUME NEW f \in Flows, NEW i \in 1..Len(flow'[f].rest)
          PROVE  /\ old(f, i) \in 1..Len(flow[f].rest) /\ (f # g \/ old(f, i) # 1)
                 /\ flow'[f].rest[i] = flow[f].rest[old(f, i)]
      BY <3>2, <3>3, <3>4 DEF rest
    <3>6. ASSUME NEW f \in Flows, NEW i \in 1..Len(flow'[f].rest)
          PROVE  srv'[flow'[f].rest[i]] = "new"
      <4> HIDE DEF old
      <4>1. QED
        BY <2>3, <3>5
    <3>7. ASSUME NEW f \in Flows, NEW i \in 1..Len(flow'[f].rest),
                 NEW h \in Flows, NEW k \in 1..Len(flow'[h].rest), flow'[f].rest[i] = flow'[h].rest[k]
          PROVE  f = h /\ i = k
      <4>1. f = h /\ old(f, i) = old(h, k)
        <5> HIDE DEF old
        <5>1. flow[f].rest[old(f, i)] = flow[h].rest[old(h, k)]
          BY <3>5, <3>7
        <5>2. QED
          BY <1>0, <3>5, <5>1 DEF SentOnce
      <4>2. i \in Nat /\ k \in Nat
        BY <1>0, <3>2, <3>4
      <4>3. QED
        BY <4>1, <4>2
    <3>8. ASSUME NEW f \in Flows, flow'[f].pc # "idle" PROVE flow'[f].rest # <<>>
      BY <1>0, <3>2, <3>4, <3>8 DEF SentOnce
    <3>9. QED
      BY <3>6, <3>7, <3>8 DEF SentOnce
  <2>6. QED
    BY <2>4, <2>5
<1>11. ASSUME NEW j \in Jobs, ServerEnds(j) \/ ServerForgets(j) \/ CancelClicked(j) PROVE UNCHANGED flow
  BY <1>11 DEF ServerEnds, ServerForgets, CancelClicked
<1>12. ASSUME NEW j \in Jobs, \/ SplitFinished(j) \/ FrameArrives(j) \/ FrameApplied(j) \/ StreamBreaks(j)
                              \/ Reconnects(j) \/ CompletedAfterSplit(j)
       PROVE  UNCHANGED <<srv, flow>>
  BY <1>12 DEF SplitFinished, FrameArrives, FrameApplied, StreamBreaks, Reconnects, CompletedAfterSplit
<1>13. CASE TrackOpened \/ PollTick \/ QueueFrame \/ QueueBreaks \/ QueueReconnects \/ RefreshAsked
            \/ UNCHANGED vars
  BY <1>1, <1>13 DEF TrackOpened, PollTick, QueueFrame, QueueBreaks, QueueReconnects, RefreshAsked, vars
<1>14. CASE \/ \E x \in Jobs \cup Library : OpenTrack(x)
            \/ \E a \in answers : ProbeAnswered(a) \/ TickAnswered(a)
            \/ \E ids \in refreshes : RefreshAnswered(ids)
            \/ \E c \in completions : CompletionAnswered(c)
  BY <1>1, <1>14 DEF OpenTrack, ProbeAnswered, TickAnswered, RefreshAnswered, CompletionAnswered
<1>15. ASSUME NEW j \in Jobs, ServerEnds(j) \/ ServerForgets(j) \/ CancelClicked(j) PROVE SentOnce'
  <2>1. srv[j] # "new" /\ \E s \in Answered : srv' = [srv EXCEPT ![j] = s]
    BY <1>15, ServerEffect
  <2>2. QED
    BY <1>2, <1>11, <1>15, <2>1
<1>16. QED
  BY <1>1, <1>5, <1>6, <1>7, <1>8, <1>9, <1>10, <1>12, <1>13, <1>14, <1>15 DEF Next

----------------------------------------------------------------------------
(* What a page knows of its imports is consistent, whatever frames, probes, *)
(* ticks and snapshots reach it and in whatever order.                      *)
THEOREM Inductive == Spec => []IInv
<1>1. ASSUME IInv, [Next]_vars PROVE IInv'
  BY <1>1, TypeStep, NotSeenStep, SentStep, AttemptsStep, ClaimsStep, SplitsStep DEF IInv
<1>2. QED
  BY <1>1, InitHolds, PTL DEF Spec

(* The vocal split of an import is asked for at most once, by whichever of  *)
(* finishDoneJob and completeSettledJob comes first (splitAutoTriggered).   *)
THEOREM SplitNeverTwice == Spec => []SplitAskedOnce
<1>1. IInv => SplitAskedOnce
  BY DEF IInv, SplitsCounted, SplitAskedOnce
<1>2. QED
  BY <1>1, Inductive, PTL

(* An import that gave the studio up, or never claimed it, comes into the   *)
(* studio only when the user opens it, or at the end of a vocal split it    *)
(* began as the import in the foreground.                                   *)
THEOREM StudioIsTheUsers == Spec => YieldedNeverTakesStudio
BY StudioStep, Inductive, PTL DEF Spec, YieldedNeverTakesStudio
=============================================================================
