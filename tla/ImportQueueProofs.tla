-------------------------- MODULE ImportQueueProofs --------------------------
(***************************************************************************)
(* Proofs about ImportQueue, for every set of jobs and handler threads,    *)
(* every capacity and every number of stages.                              *)
(*                                                                         *)
(* IInv is inductive.  There is one lemma per actor, with one step per     *)
(* action; the actions that change the waiting line rest on the lemmas     *)
(* about the line as a set of jobs, after which it matters only as the set *)
(* ToSet(queue).                                                           *)
(***************************************************************************)
EXTENDS ImportQueue, SequenceTheorems, FiniteSetTheorems, TLAPS

----------------------------------------------------------------------------
(* The waiting line as a set of jobs: what each operation on the sequence   *)
(* does to its members, for every line.                                     *)

(* r is q with e spliced in at position i. *)
Spliced(r, q, i, e) ==
  /\ DOMAIN r = 1..Len(q) + 1
  /\ \A k \in 1..Len(q) + 1 :
        r[k] = IF k < i THEN q[k] ELSE IF k = i THEN e ELSE q[k - 1]

LEMMA SpliceIntoLine ==
  ASSUME NEW S, NEW q \in Seq(S), IsInjective(q), NEW e \in S, e \notin ToSet(q),
         NEW i \in 1..Len(q) + 1, NEW r, Spliced(r, q, i, e)
  PROVE  /\ IsInjective(r)
         /\ ToSet(r) = ToSet(q) \cup {e}
<1>1. Len(q) \in Nat /\ DOMAIN q = 1..Len(q) /\ \A k \in DOMAIN q : q[k] # e
  BY LenProperties DEF ToSet
<1>2. ASSUME NEW k \in DOMAIN r, k # i
      PROVE  LET m == IF k < i THEN k ELSE k - 1 IN m \in DOMAIN q /\ r[k] = q[m]
  BY <1>1, <1>2 DEF Spliced
<1>3. i \in DOMAIN r /\ r[i] = e
  BY <1>1 DEF Spliced
<1>4. IsInjective(r)
  <2> DEFINE old(k) == IF k < i THEN k ELSE k - 1
  <2>1. SUFFICES ASSUME NEW k \in DOMAIN r, NEW m \in DOMAIN r, r[k] = r[m]
                 PROVE  k = m
    BY DEF IsInjective
  <2>2. CASE k = i \/ m = i
    BY <1>1, <1>2, <1>3, <2>1, <2>2
  <2>3. CASE k # i /\ m # i
    <3>1. /\ old(k) \in DOMAIN q /\ r[k] = q[old(k)]
          /\ old(m) \in DOMAIN q /\ r[m] = q[old(m)]
      BY <1>2, <2>3
    <3>2. old(k) = old(m)
      BY <2>1, <3>1 DEF IsInjective
    <3>3. QED
      BY <1>1, <2>3, <3>2 DEF Spliced
  <2>4. QED
    BY <2>2, <2>3
<1>5. ASSUME NEW x \in ToSet(r) PROVE x \in ToSet(q) \cup {e}
  <2>1. PICK k \in DOMAIN r : x = r[k]
    BY DEF ToSet
  <2>2. QED
    BY <1>2, <1>3, <2>1 DEF ToSet
<1>6. ASSUME NEW m \in DOMAIN q PROVE \E k \in DOMAIN r : r[k] = q[m]
  <2>1. CASE m < i
    BY <1>1, <2>1 DEF Spliced
  <2>2. CASE ~(m < i)
    <3>1. m + 1 \in 1..Len(q) + 1 /\ ~(m + 1 < i) /\ m + 1 # i /\ (m + 1) - 1 = m
      BY <1>1, <2>2
    <3>2. QED
      BY <3>1 DEF Spliced
  <2>3. QED
    BY <2>1, <2>2
<1>7. QED
  BY <1>3, <1>4, <1>5, <1>6 DEF ToSet

LEMMA AppendToLine ==
  ASSUME NEW S, NEW q \in Seq(S), IsInjective(q), NEW e \in S, e \notin ToSet(q)
  PROVE  /\ Append(q, e) \in Seq(S)
         /\ IsInjective(Append(q, e))
         /\ ToSet(Append(q, e)) = ToSet(q) \cup {e}
<1>1. Len(q) \in Nat /\ Len(q) + 1 \in 1..Len(q) + 1
  BY LenProperties
<1>2. Append(q, e) \in Seq(S) /\ Spliced(Append(q, e), q, Len(q) + 1, e)
  BY <1>1, AppendProperties, LenProperties DEF Spliced
<1>3. QED
  BY <1>1, <1>2, SpliceIntoLine

LEMMA ConsToLine ==
  ASSUME NEW S, NEW q \in Seq(S), IsInjective(q), NEW e \in S, e \notin ToSet(q)
  PROVE  /\ <<e>> \o q \in Seq(S)
         /\ IsInjective(<<e>> \o q)
         /\ ToSet(<<e>> \o q) = ToSet(q) \cup {e}
<1> DEFINE h == <<e>>
<1>1. Len(q) \in Nat /\ 1 \in 1..Len(q) + 1
  BY LenProperties
<1>2. h \in Seq(S) /\ Len(h) = 1 /\ h[1] = e
  OBVIOUS
<1> HIDE DEF h
<1>3. /\ h \o q \in Seq(S) /\ Len(h \o q) = Len(h) + Len(q)
      /\ \A k \in 1..Len(h) + Len(q) :
            (h \o q)[k] = IF k <= Len(h) THEN h[k] ELSE q[k - Len(h)]
  BY <1>2, ConcatProperties
<1>4. ASSUME NEW k \in 1..Len(q) + 1
      PROVE  (h \o q)[k] = IF k < 1 THEN q[k] ELSE IF k = 1 THEN e ELSE q[k - 1]
  BY <1>1, <1>2, <1>3
<1>5. Spliced(h \o q, q, 1, e)
  BY <1>1, <1>2, <1>3, <1>4, LenProperties DEF Spliced
<1>6. QED
  BY <1>1, <1>3, <1>5, SpliceIntoLine DEF h

LEMMA InsertIntoLine ==
  ASSUME NEW S, NEW q \in Seq(S), IsInjective(q), NEW e \in S, e \notin ToSet(q),
         NEW i \in 1..Len(q) + 1
  PROVE  /\ InsertAt(q, i, e) \in Seq(S)
         /\ IsInjective(InsertAt(q, i, e))
         /\ ToSet(InsertAt(q, i, e)) = ToSet(q) \cup {e}
<1> DEFINE a == SubSeq(q, 1, i - 1)
           h == <<e>>
           b == SubSeq(q, i, Len(q))
<1>0. Len(q) \in Nat /\ \A k \in 1..Len(q) : q[k] \in S
  BY LenProperties, ElementOfSeq
<1>1. /\ a \in Seq(S) /\ Len(a) = i - 1
      /\ \A k \in 1..i - 1 : a[k] = q[k]
  BY <1>0, SubSeqProperties
<1>2. /\ b \in Seq(S) /\ Len(b) = Len(q) - i + 1
      /\ \A k \in 1..Len(q) - i + 1 : b[k] = q[i + k - 1]
  BY <1>0, SubSeqProperties
<1>3. h \in Seq(S) /\ Len(h) = 1 /\ h[1] = e
  OBVIOUS
<1> HIDE DEF a, h, b
<1>4. /\ a \o h \in Seq(S) /\ Len(a \o h) = i
      /\ \A k \in 1..i : (a \o h)[k] = IF k < i THEN q[k] ELSE e
  <2>1. /\ a \o h \in Seq(S) /\ Len(a \o h) = Len(a) + Len(h)
        /\ \A k \in 1..Len(a) + Len(h) :
              (a \o h)[k] = IF k <= Len(a) THEN a[k] ELSE h[k - Len(a)]
    BY <1>1, <1>3, ConcatProperties
  <2>2. ASSUME NEW k \in 1..i PROVE (a \o h)[k] = IF k < i THEN q[k] ELSE e
    BY <1>0, <1>1, <1>3, <2>1
  <2>3. QED
    BY <1>0, <1>1, <1>3, <2>1, <2>2
<1>5. /\ (a \o h) \o b \in Seq(S) /\ Len((a \o h) \o b) = Len(a \o h) + Len(b)
      /\ \A k \in 1..Len(a \o h) + Len(b) :
            ((a \o h) \o b)[k] = IF k <= Len(a \o h) THEN (a \o h)[k] ELSE b[k - Len(a \o h)]
  BY <1>2, <1>4, ConcatProperties
<1>6. ASSUME NEW k \in 1..Len(q) + 1
      PROVE  ((a \o h) \o b)[k] = IF k < i THEN q[k] ELSE IF k = i THEN e ELSE q[k - 1]
  <2>1. CASE k <= i
    BY <1>0, <1>2, <1>4, <1>5, <2>1
  <2>2. CASE ~(k <= i)
    <3>1. k - i \in 1..Len(q) - i + 1 /\ i + (k - i) - 1 = k - 1
      BY <1>0, <2>2
    <3>2. ((a \o h) \o b)[k] = b[k - i]
      BY <1>0, <1>2, <1>4, <1>5, <2>2
    <3>3. QED
      BY <1>0, <1>2, <2>2, <3>1, <3>2
  <2>3. QED
    BY <2>1, <2>2
<1>7. Spliced((a \o h) \o b, q, i, e)
  BY <1>0, <1>2, <1>4, <1>5, <1>6, LenProperties DEF Spliced
<1>8. InsertAt(q, i, e) = (a \o h) \o b
  BY DEF InsertAt, a, h, b
<1>9. QED
  BY <1>0, <1>5, <1>7, <1>8, SpliceIntoLine

LEMMA PopFromLine ==
  ASSUME NEW S, NEW q \in Seq(S), IsInjective(q), q # <<>>
  PROVE  /\ Head(q) \in S /\ Head(q) \in ToSet(q)
         /\ Tail(q) \in Seq(S)
         /\ IsInjective(Tail(q))
         /\ ToSet(Tail(q)) = ToSet(q) \ {Head(q)}
<1> DEFINE r == Tail(q)
<1>1. /\ Len(q) \in Nat /\ Len(q) >= 1 /\ DOMAIN q = 1..Len(q)
      /\ Head(q) = q[1] /\ Head(q) \in S
  BY LenProperties, EmptySeq, HeadTailProperties
<1>2. /\ r \in Seq(S) /\ Len(r) = Len(q) - 1 /\ DOMAIN r = 1..Len(q) - 1
      /\ \A i \in 1..Len(q) - 1 : r[i] = q[i + 1]
  BY <1>1, HeadTailProperties, LenProperties
<1> HIDE DEF r
<1>3. IsInjective(r)
  <2>1. SUFFICES ASSUME NEW k \in DOMAIN r, NEW m \in DOMAIN r, r[k] = r[m]
                 PROVE  k = m
    BY DEF IsInjective
  <2>2. /\ k + 1 \in DOMAIN q /\ m + 1 \in DOMAIN q /\ q[k + 1] = q[m + 1]
    BY <1>1, <1>2, <2>1
  <2>3. k + 1 = m + 1
    BY <2>2 DEF IsInjective
  <2>4. QED
    BY <1>1, <1>2, <2>3
<1>4. ASSUME NEW x \in ToSet(r) PROVE x \in ToSet(q) \ {Head(q)}
  <2>1. PICK i \in DOMAIN r : x = r[i]
    BY DEF ToSet
  <2>2. i + 1 \in DOMAIN q /\ x = q[i + 1] /\ i + 1 # 1
    BY <1>1, <1>2, <2>1
  <2>3. 1 \in DOMAIN q /\ q[i + 1] # q[1]
    BY <1>1, <2>2 DEF IsInjective
  <2>4. QED
    BY <1>1, <2>2, <2>3 DEF ToSet
<1>5. ASSUME NEW x \in ToSet(q) \ {Head(q)} PROVE x \in ToSet(r)
  <2>1. PICK i \in DOMAIN q : x = q[i] /\ i # 1
    BY <1>1 DEF ToSet
  <2>2. i - 1 \in DOMAIN r /\ r[i - 1] = x
    BY <1>1, <1>2, <2>1
  <2>3. QED
    BY <2>2 DEF ToSet
<1>6. q[1] \in ToSet(q)
  BY <1>1 DEF ToSet
<1>7. ToSet(r) = ToSet(q) \ {Head(q)}
  BY <1>4, <1>5
<1>8. QED
  BY <1>1, <1>2, <1>3, <1>6, <1>7 DEF r

LEMMA RemoveAtProperties ==
  ASSUME NEW S, NEW q \in Seq(S), NEW i \in 1..Len(q)
  PROVE  /\ RemoveAt(q, i) \in Seq(S)
         /\ Len(RemoveAt(q, i)) = Len(q) - 1
         /\ \A k \in 1..Len(q) - 1 :
               RemoveAt(q, i)[k] = IF k < i THEN q[k] ELSE q[k + 1]
<1> DEFINE a == SubSeq(q, 1, i - 1)
           b == SubSeq(q, i + 1, Len(q))
<1>0. Len(q) \in Nat /\ \A k \in 1..Len(q) : q[k] \in S
  BY LenProperties, ElementOfSeq
<1>1. /\ a \in Seq(S) /\ Len(a) = i - 1
      /\ \A k \in 1..i - 1 : a[k] = q[k]
  BY <1>0, SubSeqProperties
<1>2. /\ b \in Seq(S) /\ Len(b) = Len(q) - i
      /\ \A k \in 1..Len(q) - i : b[k] = q[i + k]
  BY <1>0, SubSeqProperties
<1>3. /\ a \o b \in Seq(S) /\ Len(a \o b) = Len(a) + Len(b)
      /\ \A k \in 1..Len(a) + Len(b) :
            (a \o b)[k] = IF k <= Len(a) THEN a[k] ELSE b[k - Len(a)]
  BY <1>1, <1>2, ConcatProperties
<1> HIDE DEF a, b
<1>4. Len(a \o b) = Len(q) - 1
  BY <1>0, <1>1, <1>2, <1>3
<1>5. ASSUME NEW k \in 1..Len(q) - 1
      PROVE  (a \o b)[k] = IF k < i THEN q[k] ELSE q[k + 1]
  <2>1. CASE k < i
    BY <1>0, <1>1, <1>2, <1>3, <2>1
  <2>2. CASE ~(k < i)
    <3>1. k - (i - 1) \in 1..Len(q) - i /\ i + (k - (i - 1)) = k + 1 /\ ~(k <= i - 1)
      BY <1>0, <2>2
    <3>2. (a \o b)[k] = b[k - (i - 1)]
      BY <1>0, <1>1, <1>2, <1>3, <3>1
    <3>3. QED
      BY <1>2, <2>2, <3>1, <3>2
  <2>3. QED
    BY <2>1, <2>2
<1>6. QED
  BY <1>3, <1>4, <1>5 DEF RemoveAt, a, b

LEMMA LeaveLine ==
  ASSUME NEW S, NEW q \in Seq(S), IsInjective(q), NEW e \in ToSet(q)
  PROVE  /\ Without(q, e) \in Seq(S)
         /\ IsInjective(Without(q, e))
         /\ ToSet(Without(q, e)) = ToSet(q) \ {e}
<1> DEFINE i == Position(q, e)
           r == Without(q, e)
<1>1. i \in 1..Len(q) /\ q[i] = e /\ DOMAIN q = 1..Len(q) /\ Len(q) \in Nat
  BY LenProperties DEF Position, ToSet
<1>2. /\ r \in Seq(S) /\ DOMAIN r = 1..Len(q) - 1
      /\ \A k \in 1..Len(q) - 1 : r[k] = IF k < i THEN q[k] ELSE q[k + 1]
  BY <1>1, RemoveAtProperties, LenProperties DEF Without
<1> HIDE DEF i, r
<1>3. IsInjective(r)
  <2> DEFINE old(k) == IF k < i THEN k ELSE k + 1
  <2>1. SUFFICES ASSUME NEW k \in DOMAIN r, NEW m \in DOMAIN r, r[k] = r[m]
                 PROVE  k = m
    BY DEF IsInjective
  <2>2. r[k] = q[old(k)] /\ r[m] = q[old(m)] /\ old(k) \in DOMAIN q /\ old(m) \in DOMAIN q
    BY <1>1, <1>2
  <2>3. old(k) = old(m)
    BY <2>1, <2>2 DEF IsInjective
  <2>4. QED
    BY <1>1, <1>2, <2>3
<1>4. ASSUME NEW k \in DOMAIN r
      PROVE  \E m \in DOMAIN q : m # i /\ r[k] = q[m]
  <2>1. CASE k < i
    BY <1>1, <1>2, <2>1
  <2>2. CASE ~(k < i)
    <3>1. k + 1 \in DOMAIN q /\ k + 1 # i /\ r[k] = q[k + 1]
      BY <1>1, <1>2, <2>2
    <3>2. QED
      BY <3>1
  <2>3. QED
    BY <2>1, <2>2
<1>5. ASSUME NEW m \in DOMAIN q, m # i
      PROVE  \E k \in DOMAIN r : r[k] = q[m]
  <2>1. CASE m < i
    BY <1>1, <1>2, <2>1
  <2>2. CASE m > i
    <3>1. m - 1 \in DOMAIN r /\ ~(m - 1 < i) /\ (m - 1) + 1 = m
      BY <1>1, <1>2, <2>2
    <3>2. QED
      BY <1>2, <3>1
  <2>3. QED
    BY <1>1, <1>5, <2>1, <2>2
<1>6. ASSUME NEW x \in ToSet(r) PROVE x \in ToSet(q) \ {e}
  BY <1>1, <1>4 DEF ToSet, IsInjective
<1>7. ASSUME NEW x \in ToSet(q) \ {e} PROVE x \in ToSet(r)
  BY <1>1, <1>5 DEF ToSet
<1>8. QED
  BY <1>2, <1>3, <1>6, <1>7 DEF r

(* A reorder loses no job, adds none and duplicates none, wherever the      *)
(* anchor is and whether or not it still waits (jobqueue.reorder).          *)
THEOREM ReorderPermutes ==
  ASSUME NEW S, NEW q \in Seq(S), IsInjective(q), NEW j \in ToSet(q), NEW anchor
  PROVE  /\ Moved(q, j, anchor) \in Seq(S)
         /\ IsInjective(Moved(q, j, anchor))
         /\ ToSet(Moved(q, j, anchor)) = ToSet(q)
<1> DEFINE rest == Without(q, j)
<1>1. /\ rest \in Seq(S) /\ IsInjective(rest) /\ ToSet(rest) = ToSet(q) \ {j}
      /\ j \in S /\ j \notin ToSet(rest)
  <2>1. j \in S
    BY LenProperties, ElementOfSeq DEF ToSet
  <2>2. QED
    BY <2>1, LeaveLine
<1>2. ToSet(rest) \cup {j} = ToSet(q)
  BY <1>1
<1>3. Moved(q, j, anchor) =
        IF anchor = None THEN <<j>> \o rest
        ELSE IF anchor \in ToSet(rest) THEN InsertAt(rest, Position(rest, anchor) + 1, j)
        ELSE Append(rest, j)
  BY DEF Moved
<1> HIDE DEF rest
<1>4. CASE anchor = None
  <2>1. /\ <<j>> \o rest \in Seq(S) /\ IsInjective(<<j>> \o rest)
        /\ ToSet(<<j>> \o rest) = ToSet(rest) \cup {j}
    BY <1>1, ConsToLine
  <2>2. QED
    BY <1>2, <1>3, <1>4, <2>1
<1>5. CASE anchor # None /\ anchor \in ToSet(rest)
  <2> DEFINE p == Position(rest, anchor)
  <2>1. p \in DOMAIN rest
    BY <1>5 DEF Position, ToSet
  <2> HIDE DEF p
  <2>2. p + 1 \in 1..Len(rest) + 1
    BY <1>1, <2>1, LenProperties
  <2>3. /\ InsertAt(rest, p + 1, j) \in Seq(S) /\ IsInjective(InsertAt(rest, p + 1, j))
        /\ ToSet(InsertAt(rest, p + 1, j)) = ToSet(rest) \cup {j}
    BY <1>1, <2>2, InsertIntoLine
  <2>4. QED
    BY <1>2, <1>3, <1>5, <2>3 DEF p
<1>6. CASE anchor # None /\ anchor \notin ToSet(rest)
  <2>1. /\ Append(rest, j) \in Seq(S) /\ IsInjective(Append(rest, j))
        /\ ToSet(Append(rest, j)) = ToSet(rest) \cup {j}
    BY <1>1, AppendToLine
  <2>2. QED
    BY <1>2, <1>3, <1>6, <2>1
<1>7. QED
  BY <1>4, <1>5, <1>6

----------------------------------------------------------------------------
(* The steps of the queue keep its invariant.                               *)
USE LimitsAssumption, NoneAssumption
USE DEF queueVars, wakeVars, jobVars, workVars, thrVars,
        Status, Terminal, Unregistered, WorkerPc, PipePc, ThreadPc, At, Goto, Leave

----------------------------------------------------------------------------
LEMMA WorkerKeeps ==
  ASSUME IInv, Worker
  PROVE  IInv'
<1> USE DEF IInv, TypeOK, QueueCoherent, NoLimbo, DiscardGivesOwnership,
            WorkerHand, RegistryAgrees, HandlersServe, PipelineInStep
<1>1. CASE WorkerStop
  BY <1>1 DEF WorkerStop
<1>2. CASE WorkerFindsNone
  BY <1>2 DEF WorkerFindsNone
<1>3. CASE WorkerSleeps
  <2>1. wake' \in BOOLEAN
    BY <1>3 DEF WorkerSleeps
  <2>2. QED
    BY <1>3, <2>1 DEF WorkerSleeps
<1>4. CASE WorkerWakes
  BY <1>4 DEF WorkerWakes
<1>5. CASE WorkerPop
  <2>1. /\ wjob' \in Jobs /\ wjob' \in ToSet(queue)
        /\ queue' \in Seq(Jobs) /\ IsInjective(queue')
        /\ ToSet(queue') = ToSet(queue) \ {wjob'}
    BY <1>5, PopFromLine DEF WorkerPop
  <2>2. /\ wpc = "top" /\ wpc' = "popped"
        /\ UNCHANGED <<running, paused, stopping, wakeVars, jobVars, pipe, stage, thrVars>>
    BY <1>5 DEF WorkerPop
  <2>3. QED
    BY <2>1, <2>2
<1>6. CASE WorkerVets
  BY <1>6 DEF WorkerVets
<1>7. CASE WorkerDrops
  BY <1>7 DEF WorkerDrops
<1>8. CASE WorkerDropCleans
  BY <1>8 DEF WorkerDropCleans
<1>9. CASE WorkerSetsRunning
  BY <1>9 DEF WorkerSetsRunning
<1>10. CASE WorkerClaims
  BY <1>10 DEF WorkerClaims
<1>11. CASE Dispatch
  BY <1>11 DEF Dispatch
<1>12. CASE DispatchRefuses
  BY <1>12 DEF DispatchRefuses
<1>13. CASE DispatchRaises
  BY <1>13 DEF DispatchRaises
<1>14. CASE WorkerSettles
  BY <1>14 DEF WorkerSettles
<1>15. CASE WorkerCleans
  BY <1>15 DEF WorkerCleans
<1>16. CASE WorkerReleases
  BY <1>16 DEF WorkerReleases
<1>17. QED
  BY <1>1, <1>2, <1>3, <1>4, <1>5, <1>6, <1>7, <1>8, <1>9, <1>10, <1>11, <1>12, <1>13, <1>14, <1>15, <1>16 DEF Worker

LEMMA PipelineKeeps ==
  ASSUME IInv, PipelineThread
  PROVE  IInv'
<1> USE DEF Pipeline, IInv, TypeOK, QueueCoherent, NoLimbo, DiscardGivesOwnership,
            WorkerHand, RegistryAgrees, HandlersServe, PipelineInStep
<1>1. CASE PipeCancelled
  BY <1>1 DEF PipeCancelled
<1>2. CASE PipeLaunch
  BY <1>2 DEF PipeLaunch
<1>3. CASE PipeRegisters
  BY <1>3 DEF PipeRegisters
<1>4. CASE PipeExits
  BY <1>4 DEF PipeExits
<1>5. CASE PipeFails
  BY <1>5 DEF PipeFails
<1>6. CASE PipeCompletes
  BY <1>6 DEF PipeCompletes
<1>7. QED
  BY <1>1, <1>2, <1>3, <1>4, <1>5, <1>6 DEF PipelineThread

LEMMA LoopKeeps ==
  ASSUME IInv, LoopSetsWake \/ RequestStop
  PROVE  IInv'
<1> USE DEF LoopFree, IInv, TypeOK, QueueCoherent, NoLimbo, DiscardGivesOwnership,
            WorkerHand, RegistryAgrees, HandlersServe, PipelineInStep
<1>1. CASE LoopSetsWake
  <2>1. wake' \in BOOLEAN /\ scheduled' \in BOOLEAN
    BY <1>1 DEF LoopSetsWake
  <2>2. QED
    BY <1>1, <2>1 DEF LoopSetsWake
<1>2. CASE RequestStop
  BY <1>2 DEF RequestStop
<1>3. QED
  BY <1>1, <1>2 DEF LoopSetsWake

LEMMA HandlerStepKeeps ==
  ASSUME IInv, NEW t \in Threads, HandlerStep(t)
  PROVE  IInv'
<1> USE DEF IInv, TypeOK, QueueCoherent, NoLimbo, DiscardGivesOwnership,
            WorkerHand, RegistryAgrees, HandlersServe, PipelineInStep
<1>1. CASE CancelFlag(t)
  BY <1>1 DEF CancelFlag
<1>2. CASE CancelDiscard(t)
  <2>1. CASE tjob[t] \in ToSet(queue)
    <3>1. /\ queue' \in Seq(Jobs) /\ IsInjective(queue')
          /\ ToSet(queue') = ToSet(queue) \ {tjob[t]}
      BY <1>2, <2>1, LeaveLine DEF CancelDiscard
    <3>2. /\ tpc[t] = "discard" /\ tpc' = [tpc EXCEPT ![t] = "finalise"]
          /\ UNCHANGED <<running, paused, stopping, wakeVars, jobVars, workVars, tjob>>
      BY <1>2, <2>1 DEF CancelDiscard
    <3>3. QED
      BY <2>1, <3>1, <3>2
  <2>2. CASE tjob[t] \notin ToSet(queue)
    BY <1>2, <2>2 DEF CancelDiscard
  <2>3. QED
    BY <2>1, <2>2
<1>3. CASE CancelFinalise(t)
  BY <1>3 DEF CancelFinalise
<1>4. CASE CancelCleans(t)
  BY <1>4 DEF CancelCleans
<1>5. CASE CancelAsksRunning(t)
  BY <1>5 DEF CancelAsksRunning
<1>6. CASE CancelKills(t)
  BY <1>6 DEF CancelKills
<1>7. CASE DeleteRemovesDir(t)
  BY <1>7 DEF DeleteRemovesDir
<1>8. CASE DeleteForgets(t)
  BY <1>8 DEF DeleteForgets
<1>9. CASE Notify(t)
  BY <1>9 DEF Notify
<1>10. QED
  BY <1>1, <1>2, <1>3, <1>4, <1>5, <1>6, <1>7, <1>8, <1>9 DEF HandlerStep

LEMMA RequestKeeps ==
  ASSUME IInv, NEW t \in Threads,
         \/ StartQueue(t)
         \/ \E j \in Jobs : CancelBegin(t, j) \/ DeleteBegin(t, j)
         \/ \E j \in Jobs, a \in Jobs \cup {None} : Reorder(t, j, a)
  PROVE  IInv'
<1> USE DEF IInv, TypeOK, QueueCoherent, NoLimbo, DiscardGivesOwnership,
            WorkerHand, RegistryAgrees, HandlersServe, PipelineInStep
<1>1. CASE StartQueue(t)
  <2>1. paused' \in BOOLEAN
    BY <1>1 DEF StartQueue
  <2>2. QED
    BY <1>1, <2>1 DEF StartQueue
<1>2. ASSUME NEW j \in Jobs, CancelBegin(t, j) PROVE IInv'
  BY <1>2 DEF CancelBegin
<1>3. ASSUME NEW j \in Jobs, DeleteBegin(t, j) PROVE IInv'
  BY <1>3 DEF DeleteBegin
<1>4. ASSUME NEW j \in Jobs, NEW a \in Jobs \cup {None}, Reorder(t, j, a) PROVE IInv'
  <2>1. /\ queue' \in Seq(Jobs) /\ IsInjective(queue')
        /\ ToSet(queue') = ToSet(queue)
    BY <1>4, ReorderPermutes DEF Reorder
  <2>2. UNCHANGED <<running, paused, stopping, wakeVars, jobVars, workVars, thrVars>>
    BY <1>4 DEF Reorder
  <2>3. QED
    BY <2>1, <2>2
<1>5. QED
  BY <1>1, <1>2, <1>3, <1>4 DEF Handler

(* Accepting a job: it joins the line and the registry together. *)
LEMMA AcceptJoins ==
  ASSUME IInv, NEW j \in Jobs, status[j] \in {"new", "uploading"}, Accept(j)
  PROVE  /\ queue' \in Seq(Jobs) /\ IsInjective(queue')
         /\ ToSet(queue') = ToSet(queue) \cup {j} /\ j \notin ToSet(queue)
         /\ registry' = registry \cup {j}
         /\ status' = [status EXCEPT ![j] = "queued"]
         /\ paused' \in BOOLEAN /\ scheduled' \in BOOLEAN
<1>1. queue \in Seq(Jobs) /\ IsInjective(queue) /\ j \notin ToSet(queue)
  BY DEF IInv, TypeOK, QueueCoherent
<1>2. QED
  BY <1>1, AppendToLine DEF Accept

LEMMA SubmissionKeeps ==
  ASSUME IInv, NEW j \in Jobs,
         \/ CreateUrl(j) \/ UploadBegin(j) \/ UploadAccept(j)
         \/ UploadRefuse(j) \/ UploadCopyFails(j)
  PROVE  IInv'
<1> USE DEF LoopFree, IInv, TypeOK, QueueCoherent, NoLimbo, DiscardGivesOwnership,
            WorkerHand, RegistryAgrees, HandlersServe, PipelineInStep
<1>1. CASE CreateUrl(j)
  <2>1. Accept(j) /\ status[j] \in {"new", "uploading"}
    BY <1>1 DEF CreateUrl
  <2>2. UNCHANGED <<running, stopping, wake, cancelReq, dir, workVars, thrVars>>
    BY <1>1 DEF CreateUrl
  <2>3. QED
    BY <2>1, <2>2, AcceptJoins
<1>2. CASE UploadBegin(j)
  BY <1>2 DEF UploadBegin
<1>3. CASE UploadAccept(j)
  <2>1. Accept(j) /\ status[j] \in {"new", "uploading"}
    BY <1>3 DEF UploadAccept
  <2>2. UNCHANGED <<running, stopping, wake, cancelReq, dir, workVars, thrVars>>
    BY <1>3 DEF UploadAccept
  <2>3. QED
    BY <2>1, <2>2, AcceptJoins
<1>4. CASE UploadRefuse(j)
  BY <1>4 DEF UploadRefuse
<1>5. CASE UploadCopyFails(j)
  BY <1>5 DEF UploadCopyFails
<1>6. QED
  BY <1>1, <1>2, <1>3, <1>4, <1>5 DEF LoopFree

----------------------------------------------------------------------------
(* IInv is inductive. *)

LEMMA InitHolds == Init => IInv
<1>1. SUFFICES ASSUME Init PROVE IInv
  OBVIOUS
<1>2. queue \in Seq(Jobs) /\ registry \in SUBSET Jobs /\ registry = ToSet(queue) /\ IsInjective(queue)
  <2>1. PICK n \in 0..Cardinality(Jobs) : \E q \in [1..n -> Jobs] :
          IsInjective(q) /\ queue = q /\ registry = ToSet(q)
    BY <1>1 DEF Init
  <2>2. PICK q \in [1..n -> Jobs] : IsInjective(q) /\ queue = q /\ registry = ToSet(q)
    BY <2>1
  <2>3. n \in Nat
    BY FiniteJobsAssumption, FS_CardinalityType
  <2>4. q \in Seq(Jobs)
    BY <2>3, SeqDef
  <2>5. ToSet(q) \subseteq Jobs
    BY <2>4, LenProperties, ElementOfSeq DEF ToSet
  <2>6. QED
    BY <2>2, <2>4, <2>5
<1>3. /\ paused \in BOOLEAN /\ scheduled \in BOOLEAN
      /\ stopping \in BOOLEAN /\ wake \in BOOLEAN
      /\ cancelReq \in [Jobs -> BOOLEAN] /\ dir \in [Jobs -> BOOLEAN]
  <2>1. PICK n \in 0..Cardinality(Jobs) : paused = (n > 0) /\ scheduled = (n > 0)
    BY <1>1 DEF Init
  <2>2. paused \in BOOLEAN /\ scheduled \in BOOLEAN
    BY <2>1
  <2>3. stopping = FALSE /\ wake = FALSE /\ cancelReq = [j \in Jobs |-> FALSE]
    BY <1>1 DEF Init
  <2>4. dir \in [Jobs -> BOOLEAN]
    BY <1>1 DEF Init
  <2>5. QED
    BY <2>2, <2>3, <2>4
<1>4. TypeOK
  <2>1. /\ running = None /\ wjob = None /\ wpc = "wait" /\ pipe = "off" /\ stage = 0
        /\ status = [j \in Jobs |-> IF j \in registry THEN "queued" ELSE "new"]
        /\ tpc = [t \in Threads |-> "idle"] /\ tjob = [t \in Threads |-> None]
    BY <1>1 DEF Init
  <2>2. QED
    BY <1>2, <1>3, <2>1 DEF TypeOK
<1>5. QED
  BY <1>1, <1>2, <1>4 DEF Init, IInv, QueueCoherent, NoLimbo, DiscardGivesOwnership,
     WorkerHand, RegistryAgrees, HandlersServe, PipelineInStep

LEMMA NextKeeps == IInv /\ [Next]_vars => IInv'
<1>1. SUFFICES ASSUME IInv, [Next]_vars PROVE IInv'
  OBVIOUS
<1>2. CASE UNCHANGED vars
  BY <1>1, <1>2 DEF vars, IInv, TypeOK, QueueCoherent, NoLimbo, DiscardGivesOwnership,
     WorkerHand, RegistryAgrees, HandlersServe, PipelineInStep
<1>3. CASE Submission
  BY <1>1, <1>3, SubmissionKeeps DEF Submission
<1>4. CASE LoopSetsWake \/ RequestStop
  BY <1>1, <1>4, LoopKeeps
<1>5. CASE Worker
  BY <1>1, <1>5, WorkerKeeps
<1>6. CASE PipelineThread
  BY <1>1, <1>6, PipelineKeeps
<1>7. ASSUME NEW t \in Threads, Handler(t) PROVE IInv'
  BY <1>1, <1>7, HandlerStepKeeps, RequestKeeps DEF Handler
<1>8. QED
  BY <1>1, <1>2, <1>3, <1>4, <1>5, <1>6, <1>7 DEF Next

THEOREM Inductive == Spec => []IInv
BY InitHolds, NextKeeps, PTL DEF Spec

(* Every variable keeps the values the program can give it. *)
THEOREM Typed == Spec => []TypeOK
BY Inductive, PTL DEF IInv

(* A job is never twice in the waiting line, nor in the line and in the     *)
(* worker's hand; whatever waits there is registered and queued.            *)
THEOREM LineIsCoherent == Spec => []QueueCoherent
BY Inductive, PTL DEF IInv

(* No registered job waits without an owner (issue 520). *)
THEOREM NobodyInLimbo == Spec => []NoLimbo
BY Inductive, PTL DEF IInv

(* A handler that discarded a job from the line owns it alone. *)
THEOREM DiscardOwns == Spec => []DiscardGivesOwnership
BY Inductive, PTL DEF IInv

----------------------------------------------------------------------------
(* What no step does, given IInv. *)

(* Only a job that was not closed out yet changes its status. *)
StatusStep == \/ status' = status
              \/ \E j \in Jobs, s \in Status :
                    status[j] \notin Terminal /\ status' = [status EXCEPT ![j] = s]

LEMMA NextMovesStatus == ASSUME IInv, Next PROVE StatusStep
<1> USE DEF StatusStep, IInv, TypeOK
<1>1. CASE Submission
  BY <1>1 DEF Submission, CreateUrl, UploadBegin, UploadAccept, UploadRefuse,
     UploadCopyFails, Accept
<1>2. CASE LoopSetsWake \/ RequestStop \/ PipelineThread
  BY <1>2 DEF LoopSetsWake, RequestStop, PipelineThread, Pipeline, PipeCancelled,
     PipeLaunch, PipeRegisters, PipeExits, PipeFails, PipeCompletes
<1>3. CASE Worker
  BY <1>3 DEF Worker, WorkerStop, WorkerFindsNone, WorkerSleeps, WorkerWakes, WorkerPop,
     WorkerVets, WorkerDrops, WorkerDropCleans, WorkerSetsRunning, WorkerClaims, Dispatch,
     DispatchRefuses, DispatchRaises, WorkerSettles, WorkerCleans, WorkerReleases, WorkerHand
<1>4. ASSUME NEW t \in Threads, Handler(t) PROVE StatusStep
  BY <1>4 DEF Handler, HandlerStep, StartQueue, CancelBegin, DeleteBegin, Reorder, CancelFlag,
     CancelDiscard, CancelFinalise, CancelCleans, CancelAsksRunning, CancelKills,
     DeleteRemovesDir, DeleteForgets, Notify, HandlersServe, DiscardGivesOwnership
<1>5. QED
  BY <1>1, <1>2, <1>3, <1>4 DEF Next

(* A job that was closed out stays as it was closed out. *)
THEOREM TerminalStays == Spec => TerminalIsFinal
<1>1. ASSUME IInv, [Next]_vars
      PROVE  [\A j \in Jobs : status[j] \in Terminal => status'[j] = status[j]]_vars
  <2>1. CASE UNCHANGED vars
    BY <2>1
  <2>2. CASE Next
    BY <1>1, <2>2, NextMovesStatus DEF StatusStep, IInv, TypeOK
  <2>3. QED
    BY <1>1, <2>1, <2>2
<1>2. QED
  BY Inductive, <1>1, PTL DEF Spec, TerminalIsFinal

(* A cancelled job's directory outlives the cancel only until whoever       *)
(* cancelled the job has removed it.                                        *)
THEOREM CancelFreesFiles == Spec => []CancelledFreesItsFiles
<1> USE DEF CancelledFreesItsFiles
<1>1. Init => CancelledFreesItsFiles
  BY DEF Init
<1>2. ASSUME IInv, CancelledFreesItsFiles, [Next]_vars PROVE CancelledFreesItsFiles'
  <2> USE <1>2 DEF IInv, TypeOK
  <2>1. CASE UNCHANGED vars
    BY <2>1 DEF vars
  <2>2. CASE Submission
    BY <2>2 DEF Submission, CreateUrl, UploadBegin, UploadAccept, UploadRefuse,
       UploadCopyFails, Accept
  <2>3. CASE LoopSetsWake \/ RequestStop \/ PipelineThread
    BY <2>3 DEF LoopSetsWake, RequestStop, PipelineThread, Pipeline, PipeCancelled,
       PipeLaunch, PipeRegisters, PipeExits, PipeFails, PipeCompletes
  <2>4. CASE Worker
    <3> USE DEF WorkerHand
    <3>1. CASE \/ WorkerStop \/ WorkerFindsNone \/ WorkerSleeps \/ WorkerWakes \/ WorkerPop
               \/ WorkerVets \/ WorkerSetsRunning \/ DispatchRaises \/ WorkerReleases
      BY <3>1 DEF WorkerStop, WorkerFindsNone, WorkerSleeps, WorkerWakes, WorkerPop,
         WorkerVets, WorkerSetsRunning, DispatchRaises, WorkerReleases
    <3>2. CASE WorkerDrops \/ WorkerDropCleans
      BY <3>2 DEF WorkerDrops, WorkerDropCleans
    <3>3. CASE WorkerClaims \/ Dispatch \/ DispatchRefuses
      BY <3>3 DEF WorkerClaims, Dispatch, DispatchRefuses
    <3>4. CASE WorkerSettles
      BY <3>4 DEF WorkerSettles
    <3>5. CASE WorkerCleans
      <4>1. wjob \in Jobs /\ (status[wjob] # "done" => ~dir'[wjob])
        BY <3>5 DEF WorkerCleans
      <4>2. \A j \in Jobs \ {wjob} : dir'[j] = dir[j]
        BY <3>5 DEF WorkerCleans
      <4>3. UNCHANGED <<status, tpc, tjob>> /\ wpc = "settled"
        BY <3>5 DEF WorkerCleans
      <4>4. QED
        BY <4>1, <4>2, <4>3
    <3>6. QED
      BY <2>4, <3>1, <3>2, <3>3, <3>4, <3>5 DEF Worker
  <2>5. ASSUME NEW t \in Threads, Handler(t) PROVE CancelledFreesItsFiles'
    <3>1. CASE \/ CancelFlag(t) \/ CancelDiscard(t) \/ CancelFinalise(t)
               \/ CancelCleans(t) \/ CancelAsksRunning(t) \/ CancelKills(t)
      BY <3>1 DEF CancelFlag, CancelDiscard, CancelFinalise, CancelCleans,
         CancelAsksRunning, CancelKills, HandlersServe
    <3>2. CASE DeleteRemovesDir(t) \/ DeleteForgets(t) \/ Notify(t) \/ StartQueue(t)
      BY <3>2 DEF DeleteRemovesDir, DeleteForgets, Notify, StartQueue, HandlersServe
    <3>3. CASE \/ \E j \in Jobs : CancelBegin(t, j) \/ DeleteBegin(t, j)
               \/ \E j \in Jobs, a \in Jobs \cup {None} : Reorder(t, j, a)
      BY <3>3 DEF CancelBegin, DeleteBegin, Reorder
    <3>4. QED
      BY <2>5, <3>1, <3>2, <3>3 DEF Handler, HandlerStep
  <2>6. QED
    BY <2>1, <2>2, <2>3, <2>4, <2>5 DEF Next
<1>3. QED
  BY Inductive, <1>1, <1>2, PTL DEF Spec


----------------------------------------------------------------------------
(***************************************************************************)
(* ImportQueue implements JobLifecycle: every step of queue, worker,       *)
(* pipeline and handlers is a step of the abstract life cycle of one job,  *)
(* or changes no job's phase.                                              *)
(***************************************************************************)
Stutters == \A k \in Jobs : PhaseOf(k)' = PhaseOf(k)

(* j goes from one phase to another and every other job stays where it is. *)
Goes(j, from, to) == /\ PhaseOf(j) \in from
                     /\ PhaseOf(j)' = to
                     /\ \A k \in Jobs \ {j} : PhaseOf(k)' = PhaseOf(k)

LEMMA StutterMaps == ASSUME Stutters PROVE phase' = phase
BY DEF Stutters, phase

LEMMA GoesMaps ==
  ASSUME NEW j \in Jobs, NEW from, NEW to, Goes(j, from, to)
  PROVE  Lifecycle!Move(j, from, to)
BY DEF Goes, phase, Lifecycle!Move

(* How a job may go, as the abstract actions have it. *)
LEMMA MovesAllowed ==
  ASSUME NEW j \in Jobs,
         \/ Goes(j, {"new"}, "waiting")
         \/ Goes(j, {"waiting"}, "starting") /\ Lifecycle!Busy = {}
         \/ Goes(j, {"starting"}, "working")
         \/ Goes(j, {"waiting", "starting"}, "dropping")
         \/ Goes(j, {"working"}, "done")
         \/ Goes(j, {"starting", "working", "dropping"}, "error")
         \/ Goes(j, {"working", "dropping"}, "cancelled")
         \/ Goes(j, {"starting", "dropping"}, "abandoned")
  PROVE  Lifecycle!Next
BY GoesMaps DEF Lifecycle!Next, Lifecycle!Submit, Lifecycle!Start, Lifecycle!Work,
   Lifecycle!Withdraw, Lifecycle!Complete, Lifecycle!Fail, Lifecycle!CloseOut, Lifecycle!Abandon

LEMMA OneCurrent ==
  ASSUME IInv, NEW j \in Jobs, j # wjob
  PROVE  PhaseOf(j) \notin {"starting", "working"}
BY DEF PhaseOf

(* The phases of Busy belong to the worker's job. *)
LEMMA NoneBusy ==
  ASSUME IInv, wpc = "claimed" PROVE Lifecycle!Busy = {}
BY OneCurrent DEF Lifecycle!Busy, phase, PhaseOf, IInv, TypeOK, WorkerHand

LEMMA QuietMaps ==
  ASSUME IInv,
         \/ LoopSetsWake \/ RequestStop
         \/ PipeCancelled \/ PipeRegisters \/ PipeExits \/ PipeFails \/ PipeCompletes
         \/ WorkerStop \/ WorkerFindsNone \/ WorkerSleeps \/ WorkerWakes \/ WorkerPop
         \/ WorkerVets \/ WorkerDropCleans \/ WorkerSetsRunning
         \/ Dispatch \/ DispatchRaises \/ WorkerCleans
  PROVE  Stutters
<1> USE DEF Stutters, PhaseOf, IInv, TypeOK, WorkerHand, PipelineInStep
<1>1. CASE LoopSetsWake \/ RequestStop
  BY <1>1 DEF LoopSetsWake, RequestStop
<1>2. CASE PipeCancelled \/ PipeRegisters \/ PipeExits \/ PipeFails \/ PipeCompletes
  BY <1>2 DEF Pipeline, PipeCancelled, PipeRegisters, PipeExits, PipeFails, PipeCompletes
<1>3. CASE WorkerStop \/ WorkerFindsNone \/ WorkerSleeps \/ WorkerWakes
  BY <1>3 DEF WorkerStop, WorkerFindsNone, WorkerSleeps, WorkerWakes
<1>4. CASE WorkerPop
  <2>1. wjob = None /\ status[wjob'] = "queued"
    BY <1>4, PopFromLine DEF WorkerPop, QueueCoherent
  <2>2. UNCHANGED <<status, cancelReq, stage>>
    BY <1>4 DEF WorkerPop
  <2>3. QED
    BY <2>1, <2>2
<1>5. CASE WorkerVets \/ WorkerDropCleans \/ WorkerSetsRunning
  BY <1>5 DEF WorkerVets, WorkerDropCleans, WorkerSetsRunning
<1>6. CASE Dispatch \/ DispatchRaises \/ WorkerCleans
  BY <1>6 DEF Dispatch, DispatchRaises, WorkerCleans
<1>7. QED
  BY <1>1, <1>2, <1>3, <1>4, <1>5, <1>6

(* The steps that move the job in the worker's hand. *)
LEMMA WorkMaps ==
  ASSUME IInv, \/ WorkerDrops \/ WorkerClaims \/ DispatchRefuses \/ WorkerSettles
               \/ WorkerReleases \/ PipeLaunch
  PROVE  Stutters \/ Lifecycle!Next
<1>1. PICK j \in Jobs : j = wjob
  BY DEF WorkerDrops, WorkerClaims, DispatchRefuses, WorkerSettles, WorkerReleases,
     PipeLaunch, Pipeline, IInv, TypeOK, WorkerHand
<1>2. CASE WorkerDrops
  <2>1. Goes(j, {"working", "dropping"}, "cancelled")
    BY <1>1, <1>2 DEF WorkerDrops, Goes, PhaseOf, IInv, TypeOK, WorkerHand
  <2>2. QED
    BY <2>1, MovesAllowed
<1>3. CASE WorkerClaims
  <2> USE <1>1, <1>3 DEF WorkerClaims, PhaseOf, IInv, TypeOK, WorkerHand, PipelineInStep
  <2>1. CASE cancelReq[j]
    BY <2>1 DEF Stutters
  <2>2. CASE ~cancelReq[j]
    <3>1. Goes(j, {"waiting"}, "starting")
      BY <2>2 DEF Goes
    <3>2. Lifecycle!Busy = {}
      BY NoneBusy
    <3>3. QED
      BY <3>1, <3>2, MovesAllowed
  <2>3. QED
    BY <2>1, <2>2
<1>4. CASE DispatchRefuses
  <2>1. Goes(j, {"starting", "working", "dropping"}, "error")
    BY <1>1, <1>4 DEF DispatchRefuses, Goes, PhaseOf, IInv, TypeOK, WorkerHand
  <2>2. QED
    BY <2>1, MovesAllowed
<1>5. CASE WorkerSettles
  <2> USE <1>1, <1>5 DEF WorkerSettles, PhaseOf, IInv, TypeOK, WorkerHand, PipelineInStep
  <2>1. CASE pipe = "ok"
    <3>1. Goes(j, {"working"}, "done")
      BY <2>1 DEF Goes
    <3>2. QED
      BY <3>1, MovesAllowed
  <2>2. CASE pipe # "ok" /\ (pipe = "cancelled" \/ cancelReq[j])
    <3>1. Goes(j, {"working", "dropping"}, "cancelled")
      BY <2>2 DEF Goes
    <3>2. QED
      BY <3>1, MovesAllowed
  <2>3. CASE pipe # "ok" /\ pipe # "cancelled" /\ ~cancelReq[j]
    <3>1. Goes(j, {"starting", "working", "dropping"}, "error")
      BY <2>3 DEF Goes
    <3>2. QED
      BY <3>1, MovesAllowed
  <2>4. QED
    BY <2>1, <2>2, <2>3
<1>6. CASE WorkerReleases
  <2> USE <1>1, <1>6 DEF WorkerReleases, PhaseOf, IInv, TypeOK, WorkerHand, PipelineInStep
  <2>1. CASE status[j] = "processing"
    <3>1. Goes(j, {"starting", "dropping"}, "abandoned")
      BY <2>1 DEF Goes
    <3>2. QED
      BY <3>1, MovesAllowed
  <2>2. CASE status[j] # "processing"
    BY <2>2 DEF Stutters
  <2>3. QED
    BY <2>1, <2>2
<1>7. CASE PipeLaunch
  <2> USE <1>1, <1>7 DEF PipeLaunch, Pipeline, PhaseOf, IInv, TypeOK, WorkerHand
  <2>1. CASE stage = 0
    <3>1. Goes(j, {"starting"}, "working")
      BY <2>1 DEF Goes
    <3>2. QED
      BY <3>1, MovesAllowed
  <2>2. CASE stage # 0
    BY <2>2 DEF Stutters
  <2>3. QED
    BY <2>1, <2>2
<1>8. QED
  BY <1>2, <1>3, <1>4, <1>5, <1>6, <1>7

LEMMA SubmissionMaps ==
  ASSUME IInv, NEW j \in Jobs,
         \/ CreateUrl(j) \/ UploadBegin(j) \/ UploadAccept(j)
         \/ UploadRefuse(j) \/ UploadCopyFails(j)
  PROVE  Stutters \/ Lifecycle!Next
<1> USE DEF PhaseOf, IInv, TypeOK
<1>1. CASE CreateUrl(j) \/ UploadAccept(j)
  <2>1. /\ status[j] \in {"new", "uploading"}
        /\ status' = [status EXCEPT ![j] = "queued"]
        /\ UNCHANGED <<cancelReq, wjob, stage>>
    BY <1>1 DEF CreateUrl, UploadAccept, Accept
  <2>2. Goes(j, {"new"}, "waiting")
    BY <2>1 DEF Goes, RegistryAgrees
  <2>3. QED
    BY <2>2, MovesAllowed
<1>2. CASE UploadBegin(j) \/ UploadRefuse(j) \/ UploadCopyFails(j)
  BY <1>2 DEF UploadBegin, UploadRefuse, UploadCopyFails, Stutters
<1>3. QED
  BY <1>1, <1>2

LEMMA HandlerMaps ==
  ASSUME IInv, NEW t \in Threads, Handler(t)
  PROVE  Stutters \/ Lifecycle!Next
<1> USE DEF PhaseOf, IInv, TypeOK
<1>1. CASE CancelFlag(t)
  <2>1. PICK j \in Jobs : j = tjob[t]
    BY <1>1 DEF CancelFlag, HandlersServe
  <2>2. cancelReq' = [cancelReq EXCEPT ![j] = TRUE] /\ UNCHANGED <<status, wjob, stage>>
    BY <1>1, <2>1 DEF CancelFlag
  <2>3. CASE PhaseOf(j) \in {"waiting", "starting"}
    <3>1. Goes(j, {"waiting", "starting"}, "dropping")
      BY <2>2, <2>3 DEF Goes
    <3>2. QED
      BY <3>1, MovesAllowed
  <2>4. CASE PhaseOf(j) \notin {"waiting", "starting"}
    BY <2>2, <2>4 DEF Stutters
  <2>5. QED
    BY <2>3, <2>4
<1>2. CASE CancelFinalise(t)
  <2>1. PICK j \in Jobs : j = tjob[t]
    BY <1>2 DEF CancelFinalise, HandlersServe
  <2>2. Goes(j, {"working", "dropping"}, "cancelled")
    BY <1>2, <2>1 DEF CancelFinalise, DiscardGivesOwnership, Goes
  <2>3. QED
    BY <2>2, MovesAllowed
<1>3. CASE \/ CancelDiscard(t) \/ CancelCleans(t) \/ CancelAsksRunning(t) \/ CancelKills(t)
           \/ DeleteRemovesDir(t) \/ DeleteForgets(t) \/ Notify(t) \/ StartQueue(t)
  BY <1>3 DEF CancelDiscard, CancelCleans, CancelAsksRunning, CancelKills,
     DeleteRemovesDir, DeleteForgets, Notify, StartQueue, Stutters
<1>4. CASE \/ \E j \in Jobs : CancelBegin(t, j) \/ DeleteBegin(t, j)
           \/ \E j \in Jobs, a \in Jobs \cup {None} : Reorder(t, j, a)
  BY <1>4 DEF CancelBegin, DeleteBegin, Reorder, Stutters
<1>5. QED
  BY <1>1, <1>2, <1>3, <1>4 DEF Handler, HandlerStep

(* The queue keeps the promises of JobLifecycle: one job at a time in the  *)
(* pipeline, and no stage launched for a job withdrawn before its first.   *)
THEOREM Refines == Spec => ImplementsLifecycle
<1>1. Init => Lifecycle!Init
  BY DEF Init, Lifecycle!Init, phase, PhaseOf
<1>2. ASSUME IInv, [Next]_vars PROVE [Lifecycle!Next]_phase
  <2>1. CASE UNCHANGED vars
    <3>1. Stutters
      BY <2>1 DEF vars, Stutters, PhaseOf
    <3>2. QED
      BY <3>1, StutterMaps
  <2>2. CASE Next
    <3>1. Stutters \/ Lifecycle!Next
      BY <1>2, <2>2, QuietMaps, WorkMaps, SubmissionMaps, HandlerMaps
         DEF Next, Submission, Worker, PipelineThread
    <3>2. QED
      BY <3>1, StutterMaps
  <2>3. QED
    BY <1>2, <2>1, <2>2
<1>3. QED
  BY Inductive, <1>1, <1>2, PTL DEF Spec, ImplementsLifecycle, Lifecycle!Spec
=============================================================================
