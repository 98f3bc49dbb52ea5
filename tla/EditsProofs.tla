---------------------------- MODULE EditsProofs -----------------------------
(***************************************************************************)
(* What the user makes of beats and sections is kept: proofs for the parts *)
(* of MCPanels that are edited, whatever tracks there are, however long    *)
(* they are and wherever their beats, downbeats and sections lie.          *)
(*                                                                         *)
(* Each part has an inductive invariant, stated at the end of its module:  *)
(* GridIInv (every layout, the ones to undo to and to redo among them, is  *)
(* well laid), StoreIInv (what the user wants of a track is on the server, *)
(* or a request under way will bring it there) and SectionsIInv (the last  *)
(* list of the chain is the one wanted, or a timer or a gesture will queue *)
(* it).                                                                    *)
(***************************************************************************)
EXTENDS MCPanels, FiniteSetTheorems, SequenceTheorems, WellFoundedInduction, TLAPS

(* ------------------------------ kept grids ----------------------------- *)
LEMMA StoreStarts == ASSUME GridStore!StoreAssumption, GridStore!StoreInit PROVE GridStore!StoreIInv
<1> DEFINE D == [j \in Edited |-> GridStore!Detected(j)]
<1>1. st = [job |-> GridStore!None, grid |-> GridStore!NoGrid, dirty |-> FALSE, timer |-> FALSE, patches |-> {},
            server |-> D, opening |-> GridStore!None, read |-> GridStore!NoGrid, reset |-> GridStore!NoReset,
            available |-> FALSE, editing |-> FALSE, toolbar |-> FALSE, want |-> D, overlapped |-> FALSE]
  BY DEF GridStore!StoreInit
<1>2. D \in [Edited -> GridStore!Grids] BY DEF GridStore!Detected, GridStore!Grids, GridStore!StoreAssumption
<1> HIDE DEF D
<1>3. st \in GridStore!Editors BY <1>1, <1>2 DEF GridStore!Editors, GridStore!NoReset
<1>4. acts \in 0..StoreActs BY DEF GridStore!StoreInit, GridStore!StoreAssumption
<1>5. GridStore!EditorIsOpen(st) BY <1>1 DEF GridStore!EditorIsOpen, GridStore!NoReset
<1>6. GridStore!OneThingUnderWay(st) BY <1>1 DEF GridStore!OneThingUnderWay
<1>7. GridStore!NothingForgotten(st) BY <1>1 DEF GridStore!NothingForgotten
<1> QED BY <1>3, <1>4, <1>5, <1>6, <1>7 DEF GridStore!StoreIInv, GridStore!StoreTypeOK, GridStore!WellKept

(* What a save, a flush and the end of the editor leave.                    *)
LEMMA Saves ==
  ASSUME GridStore!StoreAssumption, NEW b \in GridStore!Editors, GridStore!WellKept(b), NEW q, q = GridStore!save(b)
  PROVE /\ q \in GridStore!Editors /\ GridStore!WellKept(q) /\ ~q.timer
        /\ q.job = b.job /\ q.opening = b.opening /\ q.read = b.read /\ q.want = b.want
<1>1. CASE b.job = GridStore!None \/ ~b.dirty
  <2>1. q = [b EXCEPT !.timer = FALSE] BY <1>1 DEF GridStore!save
  <2>2. q \in GridStore!Editors BY <2>1 DEF GridStore!Editors
  <2>3. GridStore!EditorIsOpen(q) BY <2>1 DEF GridStore!Editors, GridStore!WellKept, GridStore!EditorIsOpen
  <2>4. ~q.overlapped => GridStore!OneThingUnderWay(q)
    BY <2>1 DEF GridStore!Editors, GridStore!WellKept, GridStore!OneThingUnderWay
  <2>5. ~q.overlapped => GridStore!NothingForgotten(q)
    BY <2>1, <1>1 DEF GridStore!Editors, GridStore!WellKept, GridStore!EditorIsOpen, GridStore!OneThingUnderWay,
       GridStore!NothingForgotten, GridStore!Unsent
  <2> QED BY <2>1, <2>2, <2>3, <2>4, <2>5 DEF GridStore!Editors, GridStore!WellKept
<1>2. CASE b.job # GridStore!None /\ b.dirty
  <2> DEFINE sent == [job |-> b.job, grid |-> b.grid]
  <2>1. q = [b EXCEPT !.timer = FALSE, !.patches = b.patches \cup {sent},
                      !.overlapped = b.overlapped \/ ~GridStore!Quiet(b)]
    BY <1>2 DEF GridStore!save
  <2>2. sent \in [job : Edited, grid : GridStore!Grids]
    BY <1>2 DEF GridStore!Editors, GridStore!WellKept, GridStore!EditorIsOpen
  <2>3. q \in GridStore!Editors
    <3> DEFINE o == b.overlapped \/ ~GridStore!Quiet(b)
               P == b.patches \cup {sent}
    <3>1. o \in BOOLEAN OBVIOUS
    <3>2. P \in SUBSET [job : Edited, grid : GridStore!Grids] BY <2>2 DEF GridStore!Editors
    <3>3. q = [b EXCEPT !.timer = FALSE, !.patches = P, !.overlapped = o] BY <2>1
    <3> HIDE DEF o, P
    <3> QED BY <3>1, <3>2, <3>3 DEF GridStore!Editors
  <2>4. GridStore!EditorIsOpen(q) BY <2>1 DEF GridStore!Editors, GridStore!WellKept, GridStore!EditorIsOpen
  <2>5. ~q.overlapped => ~b.overlapped /\ b.patches = {} /\ b.reset = GridStore!NoReset
    BY <2>1 DEF GridStore!Editors, GridStore!Quiet
  <2>6. ~q.overlapped => b.grid = b.want[b.job]
    BY <1>2, <2>5 DEF GridStore!WellKept, GridStore!NothingForgotten, GridStore!NoReset
  <2>7. ~q.overlapped => GridStore!OneThingUnderWay(q)
    BY <2>1, <2>5, <2>6 DEF GridStore!Editors, GridStore!OneThingUnderWay
  <2>8. ASSUME ~q.overlapped PROVE GridStore!NothingForgotten(q)
    <3>0. GridStore!NothingForgotten(b) BY <2>5, <2>8 DEF GridStore!WellKept
    <3>1. /\ q.server = b.server /\ q.want = b.want /\ q.job = b.job /\ q.reset = b.reset /\ sent \in q.patches
          /\ q.grid = b.grid /\ q.opening = b.opening /\ q.read = b.read
      BY <2>1 DEF GridStore!Editors
    <3>2. ASSUME NEW j \in Edited PROVE q.server[j] = q.want[j] \/ GridStore!Unsent(q, j)
      <4>1. CASE GridStore!Unsent(b, j)
        <5>1. b.job = j BY <4>1, <2>5, <2>8 DEF GridStore!Unsent, GridStore!NoReset
        <5>2. sent.job = j BY <5>1
        <5> QED BY <3>1, <5>2 DEF GridStore!Unsent
      <4> QED BY <4>1, <3>0, <3>1 DEF GridStore!NothingForgotten
    <3> QED BY <3>0, <3>1, <3>2 DEF GridStore!NothingForgotten
  <2> QED BY <2>1, <2>3, <2>4, <2>7, <2>8 DEF GridStore!Editors, GridStore!WellKept
<1> QED BY <1>1, <1>2

LEMMA Destroys ==
  ASSUME GridStore!StoreAssumption, NEW b \in GridStore!Editors, GridStore!WellKept(b),
         NEW q, q = GridStore!destroyBeatGrid(b)
  PROVE /\ q \in GridStore!Editors /\ GridStore!WellKept(q) /\ ~q.timer
        /\ q.job = GridStore!None /\ q.opening = b.opening /\ q.read = b.read /\ q.want = b.want
<1> DEFINE f == GridStore!flushBeatGrid(b)
<1>1. /\ f \in GridStore!Editors /\ GridStore!WellKept(f) /\ ~f.timer
      /\ f.job = b.job /\ f.opening = b.opening /\ f.read = b.read /\ f.want = b.want
  BY Saves DEF GridStore!flushBeatGrid
<1> HIDE DEF f
<1>2. q = [f EXCEPT !.job = GridStore!None, !.grid = GridStore!NoGrid, !.timer = FALSE, !.available = FALSE,
                    !.editing = FALSE]
  BY DEF GridStore!destroyBeatGrid, GridStore!dropped, f
<1>3. q \in GridStore!Editors BY <1>1, <1>2 DEF GridStore!Editors
<1>4. GridStore!EditorIsOpen(q) BY <1>1, <1>2 DEF GridStore!Editors, GridStore!WellKept, GridStore!EditorIsOpen
<1>5. ~q.overlapped => GridStore!OneThingUnderWay(q)
  BY <1>1, <1>2 DEF GridStore!Editors, GridStore!WellKept, GridStore!OneThingUnderWay
<1>6. ~q.overlapped => GridStore!NothingForgotten(q)
  BY <1>1, <1>2 DEF GridStore!Editors, GridStore!WellKept, GridStore!NothingForgotten, GridStore!Unsent
<1> QED BY <1>1, <1>2, <1>3, <1>4, <1>5, <1>6 DEF GridStore!Editors, GridStore!WellKept

(* --------------------------------- steps -------------------------------- *)
LEMMA StoreOpens ==
  ASSUME GridStore!StoreAssumption, GridStore!StoreIInv, GridStore!Open
  PROVE GridStore!StoreIInv'
<1>0. st \in GridStore!Editors /\ GridStore!WellKept(st) /\ acts \in 0..StoreActs
  BY DEF GridStore!StoreIInv, GridStore!StoreTypeOK
<1>1. PICK j \in Edited : st' = [st EXCEPT !.opening = j, !.read = GridStore!NoGrid] BY DEF GridStore!Open
<1>2. acts' \in 0..StoreActs BY <1>0 DEF GridStore!Open, GridStore!Act, GridStore!StoreAssumption
<1>3. st' \in GridStore!Editors BY <1>0, <1>1 DEF GridStore!Editors
<1>4. GridStore!EditorIsOpen(st') BY <1>0, <1>1 DEF GridStore!Editors, GridStore!WellKept, GridStore!EditorIsOpen
<1>5. ~st'.overlapped => GridStore!OneThingUnderWay(st')
  BY <1>0, <1>1 DEF GridStore!Editors, GridStore!WellKept, GridStore!OneThingUnderWay, GridStore!Quiet
<1>6. ~st'.overlapped => GridStore!NothingForgotten(st')
  BY <1>0, <1>1 DEF GridStore!Editors, GridStore!WellKept, GridStore!NothingForgotten, GridStore!Unsent
<1> QED BY <1>2, <1>3, <1>4, <1>5, <1>6 DEF GridStore!StoreIInv, GridStore!StoreTypeOK, GridStore!WellKept

LEMMA StoreReads ==
  ASSUME GridStore!StoreAssumption, GridStore!StoreIInv, GridStore!GridRead
  PROVE GridStore!StoreIInv'
<1> DEFINE o == st.overlapped \/ ~GridStore!Quiet(st) \/ (st.timer /\ st.opening = st.job)
           r == st.server[st.opening]
<1>0. st \in GridStore!Editors /\ GridStore!WellKept(st) /\ acts' \in 0..StoreActs
  BY DEF GridStore!StoreIInv, GridStore!StoreTypeOK, GridStore!GridRead
<1>1. st.opening # GridStore!None /\ st' = [st EXCEPT !.read = r, !.overlapped = o] BY DEF GridStore!GridRead
<1>2. o \in BOOLEAN OBVIOUS
<1>3. ~o => ~st.overlapped /\ GridStore!Quiet(st) /\ ~(st.timer /\ st.opening = st.job) OBVIOUS
<1>4. st.opening \in Edited /\ r \in GridStore!Grids BY <1>0, <1>1 DEF GridStore!Editors
<1>5. ~o => r = st.want[st.opening]
  BY <1>0, <1>3, <1>4 DEF GridStore!WellKept, GridStore!NothingForgotten, GridStore!Unsent, GridStore!Quiet,
     GridStore!NoReset
<1> HIDE DEF o, r
<1>6. st' \in GridStore!Editors BY <1>0, <1>1, <1>2, <1>4 DEF GridStore!Editors
<1>7. GridStore!EditorIsOpen(st') BY <1>0, <1>1 DEF GridStore!Editors, GridStore!WellKept, GridStore!EditorIsOpen
<1>8. st'.overlapped = o BY <1>0, <1>1 DEF GridStore!Editors
<1>9. ~o => GridStore!OneThingUnderWay(st')
  BY <1>0, <1>1, <1>3 DEF GridStore!Editors, GridStore!WellKept, GridStore!OneThingUnderWay, GridStore!Quiet
<1>10. ~o => GridStore!NothingForgotten(st')
  BY <1>0, <1>1, <1>3, <1>5 DEF GridStore!Editors, GridStore!WellKept, GridStore!NothingForgotten, GridStore!Unsent
<1> QED BY <1>0, <1>6, <1>7, <1>8, <1>9, <1>10 DEF GridStore!StoreIInv, GridStore!StoreTypeOK, GridStore!WellKept

LEMMA StoreTornDown ==
  ASSUME GridStore!StoreAssumption, GridStore!StoreIInv, GridStore!teardownMetronome \/ GridStore!destroyPlayer
  PROVE GridStore!StoreIInv'
<1>1. st \in GridStore!Editors /\ GridStore!WellKept(st) /\ acts \in 0..StoreActs
  BY DEF GridStore!StoreIInv, GridStore!StoreTypeOK
<1>2. st' = GridStore!destroyBeatGrid(st) BY DEF GridStore!teardownMetronome, GridStore!destroyPlayer
<1>3. acts' \in 0..StoreActs
  BY <1>1 DEF GridStore!teardownMetronome, GridStore!destroyPlayer, GridStore!Act, GridStore!StoreAssumption
<1> QED BY <1>1, <1>2, <1>3, Destroys DEF GridStore!StoreIInv, GridStore!StoreTypeOK

LEMMA StoreUp ==
  ASSUME GridStore!StoreAssumption, GridStore!StoreIInv, GridStore!GridUp
  PROVE GridStore!StoreIInv'
<1> DEFINE d == GridStore!destroyBeatGrid(st)
<1>0. st \in GridStore!Editors /\ GridStore!WellKept(st) /\ acts' \in 0..StoreActs
  BY DEF GridStore!StoreIInv, GridStore!StoreTypeOK, GridStore!GridUp
<1>1. /\ d \in GridStore!Editors /\ GridStore!WellKept(d) /\ ~d.timer
      /\ d.job = GridStore!None /\ d.opening = st.opening /\ d.read = st.read /\ d.want = st.want
  BY <1>0, Destroys
<1>2. /\ st.opening \in Edited /\ st.read \in GridStore!Grids /\ st.opening # GridStore!None
      /\ st.read # GridStore!NoGrid
  BY <1>0 DEF GridStore!GridUp, GridStore!Editors
<1>3. st' = [d EXCEPT !.job = st.opening, !.grid = st.read, !.dirty = FALSE, !.available = TRUE,
                      !.opening = GridStore!None]
  BY DEF GridStore!GridUp, GridStore!initBeatGrid
<1> HIDE DEF d
<1>4. st' \in GridStore!Editors BY <1>1, <1>2, <1>3 DEF GridStore!Editors
<1>5. GridStore!EditorIsOpen(st') BY <1>1, <1>2, <1>3 DEF GridStore!Editors, GridStore!WellKept, GridStore!EditorIsOpen
<1>6. ~st'.overlapped => GridStore!OneThingUnderWay(st')
  BY <1>1, <1>3 DEF GridStore!Editors, GridStore!WellKept, GridStore!OneThingUnderWay, GridStore!Quiet
<1>7. ~st'.overlapped => GridStore!NothingForgotten(st')
  BY <1>1, <1>2, <1>3 DEF GridStore!Editors, GridStore!WellKept, GridStore!NothingForgotten, GridStore!Unsent
<1> QED BY <1>0, <1>4, <1>5, <1>6, <1>7 DEF GridStore!StoreIInv, GridStore!StoreTypeOK, GridStore!WellKept

LEMMA StoreToggles ==
  ASSUME GridStore!StoreAssumption, GridStore!StoreIInv, GridStore!Toggle
  PROVE GridStore!StoreIInv'
<1>0. st \in GridStore!Editors /\ GridStore!WellKept(st) /\ acts \in 0..StoreActs
  BY DEF GridStore!StoreIInv, GridStore!StoreTypeOK
<1>1. acts' \in 0..StoreActs BY <1>0 DEF GridStore!Toggle, GridStore!Act, GridStore!StoreAssumption
<1>2. PICK next \in BOOLEAN : st' = GridStore!toggleBeatGridEditor(st, next) BY DEF GridStore!Toggle
<1>3. CASE next /\ ~st.available
  <2>1. st' = st BY <1>2, <1>3 DEF GridStore!toggleBeatGridEditor
  <2> QED BY <1>0, <1>1, <2>1 DEF GridStore!StoreIInv, GridStore!StoreTypeOK
<1>4. CASE ~(next /\ ~st.available)
  <2> DEFINE q == [st EXCEPT !.editing = next, !.toolbar = next]
  <2>1. q \in GridStore!Editors BY <1>0 DEF GridStore!Editors
  <2>2. GridStore!EditorIsOpen(q)
    BY <1>0, <1>4 DEF GridStore!Editors, GridStore!WellKept, GridStore!EditorIsOpen
  <2>3. ~q.overlapped => GridStore!OneThingUnderWay(q)
    BY <1>0 DEF GridStore!Editors, GridStore!WellKept, GridStore!OneThingUnderWay, GridStore!Quiet
  <2>4. ~q.overlapped => GridStore!NothingForgotten(q)
    BY <1>0 DEF GridStore!Editors, GridStore!WellKept, GridStore!NothingForgotten, GridStore!Unsent
  <2>5. GridStore!WellKept(q) BY <2>2, <2>3, <2>4 DEF GridStore!WellKept
  <2>6. st' = q \/ st' = GridStore!save(q)
    BY <1>2, <1>4 DEF GridStore!toggleBeatGridEditor, GridStore!flushBeatGrid
  <2> HIDE DEF q
  <2>7. st' \in GridStore!Editors /\ GridStore!WellKept(st') BY <2>1, <2>5, <2>6, Saves
  <2> QED BY <1>1, <2>7 DEF GridStore!StoreIInv, GridStore!StoreTypeOK
<1> QED BY <1>3, <1>4

LEMMA StoreSaves ==
  ASSUME GridStore!StoreAssumption, GridStore!StoreIInv, GridStore!SaveDue
  PROVE GridStore!StoreIInv'
BY Saves DEF GridStore!StoreIInv, GridStore!StoreTypeOK, GridStore!SaveDue

LEMMA StoreEdits ==
  ASSUME GridStore!StoreAssumption, GridStore!StoreIInv, GridStore!Edit
  PROVE GridStore!StoreIInv'
<1> DEFINE o == st.overlapped \/ ~GridStore!Quiet(st) \/ st.opening = st.job
           e == [of |-> st.grid.of, v |-> acts + 1]
           w == [st.want EXCEPT ![st.job] = e]
<1>0. st \in GridStore!Editors /\ GridStore!WellKept(st) /\ acts \in 0..StoreActs /\ st.editing
  BY DEF GridStore!StoreIInv, GridStore!StoreTypeOK, GridStore!Edit
<1>1. st' = [st EXCEPT !.grid = e, !.want = w, !.dirty = TRUE, !.timer = TRUE, !.overlapped = o]
  BY DEF GridStore!Edit
<1>2. acts < StoreActs /\ acts' = acts + 1 /\ StoreActs \in Nat
  BY DEF GridStore!Edit, GridStore!Act, GridStore!StoreAssumption
<1>3. st.job # GridStore!None /\ st.job \in Edited /\ st.grid \in GridStore!Grids
  BY <1>0 DEF GridStore!Editors, GridStore!WellKept, GridStore!EditorIsOpen
<1>4. e \in GridStore!Grids /\ e # GridStore!NoGrid
  BY <1>0, <1>2, <1>3 DEF GridStore!Grids, GridStore!NoGrid
<1>5. o \in BOOLEAN OBVIOUS
<1>6. ~o => ~st.overlapped /\ GridStore!Quiet(st) /\ st.opening # st.job OBVIOUS
<1> HIDE DEF o, e
<1>7. w \in [Edited -> GridStore!Grids] /\ w[st.job] = e /\ \A j \in Edited \ {st.job} : w[j] = st.want[j]
  BY <1>0, <1>3, <1>4 DEF GridStore!Editors
<1> HIDE DEF w
<1>8. st' \in GridStore!Editors BY <1>0, <1>1, <1>4, <1>5, <1>7 DEF GridStore!Editors
<1>9. GridStore!EditorIsOpen(st')
  BY <1>0, <1>1, <1>3, <1>4 DEF GridStore!Editors, GridStore!WellKept, GridStore!EditorIsOpen
<1>10. st'.overlapped = o BY <1>0, <1>1 DEF GridStore!Editors
<1>11. ~o => GridStore!OneThingUnderWay(st')
  BY <1>0, <1>1, <1>6 DEF GridStore!Editors, GridStore!OneThingUnderWay, GridStore!Quiet
<1>12. ASSUME ~o PROVE GridStore!NothingForgotten(st')
  <2>1. /\ st'.server = st.server /\ st'.want = w /\ st'.job = st.job /\ st'.reset = st.reset /\ st'.timer
        /\ st'.grid = e /\ st'.opening = st.opening /\ st'.read = st.read
    BY <1>0, <1>1 DEF GridStore!Editors
  <2>2. GridStore!NothingForgotten(st) /\ ~GridStore!OneThingUnderWay(st) => FALSE
    BY <1>0, <1>6, <1>12 DEF GridStore!WellKept
  <2>3. ASSUME NEW j \in Edited PROVE st'.server[j] = st'.want[j] \/ GridStore!Unsent(st', j)
    <3>1. CASE j = st.job BY <3>1, <2>1 DEF GridStore!Unsent
    <3>2. CASE j # st.job
      <4>1. ~GridStore!Unsent(st, j) BY <1>6, <1>12, <3>2 DEF GridStore!Unsent, GridStore!Quiet, GridStore!NoReset
      <4>2. GridStore!NothingForgotten(st) BY <1>0, <1>6, <1>12 DEF GridStore!WellKept
      <4> QED BY <2>1, <3>2, <4>1, <4>2, <1>7 DEF GridStore!NothingForgotten
    <3> QED BY <3>1, <3>2
  <2>4. st'.opening # GridStore!None /\ st'.read # GridStore!NoGrid => st'.read = st'.want[st'.opening]
    <3>1. GridStore!NothingForgotten(st) BY <1>0, <1>6, <1>12 DEF GridStore!WellKept
    <3>2. st.opening \in Edited \cup {GridStore!None} BY <1>0 DEF GridStore!Editors
    <3> QED BY <1>6, <1>7, <1>12, <2>1, <3>1, <3>2 DEF GridStore!NothingForgotten
  <2> QED BY <1>7, <2>1, <2>3, <2>4 DEF GridStore!NothingForgotten
<1>13. acts' \in 0..StoreActs BY <1>0, <1>2
<1> QED BY <1>8, <1>9, <1>10, <1>11, <1>12, <1>13 DEF GridStore!StoreIInv, GridStore!StoreTypeOK, GridStore!WellKept

LEMMA StoreAnswered ==
  ASSUME GridStore!StoreAssumption, GridStore!StoreIInv, GridStore!PatchAnswered
  PROVE GridStore!StoreIInv'
<1>0. st \in GridStore!Editors /\ GridStore!WellKept(st) /\ acts' \in 0..StoreActs
  BY DEF GridStore!StoreIInv, GridStore!StoreTypeOK, GridStore!PatchAnswered
<1>1. PICK p \in st.patches : st' = GridStore!Patched(st, p) BY DEF GridStore!PatchAnswered
<1> DEFINE S == [st.server EXCEPT ![p.job] = p.grid]
<1>2. st' = [st EXCEPT !.patches = st.patches \ {p}, !.server = S, !.dirty = FALSE]
  BY <1>1 DEF GridStore!Patched
<1>3. p.job \in Edited /\ p.grid \in GridStore!Grids BY <1>0, <1>1 DEF GridStore!Editors
<1>4. S \in [Edited -> GridStore!Grids] /\ S[p.job] = p.grid /\ \A j \in Edited \ {p.job} : S[j] = st.server[j]
  BY <1>0, <1>3 DEF GridStore!Editors
<1> HIDE DEF S
<1>5. st' \in GridStore!Editors BY <1>0, <1>2, <1>4 DEF GridStore!Editors
<1>6. /\ st'.patches = st.patches \ {p} /\ st'.server = S /\ st'.job = st.job /\ st'.grid = st.grid
      /\ st'.timer = st.timer /\ st'.opening = st.opening /\ st'.read = st.read /\ st'.reset = st.reset
      /\ st'.want = st.want /\ st'.overlapped = st.overlapped /\ st'.available = st.available
      /\ st'.editing = st.editing
  BY <1>0, <1>2 DEF GridStore!Editors
<1>7. GridStore!EditorIsOpen(st') BY <1>0, <1>6 DEF GridStore!WellKept, GridStore!EditorIsOpen
<1>8. ASSUME ~st.overlapped PROVE GridStore!OneThingUnderWay(st') /\ GridStore!NothingForgotten(st')
  <2>1. GridStore!OneThingUnderWay(st) /\ GridStore!NothingForgotten(st) BY <1>0, <1>8 DEF GridStore!WellKept
  <2>2. /\ ~st.timer /\ st.reset = GridStore!NoReset /\ p.grid = st.want[p.job] /\ st'.patches = {}
        /\ st.patches = {p}
    BY <1>1, <1>6, <2>1 DEF GridStore!OneThingUnderWay, GridStore!Quiet
  <2>3. GridStore!OneThingUnderWay(st') BY <1>6, <2>1, <2>2 DEF GridStore!OneThingUnderWay
  <2>4. ASSUME NEW j \in Edited PROVE st'.server[j] = st'.want[j]
    <3>1. CASE j = p.job BY <3>1, <1>4, <1>6, <2>2
    <3>2. CASE j # p.job
      <4>1. ~GridStore!Unsent(st, j) BY <2>2, <3>2 DEF GridStore!Unsent, GridStore!NoReset
      <4> QED BY <1>4, <1>6, <2>1, <3>2, <4>1 DEF GridStore!NothingForgotten
    <3> QED BY <3>1, <3>2
  <2>5. GridStore!NothingForgotten(st') BY <1>6, <2>1, <2>4 DEF GridStore!NothingForgotten
  <2> QED BY <2>3, <2>5
<1> QED BY <1>0, <1>5, <1>6, <1>7, <1>8 DEF GridStore!StoreIInv, GridStore!StoreTypeOK, GridStore!WellKept

LEMMA StoreFails ==
  ASSUME GridStore!StoreAssumption, GridStore!StoreIInv, GridStore!PatchFailed
  PROVE GridStore!StoreIInv'
<1>0. st \in GridStore!Editors /\ GridStore!WellKept(st) /\ acts' \in 0..StoreActs
  BY DEF GridStore!StoreIInv, GridStore!StoreTypeOK, GridStore!PatchFailed
<1>1. PICK p \in st.patches : st' = [st EXCEPT !.patches = st.patches \ {p}, !.overlapped = TRUE]
  BY DEF GridStore!PatchFailed
<1>2. st' \in GridStore!Editors /\ st'.overlapped BY <1>0, <1>1 DEF GridStore!Editors
<1>3. GridStore!EditorIsOpen(st') BY <1>0, <1>1 DEF GridStore!Editors, GridStore!WellKept, GridStore!EditorIsOpen
<1> QED BY <1>0, <1>2, <1>3 DEF GridStore!StoreIInv, GridStore!StoreTypeOK, GridStore!WellKept

LEMMA StoreResets ==
  ASSUME GridStore!StoreAssumption, GridStore!StoreIInv, GridStore!resetBeatGrid
  PROVE GridStore!StoreIInv'
<1> DEFINE o == st.overlapped \/ ~GridStore!Quiet(st) \/ st.timer \/ st.opening = st.job
           d == GridStore!Detected(st.job)
           w == [st.want EXCEPT ![st.job] = d]
           r == [step |-> "delete", job |-> st.job]
<1>0. st \in GridStore!Editors /\ GridStore!WellKept(st) /\ acts \in 0..StoreActs
  BY DEF GridStore!StoreIInv, GridStore!StoreTypeOK
<1>1. st' = [st EXCEPT !.reset = r, !.want = w, !.overlapped = o] BY DEF GridStore!resetBeatGrid
<1>2. acts' \in 0..StoreActs BY <1>0 DEF GridStore!resetBeatGrid, GridStore!Act, GridStore!StoreAssumption
<1>3. st.job # GridStore!None /\ st.job \in Edited BY <1>0 DEF GridStore!resetBeatGrid, GridStore!Editors
<1>4. d \in GridStore!Grids
  BY <1>3 DEF GridStore!Detected, GridStore!Grids, GridStore!StoreAssumption
<1>5. o \in BOOLEAN OBVIOUS
<1>6. ~o => ~st.overlapped /\ GridStore!Quiet(st) /\ ~st.timer /\ st.opening # st.job OBVIOUS
<1> HIDE DEF o, d
<1>7. w \in [Edited -> GridStore!Grids] /\ w[st.job] = d /\ \A j \in Edited \ {st.job} : w[j] = st.want[j]
  BY <1>0, <1>3, <1>4 DEF GridStore!Editors
<1> HIDE DEF w
<1>8. r \in [step : {"no", "delete", "read"}, job : Edited \cup {GridStore!None}] /\ r # GridStore!NoReset
  BY <1>3 DEF GridStore!NoReset
<1>9. r.job = st.job /\ r.step = "delete" OBVIOUS
<1> HIDE DEF r
<1>10. st' \in GridStore!Editors BY <1>0, <1>1, <1>5, <1>7, <1>8 DEF GridStore!Editors
<1>11. /\ st'.patches = st.patches /\ st'.server = st.server /\ st'.job = st.job /\ st'.grid = st.grid
       /\ st'.timer = st.timer /\ st'.opening = st.opening /\ st'.read = st.read /\ st'.reset = r
       /\ st'.want = w /\ st'.overlapped = o /\ st'.available = st.available /\ st'.editing = st.editing
  BY <1>0, <1>1 DEF GridStore!Editors
<1>12. GridStore!EditorIsOpen(st') BY <1>0, <1>3, <1>9, <1>11 DEF GridStore!WellKept, GridStore!EditorIsOpen
<1>13. ASSUME ~o PROVE GridStore!OneThingUnderWay(st') /\ GridStore!NothingForgotten(st')
  <2>1. GridStore!NothingForgotten(st) /\ st.patches = {} /\ st.reset = GridStore!NoReset
    BY <1>0, <1>6, <1>13 DEF GridStore!WellKept, GridStore!Quiet
  <2>2. GridStore!OneThingUnderWay(st')
    BY <1>6, <1>7, <1>9, <1>11, <1>13, <2>1 DEF GridStore!OneThingUnderWay, d
  <2>3. ASSUME NEW j \in Edited PROVE st'.server[j] = st'.want[j] \/ GridStore!Unsent(st', j)
    <3>1. CASE j = st.job BY <3>1, <1>9, <1>11 DEF GridStore!Unsent
    <3>2. CASE j # st.job
      <4>1. ~GridStore!Unsent(st, j) BY <1>6, <1>13, <2>1 DEF GridStore!Unsent, GridStore!NoReset
      <4> QED BY <1>7, <1>11, <2>1, <3>2, <4>1 DEF GridStore!NothingForgotten
    <3> QED BY <3>1, <3>2
  <2>4. st'.opening # GridStore!None /\ st'.read # GridStore!NoGrid => st'.read = st'.want[st'.opening]
    <3>1. st.opening \in Edited \cup {GridStore!None} BY <1>0 DEF GridStore!Editors
    <3> QED BY <1>6, <1>7, <1>11, <1>13, <2>1, <3>1 DEF GridStore!NothingForgotten
  <2> QED BY <1>9, <1>11, <2>2, <2>3, <2>4 DEF GridStore!NothingForgotten
<1> QED BY <1>2, <1>10, <1>11, <1>12, <1>13 DEF GridStore!StoreIInv, GridStore!StoreTypeOK, GridStore!WellKept

LEMMA StoreDeleted ==
  ASSUME GridStore!StoreAssumption, GridStore!StoreIInv, GridStore!ResetDeleted
  PROVE GridStore!StoreIInv'
<1> DEFINE at == st.reset.job
           d == GridStore!Detected(at)
           S == [st.server EXCEPT ![at] = d]
           r == IF st.job = GridStore!None THEN GridStore!NoReset ELSE [step |-> "read", job |-> st.job]
           o == st.overlapped \/ st.job # at
<1>0. st \in GridStore!Editors /\ GridStore!WellKept(st) /\ acts' \in 0..StoreActs
  BY DEF GridStore!StoreIInv, GridStore!StoreTypeOK, GridStore!ResetDeleted
<1>1. st.reset.step = "delete" /\ st' = [st EXCEPT !.server = S, !.reset = r, !.overlapped = o]
  <2>1. st'.overlapped = o /\ st' = [[st EXCEPT !.server[at] = d] EXCEPT !.reset = r, !.overlapped = @ \/ st.job # at]
    BY <1>0 DEF GridStore!ResetDeleted, GridStore!Editors
  <2> QED BY <2>1, <1>0 DEF GridStore!ResetDeleted, GridStore!Editors
<1>2. at \in Edited /\ at # GridStore!None
  BY <1>0, <1>1 DEF GridStore!WellKept, GridStore!EditorIsOpen, GridStore!Editors
<1>3. d \in GridStore!Grids BY <1>2 DEF GridStore!Detected, GridStore!Grids, GridStore!StoreAssumption
<1>4. o \in BOOLEAN OBVIOUS
<1>5. ~o => ~st.overlapped /\ st.job = at OBVIOUS
<1>6. /\ r \in [step : {"no", "delete", "read"}, job : Edited \cup {GridStore!None}]
      /\ r.step = "no" <=> r.job = GridStore!None
      /\ st.job # GridStore!None => r.job = st.job
      /\ r.step # "delete"
  BY <1>0 DEF GridStore!Editors, GridStore!NoReset
<1> HIDE DEF o, d, r
<1>7. S \in [Edited -> GridStore!Grids] /\ S[at] = d /\ \A j \in Edited \ {at} : S[j] = st.server[j]
  BY <1>0, <1>2, <1>3 DEF GridStore!Editors
<1> HIDE DEF S, at
<1>8. st' \in GridStore!Editors BY <1>0, <1>1, <1>4, <1>6, <1>7 DEF GridStore!Editors
<1>9. /\ st'.patches = st.patches /\ st'.server = S /\ st'.job = st.job /\ st'.grid = st.grid
      /\ st'.timer = st.timer /\ st'.opening = st.opening /\ st'.read = st.read /\ st'.reset = r
      /\ st'.want = st.want /\ st'.overlapped = o /\ st'.available = st.available /\ st'.editing = st.editing
  BY <1>0, <1>1 DEF GridStore!Editors
<1>10. GridStore!EditorIsOpen(st') BY <1>0, <1>6, <1>9 DEF GridStore!WellKept, GridStore!EditorIsOpen
<1>11. ASSUME ~o PROVE GridStore!OneThingUnderWay(st') /\ GridStore!NothingForgotten(st')
  <2>0. st.reset.job = at BY DEF at
  <2>1. /\ GridStore!OneThingUnderWay(st) /\ GridStore!NothingForgotten(st) /\ st.job = at
        /\ st.reset # GridStore!NoReset
    BY <1>0, <1>1, <1>5, <1>11 DEF GridStore!WellKept, GridStore!NoReset
  <2>2. ~st.timer /\ st.patches = {} /\ st.want[at] = d
    BY <2>0, <2>1 DEF GridStore!OneThingUnderWay, GridStore!Quiet, d
  <2>3. GridStore!OneThingUnderWay(st')
    BY <1>2, <1>6, <1>9, <2>1, <2>2 DEF GridStore!OneThingUnderWay, d
  <2>4. ASSUME NEW j \in Edited PROVE st'.server[j] = st'.want[j]
    <3>1. CASE j = at BY <3>1, <1>7, <1>9, <2>2
    <3>2. CASE j # at
      <4>1. ~GridStore!Unsent(st, j) BY <2>0, <2>2, <3>2 DEF GridStore!Unsent
      <4> QED BY <1>7, <1>9, <2>1, <3>2, <4>1 DEF GridStore!NothingForgotten
    <3> QED BY <3>1, <3>2
  <2> QED BY <1>2, <1>6, <1>9, <2>1, <2>3, <2>4 DEF GridStore!NothingForgotten
<1> QED BY <1>0, <1>8, <1>9, <1>10, <1>11 DEF GridStore!StoreIInv, GridStore!StoreTypeOK, GridStore!WellKept

LEMMA StoreResetRead ==
  ASSUME GridStore!StoreAssumption, GridStore!StoreIInv, GridStore!ResetRead
  PROVE GridStore!StoreIInv'
<1> DEFINE at == st.reset.job
           g == st.server[at]
           o == st.overlapped \/ st.job # at
<1>0. st \in GridStore!Editors /\ GridStore!WellKept(st) /\ acts' \in 0..StoreActs
  BY DEF GridStore!StoreIInv, GridStore!StoreTypeOK, GridStore!ResetRead
<1>1. /\ st.reset.step = "read"
      /\ st' = [st EXCEPT !.reset = GridStore!NoReset, !.grid = g, !.dirty = FALSE, !.overlapped = o]
  BY DEF GridStore!ResetRead
<1>2. at \in Edited /\ at # GridStore!None
  BY <1>0, <1>1 DEF GridStore!WellKept, GridStore!EditorIsOpen, GridStore!Editors
<1>3. g \in GridStore!Grids /\ g # GridStore!NoGrid
  BY <1>0, <1>2 DEF GridStore!Editors, GridStore!Grids, GridStore!NoGrid, GridStore!StoreAssumption
<1>4. o \in BOOLEAN OBVIOUS
<1>5. ~o => ~st.overlapped /\ st.job = at OBVIOUS
<1> HIDE DEF o
<1>6. st' \in GridStore!Editors BY <1>0, <1>1, <1>3, <1>4 DEF GridStore!Editors, GridStore!NoReset
<1>7. /\ st'.patches = st.patches /\ st'.server = st.server /\ st'.job = st.job /\ st'.grid = g
      /\ st'.timer = st.timer /\ st'.opening = st.opening /\ st'.read = st.read
      /\ st'.reset = GridStore!NoReset
      /\ st'.want = st.want /\ st'.overlapped = o /\ st'.available = st.available /\ st'.editing = st.editing
  BY <1>0, <1>1 DEF GridStore!Editors
<1>8. GridStore!EditorIsOpen(st')
  BY <1>0, <1>3, <1>7 DEF GridStore!WellKept, GridStore!EditorIsOpen, GridStore!NoReset
<1>9. ASSUME ~o PROVE GridStore!OneThingUnderWay(st') /\ GridStore!NothingForgotten(st')
  <2>1. /\ GridStore!OneThingUnderWay(st) /\ GridStore!NothingForgotten(st) /\ st.job = at
        /\ st.reset # GridStore!NoReset
    BY <1>0, <1>1, <1>5, <1>9 DEF GridStore!WellKept, GridStore!NoReset
  <2>2. ~st.timer /\ st.patches = {}
    BY <2>1 DEF GridStore!OneThingUnderWay, GridStore!Quiet
  <2>3. GridStore!OneThingUnderWay(st') BY <1>7, <2>2 DEF GridStore!OneThingUnderWay
  <2>4. \A j \in Edited : st.server[j] = st.want[j]
    BY <1>1, <2>1, <2>2 DEF GridStore!NothingForgotten, GridStore!Unsent
  <2>5. GridStore!NothingForgotten(st') BY <1>2, <1>7, <2>1, <2>4 DEF GridStore!NothingForgotten
  <2> QED BY <2>3, <2>5
<1> QED BY <1>0, <1>6, <1>7, <1>8, <1>9 DEF GridStore!StoreIInv, GridStore!StoreTypeOK, GridStore!WellKept

LEMMA StoreSteps ==
  ASSUME GridStore!StoreAssumption, GridStore!StoreIInv, GridStore!StoreNext
  PROVE GridStore!StoreIInv'
BY StoreOpens, StoreReads, StoreTornDown, StoreUp, StoreToggles, StoreSaves, StoreEdits, StoreAnswered, StoreFails,
   StoreResets, StoreDeleted, StoreResetRead DEF GridStore!StoreNext

(* When all is sent and nothing overlapped, what is kept is what is wanted. *)
LEMMA StoreKeeps ==
  ASSUME GridStore!StoreAssumption, GridStore!StoreIInv
  PROVE GridStore!StoreTypeOK /\ GridStore!EditsReachTheServer
<1>0. st \in GridStore!Editors /\ GridStore!WellKept(st) BY DEF GridStore!StoreIInv, GridStore!StoreTypeOK
<1>1. ASSUME GridStore!Settled, ~st.overlapped
      PROVE st.server = st.want /\ (st.job # GridStore!None => st.grid = st.want[st.job])
  <2>1. GridStore!NothingForgotten(st) /\ st.patches = {} /\ st.reset = GridStore!NoReset /\ ~st.timer
    BY <1>0, <1>1 DEF GridStore!WellKept, GridStore!Settled, GridStore!Quiet
  <2>2. \A j \in Edited : ~GridStore!Unsent(st, j) BY <2>1 DEF GridStore!Unsent, GridStore!NoReset
  <2>3. st.server \in [Edited -> GridStore!Grids] /\ st.want \in [Edited -> GridStore!Grids]
    BY <1>0 DEF GridStore!Editors
  <2>4. \A j \in Edited : st.server[j] = st.want[j] BY <2>1, <2>2 DEF GridStore!NothingForgotten
  <2>5. st.server = st.want BY <2>3, <2>4
  <2>6. st.job # GridStore!None => st.grid = st.want[st.job]
    BY <2>1 DEF GridStore!NothingForgotten, GridStore!NoReset
  <2> QED BY <2>5, <2>6
<1> QED BY <1>1 DEF GridStore!StoreIInv, GridStore!EditsReachTheServer

(* ------------------------------ arithmetic ----------------------------- *)
Below == {ss \in Nat \X Nat : ss[1] < ss[2]}
LEMMA BelowIsWellFounded == IsWellFoundedOn(Below, Nat)
BY NatLessThanWellFounded, Zenon DEF OpToRel, Below

LEMMA LeastOfNat == ASSUME NEW T \in SUBSET Nat, T # {} PROVE \E m \in T : \A k \in T : m <= k
<1>1. \E x \in T : \A y \in T : ~(<<y, x>> \in Below) BY BelowIsWellFounded, WFMin, Zenon
<1>3. ASSUME NEW x \in T, NEW y \in T, ~(<<y, x>> \in Below) PROVE x <= y
  BY <1>3 DEF Below
<1> QED BY <1>1, <1>3

LEMMA MostOfNat ==
  ASSUME NEW T \in SUBSET Nat, T # {}, NEW n \in Nat, \A k \in T : k <= n
  PROVE \E m \in T : \A k \in T : m >= k
<1> DEFINE D == {d \in Nat : n - d \in T}
<1>1. D # {}
  <2>1. PICK k \in T : TRUE OBVIOUS
  <2>2. n - k \in Nat /\ n - (n - k) = k BY <2>1
  <2> QED BY <2>1, <2>2
<1>2. PICK d \in D : \A e \in D : d <= e
  <2> HIDE DEF D
  <2>1. D \in SUBSET Nat BY DEF D
  <2> QED BY <1>1, <2>1, LeastOfNat
<1>3. ASSUME NEW k \in T PROVE n - d >= k
  <2>1. n - k \in Nat /\ n - (n - k) = k OBVIOUS
  <2>2. n - k \in D BY <2>1
  <2> QED BY <1>2, <2>1, <2>2
<1> QED BY <1>2, <1>3

LEMMA Least == ASSUME NEW T \in SUBSET Nat, T # {}
               PROVE Grid!LeastOf(T) \in T /\ \A k \in T : Grid!LeastOf(T) <= k
BY LeastOfNat DEF Grid!LeastOf

LEMMA Most == ASSUME NEW T \in SUBSET Nat, T # {}, NEW n \in Nat, \A k \in T : k <= n
              PROVE Grid!MostOf(T) \in T /\ \A k \in T : Grid!MostOf(T) >= k
<1>1. PICK m \in T : \A k \in T : m >= k BY MostOfNat
<1> QED BY <1>1 DEF Grid!MostOf

LEMMA Clamped == ASSUME NEW lo \in Int, NEW hi \in Int, NEW t \in Int, lo <= hi
                 PROVE Grid!Clamp(lo, hi, t) \in Int /\ lo <= Grid!Clamp(lo, hi, t) /\ Grid!Clamp(lo, hi, t) <= hi
<1> DEFINE m == Grid!LeastOf({hi, t})
<1>1. m = IF hi <= t THEN hi ELSE t BY DEF Grid!LeastOf
<1>2. m \in Int BY <1>1
<1> HIDE DEF m
<1>3. Grid!MostOf({lo, m}) = IF lo >= m THEN lo ELSE m BY <1>2 DEF Grid!MostOf
<1> QED BY <1>1, <1>2, <1>3 DEF Grid!Clamp, m

LEMMA Divides ==
  ASSUME NEW v \in Int, NEW n \in Nat, n > 0
  PROVE (v \div n) \in Int /\ n * (v \div n) <= v /\ v < n * (v \div n) + n
OBVIOUS

LEMMA DividesUp ==
  ASSUME NEW x \in Nat, NEW n \in Nat, n > 0, x >= n, NEW k \in Nat
  PROVE /\ (x * k) \div n \in Nat /\ (x * (k + 1)) \div n >= (x * k) \div n + 1
<1> DEFINE v == x * k
           w == x * (k + 1)
           p == v \div n
           r == w \div n
<1>1. v \in Nat /\ w \in Nat /\ w = v + x OBVIOUS
<1> HIDE DEF v, w
<1>2. p \in Int /\ n * p <= v /\ v < n * p + n BY <1>1, Divides
<1>3. r \in Int /\ n * r <= w /\ w < n * r + n BY <1>1, Divides
<1> HIDE DEF p, r
<1>4. n * p + n <= w BY <1>1, <1>2
<1>5. n * (p + 1) < n * (r + 1)
  <2>1. n * (p + 1) = n * p + n /\ n * (r + 1) = n * r + n BY <1>2, <1>3
  <2>2. n * p \in Int /\ n * r \in Int BY <1>2, <1>3
  <2> QED BY <1>1, <1>3, <1>4, <2>1, <2>2
<1>6. p + 1 < r + 1 BY <1>2, <1>3, <1>5
<1>7. p >= 0
  <2>1. SUFFICES ASSUME p < 0 PROVE FALSE BY <1>2
  <2>2. n * (p + 1) <= 0 BY <1>2, <2>1
  <2> QED BY <1>1, <1>2, <2>2
<1> QED BY <1>2, <1>3, <1>6, <1>7 DEF p, r, v, w

LEMMA DividesAll ==
  ASSUME NEW x \in Nat, NEW n \in Nat, n > 0
  PROVE (x * n) \div n = x /\ (x * 0) \div n = 0
<1> DEFINE p == (x * n) \div n
           r == (x * 0) \div n
<1>1. p \in Int /\ n * p <= x * n /\ x * n < n * p + n BY Divides
<1>2. x * 0 = 0 OBVIOUS
<1>3. r \in Int /\ n * r <= 0 /\ 0 < n * r + n BY <1>2, Divides
<1> HIDE DEF p, r
<1>4. n * p < n * (x + 1) /\ n * x < n * (p + 1) BY <1>1
<1>5. p < x + 1 /\ x < p + 1 BY <1>1, <1>4
<1>6. r = 0 BY <1>3
<1> QED BY <1>1, <1>5, <1>6 DEF p, r

(* Beats apart are as far apart as there are beats between them.            *)
LEMMA SpacedFar ==
  ASSUME NEW b \in Seq(Int), Grid!Spaced(b), NEW m \in 1..Len(b), NEW n \in 1..Len(b), m <= n
  PROVE b[n] - b[m] >= n - m
<1> DEFINE Bad == {d \in Nat : m + d <= Len(b) /\ b[m + d] - b[m] < d}
<1>1. Bad = {}
  <2>0. SUFFICES ASSUME Bad # {} PROVE FALSE OBVIOUS
  <2>1. PICK d \in Bad : \A e \in Bad : d <= e
    <3> HIDE DEF Bad
    <3>1. Bad \in SUBSET Nat BY DEF Bad
    <3> QED BY <2>0, <3>1, LeastOfNat
  <2>2. Len(b) \in Nat OBVIOUS
  <2>3. d # 0
    <3>1. m + 0 = m /\ b[m] \in Int OBVIOUS
    <3> QED BY <2>1, <3>1
  <2>4. d - 1 \in Nat /\ d - 1 \notin Bad
    <3>1. d \in Nat BY <2>1
    <3>2. d - 1 \in Nat /\ d - 1 < d BY <3>1, <2>3
    <3> HIDE DEF Bad
    <3> QED BY <2>1, <3>1, <3>2
  <2>5. m + (d - 1) \in 1..Len(b) - 1 /\ m + (d - 1) + 1 = m + d /\ m + d \in 1..Len(b) BY <2>1, <2>2, <2>3
  <2>7. b[m + d] - b[m + (d - 1)] >= 1 BY <2>5 DEF Grid!Spaced, Grid!MinGap
  <2>8. b[m] \in Int /\ b[m + d] \in Int /\ b[m + (d - 1)] \in Int BY <2>5
  <2>9. d \in Nat /\ b[m + d] - b[m] < d BY <2>1
  <2>6. b[m + (d - 1)] - b[m] >= d - 1
    <3>1. m + (d - 1) <= Len(b) BY <2>2, <2>5
    <3>2. ~(b[m + (d - 1)] - b[m] < d - 1) BY <2>4, <3>1
    <3> DEFINE x == b[m]
               y == b[m + (d - 1)]
    <3>3. x \in Int /\ y \in Int /\ d \in Nat /\ ~(y - x < d - 1) BY <2>8, <2>9, <3>2
    <3> HIDE DEF Bad, x, y
    <3>4. y - x >= d - 1 BY <3>3
    <3> QED BY <3>4 DEF x, y
  <2> DEFINE x == b[m]
             y == b[m + (d - 1)]
             z == b[m + d]
  <2>10. x \in Int /\ y \in Int /\ z \in Int BY <2>8
  <2>11. y - x >= d - 1 /\ z - y >= 1 /\ z - x < d /\ d \in Nat BY <2>6, <2>7, <2>9
  <2> HIDE DEF Bad, x, y, z
  <2> QED BY <2>10, <2>11
<1>2. n - m \in Nat /\ m + (n - m) = n /\ n <= Len(b) OBVIOUS
<1>3. n - m \notin Bad BY <1>1
<1>4. b[n] \in Int /\ b[m] \in Int OBVIOUS
<1> QED BY <1>2, <1>3, <1>4

(* ---------------------------- the beat grid ---------------------------- *)
LEMMA TimesAreNumbers ==
  ASSUME Grid!GridAssumption
  PROVE TrackLength \in Nat /\ Grid!Times \subseteq Nat /\ Seq(Grid!Times) \subseteq Seq(Int)
<1>1. TrackLength \in Nat /\ Grid!Times \subseteq Nat BY DEF Grid!GridAssumption, Grid!Times
<1>2. ASSUME NEW b \in Seq(Grid!Times) PROVE b \in Seq(Int)
  <2>1. b \in [1..Len(b) -> Grid!Times] /\ Len(b) \in Nat OBVIOUS
  <2>2. b \in [1..Len(b) -> Int]
    <3>1. b = [k \in 1..Len(b) |-> b[k]] BY <2>1
    <3>2. ASSUME NEW k \in 1..Len(b) PROVE b[k] \in Int
      <4>1. b[k] \in Grid!Times BY <3>2
      <4>2. b[k] \in Nat BY <1>1, <4>1
      <4> QED BY <4>2
    <3> QED BY <3>1, <3>2, Zenon
  <2> QED BY <2>1, <2>2
<1> QED BY <1>1, <1>2

(* A dragged beat snaps to a time of the track.                             *)
LEMMA SnapsToATime == ASSUME Grid!GridAssumption, NEW t \in Grid!Times PROVE Grid!snapTime(t) \in Grid!Times
<1> DEFINE near == {o \in OnsetTimes : o - t \in -SnapReach..SnapReach}
           gap(o) == IF o > t THEN o - t ELSE t - o
           best == {o \in near : \A p \in near : gap(o) <= gap(p)}
           gaps == {gap(o) : o \in near}
<1>0. Grid!Times \subseteq Nat /\ near \subseteq Grid!Times
  BY TimesAreNumbers DEF Grid!GridAssumption
<1>1. CASE near = {} BY <1>1 DEF Grid!snapTime
<1>2. CASE near # {}
  <2>0. t \in Nat /\ \A o \in near : o \in Nat BY <1>0
  <2>1. \A o \in near : o \in Nat /\ gap(o) \in Nat BY <2>0
  <2> HIDE DEF near
  <2>2. gaps \subseteq Nat /\ gaps # {} BY <1>2, <2>1
  <2>3. PICK g \in gaps : \A h \in gaps : g <= h
    <3> HIDE DEF gaps
    <3> QED BY <2>2, LeastOfNat
  <2>4. PICK o \in near : g = gap(o) OBVIOUS
  <2>5. \A p \in near : gap(p) \in gaps OBVIOUS
  <2> HIDE DEF gap
  <2>6. o \in best BY <2>3, <2>4, <2>5
  <2>7. best \subseteq near OBVIOUS
  <2>8. best \subseteq Nat /\ best # {} BY <2>1, <2>6, <2>7
  <2> HIDE DEF best, gaps
  <2>9. Grid!LeastOf(best) \in best BY <2>8, Least
  <2>10. Grid!snapTime(t) = Grid!LeastOf(best) BY <1>2 DEF Grid!snapTime, best, near, gap
  <2> QED BY <1>0, <2>7, <2>9, <2>10
<1> QED BY <1>1, <1>2

LEMMA Layout ==
  ASSUME Grid!GridAssumption, NEW g, g.beats \in Seq(Grid!Times), Grid!WellLaid(g)
  PROVE /\ g.beats \in Seq(Int) /\ Len(g.beats) \in Nat /\ Len(g.beats) >= 2 /\ DOMAIN g.beats = 1..Len(g.beats)
        /\ \A k \in Grid!Indices(g.beats) : /\ k \in Nat /\ k < Len(g.beats) /\ k + 1 \in 1..Len(g.beats)
                                            /\ Grid!At(g.beats, k) \in Nat /\ Grid!At(g.beats, k) <= TrackLength
                                            /\ Grid!At(g.beats, k) = g.beats[k + 1]
        /\ \A k, l \in Grid!Indices(g.beats) : k <= l => Grid!At(g.beats, l) - Grid!At(g.beats, k) >= l - k
<1>1. g.beats \in Seq(Int) /\ Len(g.beats) \in Nat /\ Len(g.beats) >= 2 /\ DOMAIN g.beats = 1..Len(g.beats)
  BY TimesAreNumbers DEF Grid!WellLaid
<1>2. ASSUME NEW k \in Grid!Indices(g.beats)
      PROVE /\ k \in Nat /\ k < Len(g.beats) /\ k + 1 \in 1..Len(g.beats)
            /\ Grid!At(g.beats, k) \in Nat /\ Grid!At(g.beats, k) <= TrackLength
            /\ Grid!At(g.beats, k) = g.beats[k + 1]
  <2>1. k \in Nat /\ k < Len(g.beats) /\ k + 1 \in 1..Len(g.beats) BY <1>1, <1>2 DEF Grid!Indices
  <2>2. g.beats[k + 1] \in Grid!Times BY <2>1
  <2> QED BY <2>1, <2>2, TimesAreNumbers DEF Grid!At, Grid!Times
<1>3. ASSUME NEW k \in Grid!Indices(g.beats), NEW l \in Grid!Indices(g.beats), k <= l
      PROVE Grid!At(g.beats, l) - Grid!At(g.beats, k) >= l - k
  <2>1. Grid!Spaced(g.beats) BY DEF Grid!WellLaid
  <2>4. k + 1 \in 1..Len(g.beats) /\ l + 1 \in 1..Len(g.beats) /\ k + 1 <= l + 1 BY <1>2, <1>3
  <2>2. g.beats[l + 1] - g.beats[k + 1] >= (l + 1) - (k + 1) BY <1>1, <2>1, <2>4, SpacedFar
  <2>3. k \in Nat /\ l \in Nat /\ (l + 1) - (k + 1) = l - k BY <1>2
  <2> QED BY <1>2, <2>2, <2>3 DEF Grid!At
<1> QED BY <1>1, <1>2, <1>3

LEMMA MovesAlone ==
  ASSUME Grid!GridAssumption, NEW g, g.beats \in Seq(Grid!Times), Grid!WellLaid(g),
         NEW i \in Grid!Indices(g.beats), NEW t \in Grid!Times, NEW b, b = Grid!moveAlone(g, i, t)
  PROVE /\ b \in Seq(Grid!Times) /\ Len(b) = Len(g.beats) /\ Grid!Spaced(b)
        /\ \A k \in g.anchors \ {i} : Grid!At(b, k) = Grid!At(g.beats, k)
<1> DEFINE L == Len(g.beats)
           lo == IF i > 0 THEN Grid!At(g.beats, i - 1) + Grid!MinGap ELSE 0
           hi == IF i < Len(g.beats) - 1 THEN Grid!At(g.beats, i + 1) - Grid!MinGap ELSE TrackLength
           c == Grid!Clamp(lo, hi, t)
<1>0. /\ L \in Nat /\ L >= 2 /\ i \in Nat /\ i < L /\ i + 1 \in 1..L /\ t \in Nat /\ TrackLength \in Nat
      /\ DOMAIN g.beats = 1..L
  BY Layout, TimesAreNumbers
<1>1. Grid!Indices(g.beats) = 0..(L - 1) BY DEF Grid!Indices
<1>2. i > 0 => /\ i - 1 \in 0..(L - 1) /\ Grid!At(g.beats, i - 1) \in Nat
               /\ Grid!At(g.beats, i) - Grid!At(g.beats, i - 1) >= 1 /\ Grid!At(g.beats, i - 1) <= TrackLength
  <2>1. ASSUME i > 0 PROVE i - 1 \in 0..(L - 1) /\ i - 1 <= i /\ i - (i - 1) = 1 BY <2>1, <1>0
  <2> QED BY <2>1, <1>0, <1>1, Layout
<1>3. i < L - 1 => /\ i + 1 \in 0..(L - 1) /\ Grid!At(g.beats, i + 1) \in Nat
                   /\ Grid!At(g.beats, i + 1) - Grid!At(g.beats, i) >= 1 /\ Grid!At(g.beats, i + 1) <= TrackLength
  <2>1. ASSUME i < L - 1 PROVE i + 1 \in 0..(L - 1) /\ i <= i + 1 /\ (i + 1) - i = 1 BY <2>1, <1>0
  <2> QED BY <2>1, <1>0, <1>1, Layout
<1>4. Grid!At(g.beats, i) \in Nat /\ Grid!At(g.beats, i) <= TrackLength BY Layout
<1>5. lo \in Nat /\ hi \in Int /\ lo <= hi /\ hi <= TrackLength
  BY <1>0, <1>2, <1>3, <1>4 DEF Grid!MinGap
<1>6. c \in Int /\ lo <= c /\ c <= hi
  <2> HIDE DEF lo, hi
  <2>1. lo \in Int /\ t \in Int BY <1>0, <1>5
  <2> QED BY <1>5, <2>1, Clamped
<1>7. c \in Grid!Times
  <2> HIDE DEF c, lo, hi
  <2> QED BY <1>0, <1>5, <1>6 DEF Grid!Times
<1>8. b = [g.beats EXCEPT ![i + 1] = c] BY DEF Grid!moveAlone
<1>9. i > 0 => c - g.beats[i] >= 1
  <2>1. i > 0 => (i - 1) + 1 = i BY <1>0
  <2>2. i > 0 => Grid!At(g.beats, i - 1) = g.beats[i] BY <2>1 DEF Grid!At
  <2> QED BY <1>2, <1>6, <2>2 DEF Grid!MinGap
<1>10. i < L - 1 => g.beats[i + 2] - c >= 1
  <2>1. (i + 1) + 1 = i + 2 BY <1>0
  <2>2. Grid!At(g.beats, i + 1) = g.beats[i + 2] BY <2>1 DEF Grid!At
  <2> QED BY <1>3, <1>6, <2>2 DEF Grid!MinGap
<1> HIDE DEF c, lo, hi
<1>11. b \in Seq(Grid!Times) /\ Len(b) = L BY <1>0, <1>7, <1>8
<1>12. \A n \in 1..L : b[n] = IF n = i + 1 THEN c ELSE g.beats[n] BY <1>0, <1>8
<1>13. ASSUME NEW n \in 1..(L - 1) PROVE b[n + 1] - b[n] >= 1
  <2>1. n \in 1..L /\ n + 1 \in 1..L BY <1>0
  <2>2. g.beats[n + 1] - g.beats[n] >= 1 BY DEF Grid!WellLaid, Grid!Spaced, Grid!MinGap
  <2>3. CASE n = i + 1
    <3>1. b[n] = c /\ b[n + 1] = g.beats[i + 2] /\ i < L - 1 BY <1>0, <1>12, <2>1, <2>3
    <3> QED BY <1>10, <3>1
  <2>4. CASE n + 1 = i + 1
    <3>1. b[n + 1] = c /\ b[n] = g.beats[i] /\ i > 0 BY <1>0, <1>12, <2>1, <2>4
    <3> QED BY <1>9, <3>1
  <2>5. CASE n # i + 1 /\ n + 1 # i + 1 BY <1>12, <2>1, <2>2, <2>5
  <2> QED BY <2>3, <2>4, <2>5
<1>14. Grid!Spaced(b) BY <1>11, <1>13 DEF Grid!Spaced, Grid!MinGap
<1>15. ASSUME NEW k \in g.anchors \ {i} PROVE Grid!At(b, k) = Grid!At(g.beats, k)
  <2>0. k \in 0..(L - 1) /\ k # i BY <1>1 DEF Grid!WellLaid
  <2>1. k + 1 \in 1..L /\ k + 1 # i + 1 BY <1>0, <2>0
  <2> QED BY <1>12, <2>1 DEF Grid!At
<1> QED BY <1>11, <1>14, <1>15

(* The anchors on either side, or the ends of the grid.                     *)
LEMMA Span ==
  ASSUME Grid!GridAssumption, NEW g, g.beats \in Seq(Grid!Times), Grid!WellLaid(g),
         NEW i \in Grid!Indices(g.beats), NEW a, NEW b, a = Grid!anchorSpan(g, i).lo, b = Grid!anchorSpan(g, i).hi
  PROVE /\ a \in Grid!Indices(g.beats) /\ b \in Grid!Indices(g.beats) /\ a <= i /\ i <= b
        /\ a = i => i = 0
        /\ b = i => i = Len(g.beats) - 1
        /\ \A k \in g.anchors : k < i => k <= a
        /\ \A k \in g.anchors : k > i => k >= b
<1> DEFINE L == Len(g.beats)
           A == {0} \cup {k \in g.anchors : k < i}
           B == {L - 1} \cup {k \in g.anchors : k > i}
<1>0. L \in Nat /\ L >= 2 /\ i \in Nat /\ i < L BY Layout
<1>1. Grid!Indices(g.beats) = 0..(L - 1) BY DEF Grid!Indices
<1>2. g.anchors \subseteq 0..(L - 1) BY <1>1 DEF Grid!WellLaid
<1>3. a = Grid!MostOf(A) /\ b = Grid!LeastOf(B) BY DEF Grid!anchorSpan
<1>4. A \subseteq Nat /\ A # {} /\ \A k \in A : k <= i
  BY <1>0, <1>2
<1>5. B \subseteq Nat /\ B # {} /\ L - 1 \in B BY <1>0, <1>2
<1>6. A \subseteq 0..(L - 1) /\ B \subseteq 0..(L - 1) BY <1>0, <1>2
<1>7. (\A k \in A : k = 0 \/ k < i) /\ (\A k \in B : k = L - 1 \/ k > i) /\ 0 \in A OBVIOUS
<1>8. \A k \in g.anchors : (k < i => k \in A) /\ (k > i => k \in B) OBVIOUS
<1> HIDE DEF A, B
<1>9. a \in A /\ \A k \in A : a >= k BY <1>0, <1>3, <1>4, Most
<1>10. b \in B /\ \A k \in B : b <= k BY <1>3, <1>5, Least
<1>11. a \in 0..(L - 1) /\ b \in 0..(L - 1) /\ a <= i BY <1>4, <1>6, <1>9, <1>10
<1>12. i <= b BY <1>0, <1>7, <1>10, <1>11
<1>13. a = i => i = 0 BY <1>0, <1>7, <1>9, <1>11
<1>14. b = i => i = L - 1 BY <1>0, <1>7, <1>10, <1>11
<1> QED BY <1>1, <1>8, <1>9, <1>10, <1>11, <1>12, <1>13, <1>14

(* Between two ends with room for every beat, an even spread keeps them     *)
(* apart.                                                                   *)
LEMMA Spreads ==
  ASSUME NEW from \in Nat, NEW to \in Nat, NEW a \in Nat, NEW b \in Nat, a < b, to - from >= b - a, NEW k \in a..b
  PROVE /\ from + ((to - from) * (k - a)) \div (b - a) \in Nat
        /\ from + ((to - from) * (k - a)) \div (b - a) <= to
        /\ k = a => from + ((to - from) * (k - a)) \div (b - a) = from
        /\ k = b => from + ((to - from) * (k - a)) \div (b - a) = to
        /\ k < b => (from + ((to - from) * ((k + 1) - a)) \div (b - a))
                       - (from + ((to - from) * (k - a)) \div (b - a)) >= 1
<1> DEFINE x == to - from
           n == b - a
           m == k - a
           q == (x * m) \div n
           r == (x * (m + 1)) \div n
<1>1. x \in Nat /\ n \in Nat /\ n > 0 /\ x >= n /\ m \in Nat /\ m <= n /\ (k + 1) - a = m + 1 OBVIOUS
<1>2. m = 0 => k = a OBVIOUS
<1>3. (k = b => m = n) /\ (k = a => m = 0) /\ (k < b => m < n) OBVIOUS
<1> HIDE DEF x, n, m
<1>4. q \in Nat /\ r >= q + 1 /\ r \in Int
  <2>1. q \in Nat /\ r >= q + 1 BY <1>1, DividesUp
  <2>2. x * (m + 1) \in Int BY <1>1
  <2> QED BY <1>1, <2>1, <2>2, Divides
<1>5. (m = 0 => q = 0) /\ (m = n => q = x) BY <1>1, DividesAll
<1>6. q <= x
  <2>1. n * q <= x * m
    <3>1. x * m \in Int BY <1>1
    <3> QED BY <1>1, <3>1, Divides
  <2>2. x * m <= x * n BY <1>1
  <2> HIDE DEF q
  <2>3. n * q <= n * x BY <1>1, <1>4, <2>1, <2>2
  <2> QED BY <1>1, <1>4, <2>3
<1> HIDE DEF q, r
<1>7. /\ from + q \in Nat /\ from + q <= to /\ (k = a => from + q = from) /\ (k = b => from + q = to)
      /\ (k < b => (from + r) - (from + q) >= 1)
  BY <1>1, <1>3, <1>4, <1>5, <1>6 DEF x
<1>8. q = ((to - from) * (k - a)) \div (b - a) BY DEF q, x, m, n
<1>9. r = ((to - from) * ((k + 1) - a)) \div (b - a) BY <1>1 DEF r, x, n
<1> QED BY <1>7, <1>8, <1>9

LEMMA Ripples ==
  ASSUME Grid!GridAssumption, NEW g, g.beats \in Seq(Grid!Times), Grid!WellLaid(g),
         NEW i \in Grid!Indices(g.beats), NEW t \in Grid!Times, NEW s, s = Grid!moveRippling(g, i, t)
  PROVE /\ s \in Seq(Grid!Times) /\ Len(s) = Len(g.beats) /\ Grid!Spaced(s)
        /\ \A k \in g.anchors \ {i} : Grid!At(s, k) = Grid!At(g.beats, k)
<1> DEFINE L == Len(g.beats)
           a == Grid!anchorSpan(g, i).lo
           b == Grid!anchorSpan(g, i).hi
           from == Grid!At(g.beats, a)
           to == Grid!At(g.beats, b)
           target == Grid!Clamp(from + Grid!MinGap * (i - a), to - Grid!MinGap * (b - i), t)
           up(k) == from + ((target - from) * (k - a)) \div (i - a)
           down(k) == target + ((to - target) * (k - i)) \div (b - i)
           V(k) == IF k = i THEN target
                   ELSE IF a < k /\ k < i THEN up(k)
                   ELSE IF i < k /\ k < b THEN down(k)
                   ELSE Grid!At(g.beats, k)
<1>0. /\ L \in Nat /\ L >= 2 /\ i \in Nat /\ i < L /\ t \in Nat /\ TrackLength \in Nat
      /\ DOMAIN g.beats = 1..L
  BY Layout, TimesAreNumbers
<1>1. Grid!Indices(g.beats) = 0..(L - 1) BY DEF Grid!Indices
<1>2. s = [n \in 1..L |-> V(n - 1)] BY <1>0 DEF Grid!moveRippling
<1>3. /\ a \in 0..(L - 1) /\ b \in 0..(L - 1) /\ a <= i /\ i <= b
      /\ a = i => i = 0
      /\ b = i => i = L - 1
      /\ \A k \in g.anchors : k < i => k <= a
      /\ \A k \in g.anchors : k > i => k >= b
  BY <1>1, Span
<1> HIDE DEF a, b
<1>4. /\ from \in Nat /\ to \in Nat /\ from <= TrackLength /\ to <= TrackLength /\ to - from >= b - a
      /\ a \in Nat /\ b \in Nat
  <2>1. a <= b BY <1>0, <1>3
  <2> QED BY <1>0, <1>1, <1>3, <2>1, Layout
<1> HIDE DEF from, to
<1>5. target \in Int /\ from + (i - a) <= target /\ target <= to - (b - i)
  <2>1. Grid!MinGap * (i - a) = i - a /\ Grid!MinGap * (b - i) = b - i BY <1>0, <1>4 DEF Grid!MinGap
  <2>2. from + (i - a) \in Int /\ to - (b - i) \in Int /\ t \in Int /\ from + (i - a) <= to - (b - i)
    BY <1>0, <1>4
  <2> QED BY <2>1, <2>2, Clamped
<1>6. target \in Nat /\ target - from >= i - a /\ to - target >= b - i /\ from <= target /\ target <= to
  BY <1>0, <1>3, <1>4, <1>5
<1> HIDE DEF target
<1>7. ASSUME NEW k \in a..i, a < i
      PROVE /\ up(k) \in Nat /\ up(k) <= target /\ (k = a => up(k) = from) /\ (k = i => up(k) = target)
            /\ k < i => up(k + 1) - up(k) >= 1
  <2>1. /\ from \in Nat /\ target \in Nat /\ a \in Nat /\ i \in Nat /\ a < i /\ target - from >= i - a
    BY <1>0, <1>4, <1>6, <1>7
  <2>2. /\ from + ((target - from) * (k - a)) \div (i - a) \in Nat
        /\ from + ((target - from) * (k - a)) \div (i - a) <= target
        /\ k = a => from + ((target - from) * (k - a)) \div (i - a) = from
        /\ k = i => from + ((target - from) * (k - a)) \div (i - a) = target
        /\ k < i => (from + ((target - from) * ((k + 1) - a)) \div (i - a))
                       - (from + ((target - from) * (k - a)) \div (i - a)) >= 1
    BY <1>7, <2>1, Spreads
  <2> QED BY <2>2
<1>8. ASSUME NEW k \in i..b, i < b
      PROVE /\ down(k) \in Nat /\ down(k) <= to /\ (k = i => down(k) = target) /\ (k = b => down(k) = to)
            /\ k < b => down(k + 1) - down(k) >= 1
  <2>1. /\ target \in Nat /\ to \in Nat /\ i \in Nat /\ b \in Nat /\ i < b /\ to - target >= b - i
    BY <1>0, <1>4, <1>6, <1>8
  <2>2. /\ target + ((to - target) * (k - i)) \div (b - i) \in Nat
        /\ target + ((to - target) * (k - i)) \div (b - i) <= to
        /\ k = i => target + ((to - target) * (k - i)) \div (b - i) = target
        /\ k = b => target + ((to - target) * (k - i)) \div (b - i) = to
        /\ k < b => (target + ((to - target) * ((k + 1) - i)) \div (b - i))
                       - (target + ((to - target) * (k - i)) \div (b - i)) >= 1
    BY <1>8, <2>1, Spreads
  <2> QED BY <2>2
<1> HIDE DEF up, down
<1>9. ASSUME NEW k \in 0..(L - 1), a <= k, k <= i PROVE (a < i => V(k) = up(k)) /\ (a = i => V(k) = target)
  <2>1. CASE k = i BY <1>0, <1>4, <1>7, <1>9, <2>1
  <2>2. CASE k = a /\ k # i
    <3>1. V(k) = from BY <1>0, <1>3, <1>4, <1>9, <2>2 DEF from
    <3> QED BY <1>0, <1>4, <1>7, <1>9, <2>2, <3>1
  <2>3. CASE a < k /\ k < i BY <1>0, <1>4, <2>3
  <2> QED BY <1>0, <1>4, <1>9, <2>1, <2>2, <2>3
<1>10. ASSUME NEW k \in 0..(L - 1), i <= k, k <= b PROVE (i < b => V(k) = down(k)) /\ (b = i => V(k) = target)
  <2>1. CASE k = i BY <1>0, <1>4, <1>8, <1>10, <2>1
  <2>2. CASE k = b /\ k # i
    <3>1. V(k) = to BY <1>0, <1>3, <1>4, <1>10, <2>2 DEF to
    <3> QED BY <1>0, <1>4, <1>8, <1>10, <2>2, <3>1
  <2>3. CASE i < k /\ k < b BY <1>0, <1>4, <2>3
  <2> QED BY <1>0, <1>4, <1>10, <2>1, <2>2, <2>3
<1>11. ASSUME NEW k \in 0..(L - 1), k <= a \/ b <= k, k # i PROVE V(k) = Grid!At(g.beats, k)
  BY <1>0, <1>3, <1>4, <1>11
<1> HIDE DEF V
<1>12. ASSUME NEW k \in 0..(L - 1) PROVE V(k) \in 0..TrackLength
  <2>1. CASE a <= k /\ k <= i
    <3>1. CASE a < i
      <4>1. V(k) = up(k) /\ k \in a..i BY <1>0, <1>4, <1>9, <2>1, <3>1
      <4>2. up(k) \in Nat /\ up(k) <= target BY <1>7, <3>1, <4>1
      <4> QED BY <1>0, <1>4, <1>6, <4>1, <4>2
    <3>2. CASE a = i BY <1>0, <1>4, <1>6, <1>9, <2>1, <3>2
    <3> QED BY <1>0, <1>3, <1>4, <3>1, <3>2
  <2>2. CASE i <= k /\ k <= b
    <3>1. CASE i < b
      <4>1. V(k) = down(k) /\ k \in i..b BY <1>0, <1>4, <1>10, <2>2, <3>1
      <4>2. down(k) \in Nat /\ down(k) <= to BY <1>8, <3>1, <4>1
      <4> QED BY <1>0, <1>4, <4>1, <4>2
    <3>2. CASE b = i BY <1>0, <1>4, <1>6, <1>10, <2>2, <3>2
    <3> QED BY <1>0, <1>3, <1>4, <3>1, <3>2
  <2>3. CASE k < a \/ b < k
    <3>1. V(k) = Grid!At(g.beats, k) BY <1>0, <1>3, <1>4, <1>11, <2>3
    <3>2. Grid!At(g.beats, k) \in Nat /\ Grid!At(g.beats, k) <= TrackLength BY <1>1, <1>12, Layout
    <3> QED BY <1>0, <3>1, <3>2
  <2> QED BY <1>0, <1>4, <2>1, <2>2, <2>3
<1>13. ASSUME NEW k \in 0..(L - 2) PROVE V(k + 1) - V(k) >= 1
  <2>0. k \in 0..(L - 1) /\ k + 1 \in 0..(L - 1) /\ k <= k + 1 /\ (k + 1) - k = 1 BY <1>0
  <2>1. CASE a <= k /\ k < i
    <3>1. V(k) = up(k) /\ V(k + 1) = up(k + 1) /\ k \in a..i /\ a < i
      <4>1. a < i /\ k <= i /\ a <= k + 1 /\ k + 1 <= i /\ k \in a..i BY <1>0, <1>4, <2>0, <2>1
      <4> QED BY <1>9, <2>0, <2>1, <4>1
    <3> QED BY <1>7, <2>1, <3>1
  <2>2. CASE i <= k /\ k < b
    <3>1. V(k) = down(k) /\ V(k + 1) = down(k + 1) /\ k \in i..b /\ i < b
      <4>1. i < b /\ k <= b /\ i <= k + 1 /\ k + 1 <= b /\ k \in i..b BY <1>0, <1>4, <2>0, <2>2
      <4> QED BY <1>10, <2>0, <2>2, <4>1
    <3> QED BY <1>8, <2>2, <3>1
  <2>3. CASE k < a \/ (b <= k /\ i <= k)
    <3>1. Grid!At(g.beats, k + 1) - Grid!At(g.beats, k) >= 1 BY <1>1, <2>0, Layout
    <3>2. V(k) = Grid!At(g.beats, k) /\ V(k + 1) = Grid!At(g.beats, k + 1)
      <4>1. CASE k < a
        <5>1. k <= a /\ k # i /\ k + 1 <= a BY <1>0, <1>3, <1>4, <2>0, <4>1
        <5>2. V(k) = Grid!At(g.beats, k) BY <1>11, <2>0, <5>1
        <5>3. CASE k + 1 # i BY <1>11, <2>0, <5>1, <5>2, <5>3
        <5>4. CASE k + 1 = i
          <6>1. a = i BY <1>0, <1>3, <1>4, <5>1, <5>4
          <6> QED BY <1>0, <1>3, <2>0, <5>4, <6>1
        <5> QED BY <5>3, <5>4
      <4>2. CASE b <= k /\ i <= k
        <5>1. b <= k + 1 /\ k + 1 # i BY <1>0, <1>4, <2>0, <4>2
        <5>2. k # i BY <1>0, <1>3, <1>4, <4>2
        <5> QED BY <1>11, <2>0, <4>2, <5>1, <5>2
      <4> QED BY <2>3, <4>1, <4>2
    <3> QED BY <3>1, <3>2
  <2> QED BY <1>0, <1>3, <1>4, <2>0, <2>1, <2>2, <2>3
<1>14. \A n \in 1..L : n - 1 \in 0..(L - 1) /\ s[n] = V(n - 1) BY <1>0, <1>2
<1>15. s \in Seq(Grid!Times) /\ Len(s) = L
  <2>1. \A n \in 1..L : V(n - 1) \in Grid!Times BY <1>12, <1>14 DEF Grid!Times
  <2> QED BY <1>0, <1>2, <2>1
<1>16. ASSUME NEW n \in 1..(L - 1) PROVE s[n + 1] - s[n] >= 1
  <2>1. n - 1 \in 0..(L - 2) /\ n \in 1..L /\ n + 1 \in 1..L /\ (n + 1) - 1 = (n - 1) + 1 BY <1>0
  <2>2. V((n - 1) + 1) - V(n - 1) >= 1 BY <1>13, <2>1
  <2> QED BY <1>14, <2>1, <2>2
<1>17. Grid!Spaced(s) BY <1>15, <1>16 DEF Grid!Spaced, Grid!MinGap
<1>18. ASSUME NEW k \in g.anchors \ {i} PROVE Grid!At(s, k) = Grid!At(g.beats, k)
  <2>1. k \in 0..(L - 1) /\ k # i BY <1>1, <1>18 DEF Grid!WellLaid
  <2>2. k <= a \/ b <= k BY <1>0, <1>3, <1>4, <2>1
  <2>3. V(k) = Grid!At(g.beats, k) BY <1>11, <2>1, <2>2
  <2>4. k + 1 \in 1..L /\ (k + 1) - 1 = k BY <1>0, <2>1
  <2> QED BY <1>14, <2>3, <2>4 DEF Grid!At
<1> QED BY <1>15, <1>17, <1>18

LEMMA GridCounts == ASSUME NEW S PROVE Grid!Cardinality(S) = Cardinality(S)
BY DEF Grid!Cardinality, Cardinality

(* The beats before a time are the first ones.                              *)
LEMMA BeatsBefore ==
  ASSUME Grid!GridAssumption, NEW b \in Seq(Grid!Times), Grid!Spaced(b), NEW t \in Grid!Times,
         NEW at, at = Grid!Cardinality({n \in DOMAIN b : b[n] < t})
  PROVE at \in 0..Len(b) /\ \A n \in 1..Len(b) : b[n] < t <=> n <= at
<1> DEFINE L == Len(b)
           S == {n \in 1..L : b[n] < t}
<1>0. L \in Nat /\ DOMAIN b = 1..L /\ b \in Seq(Int) /\ t \in Int /\ \A n \in 1..L : b[n] \in Int
  BY TimesAreNumbers
<1>1. \E c \in 0..L : S = 1..c
  <2>1. CASE S = {}
    <3>1. 1..0 = {} OBVIOUS
    <3> QED BY <1>0, <2>1, <3>1
  <2>2. CASE S # {}
    <3>1. S \subseteq Nat /\ \A k \in S : k <= L BY <1>0
    <3>2. PICK c \in S : \A k \in S : c >= k
      <4> HIDE DEF S
      <4> QED BY <1>0, <2>2, <3>1, MostOfNat
    <3>3. c \in 1..L /\ b[c] < t OBVIOUS
    <3>4. ASSUME NEW n \in 1..c PROVE n \in S
      <4>1. n \in 1..L /\ n <= c BY <1>0, <3>3
      <4>2. b[c] - b[n] >= c - n BY <1>0, <3>3, <4>1, SpacedFar
      <4> QED BY <1>0, <3>3, <4>1, <4>2
    <3>5. S \subseteq 1..c BY <1>0, <3>2
    <3> HIDE DEF S
    <3>6. S = 1..c BY <3>4, <3>5
    <3> QED BY <1>0, <3>3, <3>6
  <2> QED BY <2>1, <2>2
<1>2. PICK c \in 0..L : S = 1..c BY <1>1
<1>3. Cardinality(1..c) = c BY <1>0, <1>2, FS_Interval
<1>4. at = c
  <2>1. at = Grid!Cardinality(S) BY <1>0
  <2> HIDE DEF S
  <2> QED BY <1>2, <1>3, <2>1, GridCounts
<1>5. ASSUME NEW n \in 1..L PROVE b[n] < t <=> n <= c
  <2>1. b[n] < t <=> n \in 1..c BY <1>2
  <2> QED BY <1>0, <2>1
<1> QED BY <1>0, <1>4, <1>5

(* A sequence with one element more, and one with one less.                 *)
With(b, at, t) == SubSeq(b, 1, at) \o <<t>> \o SubSeq(b, at + 1, Len(b))
Without(b, i) == SubSeq(b, 1, i) \o SubSeq(b, i + 2, Len(b))
IsWith(s, b, at, t) ==
  /\ s \in Seq(Grid!Times) /\ Len(s) = Len(b) + 1
  /\ \A n \in 1..at : s[n] = b[n]
  /\ s[at + 1] = t
  /\ \A n \in 1..Len(b) : n > at => s[n + 1] = b[n]
LEMMA Inserted ==
  ASSUME NEW b \in Seq(Grid!Times), NEW t \in Grid!Times, NEW at \in 0..Len(b),
         NEW s, s = With(b, at, t)
  PROVE IsWith(s, b, at, t)
<1> DEFINE L == Len(b)
           p == SubSeq(b, 1, at)
           m == p \o <<t>>
           q == SubSeq(b, at + 1, L)
<1>0. L \in Nat /\ at \in Nat /\ at <= L OBVIOUS
<1>1. p \in Seq(Grid!Times) /\ Len(p) = at /\ \A n \in 1..at : p[n] = b[n] BY <1>0
<1>2. q \in Seq(Grid!Times) /\ Len(q) = L - at /\ \A n \in 1..(L - at) : q[n] = b[at + n] BY <1>0
<1> HIDE DEF p, q
<1>3. m \in Seq(Grid!Times) /\ Len(m) = at + 1 /\ (\A n \in 1..at : m[n] = b[n]) /\ m[at + 1] = t BY <1>0, <1>1
<1> HIDE DEF m
<1>4. s = m \o q BY DEF m, p, q, With
<1>11. /\ m \o q \in Seq(Grid!Times) /\ Len(m \o q) = Len(m) + Len(q)
       /\ \A n \in 1..(Len(m) + Len(q)) : (m \o q)[n] = IF n <= Len(m) THEN m[n] ELSE q[n - Len(m)]
  BY <1>2, <1>3, ConcatProperties, Zenon
<1>10. /\ s \in Seq(Grid!Times) /\ Len(s) = Len(m) + Len(q)
       /\ \A n \in 1..(Len(m) + Len(q)) : s[n] = IF n <= Len(m) THEN m[n] ELSE q[n - Len(m)]
  BY <1>4, <1>11, Zenon
<1>5. s \in Seq(Grid!Times) /\ Len(s) = L + 1 BY <1>0, <1>2, <1>3, <1>10
<1>6. ASSUME NEW n \in 1..(at + 1) PROVE s[n] = m[n]
  <2>1. n \in 1..(Len(m) + Len(q)) /\ n <= Len(m) BY <1>0, <1>2, <1>3
  <2> QED BY <1>10, <2>1
<1>8. ASSUME NEW n \in 1..L, n > at PROVE s[n + 1] = b[n]
  <2>1. n - at \in 1..(L - at) /\ (n + 1) - (at + 1) = n - at /\ at + (n - at) = n BY <1>0, <1>8
  <2>2. q[n - at] = b[n] BY <1>2, <2>1
  <2>3. n + 1 \in 1..(Len(m) + Len(q)) /\ ~(n + 1 <= Len(m)) BY <1>0, <1>2, <1>3, <1>8
  <2>4. s[n + 1] = q[(n + 1) - Len(m)] BY <1>10, <2>3
  <2> QED BY <1>3, <2>1, <2>2, <2>4
<1>9. 1..at \subseteq 1..(at + 1) /\ at + 1 \in 1..(at + 1) BY <1>0
<1> QED BY <1>3, <1>5, <1>6, <1>8, <1>9 DEF IsWith

LEMMA TakenOut ==
  ASSUME NEW T, NEW b \in Seq(T), NEW i \in 0..(Len(b) - 1),
         NEW s, s = Without(b, i)
  PROVE /\ s \in Seq(T) /\ Len(s) = Len(b) - 1
        /\ \A n \in 1..i : s[n] = b[n]
        /\ \A n \in (i + 1)..(Len(b) - 1) : s[n] = b[n + 1]
<1> DEFINE L == Len(b)
           p == SubSeq(b, 1, i)
           q == SubSeq(b, i + 2, L)
<1>0. L \in Nat /\ i \in Nat /\ i < L OBVIOUS
<1>1. p \in Seq(T) /\ Len(p) = i /\ \A n \in 1..i : p[n] = b[n] BY <1>0
<1>2. q \in Seq(T) /\ Len(q) = L - i - 1 /\ \A n \in 1..(L - i - 1) : q[n] = b[i + 1 + n] BY <1>0
<1> HIDE DEF p, q
<1>3. s = p \o q BY DEF p, q, Without
<1>9. /\ p \o q \in Seq(T) /\ Len(p \o q) = Len(p) + Len(q)
      /\ \A n \in 1..(Len(p) + Len(q)) : (p \o q)[n] = IF n <= Len(p) THEN p[n] ELSE q[n - Len(p)]
  BY <1>1, <1>2, ConcatProperties, Zenon
<1>8. /\ s \in Seq(T) /\ Len(s) = Len(p) + Len(q)
      /\ \A n \in 1..(Len(p) + Len(q)) : s[n] = IF n <= Len(p) THEN p[n] ELSE q[n - Len(p)]
  BY <1>3, <1>9, Zenon
<1>4. s \in Seq(T) /\ Len(s) = L - 1 BY <1>0, <1>1, <1>2, <1>8
<1>5. \A n \in 1..i : s[n] = p[n] BY <1>0, <1>1, <1>2, <1>8
<1>7. ASSUME NEW n \in (i + 1)..(L - 1) PROVE s[n] = b[n + 1]
  <2>1. n - i \in 1..(L - i - 1) /\ i + 1 + (n - i) = n + 1 BY <1>0
  <2>2. q[n - i] = b[n + 1] BY <1>2, <2>1
  <2>3. n \in 1..(Len(p) + Len(q)) /\ ~(n <= Len(p)) BY <1>0, <1>1, <1>2
  <2>4. s[n] = q[n - Len(p)] BY <1>8, <2>3
  <2> QED BY <1>1, <2>2, <2>4
<1> QED BY <1>1, <1>4, <1>5, <1>7

LEMMA InsertKeepsApart ==
  ASSUME Grid!GridAssumption, NEW b \in Seq(Grid!Times), Grid!Spaced(b), NEW t \in Grid!Times,
         NEW at \in 0..Len(b), \A n \in 1..Len(b) : b[n] # t /\ (b[n] < t <=> n <= at),
         NEW s, s = With(b, at, t)
  PROVE s \in Seq(Grid!Times) /\ Len(s) = Len(b) + 1 /\ Grid!Spaced(s)
<1> DEFINE L == Len(b)
<1>0. L \in Nat /\ t \in Int /\ \A n \in 1..L : b[n] \in Int BY TimesAreNumbers
<1>1. at \in 0..L /\ \A n \in 1..L : b[n] < t <=> n <= at OBVIOUS
<1>2. /\ s \in Seq(Grid!Times) /\ Len(s) = L + 1
      /\ \A n \in 1..at : s[n] = b[n]
      /\ s[at + 1] = t
      /\ \A n \in 1..L : n > at => s[n + 1] = b[n]
  <2>1. IsWith(s, b, at, t) BY Inserted
  <2> QED BY <2>1 DEF IsWith
<1>3. \A n \in 1..L : b[n] # t OBVIOUS
<1>4. ASSUME NEW n \in 1..L PROVE s[n + 1] - s[n] >= 1
  <2>1. CASE n < at
    <3>0. n \in 1..at /\ n + 1 \in 1..at /\ n \in 1..L - 1 BY <1>0, <1>1, <2>1
    <3>1. s[n] = b[n] /\ s[n + 1] = b[n + 1] BY <1>2, <3>0
    <3> QED BY <3>0, <3>1 DEF Grid!Spaced, Grid!MinGap
  <2>2. CASE n = at
    <3>1. s[n] = b[n] /\ s[n + 1] = t /\ b[n] < t BY <1>0, <1>1, <1>2, <2>2
    <3> QED BY <1>0, <3>1
  <2>3. CASE n = at + 1
    <3>1. s[n] = t /\ s[n + 1] = b[n] BY <1>0, <1>1, <1>2, <2>3
    <3>2. ~(b[n] < t) /\ b[n] # t BY <1>0, <1>1, <1>3, <2>3
    <3> QED BY <1>0, <3>1, <3>2
  <2>4. CASE n > at + 1
    <3>1. n - 1 \in 1..L /\ n - 1 > at /\ n > at /\ (n - 1) + 1 = n /\ n - 1 \in 1..L - 1 BY <1>0, <1>1, <2>4
    <3>2. s[n] = b[n - 1] /\ s[n + 1] = b[n] BY <1>2, <3>1
    <3>3. b[(n - 1) + 1] - b[n - 1] >= 1 BY <3>1 DEF Grid!Spaced, Grid!MinGap
    <3> QED BY <3>1, <3>2, <3>3
  <2> QED BY <1>0, <1>1, <2>1, <2>2, <2>3, <2>4
<1>5. Len(s) - 1 = L BY <1>0, <1>2
<1>6. Grid!Spaced(s) BY <1>4, <1>5 DEF Grid!Spaced, Grid!MinGap
<1> QED BY <1>1, <1>2, <1>6

LEMMA DeleteKeepsApart ==
  ASSUME Grid!GridAssumption, NEW b \in Seq(Grid!Times), Grid!Spaced(b), NEW i \in 0..(Len(b) - 1),
         NEW s, s = Without(b, i)
  PROVE s \in Seq(Grid!Times) /\ Len(s) = Len(b) - 1 /\ Grid!Spaced(s)
<1> DEFINE L == Len(b)
<1>0. L \in Nat /\ L >= 1 /\ b \in Seq(Int) /\ \A n \in 1..L : b[n] \in Int BY TimesAreNumbers
<1>1. /\ s \in Seq(Grid!Times) /\ Len(s) = L - 1
      /\ \A n \in 1..i : s[n] = b[n]
      /\ \A n \in (i + 1)..(L - 1) : s[n] = b[n + 1]
  BY TakenOut
<1>2. ASSUME NEW n \in 1..(L - 2) PROVE s[n + 1] - s[n] >= 1
  <2>1. CASE n < i
    <3>1. s[n] = b[n] /\ s[n + 1] = b[n + 1] /\ n \in 1..L - 1 BY <1>0, <1>1, <2>1
    <3> QED BY <3>1 DEF Grid!Spaced, Grid!MinGap
  <2>2. CASE n = i
    <3>1. n \in 1..i /\ n + 1 \in (i + 1)..(L - 1) /\ n \in 1..L /\ n + 2 \in 1..L /\ n + 1 + 1 = n + 2
      BY <1>0, <2>2
    <3>2. s[n] = b[n] /\ s[n + 1] = b[n + 2] BY <1>1, <3>1
    <3>3. b[n + 2] - b[n] >= (n + 2) - n BY <1>0, <3>1, SpacedFar
    <3> QED BY <1>0, <3>1, <3>2, <3>3
  <2>3. CASE n > i
    <3>0. n \in (i + 1)..(L - 1) /\ n + 1 \in (i + 1)..(L - 1) /\ n + 1 \in 1..L - 1 BY <1>0, <2>3
    <3>1. s[n] = b[n + 1] /\ s[n + 1] = b[n + 1 + 1] BY <1>1, <3>0
    <3> QED BY <3>0, <3>1 DEF Grid!Spaced, Grid!MinGap
  <2> QED BY <1>0, <2>1, <2>2, <2>3
<1> QED BY <1>0, <1>1, <1>2 DEF Grid!Spaced, Grid!MinGap

(* ------------------------- the steps of the grid ----------------------- *)
LEMMA Edits ==
  ASSUME NEW b, Grid!WellEdited(b)
  PROVE /\ b \in Grid!Editings /\ Grid!WellLaid(b) /\ Len(b.undo) + Len(b.redo) <= 2
        /\ b.beats \in Seq(Grid!Times) /\ b.bars \in SUBSET [beat : Nat, meter : Grid!Meters]
        /\ b.anchors \in SUBSET Nat /\ b.drag \in Nat \cup {-1} /\ b.single \in BOOLEAN
        /\ b.undo \in Seq(Grid!Layouts) /\ b.redo \in Seq(Grid!Layouts)
        /\ \A n \in 1..Len(b.undo) : Grid!WellLaid(b.undo[n])
        /\ \A n \in 1..Len(b.redo) : Grid!WellLaid(b.redo[n])
<1>1. b \in Grid!Editings BY DEF Grid!WellEdited
<1>2. /\ b.beats \in Seq(Grid!Times) /\ b.bars \in SUBSET [beat : Nat, meter : Grid!Meters]
      /\ b.anchors \in SUBSET Nat /\ b.drag \in Nat \cup {-1} /\ b.single \in BOOLEAN
      /\ b.undo \in Seq(Grid!Layouts) /\ b.redo \in Seq(Grid!Layouts)
  BY <1>1 DEF Grid!Editings
<1>3. DOMAIN b.undo = 1..Len(b.undo) /\ DOMAIN b.redo = 1..Len(b.redo) BY <1>2
<1> QED BY <1>1, <1>2, <1>3 DEF Grid!WellEdited, Grid!UndoDepth

(* The record with any of its fields replaced.                              *)
Rows == Seq(Grid!Times)
Pasts == Seq(Grid!Layouts)
Marks == SUBSET [beat : Nat, meter : Grid!Meters]
Held == Nat \cup {-1}
Places == SUBSET Nat
LEMMA EditingsAre ==
  Grid!Editings = [beats : Rows, bars : Marks, anchors : Places, undo : Pasts, redo : Pasts, drag : Held,
                   single : BOOLEAN]
BY DEF Grid!Editings, Rows, Pasts, Marks, Held, Places

DrawnAs(q, beats, bars, anchors) == [q EXCEPT !.beats = beats, !.bars = bars, !.anchors = anchors]
LEMMA Drawn ==
  ASSUME NEW q \in Grid!Editings, NEW beats \in Rows, NEW bars \in Marks, NEW anchors \in Places,
         NEW h, h = DrawnAs(q, beats, bars, anchors)
  PROVE /\ h \in Grid!Editings /\ h.beats = beats /\ h.bars = bars /\ h.anchors = anchors
        /\ h.undo = q.undo /\ h.redo = q.redo
BY EditingsAre DEF DrawnAs

RememberedAs(q, undo, redo) == [q EXCEPT !.redo = redo, !.undo = undo]
LEMMA Remembered ==
  ASSUME NEW q \in Grid!Editings, NEW undo \in Pasts, NEW redo \in Pasts,
         NEW h, h = RememberedAs(q, undo, redo)
  PROVE /\ h \in Grid!Editings /\ h.beats = q.beats /\ h.bars = q.bars /\ h.anchors = q.anchors
        /\ h.undo = undo /\ h.redo = redo /\ h.drag = q.drag /\ h.single = q.single
BY EditingsAre DEF RememberedAs

HeldAs(q, drag, single) == [q EXCEPT !.drag = drag, !.single = single]
LEMMA HeldNow ==
  ASSUME NEW q \in Grid!Editings, NEW drag \in Held, NEW single \in BOOLEAN,
         NEW h, h = HeldAs(q, drag, single)
  PROVE /\ h \in Grid!Editings /\ h.beats = q.beats /\ h.bars = q.bars /\ h.anchors = q.anchors
        /\ h.undo = q.undo /\ h.redo = q.redo
BY EditingsAre DEF HeldAs

(* The picture of a layout is as well laid as the layout.                   *)
LEMMA Pictured ==
  ASSUME NEW b, Grid!WellEdited(b), NEW p, p = Grid!snapshot(b)
  PROVE p \in Grid!Layouts /\ Grid!WellLaid(p)
<1>1. p.beats = b.beats /\ p.bars = b.bars /\ p.anchors = b.anchors BY DEF Grid!snapshot
<1>2. p \in Grid!Layouts BY Edits DEF Grid!snapshot, Grid!Layouts
<1>3. Grid!WellLaid(p) BY <1>1, Edits DEF Grid!WellLaid
<1> QED BY <1>2, <1>3

LEMMA Relaid ==
  ASSUME NEW b, Grid!WellEdited(b), NEW h \in Grid!Editings, h.undo = b.undo, h.redo = b.redo, Grid!WellLaid(h)
  PROVE Grid!WellEdited(h)
BY DEF Grid!WellEdited

(* What is done is remembered, and what was undone no longer.               *)
LEMMA Pushes ==
  ASSUME NEW b, Grid!WellEdited(b), NEW q, q = Grid!pushUndo(b)
  PROVE /\ Grid!WellEdited(q) /\ q.beats = b.beats /\ q.bars = b.bars /\ q.anchors = b.anchors
        /\ q.drag = b.drag /\ q.single = b.single
<1> DEFINE p == Grid!snapshot(b)
           u == Append(b.undo, p)
           v == IF Len(u) > Grid!UndoDepth THEN Tail(u) ELSE u
<1>0. p \in Grid!Layouts /\ Grid!WellLaid(p) BY Pictured
<1>1. /\ b.undo \in Seq(Grid!Layouts) /\ b.redo \in Seq(Grid!Layouts) /\ Len(b.undo) <= 2
      /\ \A n \in 1..Len(b.undo) : Grid!WellLaid(b.undo[n])
  <2>1. b.undo \in Seq(Grid!Layouts) /\ b.redo \in Seq(Grid!Layouts) /\ Len(b.undo) + Len(b.redo) <= 2
    BY Edits
  <2>2. Len(b.undo) \in Nat /\ Len(b.redo) \in Nat BY <2>1
  <2>3. Len(b.undo) <= 2
    <3> DEFINE m == Len(b.undo)
               n == Len(b.redo)
    <3>1. m \in Nat /\ n \in Nat /\ m + n <= 2 BY <2>1, <2>2
    <3> HIDE DEF m, n
    <3>2. m <= 2 BY <3>1
    <3> QED BY <3>2 DEF m
  <2>4. \A n \in 1..Len(b.undo) : Grid!WellLaid(b.undo[n]) BY Edits
  <2> QED BY <2>1, <2>3, <2>4
<1> HIDE DEF p
<1>2. u \in Seq(Grid!Layouts) /\ Len(u) = Len(b.undo) + 1 /\ \A n \in 1..Len(u) : Grid!WellLaid(u[n])
  BY <1>0, <1>1
<1>3. v \in Seq(Grid!Layouts) /\ Len(v) <= 2 /\ \A n \in 1..Len(v) : Grid!WellLaid(v[n])
  <2> HIDE DEF u
  <2>1. CASE Len(u) > 2
    <3>1. v = Tail(u) BY <2>1 DEF Grid!UndoDepth
    <3>2. Len(v) = Len(u) - 1 /\ v \in Seq(Grid!Layouts) /\ \A n \in 1..Len(v) : v[n] = u[n + 1] BY <1>2, <2>1, <3>1
    <3>3. \A n \in 1..Len(v) : n + 1 \in 1..Len(u) BY <1>2, <3>2
    <3> HIDE DEF v
    <3> QED BY <1>1, <1>2, <3>2, <3>3
  <2>2. CASE ~(Len(u) > 2)
    <3>1. v = u BY <2>2 DEF Grid!UndoDepth
    <3> HIDE DEF v
    <3> QED BY <1>2, <2>2, <3>1
  <2> QED BY <2>1, <2>2
<1>4. q = RememberedAs(b, v, <<>>) BY DEF Grid!pushUndo, p, RememberedAs
<1> HIDE DEF v
<1>11. /\ q \in Grid!Editings
       /\ q.beats = b.beats /\ q.bars = b.bars /\ q.anchors = b.anchors /\ q.drag = b.drag /\ q.single = b.single
       /\ q.undo = v /\ q.redo = <<>>
  <2>1. v \in Pasts /\ <<>> \in Pasts BY <1>3 DEF Pasts
  <2>2. b \in Grid!Editings BY Edits
  <2> QED BY <1>4, <2>1, <2>2, Remembered
<1>5. q \in Grid!Editings BY <1>11
<1>6. /\ q.beats = b.beats /\ q.bars = b.bars /\ q.anchors = b.anchors /\ q.drag = b.drag /\ q.single = b.single
      /\ q.undo = v /\ q.redo = <<>>
  BY <1>11
<1>7. Grid!WellLaid(q) BY <1>6, Edits DEF Grid!WellLaid
<1>8. Len(q.undo) + Len(q.redo) <= 2
  <2>1. Len(<<>>) = 0 OBVIOUS
  <2> QED BY <1>3, <1>6, <2>1
<1>9. DOMAIN q.undo = 1..Len(v) /\ DOMAIN q.redo = {} BY <1>3, <1>6
<1>10. Grid!WellEdited(q) BY <1>3, <1>5, <1>6, <1>7, <1>8, <1>9 DEF Grid!WellEdited, Grid!UndoDepth
<1> QED BY <1>6, <1>10

LEMMA GridStarts == ASSUME Grid!GridAssumption, Grid!GridInit PROVE Grid!GridIInv
<1>1. PICK b \in DetectedGrids, bars \in {{}, {[beat |-> 0, meter |-> 4]}} :
         st = [beats |-> b, bars |-> bars, anchors |-> {}, undo |-> <<>>, redo |-> <<>>, drag |-> -1, single |-> FALSE]
  BY DEF Grid!GridInit
<1>2. b \in Seq(Grid!Times) /\ Len(b) >= 2 /\ Grid!Spaced(b) BY DEF Grid!GridAssumption
<1>3. bars \in SUBSET [beat : Nat, meter : Grid!Meters] /\ \A m \in bars : m.beat = 0 BY DEF Grid!Meters
<1>4. st \in Grid!Editings
  <2>1. <<>> \in Seq(Grid!Layouts) OBVIOUS
  <2> QED BY <1>1, <1>2, <1>3, <2>1 DEF Grid!Editings
<1>5. 0 \in Grid!Indices(b) BY <1>2 DEF Grid!Indices
<1>6. Grid!WellLaid(st) BY <1>1, <1>2, <1>3, <1>5 DEF Grid!WellLaid
<1>7. st.undo = <<>> /\ st.redo = <<>> BY <1>1
<1>8. Grid!WellEdited(st) BY <1>4, <1>6, <1>7 DEF Grid!WellEdited, Grid!UndoDepth
<1>9. acts \in 0..GridActs BY DEF Grid!GridInit, Grid!GridAssumption
<1> QED BY <1>8, <1>9 DEF Grid!GridIInv

LEMMA GridActCounts ==
  ASSUME Grid!GridAssumption, acts \in 0..GridActs, Grid!Act PROVE acts' \in 0..GridActs
BY DEF Grid!GridAssumption, Grid!Act

LEMMA GridTaken ==
  ASSUME Grid!GridAssumption, Grid!GridIInv, Grid!pointerDown PROVE Grid!GridIInv'
<1> DEFINE q == Grid!pushUndo(st)
<1>1. PICK i \in Grid!Indices(st.beats), single \in BOOLEAN : st' = HeldAs(q, i, single)
  BY DEF Grid!pointerDown, HeldAs
<1>2. Grid!WellEdited(st) BY DEF Grid!GridIInv
<1>3. Grid!WellEdited(q) BY <1>2, Pushes
<1>4. i \in Nat BY DEF Grid!Indices
<1> HIDE DEF q
<1>5. q \in Grid!Editings /\ i \in Held BY <1>3, <1>4, Edits DEF Held
<1>6. /\ st' \in Grid!Editings /\ st'.beats = q.beats /\ st'.bars = q.bars /\ st'.anchors = q.anchors
      /\ st'.undo = q.undo /\ st'.redo = q.redo
  BY <1>1, <1>5, HeldNow
<1>7. Grid!WellLaid(st') BY <1>3, <1>6, Edits DEF Grid!WellLaid
<1>8. Grid!WellEdited(st') BY <1>3, <1>6, <1>7, Relaid
<1>9. acts' \in 0..GridActs BY GridActCounts DEF Grid!pointerDown, Grid!GridIInv
<1> QED BY <1>8, <1>9 DEF Grid!GridIInv

LEMMA GridMoved ==
  ASSUME Grid!GridAssumption, Grid!GridIInv, Grid!pointerMove
  PROVE Grid!GridIInv' /\ \A a \in st.anchors \ {st.drag} : Grid!At(st'.beats, a) = Grid!At(st.beats, a)
<1>0. Grid!WellEdited(st) /\ acts' \in 0..GridActs BY DEF Grid!GridIInv, Grid!pointerMove
<1>1. PICK t0 \in Grid!Times : st' = Grid!moveBeat(st, st.drag, Grid!snapTime(t0)) BY DEF Grid!pointerMove
<1> DEFINE t == Grid!snapTime(t0)
           i == st.drag
           s == IF st.single THEN Grid!moveAlone(st, i, t) ELSE Grid!moveRippling(st, i, t)
<1>2. t \in Grid!Times BY SnapsToATime
<1> HIDE DEF t
<1>3. CASE i \notin Grid!Indices(st.beats)
  <2>1. st' = st BY <1>1, <1>3 DEF Grid!moveBeat
  <2> QED BY <1>0, <2>1 DEF Grid!GridIInv
<1>4. CASE i \in Grid!Indices(st.beats)
  <2>1. st' = [st EXCEPT !.beats = s, !.anchors = st.anchors \cup {i}] BY <1>1, <1>4 DEF Grid!moveBeat, t
  <2>2. st.beats \in Seq(Grid!Times) /\ Grid!WellLaid(st) BY <1>0, Edits
  <2>3. /\ s \in Seq(Grid!Times) /\ Len(s) = Len(st.beats) /\ Grid!Spaced(s)
        /\ \A k \in st.anchors \ {i} : Grid!At(s, k) = Grid!At(st.beats, k)
    <3> HIDE DEF i
    <3>1. CASE st.single
      <4>1. s = Grid!moveAlone(st, i, t) BY <3>1
      <4> HIDE DEF s
      <4> QED BY <1>2, <1>4, <2>2, <4>1, MovesAlone
    <3>2. CASE ~st.single
      <4>1. s = Grid!moveRippling(st, i, t) BY <3>2
      <4> HIDE DEF s
      <4> QED BY <1>2, <1>4, <2>2, <4>1, Ripples
    <3> QED BY <3>1, <3>2
  <2> HIDE DEF s
  <2>4. i \in Nat BY <1>4 DEF Grid!Indices
  <2> DEFINE A == st.anchors \cup {i}
  <2>5. A \in SUBSET Nat BY <1>0, <2>4, Edits
  <2>6. A \subseteq Grid!Indices(st.beats) BY <1>4, <2>2 DEF Grid!WellLaid
  <2> HIDE DEF A
  <2>7. st' = DrawnAs(st, s, st.bars, A)
    <3>1. st \in Grid!Editings BY <1>0, Edits
    <3> QED BY <2>1, <3>1, EditingsAre DEF A, DrawnAs
  <2>8. /\ st' \in Grid!Editings
        /\ st'.beats = s /\ st'.bars = st.bars /\ st'.anchors = A /\ st'.undo = st.undo /\ st'.redo = st.redo
    <3>1. st \in Grid!Editings /\ s \in Rows /\ st.bars \in Marks /\ A \in Places
      BY <1>0, <2>3, <2>5, Edits DEF Rows, Marks, Places
    <3> QED BY <2>7, <3>1, Drawn
  <2>10. Grid!Indices(s) = Grid!Indices(st.beats) BY <2>3 DEF Grid!Indices
  <2>11. Grid!WellLaid(st') BY <2>2, <2>3, <2>6, <2>8, <2>10 DEF Grid!WellLaid
  <2>12. Grid!WellEdited(st') BY <1>0, <2>8, <2>11, Relaid
  <2> QED BY <1>0, <2>3, <2>8, <2>12 DEF Grid!GridIInv
<1> QED BY <1>3, <1>4

LEMMA GridLetGo ==
  ASSUME Grid!GridAssumption, Grid!GridIInv, Grid!pointerUp PROVE Grid!GridIInv'
<1>0. Grid!WellEdited(st) /\ acts' \in 0..GridActs BY DEF Grid!GridIInv, Grid!pointerUp
<1>1. st \in Grid!Editings /\ Grid!WellLaid(st) /\ st.single \in BOOLEAN /\ -1 \in Held BY <1>0, Edits DEF Held
<1>2. st' = HeldAs(st, -1, st.single) BY <1>1, EditingsAre DEF Grid!pointerUp, HeldAs
<1>3. /\ st' \in Grid!Editings /\ st'.beats = st.beats /\ st'.bars = st.bars /\ st'.anchors = st.anchors
      /\ st'.undo = st.undo /\ st'.redo = st.redo
  BY <1>1, <1>2, HeldNow
<1>4. Grid!WellLaid(st') BY <1>1, <1>3 DEF Grid!WellLaid
<1>5. Grid!WellEdited(st') BY <1>0, <1>3, <1>4, Relaid
<1> QED BY <1>0, <1>5 DEF Grid!GridIInv

LEMMA Redraws ==
  ASSUME Grid!GridAssumption, Grid!GridIInv, Grid!Act,
         NEW beats \in Rows, NEW bars \in Marks, NEW anchors \in Places,
         Len(beats) >= 2, Grid!Spaced(beats), anchors \subseteq Grid!Indices(beats),
         \A m \in bars : m.beat \in Grid!Indices(beats),
         st' = DrawnAs(Grid!pushUndo(st), beats, bars, anchors)
  PROVE Grid!GridIInv'
<1> DEFINE q == Grid!pushUndo(st)
<1>1. Grid!WellEdited(st) BY DEF Grid!GridIInv
<1>2. Grid!WellEdited(q) BY <1>1, Pushes
<1>3. q \in Grid!Editings BY <1>2, Edits
<1>4. st' = DrawnAs(q, beats, bars, anchors) OBVIOUS
<1> HIDE DEF q
<1>5. /\ st' \in Grid!Editings /\ st'.beats = beats /\ st'.bars = bars /\ st'.anchors = anchors
      /\ st'.undo = q.undo /\ st'.redo = q.redo
  BY <1>3, <1>4, Drawn
<1>6. Grid!WellLaid(st') BY <1>5 DEF Grid!WellLaid
<1>7. Grid!WellEdited(st') BY <1>2, <1>5, <1>6, Relaid
<1>8. acts' \in 0..GridActs BY GridActCounts DEF Grid!GridIInv
<1> QED BY <1>7, <1>8 DEF Grid!GridIInv

(* Marks and anchors move with the beats.                                   *)
LEMMA BarsShift ==
  ASSUME NEW g \in Grid!Editings, NEW at \in Nat, NEW delta \in {-1, 1}, NEW h, h = Grid!shiftBars(g, at, delta)
  PROVE /\ h.bars \in Marks /\ h = [g EXCEPT !.bars = h.bars]
        /\ \A m \in h.bars : m.beat \in Grid!Indices(g.beats)
<1> DEFINE moved == {[m EXCEPT !.beat = IF @ >= at THEN @ + delta ELSE @] : m \in g.bars}
           B == {m \in moved : m.beat \in Grid!Indices(g.beats)}
<1>1. g.bars \in SUBSET [beat : Nat, meter : Grid!Meters] BY DEF Grid!Editings
<1>2. h = [g EXCEPT !.bars = B] BY DEF Grid!shiftBars
<1>3. ASSUME NEW m \in B PROVE m \in [beat : Nat, meter : Grid!Meters]
  <2>1. PICK n \in g.bars : m = [n EXCEPT !.beat = IF @ >= at THEN @ + delta ELSE @] OBVIOUS
  <2>2. n \in [beat : Nat, meter : Grid!Meters] BY <1>1
  <2>3. m.beat \in Nat BY DEF Grid!Indices
  <2>4. m = [beat |-> m.beat, meter |-> n.meter] BY <2>1, <2>2
  <2> QED BY <2>2, <2>3, <2>4
<1>4. \A m \in B : m.beat \in Grid!Indices(g.beats) OBVIOUS
<1> HIDE DEF B
<1>5. B \in Marks BY <1>3 DEF Marks
<1>6. h.bars = B BY <1>2, <1>5, EditingsAre
<1> QED BY <1>2, <1>4, <1>5, <1>6

LEMMA GridInserts ==
  ASSUME Grid!GridAssumption, Grid!GridIInv, Grid!insertBeat PROVE Grid!GridIInv'
<1> DEFINE q == Grid!pushUndo(st)
           b == st.beats
           L == Len(st.beats)
<1>0. Grid!WellEdited(st) /\ Grid!Act BY DEF Grid!GridIInv, Grid!insertBeat
<1>1. Grid!WellEdited(q) /\ q.beats = b /\ q.bars = st.bars /\ q.anchors = st.anchors BY <1>0, Pushes
<1>2. q \in Grid!Editings BY <1>1, Edits
<1>3. b \in Seq(Grid!Times) /\ Grid!WellLaid(st) /\ st.anchors \in SUBSET Nat BY <1>0, Edits
<1>4. L \in Nat /\ L >= 2 /\ DOMAIN b = 1..L /\ Grid!Indices(b) = 0..(L - 1) /\ Grid!Spaced(b)
  BY <1>3 DEF Grid!WellLaid, Grid!Indices
<1>5. PICK t0 \in Grid!Times :
        LET t == Grid!snapTime(t0)
            at == Grid!Cardinality({n \in DOMAIN st.beats : st.beats[n] < t})
            spliced == [q EXCEPT !.beats = SubSeq(@, 1, at) \o <<t>> \o SubSeq(@, at + 1, Len(@))]
        IN /\ \A n \in DOMAIN st.beats : st.beats[n] - t \notin (1 - Grid!MinGap)..(Grid!MinGap - 1)
           /\ st' = [Grid!shiftAnchors(Grid!shiftBars(spliced, at, 1), at, 1) EXCEPT !.anchors = @ \cup {at}]
  BY DEF Grid!insertBeat
<1> DEFINE t == Grid!snapTime(t0)
           at == Grid!Cardinality({n \in DOMAIN st.beats : st.beats[n] < t})
           s == With(b, at, t)
           g == [q EXCEPT !.beats = s]
           h == Grid!shiftBars(g, at, 1)
           A == {i \in {IF a < at THEN a ELSE a + 1 : a \in st.anchors} : i >= 0}
<1>6. t \in Grid!Times BY SnapsToATime
<1>7. \A n \in 1..L : b[n] - t \notin (1 - Grid!MinGap)..(Grid!MinGap - 1) BY <1>4, <1>5
<1>8. at \in 0..L /\ \A n \in 1..L : b[n] < t <=> n <= at
  <2> HIDE DEF t
  <2> QED BY <1>3, <1>4, <1>6, BeatsBefore
<1>9. \A n \in 1..L : b[n] # t
  <2>1. t \in Int /\ \A n \in 1..L : b[n] \in Int BY <1>3, <1>4, <1>6, TimesAreNumbers
  <2>2. \A n \in 1..L : b[n] - t \notin 0..0 BY <1>7 DEF Grid!MinGap
  <2> HIDE DEF t
  <2> QED BY <2>1, <2>2
<1>10. st' = [Grid!shiftAnchors(h, at, 1) EXCEPT !.anchors = @ \cup {at}]
  <2>1. g = [q EXCEPT !.beats = SubSeq(@, 1, at) \o <<t>> \o SubSeq(@, at + 1, Len(@))] BY <1>1 DEF With
  <2> QED BY <1>5, <2>1
<1> HIDE DEF at, t
<1>11. s \in Seq(Grid!Times) /\ Len(s) = L + 1 /\ Grid!Spaced(s) BY <1>3, <1>4, <1>6, <1>8, <1>9, InsertKeepsApart
<1>12. at \in Nat /\ Grid!Indices(s) = 0..L BY <1>4, <1>8, <1>11 DEF Grid!Indices
<1> HIDE DEF s
<1>13. g \in Grid!Editings /\ g.beats = s /\ g.anchors = st.anchors
  BY <1>1, <1>2, <1>11, EditingsAre DEF Rows
<1>14. h.bars \in Marks /\ h = [g EXCEPT !.bars = h.bars] /\ \A m \in h.bars : m.beat \in Grid!Indices(s)
  <2> HIDE DEF g
  <2> QED BY <1>12, <1>13, BarsShift
<1> DEFINE B == h.bars
<1>15. h = [q EXCEPT !.beats = s, !.bars = B] BY <1>14
<1> HIDE DEF h, B
<1>16. Grid!shiftAnchors(h, at, 1) = [h EXCEPT !.anchors = A]
  <2>1. h.anchors = st.anchors BY <1>1, <1>2, <1>15, EditingsAre
  <2> QED BY <2>1 DEF Grid!shiftAnchors
<1>17. A \cup {at} \in Places /\ A \cup {at} \subseteq Grid!Indices(s)
  <2>1. st.anchors \subseteq 0..(L - 1) BY <1>3, <1>4 DEF Grid!WellLaid
  <2>2. A \subseteq 0..L BY <1>4, <1>12, <2>1
  <2> HIDE DEF A
  <2> QED BY <1>4, <1>8, <1>12, <2>2 DEF Places
<1> HIDE DEF A, g
<1>18. st' = DrawnAs(q, s, B, A \cup {at})
  BY <1>2, <1>10, <1>15, <1>16, EditingsAre DEF DrawnAs
<1>19. s \in Rows /\ B \in Marks /\ Len(s) >= 2 /\ \A m \in B : m.beat \in Grid!Indices(s)
  BY <1>4, <1>11, <1>14 DEF Rows, B
<1> QED BY <1>0, <1>11, <1>17, <1>18, <1>19, Redraws

LEMMA GridDeletes ==
  ASSUME Grid!GridAssumption, Grid!GridIInv, Grid!deleteBeat PROVE Grid!GridIInv'
<1> DEFINE q == Grid!pushUndo(st)
           b == st.beats
           L == Len(st.beats)
<1>0. Grid!WellEdited(st) /\ Grid!Act /\ L > 2 BY DEF Grid!GridIInv, Grid!deleteBeat
<1>1. Grid!WellEdited(q) /\ q.beats = b /\ q.bars = st.bars /\ q.anchors = st.anchors BY <1>0, Pushes
<1>2. q \in Grid!Editings BY <1>1, Edits
<1>3. b \in Seq(Grid!Times) /\ Grid!WellLaid(st) /\ st.anchors \in SUBSET Nat BY <1>0, Edits
<1>4. L \in Nat /\ Grid!Indices(b) = 0..(L - 1) /\ Grid!Spaced(b) BY <1>3 DEF Grid!WellLaid, Grid!Indices
<1>5. PICK i \in Grid!Indices(st.beats) :
        LET spliced == [q EXCEPT !.beats = SubSeq(@, 1, i) \o SubSeq(@, i + 2, Len(@))]
        IN st' = [Grid!shiftAnchors(Grid!shiftBars(spliced, i, -1), i, -1) EXCEPT !.anchors = @ \ {i}]
  BY DEF Grid!deleteBeat
<1> DEFINE s == Without(b, i)
           g == [q EXCEPT !.beats = s]
           h == Grid!shiftBars(g, i, -1)
           A == {k \in {IF a < i THEN a ELSE a + -1 : a \in st.anchors} : k >= 0}
<1>6. i \in 0..(L - 1) BY <1>4, <1>5
<1>10. st' = [Grid!shiftAnchors(h, i, -1) EXCEPT !.anchors = @ \ {i}]
  <2>1. g = [q EXCEPT !.beats = SubSeq(@, 1, i) \o SubSeq(@, i + 2, Len(@))] BY <1>1 DEF Without
  <2> QED BY <1>5, <2>1
<1>11. s \in Seq(Grid!Times) /\ Len(s) = L - 1 /\ Grid!Spaced(s) BY <1>3, <1>4, <1>6, DeleteKeepsApart
<1>12. i \in Nat /\ Grid!Indices(s) = 0..(L - 2) BY <1>4, <1>6, <1>11 DEF Grid!Indices
<1> HIDE DEF s
<1>13. g \in Grid!Editings /\ g.beats = s /\ g.anchors = st.anchors
  BY <1>1, <1>2, <1>11, EditingsAre DEF Rows
<1>14. h.bars \in Marks /\ h = [g EXCEPT !.bars = h.bars] /\ \A m \in h.bars : m.beat \in Grid!Indices(s)
  <2> HIDE DEF g
  <2> QED BY <1>12, <1>13, BarsShift
<1> DEFINE B == h.bars
<1>15. h = [q EXCEPT !.beats = s, !.bars = B] BY <1>14
<1> HIDE DEF h, B
<1>16. Grid!shiftAnchors(h, i, -1) = [h EXCEPT !.anchors = A]
  <2>1. h.anchors = st.anchors BY <1>1, <1>2, <1>15, EditingsAre
  <2> QED BY <2>1 DEF Grid!shiftAnchors
<1>17. A \ {i} \in Places /\ A \ {i} \subseteq Grid!Indices(s)
  <2>1. st.anchors \subseteq 0..(L - 1) BY <1>3, <1>4 DEF Grid!WellLaid
  <2>2. A \subseteq 0..(L - 2) BY <1>4, <1>6, <1>12, <2>1
  <2> HIDE DEF A
  <2> QED BY <1>4, <1>12, <2>2 DEF Places
<1> HIDE DEF A, g
<1>18. st' = DrawnAs(q, s, B, A \ {i})
  BY <1>2, <1>10, <1>15, <1>16, EditingsAre DEF DrawnAs
<1>19. s \in Rows /\ B \in Marks /\ Len(s) >= 2 /\ \A m \in B : m.beat \in Grid!Indices(s)
  BY <1>0, <1>4, <1>11, <1>14 DEF Rows, B
<1> QED BY <1>0, <1>11, <1>17, <1>18, <1>19, Redraws

(* The marks alone are drawn anew.                                          *)
LEMMA Remarks ==
  ASSUME Grid!GridAssumption, Grid!GridIInv, Grid!Act, NEW bars \in Marks,
         \A m \in bars : m.beat \in Grid!Indices(st.beats), st' = [Grid!pushUndo(st) EXCEPT !.bars = bars]
  PROVE Grid!GridIInv'
<1> DEFINE q == Grid!pushUndo(st)
<1>1. Grid!WellEdited(st) BY DEF Grid!GridIInv
<1>2. Grid!WellEdited(q) /\ q.beats = st.beats /\ q.anchors = st.anchors BY <1>1, Pushes
<1>3. q \in Grid!Editings BY <1>2, Edits
<1>4. st' = DrawnAs(q, st.beats, bars, st.anchors)
  <2>1. st' = [q EXCEPT !.bars = bars] OBVIOUS
  <2> HIDE DEF q
  <2> QED BY <1>2, <1>3, <2>1, EditingsAre DEF DrawnAs
<1>5. st.beats \in Rows /\ st.anchors \in Places /\ Grid!WellLaid(st) BY <1>1, Edits DEF Rows, Places
<1>6. Len(st.beats) >= 2 /\ Grid!Spaced(st.beats) /\ st.anchors \subseteq Grid!Indices(st.beats)
  BY <1>5 DEF Grid!WellLaid
<1> QED BY <1>4, <1>5, <1>6, Redraws

LEMMA MetersHere ==
  ASSUME Grid!GridAssumption, Grid!GridIInv, NEW i
  PROVE Grid!barLengthAt(st, i) \subseteq Grid!Meters /\ Grid!MarkAt(st, i) \subseteq st.bars
<1>1. st.bars \in SUBSET [beat : Nat, meter : Grid!Meters] BY Edits DEF Grid!GridIInv
<1>2. Grid!MarkAt(st, i) \subseteq st.bars BY DEF Grid!MarkAt
<1>3. 4 \in Grid!Meters BY DEF Grid!Meters
<1> QED BY <1>1, <1>2, <1>3 DEF Grid!barLengthAt

LEMMA GridBars ==
  ASSUME Grid!GridAssumption, Grid!GridIInv, Grid!toggleBar \/ Grid!setBarLengthAt PROVE Grid!GridIInv'
<1> DEFINE q == Grid!pushUndo(st)
<1>0. Grid!WellEdited(st) /\ Grid!Act BY DEF Grid!GridIInv, Grid!toggleBar, Grid!setBarLengthAt
<1>1. q.bars = st.bars BY <1>0, Pushes
<1>2. /\ st.bars \in SUBSET [beat : Nat, meter : Grid!Meters] /\ Len(st.beats) >= 2 /\ Len(st.beats) \in Nat
      /\ \A m \in st.bars : m.beat \in Grid!Indices(st.beats)
  <2>1. st.beats \in Rows /\ st.bars \in SUBSET [beat : Nat, meter : Grid!Meters] /\ Grid!WellLaid(st)
    BY <1>0, Edits DEF Rows
  <2>2. Len(st.beats) \in Nat BY <2>1 DEF Rows
  <2>3. Len(st.beats) >= 2 /\ \A m \in st.bars : m.beat \in Grid!Indices(st.beats) BY <2>1 DEF Grid!WellLaid
  <2> QED BY <2>1, <2>2, <2>3
<1>3. 0 \in Grid!Indices(st.beats) /\ Grid!Indices(st.beats) \subseteq Nat BY <1>2 DEF Grid!Indices
<1>4. \E bars : /\ st' = [q EXCEPT !.bars = bars]
                /\ bars \in Marks /\ \A m \in bars : m.beat \in Grid!Indices(st.beats)
  <2>1. CASE Grid!toggleBar
    <3>1. PICK i \in Grid!Indices(st.beats) :
            \/ \E m \in st.bars : st' = [q EXCEPT !.bars = @ \ {m}]
            \/ \E n \in Grid!barLengthAt(st, i) : st' = [q EXCEPT !.bars = @ \cup {[beat |-> i, meter |-> n]}]
      BY <2>1 DEF Grid!toggleBar
    <3>2. CASE \E m \in st.bars : st' = [q EXCEPT !.bars = @ \ {m}]
      <4>1. PICK m \in st.bars : st' = [q EXCEPT !.bars = @ \ {m}] BY <3>2
      <4> DEFINE B == st.bars \ {m}
      <4>2. st' = [q EXCEPT !.bars = B] BY <1>1, <4>1
      <4>3. B \in Marks /\ \A k \in B : k.beat \in Grid!Indices(st.beats) BY <1>2 DEF Marks
      <4> HIDE DEF B, q
      <4> QED BY <4>2, <4>3
    <3>3. CASE \E n \in Grid!barLengthAt(st, i) : st' = [q EXCEPT !.bars = @ \cup {[beat |-> i, meter |-> n]}]
      <4>1. PICK n \in Grid!barLengthAt(st, i) : st' = [q EXCEPT !.bars = @ \cup {[beat |-> i, meter |-> n]}] BY <3>3
      <4> DEFINE B == st.bars \cup {[beat |-> i, meter |-> n]}
      <4>2. st' = [q EXCEPT !.bars = B] BY <1>1, <4>1
      <4>3. n \in Grid!Meters BY <4>1, MetersHere
      <4>4. B \in Marks /\ \A k \in B : k.beat \in Grid!Indices(st.beats) BY <1>2, <1>3, <4>3 DEF Marks
      <4> HIDE DEF B, q
      <4> QED BY <4>2, <4>4
    <3> QED BY <3>1, <3>2, <3>3
  <2>2. CASE Grid!setBarLengthAt
    <3>1. PICK n \in Grid!Meters :
            \/ \E m \in Grid!MarkAt(st, 0) : st' = [q EXCEPT !.bars = (@ \ {m}) \cup {[m EXCEPT !.meter = n]}]
            \/ st' = [q EXCEPT !.bars = @ \cup {[beat |-> 0, meter |-> n]}]
      BY <2>2 DEF Grid!setBarLengthAt
    <3>2. CASE \E m \in Grid!MarkAt(st, 0) : st' = [q EXCEPT !.bars = (@ \ {m}) \cup {[m EXCEPT !.meter = n]}]
      <4>1. PICK m \in Grid!MarkAt(st, 0) : st' = [q EXCEPT !.bars = (@ \ {m}) \cup {[m EXCEPT !.meter = n]}] BY <3>2
      <4> DEFINE k == [m EXCEPT !.meter = n]
                 B == (st.bars \ {m}) \cup {k}
      <4>2. st' = [q EXCEPT !.bars = B] BY <1>1, <4>1
      <4>3. m \in st.bars BY MetersHere
      <4>4. m \in [beat : Nat, meter : Grid!Meters] /\ m.beat \in Grid!Indices(st.beats) BY <1>2, <4>3
      <4>5. k \in [beat : Nat, meter : Grid!Meters] /\ k.beat = m.beat BY <4>4
      <4> HIDE DEF k
      <4>6. B \in Marks /\ \A e \in B : e.beat \in Grid!Indices(st.beats) BY <1>2, <4>4, <4>5 DEF Marks
      <4> HIDE DEF B, q
      <4> QED BY <4>2, <4>6
    <3>3. CASE st' = [q EXCEPT !.bars = @ \cup {[beat |-> 0, meter |-> n]}]
      <4> DEFINE B == st.bars \cup {[beat |-> 0, meter |-> n]}
      <4>2. st' = [q EXCEPT !.bars = B] BY <1>1, <3>3
      <4>4. B \in Marks /\ \A k \in B : k.beat \in Grid!Indices(st.beats) BY <1>2, <1>3 DEF Marks
      <4> HIDE DEF B, q
      <4> QED BY <4>2, <4>4
    <3> QED BY <3>1, <3>2, <3>3
  <2> QED BY <2>1, <2>2
<1>5. PICK bars : /\ st' = [q EXCEPT !.bars = bars]
                  /\ bars \in Marks /\ \A m \in bars : m.beat \in Grid!Indices(st.beats)
  BY <1>4
<1> QED BY <1>0, <1>5, Remarks

(* Undo and redo exchange the layout for the last of a history.             *)
LEMMA Exchanged ==
  ASSUME NEW u \in Pasts, NEW r \in Pasts, NEW p \in Grid!Layouts, Len(u) + Len(r) <= 2, u # <<>>,
         Grid!WellLaid(p), \A n \in 1..Len(u) : Grid!WellLaid(u[n]), \A n \in 1..Len(r) : Grid!WellLaid(r[n]),
         NEW f, f = Grid!Front(u), NEW a, a = Append(r, p)
  PROVE /\ f \in Pasts /\ a \in Pasts /\ Len(f) + Len(a) <= 2
        /\ \A n \in 1..Len(f) : Grid!WellLaid(f[n])
        /\ \A n \in 1..Len(a) : Grid!WellLaid(a[n])
        /\ Grid!Last(u) \in Grid!Layouts /\ Grid!WellLaid(Grid!Last(u))
<1> DEFINE m == Len(u)
           k == Len(r)
<1>1. u \in Seq(Grid!Layouts) /\ r \in Seq(Grid!Layouts) BY DEF Pasts
<1>2. m \in Nat /\ k \in Nat /\ m >= 1 BY <1>1
<1>3. f \in Seq(Grid!Layouts) /\ Len(f) = m - 1 /\ \A n \in 1..(m - 1) : f[n] = u[n]
  <2> DEFINE S == Grid!Layouts
  <2>1. f = SubSeq(u, 1, m - 1) BY DEF Grid!Front
  <2>2. u \in Seq(S) /\ m = Len(u) BY <1>1
  <2> HIDE DEF m, S
  <2>3. 1 \in 1..(m + 1) /\ m - 1 \in 0..m BY <1>2
  <2>4. SubSeq(u, 1, m - 1) \in Seq(S) /\ Len(SubSeq(u, 1, m - 1)) = m - 1
        /\ \A n \in 1..(m - 1) : SubSeq(u, 1, m - 1)[n] = u[n]
    BY <1>2, <2>2, <2>3
  <2> QED BY <2>1, <2>4 DEF S
<1>4. a \in Seq(Grid!Layouts) /\ Len(a) = k + 1 /\ (\A n \in 1..k : a[n] = r[n]) /\ a[k + 1] = p
  BY <1>1, <1>2
<1>5. m + k <= 2 OBVIOUS
<1>6. u[m] \in Grid!Layouts /\ Grid!WellLaid(u[m]) BY <1>1, <1>2
<1>7. \A n \in 1..(m - 1) : n \in 1..m BY <1>2
<1>8. \A n \in 1..(k + 1) : n \in 1..k \/ n = k + 1 BY <1>2
<1>9. (\A n \in 1..m : Grid!WellLaid(u[n])) /\ \A n \in 1..k : Grid!WellLaid(r[n]) OBVIOUS
<1>10. Grid!Last(u) = u[m] BY DEF Grid!Last
<1> HIDE DEF m, k
<1>11. \A n \in 1..Len(f) : Grid!WellLaid(f[n]) BY <1>3, <1>7, <1>9
<1>12. \A n \in 1..Len(a) : Grid!WellLaid(a[n])
  <2>1. ASSUME NEW n \in 1..(k + 1) PROVE Grid!WellLaid(a[n])
    <3>1. CASE n \in 1..k BY <1>4, <1>9, <3>1
    <3>2. CASE n = k + 1 BY <1>4, <3>2
    <3> QED BY <1>8, <3>1, <3>2
  <2> QED BY <1>4, <2>1
<1>13. Len(f) + Len(a) <= 2 BY <1>2, <1>3, <1>4, <1>5
<1> QED BY <1>3, <1>4, <1>6, <1>10, <1>11, <1>12, <1>13 DEF Pasts

RestoredAs(g, s, undo, redo) ==
  [g EXCEPT !.beats = s.beats, !.bars = s.bars, !.anchors = s.anchors, !.undo = undo, !.redo = redo]
LEMMA Restores ==
  ASSUME Grid!GridAssumption, Grid!WellEdited(st), NEW s \in Grid!Layouts, Grid!WellLaid(s),
         NEW undo \in Pasts, NEW redo \in Pasts, Len(undo) + Len(redo) <= 2,
         \A n \in 1..Len(undo) : Grid!WellLaid(undo[n]), \A n \in 1..Len(redo) : Grid!WellLaid(redo[n]),
         NEW h, h = RestoredAs(st, s, undo, redo)
  PROVE Grid!WellEdited(h)
<1>1. st \in Grid!Editings BY Edits
<1>2. s.beats \in Rows /\ s.bars \in Marks /\ s.anchors \in Places
  <2>1. Grid!Layouts = [beats : Rows, bars : Marks, anchors : Places] BY DEF Grid!Layouts, Rows, Marks, Places
  <2> QED BY <2>1
<1>3. /\ h \in Grid!Editings /\ h.beats = s.beats /\ h.bars = s.bars /\ h.anchors = s.anchors
      /\ h.undo = undo /\ h.redo = redo
  BY <1>1, <1>2, EditingsAre DEF RestoredAs
<1>4. Grid!WellLaid(h) BY <1>3 DEF Grid!WellLaid
<1>5. DOMAIN undo = 1..Len(undo) /\ DOMAIN redo = 1..Len(redo) BY DEF Pasts
<1> QED BY <1>3, <1>4, <1>5 DEF Grid!WellEdited, Grid!UndoDepth

LEMMA GridUndone ==
  ASSUME Grid!GridAssumption, Grid!GridIInv, Grid!undoBeatGrid \/ Grid!redoBeatGrid PROVE Grid!GridIInv'
<1> DEFINE p == Grid!snapshot(st)
<1>0. Grid!WellEdited(st) /\ acts' \in 0..GridActs
  BY GridActCounts DEF Grid!GridIInv, Grid!undoBeatGrid, Grid!redoBeatGrid
<1>1. p \in Grid!Layouts /\ Grid!WellLaid(p) BY <1>0, Pictured
<1>2. /\ st \in Grid!Editings /\ st.undo \in Pasts /\ st.redo \in Pasts /\ Len(st.undo) + Len(st.redo) <= 2
      /\ \A n \in 1..Len(st.undo) : Grid!WellLaid(st.undo[n])
      /\ \A n \in 1..Len(st.redo) : Grid!WellLaid(st.redo[n])
  BY <1>0, Edits DEF Pasts
<1>3. Len(st.redo) + Len(st.undo) <= 2
  <2> DEFINE m == Len(st.undo)
             k == Len(st.redo)
  <2>1. st.undo \in Seq(Grid!Layouts) /\ st.redo \in Seq(Grid!Layouts) BY <1>2 DEF Pasts
  <2>2. m \in Nat /\ k \in Nat BY <2>1
  <2>3. m + k <= 2 BY <1>2
  <2> HIDE DEF m, k
  <2>4. k + m <= 2 BY <2>2, <2>3
  <2> QED BY <2>4 DEF m, k
<1>4. CASE Grid!undoBeatGrid
  <2> DEFINE s == Grid!Last(st.undo)
             f == Grid!Front(st.undo)
             a == Append(st.redo, p)
  <2>1. st.undo # <<>> BY <1>4 DEF Grid!undoBeatGrid
  <2>2. /\ f \in Pasts /\ a \in Pasts /\ Len(f) + Len(a) <= 2
        /\ \A n \in 1..Len(f) : Grid!WellLaid(f[n])
        /\ \A n \in 1..Len(a) : Grid!WellLaid(a[n])
        /\ s \in Grid!Layouts /\ Grid!WellLaid(s)
    <3> HIDE DEF p
    <3> QED BY <1>1, <1>2, <2>1, Exchanged
  <2>3. st' = [Grid!restored(st, s) EXCEPT !.undo = Grid!Front(@), !.redo = Append(@, p)]
    BY <1>4 DEF Grid!undoBeatGrid
  <2> HIDE DEF p, s
  <2>4. st' = RestoredAs(st, s, f, a) BY <1>2, <2>3, EditingsAre DEF Grid!restored, RestoredAs
  <2> HIDE DEF f, a
  <2>5. Grid!WellEdited(st') BY <1>0, <2>2, <2>4, Restores
  <2> QED BY <1>0, <2>5 DEF Grid!GridIInv
<1>5. CASE Grid!redoBeatGrid
  <2> DEFINE s == Grid!Last(st.redo)
             f == Grid!Front(st.redo)
             a == Append(st.undo, p)
  <2>1. st.redo # <<>> BY <1>5 DEF Grid!redoBeatGrid
  <2>2. /\ f \in Pasts /\ a \in Pasts /\ Len(f) + Len(a) <= 2
        /\ \A n \in 1..Len(f) : Grid!WellLaid(f[n])
        /\ \A n \in 1..Len(a) : Grid!WellLaid(a[n])
        /\ s \in Grid!Layouts /\ Grid!WellLaid(s)
    <3> HIDE DEF p
    <3> QED BY <1>1, <1>2, <1>3, <2>1, Exchanged
  <2>3. st' = [Grid!restored(st, s) EXCEPT !.redo = Grid!Front(@), !.undo = Append(@, p)]
    BY <1>5 DEF Grid!redoBeatGrid
  <2> HIDE DEF p, s
  <2>4. st' = RestoredAs(st, s, a, f) BY <1>2, <2>3, EditingsAre DEF Grid!restored, RestoredAs
  <2>6. Len(a) + Len(f) <= 2
    <3> HIDE DEF f, a
    <3> DEFINE m == Len(f)
               k == Len(a)
    <3>1. k \in Nat /\ m \in Nat /\ m + k <= 2 BY <2>2 DEF Pasts
    <3> HIDE DEF m, k
    <3>2. k + m <= 2 BY <3>1
    <3> QED BY <3>2 DEF m, k
  <2> HIDE DEF f, a
  <2>5. Grid!WellEdited(st') BY <1>0, <2>2, <2>4, <2>6, Restores
  <2> QED BY <1>0, <2>5 DEF Grid!GridIInv
<1> QED BY <1>4, <1>5

LEMMA GridSteps ==
  ASSUME Grid!GridAssumption, Grid!GridIInv, Grid!GridNext PROVE Grid!GridIInv'
BY GridTaken, GridMoved, GridLetGo, GridInserts, GridDeletes, GridBars, GridUndone DEF Grid!GridNext

LEMMA GridKeeps ==
  ASSUME Grid!GridAssumption, Grid!GridIInv
  PROVE Grid!GridTypeOK /\ Grid!BeatsStayInOrder /\ Grid!MarksStandOnBeats
<1>0. Grid!WellEdited(st) /\ acts \in 0..GridActs BY DEF Grid!GridIInv
<1> DEFINE m == Len(st.undo)
           k == Len(st.redo)
<1>1. st.undo \in Seq(Grid!Layouts) /\ st.redo \in Seq(Grid!Layouts) /\ m + k <= 2 BY <1>0, Edits
<1>2. m \in Nat /\ k \in Nat BY <1>1
<1>3. m <= 2 /\ k <= 2
  <2> HIDE DEF m, k
  <2> QED BY <1>1, <1>2
<1>4. /\ st.beats \in Seq(Grid!Times) /\ st.anchors \subseteq Nat /\ st.drag \in Nat \cup {-1} /\ st.single \in BOOLEAN
      /\ st.bars \in SUBSET [beat : Nat, meter : Grid!Meters]
  BY <1>0, Edits
<1>5. Grid!WellLaid(st) BY <1>0, Edits
<1>6. Grid!GridTypeOK BY <1>0, <1>3, <1>4 DEF Grid!GridTypeOK, Grid!UndoDepth
<1>7. Grid!BeatsStayInOrder BY <1>4, <1>5 DEF Grid!BeatsStayInOrder, Grid!WellLaid
<1>8. Grid!MarksStandOnBeats BY <1>5 DEF Grid!MarksStandOnBeats, Grid!WellLaid
<1> QED BY <1>6, <1>7, <1>8

LEMMA GridDragsKeep ==
  ASSUME Grid!GridAssumption, Grid!GridIInv, Grid!GridNext PROVE Grid!AnchorsHold
<1>1. CASE Grid!pointerMove BY <1>1, GridMoved DEF Grid!AnchorsHold
<1>2. CASE Grid!pointerUp
  <2>1. st \in Grid!Editings BY Edits DEF Grid!GridIInv
  <2>2. st'.drag = -1 BY <1>2, <2>1, EditingsAre DEF Grid!pointerUp
  <2> QED BY <2>2 DEF Grid!AnchorsHold
<1>3. CASE acts' # acts BY <1>3 DEF Grid!AnchorsHold
<1>4. Grid!pointerMove \/ Grid!pointerUp \/ acts' # acts
  <2>1. ASSUME Grid!Act PROVE acts' # acts BY <2>1 DEF Grid!Act, Grid!GridIInv
  <2> QED BY <2>1 DEF Grid!GridNext, Grid!pointerDown, Grid!insertBeat, Grid!deleteBeat, Grid!toggleBar,
       Grid!setBarLengthAt, Grid!undoBeatGrid, Grid!redoBeatGrid
<1> QED BY <1>1, <1>2, <1>3, <1>4

(* ------------------------------ the ribbon ----------------------------- *)
LEMMA RibbonNumbers ==
  ASSUME Ribbon!SectionsAssumption
  PROVE /\ TrackLength \in Nat /\ ShortestSection \in Nat /\ ShortestSection >= 1 /\ ShortestSection <= TrackLength
        /\ NewSection \in Nat /\ SectionIds \in Nat /\ RibbonActs \in Nat
        /\ Ribbon!Times = 0..TrackLength /\ Ribbon!Times \subseteq Nat /\ \A t \in Ribbon!Times : t <= TrackLength
        /\ Ribbon!None \notin Edited
BY DEF Ribbon!SectionsAssumption, Ribbon!Times

LEMMA RibbonCounts == ASSUME NEW S PROVE Ribbon!Cardinality(S) = Cardinality(S)
BY DEF Ribbon!Cardinality, Cardinality

LEMMA RibbonLeast == ASSUME NEW T \in SUBSET Nat, T # {}
                     PROVE Ribbon!Least(T) \in T /\ \A k \in T : Ribbon!Least(T) <= k
BY LeastOfNat DEF Ribbon!Least

LEMMA RibbonMost == ASSUME NEW T \in SUBSET Nat, T # {}, NEW n \in Nat, \A k \in T : k <= n
                    PROVE Ribbon!Most(T) \in T /\ \A k \in T : Ribbon!Most(T) >= k
<1>1. PICK m \in T : \A k \in T : m >= k BY MostOfNat
<1> QED BY <1>1 DEF Ribbon!Most

(* Downbeats are finitely many, and so are those that satisfy a condition.  *)
LEMMA DownbeatsCount ==
  ASSUME Ribbon!SectionsAssumption, NEW beats \in SUBSET Ribbon!Times, NEW D \in SUBSET beats
  PROVE IsFiniteSet(D) /\ Cardinality(D) \in Nat
<1>1. IsFiniteSet(0..TrackLength)
  <2>1. 0 \in Int /\ TrackLength \in Int BY RibbonNumbers
  <2> QED BY <2>1, FS_Interval, Zenon
<1>2. D \subseteq 0..TrackLength BY RibbonNumbers
<1>3. IsFiniteSet(D) BY <1>1, <1>2, FS_Subset
<1> QED BY <1>3, FS_CardinalityType

LEMMA FloorBarCounts ==
  ASSUME Ribbon!SectionsAssumption, NEW beats \in SUBSET Ribbon!Times, NEW t
  PROVE Ribbon!floorBar(beats, t) \in Nat /\ Ribbon!barBefore(beats, t) \in Nat
<1> DEFINE A == {b \in beats : b <= t}
           B == {b \in beats : b < t}
<1>1. Cardinality(A) \in Nat /\ Cardinality(B) \in Nat BY DownbeatsCount
<1>2. Ribbon!Cardinality(A) = Cardinality(A) /\ Ribbon!Cardinality(B) = Cardinality(B) BY RibbonCounts
<1>3. Ribbon!floorBar(beats, t) = Ribbon!MaxOf(1, Ribbon!Cardinality(A)) BY DEF Ribbon!floorBar
<1>4. Ribbon!barBefore(beats, t) = Ribbon!MaxOf(1, Ribbon!Cardinality(B)) BY DEF Ribbon!barBefore
<1> HIDE DEF A, B
<1> QED BY <1>1, <1>2, <1>3, <1>4 DEF Ribbon!MaxOf

LEMMA BarsAreNumbers ==
  ASSUME Ribbon!SectionsAssumption, NEW beats \in SUBSET Ribbon!Times, NEW a, NEW e
  PROVE Ribbon!barRangeForTime(beats, a, e) \in [lo : Nat, hi : Nat]
<1> DEFINE f == Ribbon!floorBar(beats, a)
           g == Ribbon!barBefore(beats, e)
<1>1. f \in Nat /\ g \in Nat BY FloorBarCounts
<1>2. Ribbon!barRangeForTime(beats, a, e) = IF Ribbon!Cardinality(beats) < 2 THEN [lo |-> 0, hi |-> 0]
                             ELSE [lo |-> f, hi |-> Ribbon!MaxOf(f, g)]
  BY DEF Ribbon!barRangeForTime
<1> HIDE DEF f, g
<1>3. Ribbon!MaxOf(f, g) \in Nat BY <1>1 DEF Ribbon!MaxOf
<1> QED BY <1>1, <1>2, <1>3

(* A section that ends on a downbeat does not claim the bar that begins     *)
(* there, unless it begins before the first one.                            *)
LEMMA BarsDoNotMeet ==
  ASSUME Ribbon!SectionsAssumption, NEW beats \in SUBSET Ribbon!Times, NEW a \in Ribbon!Times, NEW e \in Ribbon!Times, a < e,
         e \in beats, NEW d \in beats, d <= a, NEW f
  PROVE Ribbon!barRangeForTime(beats, a, e).hi <= Ribbon!barRangeForTime(beats, e, f).lo - 1
<1> DEFINE D == beats
           A == {b \in D : b <= a}
           B == {b \in D : b < e}
           C == {b \in D : b <= e}
<1>0. D \subseteq Nat /\ a \in Nat /\ e \in Nat BY RibbonNumbers DEF Ribbon!SectionsAssumption
<1>1. /\ IsFiniteSet(A) /\ IsFiniteSet(B) /\ IsFiniteSet(C) /\ IsFiniteSet(D)
      /\ Cardinality(A) \in Nat /\ Cardinality(B) \in Nat /\ Cardinality(C) \in Nat /\ Cardinality(D) \in Nat
  BY DownbeatsCount
<1>2. C = B \cup {e} /\ e \notin B
  <2>1. \A b \in D : b \in Nat BY <1>0
  <2>2. \A b \in D : (b <= e) = (b < e \/ b = e) BY <1>0, <2>1
  <2>3. ~(e < e) BY <1>0
  <2> QED BY <2>2, <2>3
<1>3. Cardinality(C) = Cardinality(B) + 1
  <2> HIDE DEF A, B, C, D
  <2> QED BY <1>1, <1>2, FS_AddElement
<1>4. Cardinality(A) <= Cardinality(B)
  <2>1. \A b \in D : b \in Nat BY <1>0
  <2>2. \A b \in D : b <= a => b < e BY <1>0, <2>1
  <2>3. A \subseteq B BY <2>2
  <2> HIDE DEF A, B
  <2> QED BY <1>1, <2>3, FS_Subset
<1>5. Cardinality(C) <= Cardinality(D)
  <2>1. C \subseteq D OBVIOUS
  <2> HIDE DEF C, D
  <2> QED BY <1>1, <2>1, FS_Subset
<1>6. Cardinality(A) # 0
  <2>1. d \in A OBVIOUS
  <2> HIDE DEF A
  <2> QED BY <1>1, <2>1, FS_EmptySet
<1>7. Ribbon!floorBar(D, a) = Ribbon!MaxOf(1, Cardinality(A)) BY RibbonCounts DEF Ribbon!floorBar
<1>8. Ribbon!floorBar(D, e) = Ribbon!MaxOf(1, Cardinality(C)) BY RibbonCounts DEF Ribbon!floorBar
<1>9. Ribbon!barBefore(D, e) = Ribbon!MaxOf(1, Cardinality(B)) BY RibbonCounts DEF Ribbon!barBefore
<1>10. Ribbon!Cardinality(D) = Cardinality(D) BY RibbonCounts
<1>11. /\ Ribbon!barRangeForTime(beats, a, e) = IF Ribbon!Cardinality(D) < 2 THEN [lo |-> 0, hi |-> 0]
                                 ELSE [lo |-> Ribbon!floorBar(D, a),
                                       hi |-> Ribbon!MaxOf(Ribbon!floorBar(D, a), Ribbon!barBefore(D, e))]
       /\ Ribbon!barRangeForTime(beats, e, f) = IF Ribbon!Cardinality(D) < 2 THEN [lo |-> 0, hi |-> 0]
                                 ELSE [lo |-> Ribbon!floorBar(D, e),
                                       hi |-> Ribbon!MaxOf(Ribbon!floorBar(D, e), Ribbon!barBefore(D, f))]
  BY DEF Ribbon!barRangeForTime
<1> DEFINE ca == Cardinality(A)
           cb == Cardinality(B)
           cc == Cardinality(C)
           cd == Cardinality(D)
<1>12. ca \in Nat /\ cb \in Nat /\ cc \in Nat /\ cd \in Nat /\ cc = cb + 1 /\ ca <= cb /\ cc <= cd /\ ca # 0
  BY <1>1, <1>3, <1>4, <1>5, <1>6
<1>13. ~(Ribbon!Cardinality(D) < 2) BY <1>10, <1>12
<1>14. Ribbon!barRangeForTime(beats, a, e).hi = Ribbon!MaxOf(Ribbon!MaxOf(1, ca), Ribbon!MaxOf(1, cb))
  BY <1>7, <1>9, <1>11, <1>13
<1>15. Ribbon!barRangeForTime(beats, e, f).lo = Ribbon!MaxOf(1, cc) BY <1>8, <1>11, <1>13
<1> HIDE DEF ca, cb, cc, cd
<1> QED BY <1>12, <1>14, <1>15 DEF Ribbon!MaxOf

(* -------------------------------- lists -------------------------------- *)
Sections == [id : 1..SectionIds, start : Ribbon!Times, end : Ribbon!Times, bars : [lo : Nat, hi : Nat],
             by : SUBSET Ribbon!Times]
Timed(x, a, e) == [x EXCEPT !.start = a, !.end = e]

LEMMA SectionsAre == Ribbon!Section = Sections BY DEF Ribbon!Section, Sections

LEMMA TimedIs ==
  ASSUME NEW x \in Sections, NEW a \in Ribbon!Times, NEW e \in Ribbon!Times, NEW y, y = Timed(x, a, e)
  PROVE /\ y \in Sections /\ y.id = x.id /\ y.start = a /\ y.end = e /\ y.bars = x.bars /\ y.by = x.by
        /\ (a = x.start /\ e = x.end => y = x)
BY DEF Timed, Sections

LEMMA TimedTwice ==
  ASSUME NEW x \in Sections, NEW a \in Ribbon!Times, NEW e \in Ribbon!Times, NEW c \in Ribbon!Times, NEW f \in Ribbon!Times
  PROVE Timed(Timed(x, a, e), c, f) = Timed(x, c, f)
BY DEF Timed, Sections

LEMMA ListsAre ==
  ASSUME NEW S
  PROVE S \in Ribbon!Lists <=> /\ S \subseteq Sections /\ \A x \in S : x.start <= x.end
                               /\ \A x, y \in S : x.id = y.id => x = y
BY SectionsAre DEF Ribbon!Lists

LEMMA FewerListed == ASSUME NEW S \in Ribbon!Lists, NEW T \in SUBSET S PROVE T \in Ribbon!Lists
BY ListsAre

LEMMA OneMoreListed ==
  ASSUME NEW S \in Ribbon!Lists, NEW x \in Sections, x.start <= x.end, \A y \in S : y.id # x.id
  PROVE S \cup {x} \in Ribbon!Lists
BY ListsAre

LEMMA PutListed ==
  ASSUME NEW S \in Ribbon!Lists, NEW x \in Sections, x.start <= x.end
  PROVE {y \in S : y.id # x.id} \cup {x} \in Ribbon!Lists
<1> DEFINE T == {y \in S : y.id # x.id}
<1>1. T \in Ribbon!Lists BY FewerListed
<1>2. \A y \in T : y.id # x.id OBVIOUS
<1> HIDE DEF T
<1>3. T \cup {x} \in Ribbon!Lists BY <1>1, <1>2, OneMoreListed
<1> QED BY <1>3 DEF T

LEMMA PutTwice ==
  ASSUME NEW S \in Ribbon!Lists, NEW x \in Sections, NEW y \in Sections, x.id = y.id,
         NEW T, T = {z \in S : z.id # x.id} \cup {x}
  PROVE {z \in T : z.id # x.id} = {z \in S : z.id # x.id}
OBVIOUS

(* ------------------------------ the requests ---------------------------- *)
LEMMA Joins ==
  ASSUME NEW c \in Seq(Ribbon!Saves), NEW m \in Ribbon!Saves, NEW kept, NEW j, NEW list
  PROVE /\ m.of = j => Ribbon!Arrives(Append(c, m), kept, j, m.secs)
        /\ m.of # j /\ Ribbon!Arrives(c, kept, j, list) => Ribbon!Arrives(Append(c, m), kept, j, list)
<1> DEFINE L == Len(c)
           d == Append(c, m)
<1>1. L \in Nat /\ DOMAIN c = 1..L /\ DOMAIN d = 1..(L + 1) /\ d[L + 1] = m /\ \A n \in 1..L : d[n] = c[n]
  OBVIOUS
<1> HIDE DEF L, d
<1>2. \A n \in 1..(L + 1) : n \in 1..L \/ n = L + 1 BY <1>1
<1>3. L + 1 \in 1..(L + 1) /\ ~ \E n \in 1..(L + 1) : n > L + 1 BY <1>1
<1>4. m.of = j => Ribbon!Arrives(d, kept, j, m.secs) BY <1>1, <1>3 DEF Ribbon!Arrives
<1>5. ASSUME m.of # j, Ribbon!Arrives(c, kept, j, list) PROVE Ribbon!Arrives(d, kept, j, list)
  <2>1. CASE kept = list /\ \A n \in DOMAIN c : c[n].of # j
    <3>1. \A n \in 1..(L + 1) : d[n].of # j BY <1>1, <1>2, <1>5, <2>1
    <3> QED BY <1>1, <2>1, <3>1 DEF Ribbon!Arrives
  <2>2. CASE \E n \in DOMAIN c : /\ c[n].of = j /\ c[n].secs = list
                                 /\ \A k \in DOMAIN c : k > n => c[k].of # j
    <3>1. PICK n \in 1..L : /\ c[n].of = j /\ c[n].secs = list
                            /\ \A k \in 1..L : k > n => c[k].of # j BY <1>1, <2>2
    <3>2. n \in 1..(L + 1) /\ d[n] = c[n] BY <1>1
    <3>3. \A k \in 1..(L + 1) : k > n => d[k].of # j BY <1>1, <1>2, <1>5, <3>1
    <3> QED BY <1>1, <3>1, <3>2, <3>3 DEF Ribbon!Arrives
  <2> QED BY <1>5, <2>1, <2>2 DEF Ribbon!Arrives
<1> QED BY <1>4, <1>5 DEF d

LEMMA Answers ==
  ASSUME NEW c \in Seq(Ribbon!Saves), c # <<>>, NEW kept, NEW j, NEW list, Ribbon!Arrives(c, kept, j, list),
         NEW h, h = Head(c)
  PROVE Ribbon!Arrives(Tail(c), IF h.of = j THEN h.secs ELSE kept, j, list)
<1> DEFINE L == Len(c)
           d == Tail(c)
<1>1. /\ L \in Nat /\ L >= 1 /\ DOMAIN c = 1..L /\ DOMAIN d = 1..(L - 1) /\ c[1] = h
      /\ \A n \in 1..(L - 1) : d[n] = c[n + 1]
  OBVIOUS
<1> HIDE DEF L, d
<1>2. \A n \in 1..(L - 1) : n + 1 \in 1..L BY <1>1
<1>3. \A n \in 1..L : n = 1 \/ (n - 1 \in 1..(L - 1) /\ (n - 1) + 1 = n) BY <1>1
<1>4. CASE kept = list /\ \A n \in DOMAIN c : c[n].of # j
  <2>1. h.of # j BY <1>1, <1>4
  <2>2. \A n \in 1..(L - 1) : d[n].of # j BY <1>1, <1>2, <1>4
  <2> QED BY <1>1, <1>4, <2>1, <2>2 DEF Ribbon!Arrives, d
<1>5. CASE \E n \in DOMAIN c : /\ c[n].of = j /\ c[n].secs = list
                               /\ \A k \in DOMAIN c : k > n => c[k].of # j
  <2>1. PICK n \in 1..L : /\ c[n].of = j /\ c[n].secs = list
                          /\ \A k \in 1..L : k > n => c[k].of # j BY <1>1, <1>5
  <2>2. CASE n = 1
    <3>1. \A k \in 1..(L - 1) : k + 1 > n BY <2>2
    <3>2. \A k \in 1..(L - 1) : d[k].of # j BY <1>1, <1>2, <2>1, <3>1
    <3> QED BY <1>1, <2>1, <2>2, <3>2 DEF Ribbon!Arrives, d
  <2>3. CASE n # 1
    <3>1. n - 1 \in 1..(L - 1) /\ d[n - 1] = c[n] BY <1>1, <1>3, <2>3
    <3>2. \A k \in 1..(L - 1) : k > n - 1 => k + 1 > n BY <1>1
    <3>3. \A k \in 1..(L - 1) : k > n - 1 => d[k].of # j BY <1>1, <1>2, <2>1, <3>2
    <3> QED BY <1>1, <2>1, <3>1, <3>3 DEF Ribbon!Arrives, d
  <2> QED BY <2>2, <2>3
<1> QED BY <1>4, <1>5 DEF Ribbon!Arrives

(* --------------------------- pushed out of others ----------------------- *)
Beside(o, at, width, desired) ==
  IF ~(at < o.end /\ at + width > o.start) THEN at
  ELSE IF Ribbon!Dist(desired, o.start - width) < Ribbon!Dist(desired, o.end) THEN Ribbon!MaxOf(0, o.start - width)
  ELSE Ribbon!MinOf(TrackLength - width, o.end)
Passed(others, n, at, width, desired) ==
  IF \E x \in others : x.id = n THEN Beside(CHOOSE x \in others : x.id = n, at, width, desired) ELSE at
Passes(g, others, start, width, desired, k) ==
  g = [n \in 0..k |-> IF n = 0 THEN start ELSE Passed(others, n, g[n - 1], width, desired)]

LEMMA PassesDefined ==
  ASSUME NEW others, NEW start, NEW width, NEW desired, SectionIds \in Nat
  PROVE \E g : /\ Passes(g, others, start, width, desired, SectionIds)
               /\ Ribbon!PushedOut(others, start, width, desired) = g[SectionIds]
<1> DEFINE T(n, at) == Passed(others, n, at, width, desired)
           G(g, k) == g = [n \in 0..k |-> IF n = 0 THEN start ELSE T(n, g[n - 1])]
           Bad == {k \in Nat : ~ \E g : G(g, k)}
<1>1. \E g : G(g, SectionIds)
  <2>0. SUFFICES ASSUME Bad # {} PROVE FALSE
    <3> HIDE DEF G
    <3> QED OBVIOUS
  <2>1. PICK k \in Bad : \A j \in Bad : k <= j BY <2>0, LeastOfNat
  <2> HIDE DEF T
  <2>2. k # 0
    <3>1. G([n \in 0..0 |-> start], 0) OBVIOUS
    <3> QED BY <3>1
  <2>3. k - 1 \in Nat /\ k - 1 \notin Bad
    <3> HIDE DEF G
    <3>1. k \in Nat OBVIOUS
    <3> HIDE DEF Bad
    <3> QED BY <2>1, <2>2, <3>1
  <2>4. PICK g : G(g, k - 1) BY <2>3
  <2> DEFINE h == [n \in 0..k |-> IF n = k THEN T(k, g[k - 1]) ELSE g[n]]
  <2>5. G(h, k)
    <3>1. ASSUME NEW n \in 0..k PROVE h[n] = IF n = 0 THEN start ELSE T(n, h[n - 1])
      <4>1. CASE n = k BY <4>1, <2>2, <2>3
      <4>2. CASE n # k
        <5>1. n \in 0..(k - 1) BY <4>2, <2>1
        <5>2. h[n] = g[n] BY <4>2
        <5>3. n # 0 => h[n - 1] = g[n - 1] BY <5>1, <2>3
        <5>4. g[n] = IF n = 0 THEN start ELSE T(n, g[n - 1]) BY <5>1, <2>4
        <5> QED BY <5>2, <5>3, <5>4
      <4> QED BY <4>1, <4>2
    <3> HIDE DEF T
    <3> QED BY <3>1
  <2> QED BY <2>5
<1> DEFINE c == CHOOSE g : G(g, SectionIds)
<1>2. G(c, SectionIds) BY <1>1
<1>3. Ribbon!PushedOut(others, start, width, desired) = c[SectionIds]
  BY DEF Ribbon!PushedOut, Passed, Beside
<1> HIDE DEF c
<1>4. Passes(c, others, start, width, desired, SectionIds) BY <1>2 DEF Passes
<1> QED BY <1>3, <1>4

(* Wherever a moved section lands, it lies within the track.                *)
LEMMA StaysWithin ==
  ASSUME Ribbon!SectionsAssumption, NEW others \in SUBSET Sections, NEW width \in 0..TrackLength,
         NEW start \in 0..(TrackLength - width), NEW desired \in Int
  PROVE Ribbon!PushedOut(others, start, width, desired) \in 0..(TrackLength - width)
<1> DEFINE Fits == 0..(TrackLength - width)
<1>0. TrackLength \in Nat /\ SectionIds \in Nat /\ width \in Nat /\ width <= TrackLength BY RibbonNumbers
<1>1. ASSUME NEW at \in Fits, NEW n PROVE Passed(others, n, at, width, desired) \in Fits
  <2>1. ASSUME NEW o \in Sections PROVE Beside(o, at, width, desired) \in Fits
    <3>1. o.start \in Nat /\ o.end \in Nat /\ o.start <= TrackLength /\ o.end <= TrackLength
      BY RibbonNumbers DEF Sections
    <3>2. Ribbon!MaxOf(0, o.start - width) \in Fits BY <1>0, <3>1 DEF Ribbon!MaxOf
    <3>3. Ribbon!MinOf(TrackLength - width, o.end) \in Fits BY <1>0, <3>1 DEF Ribbon!MinOf
    <3> HIDE DEF Fits
    <3> QED BY <3>2, <3>3 DEF Beside
  <2>2. CASE \E x \in others : x.id = n
    <3>1. (CHOOSE x \in others : x.id = n) \in Sections BY <2>2
    <3> HIDE DEF Fits
    <3> QED BY <2>1, <2>2, <3>1 DEF Passed
  <2>3. CASE ~ \E x \in others : x.id = n BY <2>3 DEF Passed
  <2> QED BY <2>2, <2>3
<1>2. PICK g : /\ Passes(g, others, start, width, desired, SectionIds)
               /\ Ribbon!PushedOut(others, start, width, desired) = g[SectionIds]
  BY <1>0, PassesDefined
<1>3. \A n \in 0..SectionIds : g[n] = IF n = 0 THEN start ELSE Passed(others, n, g[n - 1], width, desired)
  BY <1>2 DEF Passes
<1> DEFINE Bad == {n \in 0..SectionIds : g[n] \notin Fits}
<1>4. Bad = {}
  <2> HIDE DEF Fits
  <2>0. SUFFICES ASSUME Bad # {} PROVE FALSE OBVIOUS
  <2>1. Bad \in SUBSET Nat BY <1>0
  <2>2. PICK n \in Bad : \A k \in Bad : n <= k
    <3> HIDE DEF Bad
    <3> QED BY <2>0, <2>1, LeastOfNat
  <2>3. start \in Fits BY DEF Fits
  <2>4. n # 0 BY <1>3, <2>3
  <2>5. n - 1 \in 0..SectionIds /\ n - 1 \notin Bad
    <3>1. n \in 0..SectionIds BY <1>0
    <3>2. n - 1 \in 0..SectionIds /\ ~(n <= n - 1) BY <1>0, <2>4, <3>1
    <3> HIDE DEF Bad
    <3> QED BY <2>2, <3>2
  <2>6. g[n - 1] \in Fits BY <2>5
  <2>7. g[n] = Passed(others, n, g[n - 1], width, desired) BY <1>3, <2>4
  <2> QED BY <1>1, <2>6, <2>7
<1>5. SectionIds \in 0..SectionIds BY <1>0
<1> HIDE DEF Fits
<1> QED BY <1>2, <1>4, <1>5 DEF Fits

(* ------------------------------ its states ------------------------------ *)
OneOf == Edited \cup {Ribbon!None}
Lists == Ribbon!Lists
Drags == {Ribbon!Idle} \cup Ribbon!Gestures
Sent == Seq(Ribbon!Saves)
Tracked == [Edited -> Ribbon!Lists]
Readings == {Ribbon!NotRead} \cup Ribbon!Lists
Beats == SUBSET Ribbon!Times
Missing == SUBSET Edited

LEMMA RibbonsAre ==
  Ribbon!Ribbons =
    [track : OneOf, secs : Lists, drag : Drags, timer : BOOLEAN, chain : Sent, server : Tracked, want : Tracked,
     opening : OneOf, read : Readings, armed : BOOLEAN, beats : Beats, missed : Missing, torn : BOOLEAN]
BY DEF Ribbon!Ribbons, OneOf, Lists, Drags, Sent, Tracked, Readings, Beats, Missing

LEMMA RibbonHas ==
  ASSUME NEW s \in Ribbon!Ribbons
  PROVE /\ s.track \in Edited \cup {Ribbon!None} /\ s.secs \in Ribbon!Lists /\ s.drag \in {Ribbon!Idle} \cup Ribbon!Gestures
        /\ s.timer \in BOOLEAN /\ s.chain \in Seq(Ribbon!Saves) /\ s.server \in [Edited -> Ribbon!Lists]
        /\ s.want \in [Edited -> Ribbon!Lists] /\ s.opening \in Edited \cup {Ribbon!None}
        /\ s.read \in {Ribbon!NotRead} \cup Ribbon!Lists /\ s.armed \in BOOLEAN
        /\ s.beats \in SUBSET Ribbon!Times /\ s.missed \in SUBSET Edited /\ s.torn \in BOOLEAN
BY DEF Ribbon!Ribbons

LEMMA GesturesAre ==
  /\ Ribbon!Idle \notin Ribbon!Gestures
  /\ \A d \in Ribbon!Gestures : /\ d.kind \in {"move", "left", "right"} /\ d.id \in 1..SectionIds
                                /\ d.start \in Ribbon!Times /\ d.end \in Ribbon!Times /\ d.changed \in BOOLEAN
BY DEF Ribbon!Idle, Ribbon!None, Ribbon!Gestures

LEMMA Taken ==
  ASSUME NEW s, s.secs \in Ribbon!Lists, NEW x \in s.secs, NEW id, x.id = id
  PROVE Ribbon!Get(s, id) = x
BY ListsAre DEF Ribbon!Get

LEMMA SameRibbon ==
  ASSUME NEW s, NEW t, s.track = t.track, s.secs = t.secs, s.drag = t.drag, s.timer = t.timer,
         s.chain = t.chain, s.server = t.server, s.want = t.want, s.missed \subseteq t.missed
  PROVE /\ Ribbon!OnTheRibbon(s) => Ribbon!OnTheRibbon(t)
        /\ Ribbon!Wanted(s) => Ribbon!Wanted(t)
        /\ Ribbon!OnItsWay(s) => Ribbon!OnItsWay(t)
<1>1. \A id : Ribbon!Get(s, id) = Ribbon!Get(t, id) /\ Ribbon!Others(s, id) = Ribbon!Others(t, id)
  BY DEF Ribbon!Get, Ribbon!Others
<1>2. Ribbon!AsGrabbed(s) = Ribbon!AsGrabbed(t) BY <1>1 DEF Ribbon!AsGrabbed
<1>3. \A j : Ribbon!HeldBack(s, j) <=> Ribbon!HeldBack(t, j) BY DEF Ribbon!HeldBack, Ribbon!Moving
<1>4. Ribbon!OnTheRibbon(s) => Ribbon!OnTheRibbon(t) BY <1>1 DEF Ribbon!OnTheRibbon
<1>5. Ribbon!Wanted(s) => Ribbon!Wanted(t) BY <1>2 DEF Ribbon!Wanted
<1>6. Ribbon!OnItsWay(s) => Ribbon!OnItsWay(t) BY <1>3 DEF Ribbon!OnItsWay
<1> QED BY <1>4, <1>5, <1>6

(* While nothing is dragged, the ribbon shown is the one wanted.            *)
LEMMA IdleRibbon ==
  ASSUME NEW s \in Ribbon!Ribbons, s.drag = Ribbon!Idle, Ribbon!Wanted(s), s.track # Ribbon!None,
         s.track \notin s.missed
  PROVE s.want[s.track] = s.secs
BY DEF Ribbon!Wanted, Ribbon!AsGrabbed

LEMMA DetectedCounted ==
  ASSUME Ribbon!SectionsAssumption, NEW j \in Edited
  PROVE Ribbon!Detected(j) \in Ribbon!Lists /\ Ribbon!AllCounted(Ribbon!Detected(j))
<1> DEFINE F == FoundOn[j]
           D == DownbeatsOf[j]
           S == {Ribbon!Sec(D, id, F[id][1], F[id][2]) : id \in DOMAIN F}
<1>1. S = Ribbon!Detected(j) BY DEF Ribbon!Detected
<1>2. D \in SUBSET Ribbon!Times BY DEF Ribbon!SectionsAssumption
<1>3. ASSUME NEW id \in DOMAIN F
      PROVE LET x == Ribbon!Sec(D, id, F[id][1], F[id][2])
            IN x \in Sections /\ x.start <= x.end /\ x.id = id /\ Ribbon!Counted(x)
  <2>1. /\ id \in 1..SectionIds /\ F[id][1] \in Ribbon!Times /\ F[id][2] \in Ribbon!Times /\ F[id][1] < F[id][2]
    BY DEF Ribbon!SectionsAssumption
  <2> HIDE DEF D
  <2>2. Ribbon!barRangeForTime(D, F[id][1], F[id][2]) \in [lo : Nat, hi : Nat] BY <1>2, BarsAreNumbers
  <2>3. F[id][1] <= F[id][2] BY <2>1, RibbonNumbers
  <2> HIDE DEF F
  <2> QED BY <1>2, <2>1, <2>2, <2>3 DEF Ribbon!Sec, Sections, Ribbon!Counted
<1> HIDE DEF F, D
<1>4. S \in Ribbon!Lists BY <1>3, ListsAre
<1>5. \A x \in S : Ribbon!Counted(x) BY <1>3
<1> QED BY <1>1, <1>4, <1>5 DEF Ribbon!AllCounted

LEMMA RibbonStarts ==
  ASSUME Ribbon!SectionsAssumption, Ribbon!SectionsInit PROVE Ribbon!SectionsIInv /\ Ribbon!CountedIInv
<1> DEFINE D == [j \in Edited |-> Ribbon!Detected(j)]
<1>2. D \in [Edited -> Ribbon!Lists] BY DetectedCounted
<1>3. {} \in Ribbon!Lists BY ListsAre
<1>4. st = [track |-> Ribbon!None, secs |-> {}, drag |-> Ribbon!Idle, timer |-> FALSE, chain |-> <<>>,
            server |-> D, want |-> D, opening |-> Ribbon!None, read |-> Ribbon!NotRead, armed |-> FALSE,
            beats |-> {}, missed |-> {}, torn |-> FALSE]
  BY DEF Ribbon!SectionsInit
<1>5. \A j \in Edited : D[j] = Ribbon!Detected(j) OBVIOUS
<1> HIDE DEF D
<1>6. <<>> \in Sent BY DEF Sent
<1>7. /\ Ribbon!None \in OneOf /\ Ribbon!Idle \in Drags /\ D \in Tracked /\ {} \in Lists
      /\ Ribbon!NotRead \in Readings /\ {} \in Beats /\ {} \in Missing
  BY <1>2, <1>3 DEF OneOf, Drags, Tracked, Lists, Readings, Beats, Missing
<1>8. st \in Ribbon!Ribbons BY <1>4, <1>6, <1>7, RibbonsAre
<1>9. Ribbon!OnTheRibbon(st) BY <1>4 DEF Ribbon!OnTheRibbon
<1>10. Ribbon!Wanted(st) BY <1>4 DEF Ribbon!Wanted
<1>11. Ribbon!OnItsWay(st)
  <2>1. st.chain = <<>> /\ st.server = st.want BY <1>4
  <2>2. \A j \in Edited : Ribbon!Arrives(st.chain, st.server[j], j, st.want[j]) BY <2>1 DEF Ribbon!Arrives
  <2> QED BY <2>2 DEF Ribbon!OnItsWay
<1>12. acts \in 0..RibbonActs BY RibbonNumbers DEF Ribbon!SectionsInit
<1>13. Ribbon!CountedIInv
  <2>1. /\ st.secs = {} /\ st.drag = Ribbon!Idle /\ st.server = D /\ st.chain = <<>>
        /\ st.read = Ribbon!NotRead
    BY <1>4
  <2>2. Ribbon!AllCounted(Ribbon!AsGrabbed(st)) BY <2>1 DEF Ribbon!AsGrabbed, Ribbon!AllCounted
  <2>3. \A j \in Edited : Ribbon!AllCounted(D[j]) BY <1>5, DetectedCounted
  <2>4. DOMAIN st.chain = {} BY <2>1
  <2> QED BY <2>1, <2>2, <2>3, <2>4 DEF Ribbon!CountedIInv, Ribbon!EveryListCounted
<1> QED BY <1>8, <1>9, <1>10, <1>11, <1>12, <1>13 DEF Ribbon!SectionsIInv

(* The bars are counted wherever a list is, as long as they are on the      *)
(* ribbon and what else there is stays.                                     *)
Otherwise(s, t) == t.server = s.server /\ t.chain = s.chain /\ t.read = s.read /\ t.torn = s.torn

LEMMA StaysCounted ==
  ASSUME NEW s, NEW t, t.server = s.server, t.chain = s.chain, t.read = s.read \/ t.read = Ribbon!NotRead,
         Ribbon!EveryListCounted(s), Ribbon!AllCounted(Ribbon!AsGrabbed(t))
  PROVE Ribbon!EveryListCounted(t)
BY DEF Ribbon!EveryListCounted

LEMMA NothingMoved ==
  ASSUME NEW s \in Ribbon!Ribbons, Ribbon!OnTheRibbon(s), ~Ribbon!Moving(s)
  PROVE Ribbon!AsGrabbed(s) = s.secs
<1>1. CASE s.drag = Ribbon!Idle BY <1>1 DEF Ribbon!AsGrabbed
<1>2. CASE s.drag # Ribbon!Idle
  <2> DEFINE d == s.drag
             o == Ribbon!Get(s, d.id)
  <2>1. PICK x \in s.secs : x.id = d.id BY <1>2 DEF Ribbon!OnTheRibbon
  <2>2. s.secs \in Ribbon!Lists BY RibbonHas
  <2>3. o = x BY <2>1, <2>2, Taken
  <2>4. o.start = d.start /\ o.end = d.end BY <1>2 DEF Ribbon!OnTheRibbon, Ribbon!Moving
  <2>5. x \in Sections /\ d.start \in Ribbon!Times /\ d.end \in Ribbon!Times
    <3>1. d \in Ribbon!Gestures BY <1>2, RibbonHas
    <3> QED BY <2>1, <2>2, <3>1, ListsAre, GesturesAre
  <2>6. Timed(x, d.start, d.end) = x BY <2>3, <2>4, <2>5, TimedIs
  <2>7. Ribbon!AsGrabbed(s) = {y \in s.secs : y.id # d.id} \cup {Timed(x, d.start, d.end)}
    BY <1>2, <2>3 DEF Ribbon!AsGrabbed, Ribbon!Others, Timed
  <2>8. {y \in s.secs : y.id # d.id} \cup {x} = s.secs BY <2>1, <2>2, ListsAre
  <2> QED BY <2>6, <2>7, <2>8
<1> QED BY <1>1, <1>2

LEMMA RibbonActCounts ==
  ASSUME Ribbon!SectionsAssumption, acts \in 0..RibbonActs
  PROVE (Ribbon!Act => acts' \in 0..RibbonActs) /\ (UNCHANGED acts => acts' \in 0..RibbonActs)
BY RibbonNumbers DEF Ribbon!Act

(* ------------------------------- the track ------------------------------ *)
LEMMA RibbonOpens ==
  ASSUME Ribbon!SectionsAssumption, Ribbon!SectionsIInv,
         Ribbon!Open \/ Ribbon!Read \/ Ribbon!disarmClear \/ Ribbon!setBeats
  PROVE Ribbon!SectionsIInv' /\ (Ribbon!CountedIInv => Ribbon!CountedIInv')
<1>1. st \in Ribbon!Ribbons /\ acts \in 0..RibbonActs /\ Ribbon!OnTheRibbon(st) /\ Ribbon!Wanted(st) /\ Ribbon!OnItsWay(st)
  BY DEF Ribbon!SectionsIInv
<1>2. acts' \in 0..RibbonActs
  BY <1>1, RibbonActCounts DEF Ribbon!Open, Ribbon!Read, Ribbon!disarmClear, Ribbon!setBeats
<1>3. \E op \in OneOf, rd \in Readings, ar \in BOOLEAN, be \in Beats :
        /\ st' = [st EXCEPT !.opening = op, !.read = rd, !.armed = ar, !.beats = be]
        /\ (rd = st.read \/ \E j \in Edited : rd = st.server[j])
  <2>0. st.opening \in OneOf /\ st.read \in Readings /\ st.armed \in BOOLEAN /\ st.beats \in Beats
    BY <1>1, RibbonsAre
  <2>1. CASE Ribbon!Open
    <3>1. PICK j \in Edited : st' = [st EXCEPT !.opening = j] BY <2>1 DEF Ribbon!Open
    <3>2. st' = [st EXCEPT !.opening = j, !.read = st.read, !.armed = st.armed, !.beats = st.beats]
      BY <1>1, <3>1, RibbonsAre
    <3>3. j \in OneOf BY DEF OneOf
    <3> QED BY <2>0, <3>2, <3>3
  <2>2. CASE Ribbon!Read
    <3>1. st' = [st EXCEPT !.read = st.server[st.opening]] BY <2>2 DEF Ribbon!Read
    <3>2. st.opening \in Edited BY <2>2, <2>0 DEF Ribbon!Read, OneOf
    <3>3. st.server[st.opening] \in Readings BY <1>1, <3>2, RibbonHas DEF Readings
    <3>4. st' = [st EXCEPT !.opening = st.opening, !.read = st.server[st.opening], !.armed = st.armed, !.beats = st.beats]
      BY <1>1, <3>1, RibbonsAre
    <3> QED BY <2>0, <3>2, <3>3, <3>4
  <2>3. CASE Ribbon!disarmClear
    <3>1. st' = [st EXCEPT !.armed = FALSE] BY <2>3 DEF Ribbon!disarmClear
    <3>2. st' = [st EXCEPT !.opening = st.opening, !.read = st.read, !.armed = FALSE, !.beats = st.beats]
      BY <1>1, <3>1, RibbonsAre
    <3> QED BY <2>0, <3>2
  <2>4. CASE Ribbon!setBeats
    <3>1. PICK be \in GridsInMemory : st' = [st EXCEPT !.beats = be] BY <2>4 DEF Ribbon!setBeats
    <3>2. be \in Beats BY DEF Ribbon!SectionsAssumption, Beats
    <3>3. st' = [st EXCEPT !.opening = st.opening, !.read = st.read, !.armed = st.armed, !.beats = be]
      BY <1>1, <3>1, RibbonsAre
    <3> QED BY <2>0, <3>2, <3>3
  <2> QED BY <2>1, <2>2, <2>3, <2>4
<1>4. PICK op \in OneOf, rd \in Readings, ar \in BOOLEAN, be \in Beats :
        /\ st' = [st EXCEPT !.opening = op, !.read = rd, !.armed = ar, !.beats = be]
        /\ (rd = st.read \/ \E j \in Edited : rd = st.server[j])
  BY <1>3
<1>5. /\ st' \in Ribbon!Ribbons /\ st'.missed = st.missed /\ st'.torn = st.torn /\ st'.read = rd
      /\ st.track = st'.track /\ st.secs = st'.secs /\ st.drag = st'.drag /\ st.timer = st'.timer
      /\ st.chain = st'.chain /\ st.server = st'.server /\ st.want = st'.want
  BY <1>1, <1>4, RibbonsAre
<1>6. st.missed \subseteq st'.missed BY <1>5
<1>7. Ribbon!OnTheRibbon(st') /\ Ribbon!Wanted(st') /\ Ribbon!OnItsWay(st')
  BY <1>1, <1>5, <1>6, SameRibbon
<1>c. ASSUME Ribbon!CountedIInv PROVE Ribbon!CountedIInv'
  <2> SUFFICES ASSUME ~st'.torn PROVE Ribbon!EveryListCounted(st') BY DEF Ribbon!CountedIInv
  <2>1. Ribbon!EveryListCounted(st) BY <1>5, <1>c DEF Ribbon!CountedIInv
  <2>2. \A id : Ribbon!Get(st', id) = Ribbon!Get(st, id) /\ Ribbon!Others(st', id) = Ribbon!Others(st, id)
    BY <1>5 DEF Ribbon!Get, Ribbon!Others
  <2>3. Ribbon!AsGrabbed(st') = Ribbon!AsGrabbed(st) BY <1>5, <2>2 DEF Ribbon!AsGrabbed
  <2> QED BY <1>4, <1>5, <2>1, <2>3 DEF Ribbon!EveryListCounted
<1> QED BY <1>2, <1>5, <1>7, <1>c DEF Ribbon!SectionsIInv

LEMMA RibbonShown ==
  ASSUME Ribbon!SectionsAssumption, Ribbon!SectionsIInv, Ribbon!Shown PROVE Ribbon!SectionsIInv' /\ (Ribbon!CountedIInv => Ribbon!CountedIInv')
<1>1. st \in Ribbon!Ribbons /\ acts \in 0..RibbonActs /\ Ribbon!OnTheRibbon(st) /\ Ribbon!Wanted(st) /\ Ribbon!OnItsWay(st)
  BY DEF Ribbon!SectionsIInv
<1>2. acts' \in 0..RibbonActs BY <1>1, RibbonActCounts DEF Ribbon!Shown
<1> DEFINE j == st.opening
           ar == st.armed /\ st.read # {}
           mi == st.missed \cup {k \in {st.track} : st.timer \/ st.drag # Ribbon!Idle}
                           \cup {k \in {j} : st.read # st.want[k]}
<1>3. j \in Edited /\ j # Ribbon!None
  <2>1. j \in Edited \cup {Ribbon!None} BY <1>1, RibbonHas
  <2>2. j # Ribbon!None BY DEF Ribbon!Shown
  <2> QED BY <2>1, <2>2
<1>4. st.read \in Ribbon!Lists
  <2>1. st.read \in {Ribbon!NotRead} \cup Ribbon!Lists BY <1>1, RibbonHas
  <2>2. st.read # Ribbon!NotRead BY DEF Ribbon!Shown
  <2> QED BY <2>1, <2>2
<1>5. st' = [st EXCEPT !.track = j, !.secs = st.read, !.drag = Ribbon!Idle, !.opening = Ribbon!None,
                       !.read = Ribbon!NotRead, !.armed = ar, !.missed = mi]
  BY DEF Ribbon!Shown, Ribbon!initSections
<1>6. ar \in BOOLEAN /\ mi \in Missing
  <2>1. st.missed \in SUBSET Edited /\ st.track \in Edited \cup {Ribbon!None} BY <1>1, RibbonHas
  <2>2. st.timer \/ st.drag # Ribbon!Idle => st.track # Ribbon!None BY <1>1 DEF Ribbon!OnTheRibbon
  <2> QED BY <1>3, <2>1, <2>2 DEF Missing
<1>7. j \in OneOf /\ st.read \in Lists /\ Ribbon!Idle \in Drags /\ Ribbon!None \in OneOf /\ Ribbon!NotRead \in Readings
  BY <1>3, <1>4 DEF OneOf, Lists, Drags, Readings
<1>8. /\ \A k : k \notin mi => k \notin st.missed /\ (k = st.track => ~st.timer /\ st.drag = Ribbon!Idle)
      /\ j \notin mi => st.read = st.want[j]
  OBVIOUS
<1> HIDE DEF j, ar, mi
<1>9. /\ st' \in Ribbon!Ribbons /\ st'.track = j /\ st'.secs = st.read /\ st'.drag = Ribbon!Idle
      /\ st'.timer = st.timer /\ st'.chain = st.chain /\ st'.server = st.server /\ st'.want = st.want
      /\ st'.missed = mi /\ st'.torn = st.torn /\ st'.read = Ribbon!NotRead
  BY <1>1, <1>5, <1>6, <1>7, RibbonsAre
<1>10. Ribbon!OnTheRibbon(st') BY <1>3, <1>9 DEF Ribbon!OnTheRibbon
<1>11. Ribbon!Wanted(st')
  <2>1. Ribbon!AsGrabbed(st') = st.read BY <1>9 DEF Ribbon!AsGrabbed
  <2> QED BY <1>8, <1>9, <2>1 DEF Ribbon!Wanted
<1>12. Ribbon!OnItsWay(st')
  <2>1. ASSUME NEW k \in Edited, k \notin mi
        PROVE Ribbon!Arrives(st.chain, st.server[k], k, st.want[k])
    <3>1. ~Ribbon!HeldBack(st, k) BY <1>8, <2>1 DEF Ribbon!HeldBack, Ribbon!Moving
    <3> QED BY <1>1, <1>8, <2>1, <3>1 DEF Ribbon!OnItsWay
  <2> QED BY <1>9, <2>1 DEF Ribbon!OnItsWay
<1>c. ASSUME Ribbon!CountedIInv PROVE Ribbon!CountedIInv'
  <2> SUFFICES ASSUME ~st'.torn PROVE Ribbon!EveryListCounted(st') BY DEF Ribbon!CountedIInv
  <2>1. Ribbon!EveryListCounted(st) BY <1>9, <1>c DEF Ribbon!CountedIInv
  <2>2. Ribbon!AsGrabbed(st') = st.read BY <1>9 DEF Ribbon!AsGrabbed
  <2>3. Ribbon!AllCounted(st.read) BY <2>1 DEF Ribbon!Shown, Ribbon!EveryListCounted
  <2> QED BY <1>9, <2>1, <2>2, <2>3, StaysCounted
<1> QED BY <1>2, <1>9, <1>10, <1>11, <1>12, <1>c DEF Ribbon!SectionsIInv

(* ------------------------------ the requests ---------------------------- *)
(* A list is queued only when no gesture has changed it, or another follows. *)
Queued(s) == [of |-> s.track, secs |-> s.secs]
LEMMA QueuedIs == ASSUME NEW s \in Ribbon!Ribbons, s.track # Ribbon!None
                  PROVE /\ s.track \in Edited /\ Queued(s) \in Ribbon!Saves /\ Append(s.chain, Queued(s)) \in Sent
                        /\ Queued(s).of = s.track /\ Queued(s).secs = s.secs
<1>1. s.track \in Edited /\ s.secs \in Ribbon!Lists /\ s.chain \in Seq(Ribbon!Saves) BY RibbonHas
<1>2. Queued(s) \in Ribbon!Saves BY <1>1 DEF Ribbon!Saves, Queued
<1>3. Append(s.chain, Queued(s)) \in Sent BY <1>1, <1>2 DEF Sent
<1> QED BY <1>1, <1>2, <1>3 DEF Queued

LEMMA NothingChanged ==
  ASSUME NEW s \in Ribbon!Ribbons, Ribbon!OnTheRibbon(s), Ribbon!Wanted(s), s.track # Ribbon!None,
         s.track \notin s.missed, ~Ribbon!Moving(s)
  PROVE s.want[s.track] = s.secs
BY NothingMoved DEF Ribbon!Wanted

LEMMA SentCounted ==
  ASSUME NEW c \in Seq(Ribbon!Saves), NEW m \in Ribbon!Saves, Ribbon!AllCounted(m.secs),
         \A n \in DOMAIN c : Ribbon!AllCounted(c[n].secs)
  PROVE \A n \in DOMAIN Append(c, m) : Ribbon!AllCounted(Append(c, m)[n].secs)
<1> DEFINE d == Append(c, m)
           l == Len(c)
<1>1. l \in Nat /\ DOMAIN c = 1..l /\ DOMAIN d = 1..(l + 1) /\ d[l + 1] = m /\ \A n \in 1..l : d[n] = c[n]
  OBVIOUS
<1> HIDE DEF d, l
<1>2. \A n \in 1..(l + 1) : n \in 1..l \/ n = l + 1 BY <1>1
<1>3. \A n \in DOMAIN d : Ribbon!AllCounted(d[n].secs) BY <1>1, <1>2
<1> QED BY <1>3 DEF d

LEMMA RibbonSaved ==
  ASSUME Ribbon!SectionsAssumption, Ribbon!SectionsIInv, Ribbon!SaveDue PROVE Ribbon!SectionsIInv' /\ (Ribbon!CountedIInv => Ribbon!CountedIInv')
<1>1. st \in Ribbon!Ribbons /\ acts \in 0..RibbonActs /\ Ribbon!OnTheRibbon(st)
      /\ Ribbon!Wanted(st) /\ Ribbon!OnItsWay(st)
  BY DEF Ribbon!SectionsIInv
<1>2. acts' \in 0..RibbonActs BY <1>1, RibbonActCounts DEF Ribbon!SaveDue
<1>3. st.timer /\ st.track # Ribbon!None BY <1>1 DEF Ribbon!SaveDue, Ribbon!OnTheRibbon
<1> DEFINE m == Queued(st)
           c == Append(st.chain, m)
           to == st.torn \/ Ribbon!Moving(st)
<1>4. st.track \in Edited /\ m \in Ribbon!Saves /\ c \in Sent /\ m.of = st.track /\ m.secs = st.secs
  BY <1>1, <1>3, QueuedIs
<1>5. st' = [st EXCEPT !.timer = FALSE, !.chain = c, !.torn = to]
  <2> DEFINE q == [st EXCEPT !.timer = FALSE]
  <2>1. st' = Ribbon!queueSaveSnapshot(q) BY DEF Ribbon!SaveDue
  <2>2. /\ q.track = st.track /\ q.secs = st.secs /\ q.chain = st.chain /\ q.torn = st.torn
        /\ q.drag = st.drag
    BY <1>1, RibbonsAre
  <2>3. st' = [q EXCEPT !.chain = Append(@, [of |-> q.track, secs |-> q.secs]), !.torn = @ \/ Ribbon!Moving(q)]
    BY <1>3, <2>1, <2>2 DEF Ribbon!queueSaveSnapshot
  <2>4. st' = [q EXCEPT !.chain = c, !.torn = to]
    <3>1. Ribbon!Moving(q) <=> Ribbon!Moving(st) BY <2>2 DEF Ribbon!Moving
    <3>2. Append(q.chain, [of |-> q.track, secs |-> q.secs]) = c BY <2>2 DEF Queued
    <3>3. (q.torn \/ Ribbon!Moving(q)) = to BY <2>2, <3>1
    <3> HIDE DEF q, to, c
    <3>4. st' = [q EXCEPT !.chain = Append(q.chain, [of |-> q.track, secs |-> q.secs]),
                          !.torn = (q.torn \/ Ribbon!Moving(q))] BY <2>3
    <3> QED BY <3>2, <3>3, <3>4
  <2> HIDE DEF c, to
  <2> QED BY <1>1, <2>4, RibbonsAre
<1>50. to \in BOOLEAN /\ (~to => ~st.torn /\ ~Ribbon!Moving(st)) OBVIOUS
<1> HIDE DEF c, to
<1>6. /\ st' \in Ribbon!Ribbons /\ st'.track = st.track /\ st'.secs = st.secs /\ st'.drag = st.drag
      /\ st'.timer = FALSE /\ st'.chain = c /\ st'.server = st.server /\ st'.want = st.want
      /\ st'.missed = st.missed /\ st'.torn = to /\ st'.read = st.read
  BY <1>1, <1>4, <1>5, <1>50, RibbonsAre
<1>7. \A id : Ribbon!Get(st', id) = Ribbon!Get(st, id) /\ Ribbon!Others(st', id) = Ribbon!Others(st, id)
  BY <1>6 DEF Ribbon!Get, Ribbon!Others
<1>8. Ribbon!OnTheRibbon(st') BY <1>1, <1>6, <1>7 DEF Ribbon!OnTheRibbon
<1>9. Ribbon!Wanted(st')
  <2>2. Ribbon!AsGrabbed(st') = Ribbon!AsGrabbed(st) BY <1>6, <1>7 DEF Ribbon!AsGrabbed
  <2> QED BY <1>1, <1>6, <2>2 DEF Ribbon!Wanted
<1>10. Ribbon!OnItsWay(st')
  <2>2. st.chain \in Seq(Ribbon!Saves) BY <1>1, RibbonHas
  <2>3. ASSUME NEW j \in Edited, j \notin st.missed
        PROVE Ribbon!HeldBack(st', j) \/ Ribbon!Arrives(c, st.server[j], j, st.want[j])
    <3>1. CASE j # st.track
      <4>1. ~Ribbon!HeldBack(st, j) BY <3>1 DEF Ribbon!HeldBack
      <4>2. Ribbon!Arrives(st.chain, st.server[j], j, st.want[j]) BY <1>1, <2>3, <4>1 DEF Ribbon!OnItsWay
      <4> HIDE DEF m
      <4> QED BY <1>4, <2>2, <3>1, <4>2, Joins DEF c
    <3>2. CASE j = st.track /\ Ribbon!Moving(st) BY <1>6, <3>2 DEF Ribbon!HeldBack, Ribbon!Moving
    <3>3. CASE j = st.track /\ ~Ribbon!Moving(st)
      <4>1. st.want[j] = st.secs BY <1>1, <1>3, <2>3, <3>3, NothingChanged
      <4> HIDE DEF m
      <4> QED BY <1>4, <2>2, <3>3, <4>1, Joins DEF c
    <3> QED BY <3>1, <3>2, <3>3
  <2> QED BY <1>6, <2>3 DEF Ribbon!OnItsWay
<1>c. ASSUME Ribbon!CountedIInv PROVE Ribbon!CountedIInv'
  <2> SUFFICES ASSUME ~st'.torn PROVE Ribbon!EveryListCounted(st') BY DEF Ribbon!CountedIInv
  <2>1. Ribbon!EveryListCounted(st) /\ ~Ribbon!Moving(st) BY <1>6, <1>50, <1>c DEF Ribbon!CountedIInv
  <2>2. Ribbon!AsGrabbed(st') = Ribbon!AsGrabbed(st) BY <1>6, <1>7 DEF Ribbon!AsGrabbed
  <2>3. Ribbon!AllCounted(m.secs) BY <1>1, <1>4, <2>1, NothingMoved DEF Ribbon!EveryListCounted
  <2>4. st.chain \in Seq(Ribbon!Saves) BY <1>1, RibbonHas
  <2> HIDE DEF m
  <2>5. \A n \in DOMAIN c : Ribbon!AllCounted(c[n].secs)
    BY <1>4, <2>1, <2>3, <2>4, SentCounted DEF c, Ribbon!EveryListCounted
  <2> QED BY <1>6, <2>1, <2>2, <2>5 DEF Ribbon!EveryListCounted
<1> QED BY <1>2, <1>6, <1>8, <1>9, <1>10, <1>c DEF Ribbon!SectionsIInv

LEMMA RibbonSent ==
  ASSUME Ribbon!SectionsAssumption, Ribbon!SectionsIInv, Ribbon!sendSave PROVE Ribbon!SectionsIInv' /\ (Ribbon!CountedIInv => Ribbon!CountedIInv')
<1>1. st \in Ribbon!Ribbons /\ acts \in 0..RibbonActs /\ Ribbon!OnTheRibbon(st)
      /\ Ribbon!Wanted(st) /\ Ribbon!OnItsWay(st)
  BY DEF Ribbon!SectionsIInv
<1>2. acts' \in 0..RibbonActs BY <1>1, RibbonActCounts DEF Ribbon!sendSave
<1> DEFINE h == Head(st.chain)
           c == Tail(st.chain)
<1>3. st.chain \in Seq(Ribbon!Saves) /\ st.chain # <<>> BY <1>1, RibbonHas DEF Ribbon!sendSave
<1>4. h \in Ribbon!Saves /\ c \in Sent BY <1>3 DEF Sent
<1>5. h.of \in Edited /\ h.secs \in Ribbon!Lists
  <2> HIDE DEF h
  <2> QED BY <1>4 DEF Ribbon!Saves
<1> DEFINE sv == [st.server EXCEPT ![h.of] = h.secs]
<1>6. sv \in Tracked /\ \A j \in Edited : sv[j] = IF h.of = j THEN h.secs ELSE st.server[j]
  <2>1. st.server \in [Edited -> Ribbon!Lists] BY <1>1, RibbonHas
  <2> HIDE DEF h
  <2> QED BY <1>5, <2>1 DEF Tracked
<1> DEFINE more == st.missed \cup {h.of}
<1>7. \/ st' = [st EXCEPT !.chain = c, !.server = sv]
      \/ st' = [st EXCEPT !.chain = c, !.missed = more]
  <2>1. \/ st' = [st EXCEPT !.chain = Tail(@), !.server[h.of] = h.secs]
        \/ st' = [st EXCEPT !.chain = Tail(@), !.missed = @ \cup {h.of}]
    BY DEF Ribbon!sendSave
  <2> HIDE DEF h
  <2> QED BY <1>1, <2>1, RibbonsAre
<1>70. more \in Missing /\ st.missed \subseteq more /\ h.of \in more
  <2>1. st.missed \in SUBSET Edited BY <1>1, RibbonHas
  <2> HIDE DEF h
  <2> QED BY <1>5, <2>1 DEF Missing
<1> HIDE DEF h, c, sv, more
<1>8. \E kept \in Tracked, mi \in Missing :
        /\ st' = [st EXCEPT !.chain = c, !.server = kept, !.missed = mi]
        /\ (kept = st.server \/ kept = sv) /\ st.missed \subseteq mi /\ \A j \in Edited \ mi : kept[j] = sv[j]
  <2>1. st.server \in Tracked /\ st.missed \in Missing BY <1>1, RibbonsAre
  <2>2. CASE st' = [st EXCEPT !.chain = c, !.server = sv]
    <3>1. st' = [st EXCEPT !.chain = c, !.server = sv, !.missed = st.missed] BY <1>1, <2>2, RibbonsAre
    <3> QED BY <1>6, <2>1, <3>1
  <2>3. CASE st' = [st EXCEPT !.chain = c, !.missed = more]
    <3>1. st' = [st EXCEPT !.chain = c, !.server = st.server, !.missed = more] BY <1>1, <2>3, RibbonsAre
    <3>2. \A j \in Edited \ more : st.server[j] = sv[j] BY <1>6, <1>70
    <3> QED BY <1>70, <2>1, <3>1, <3>2
  <2> QED BY <1>7, <2>2, <2>3
<1>9. PICK kept \in Tracked, mi \in Missing :
        /\ st' = [st EXCEPT !.chain = c, !.server = kept, !.missed = mi]
        /\ (kept = st.server \/ kept = sv) /\ st.missed \subseteq mi /\ \A j \in Edited \ mi : kept[j] = sv[j]
  BY <1>8
<1>10. /\ st' \in Ribbon!Ribbons /\ st'.track = st.track /\ st'.secs = st.secs /\ st'.drag = st.drag
       /\ st'.timer = st.timer /\ st'.chain = c /\ st'.server = kept /\ st'.want = st.want
       /\ st'.missed = mi /\ st'.torn = st.torn /\ st'.read = st.read
  BY <1>1, <1>4, <1>9, RibbonsAre
<1>11. \A id : Ribbon!Get(st', id) = Ribbon!Get(st, id) /\ Ribbon!Others(st', id) = Ribbon!Others(st, id)
  BY <1>10 DEF Ribbon!Get, Ribbon!Others
<1>12. Ribbon!OnTheRibbon(st') BY <1>1, <1>10, <1>11 DEF Ribbon!OnTheRibbon
<1>13. Ribbon!Wanted(st')
  <2>2. Ribbon!AsGrabbed(st') = Ribbon!AsGrabbed(st) BY <1>10, <1>11 DEF Ribbon!AsGrabbed
  <2> QED BY <1>1, <1>9, <1>10, <2>2 DEF Ribbon!Wanted
<1>14. Ribbon!OnItsWay(st')
  <2>2. ASSUME NEW j \in Edited, j \notin mi
        PROVE Ribbon!HeldBack(st', j) \/ Ribbon!Arrives(c, kept[j], j, st.want[j])
    <3>1. CASE Ribbon!HeldBack(st, j) BY <1>10, <3>1 DEF Ribbon!HeldBack, Ribbon!Moving
    <3>2. CASE Ribbon!Arrives(st.chain, st.server[j], j, st.want[j])
      <4>1. Ribbon!Arrives(Tail(st.chain), IF h.of = j THEN h.secs ELSE st.server[j], j, st.want[j])
        BY <1>3, <3>2, Answers DEF h
      <4>2. kept[j] = sv[j] BY <1>9, <2>2
      <4> QED BY <1>6, <4>1, <4>2 DEF c
    <3>3. j \notin st.missed BY <1>9, <2>2
    <3> QED BY <1>1, <3>1, <3>2, <3>3 DEF Ribbon!OnItsWay
  <2> QED BY <1>10, <2>2 DEF Ribbon!OnItsWay
<1>c. ASSUME Ribbon!CountedIInv PROVE Ribbon!CountedIInv'
  <2> SUFFICES ASSUME ~st'.torn PROVE Ribbon!EveryListCounted(st') BY DEF Ribbon!CountedIInv
  <2>1. Ribbon!EveryListCounted(st) BY <1>10, <1>c DEF Ribbon!CountedIInv
  <2>2. Ribbon!AsGrabbed(st') = Ribbon!AsGrabbed(st) BY <1>10, <1>11 DEF Ribbon!AsGrabbed
  <2>3. /\ h = st.chain[1] /\ 1 \in DOMAIN st.chain
        /\ \A n \in DOMAIN c : n + 1 \in DOMAIN st.chain /\ c[n] = st.chain[n + 1]
    BY <1>3 DEF h, c
  <2>4. /\ Ribbon!AllCounted(h.secs) /\ \A n \in DOMAIN c : Ribbon!AllCounted(c[n].secs)
        /\ \A j \in Edited : Ribbon!AllCounted(st.server[j])
    BY <2>1, <2>3 DEF Ribbon!EveryListCounted
  <2>5. \A j \in Edited : Ribbon!AllCounted(kept[j]) BY <1>6, <1>9, <2>4
  <2> QED BY <1>10, <2>1, <2>2, <2>4, <2>5 DEF Ribbon!EveryListCounted
<1> QED BY <1>2, <1>10, <1>12, <1>13, <1>14, <1>c DEF Ribbon!SectionsIInv

LEMMA RibbonDestroyed ==
  ASSUME Ribbon!SectionsAssumption, Ribbon!SectionsIInv, Ribbon!destroyPlayer PROVE Ribbon!SectionsIInv' /\ (Ribbon!CountedIInv => Ribbon!CountedIInv')
<1>1. /\ st \in Ribbon!Ribbons /\ acts \in 0..RibbonActs /\ Ribbon!OnTheRibbon(st) /\ Ribbon!Wanted(st)
      /\ Ribbon!OnItsWay(st)
  BY DEF Ribbon!SectionsIInv
<1>2. acts' \in 0..RibbonActs BY <1>1, RibbonActCounts DEF Ribbon!destroyPlayer
<1>3. st.track # Ribbon!None BY DEF Ribbon!destroyPlayer
<1> DEFINE m == Queued(st)
           c == IF st.timer THEN Append(st.chain, m) ELSE st.chain
           to == st.torn \/ (st.timer /\ Ribbon!Moving(st))
           mi == st.missed \cup {k \in {st.track} : st.drag # Ribbon!Idle}
<1>4. /\ st.track \in Edited /\ m \in Ribbon!Saves /\ Append(st.chain, m) \in Sent
      /\ m.of = st.track /\ m.secs = st.secs
  BY <1>1, <1>3, QueuedIs
<1>5. st.chain \in Sent /\ st.timer \in BOOLEAN /\ st.torn \in BOOLEAN /\ st.missed \in SUBSET Edited
  BY <1>1, RibbonsAre, RibbonHas
<1>6. c \in Sent /\ to \in BOOLEAN /\ mi \in Missing BY <1>4, <1>5 DEF Missing
<1> DEFINE q == IF st.timer THEN Ribbon!queueSaveSnapshot(st) ELSE st
<1>7. q = [st EXCEPT !.chain = c, !.torn = to]
  <2>1. CASE st.timer
    <3>1. Ribbon!queueSaveSnapshot(st) = [st EXCEPT !.chain = Append(@, [of |-> st.track, secs |-> st.secs]),
                                                    !.torn = @ \/ Ribbon!Moving(st)]
      BY <1>3 DEF Ribbon!queueSaveSnapshot
    <3>2. c = Append(st.chain, [of |-> st.track, secs |-> st.secs]) /\ to = (st.torn \/ Ribbon!Moving(st))
      BY <2>1 DEF Queued
    <3> HIDE DEF c, to
    <3> QED BY <2>1, <3>1, <3>2
  <2>2. CASE ~st.timer
    <3>1. c = st.chain /\ to = st.torn BY <1>5, <2>2
    <3> HIDE DEF c, to
    <3> QED BY <1>1, <2>2, <3>1, RibbonsAre
  <2> QED BY <1>5, <2>1, <2>2
<1>8. st' = [[q EXCEPT !.timer = FALSE, !.track = Ribbon!None, !.secs = {}, !.drag = Ribbon!Idle, !.armed = FALSE,
                       !.missed = q.missed \cup {k \in {st.track} : st.drag # Ribbon!Idle}]
                EXCEPT !.beats = {}]
  BY DEF Ribbon!destroyPlayer, Ribbon!destroySections
<1> HIDE DEF q, c, to
<1>9. q.missed = st.missed BY <1>1, <1>7, RibbonsAre
<1>10. st' = [[q EXCEPT !.timer = FALSE, !.track = Ribbon!None, !.secs = {}, !.drag = Ribbon!Idle, !.armed = FALSE,
                        !.missed = mi]
                EXCEPT !.beats = {}]
  BY <1>8, <1>9
<1>11. Ribbon!None \in OneOf /\ {} \in Lists /\ Ribbon!Idle \in Drags /\ {} \in Beats
  BY ListsAre DEF OneOf, Lists, Drags, Beats
<1>12. \A k : k \notin mi => k \notin st.missed /\ (k = st.track => st.drag = Ribbon!Idle) OBVIOUS
<1> HIDE DEF mi, m
<1>13. q \in Ribbon!Ribbons /\ q.chain = c /\ q.server = st.server /\ q.want = st.want /\ q.torn = to /\ q.read = st.read
  BY <1>1, <1>6, <1>7, RibbonsAre
<1>14. /\ st' \in Ribbon!Ribbons /\ st'.track = Ribbon!None /\ st'.secs = {} /\ st'.drag = Ribbon!Idle
       /\ st'.timer = FALSE /\ st'.chain = c /\ st'.server = st.server /\ st'.want = st.want
       /\ st'.missed = mi /\ st'.torn = to /\ st'.read = st.read
  BY <1>6, <1>10, <1>11, <1>13, RibbonsAre
<1>15. Ribbon!OnTheRibbon(st') BY <1>14 DEF Ribbon!OnTheRibbon
<1>16. Ribbon!Wanted(st') BY <1>14 DEF Ribbon!Wanted
<1>17. Ribbon!OnItsWay(st')
  <2>2. st.chain \in Seq(Ribbon!Saves) BY <1>1, RibbonHas
  <2>4. ASSUME NEW j \in Edited, j \notin mi PROVE Ribbon!Arrives(c, st.server[j], j, st.want[j])
    <3>0. j \notin st.missed BY <1>12, <2>4
    <3>1. CASE Ribbon!HeldBack(st, j)
      <4>1. j = st.track /\ st.drag = Ribbon!Idle BY <1>12, <2>4, <3>1 DEF Ribbon!HeldBack
      <4>2. st.timer BY <3>1, <4>1 DEF Ribbon!HeldBack, Ribbon!Moving
      <4>3. st.want[st.track] = st.secs BY <1>1, <1>3, <3>0, <4>1, IdleRibbon
      <4> QED BY <1>4, <2>2, <4>1, <4>2, <4>3, Joins DEF c
    <3>2. CASE ~Ribbon!HeldBack(st, j)
      <4>1. Ribbon!Arrives(st.chain, st.server[j], j, st.want[j]) BY <1>1, <3>0, <3>2 DEF Ribbon!OnItsWay
      <4>2. CASE st.timer
        <5>1. j # st.track BY <3>2, <4>2 DEF Ribbon!HeldBack
        <5> QED BY <1>4, <2>2, <4>1, <4>2, <5>1, Joins DEF c
      <4>3. CASE ~st.timer BY <4>1, <4>3 DEF c
      <4> QED BY <4>2, <4>3
    <3> QED BY <3>1, <3>2
  <2> QED BY <1>14, <2>4 DEF Ribbon!OnItsWay
<1>c. ASSUME Ribbon!CountedIInv PROVE Ribbon!CountedIInv'
  <2> SUFFICES ASSUME ~st'.torn PROVE Ribbon!EveryListCounted(st') BY DEF Ribbon!CountedIInv
  <2>0. ~to BY <1>14
  <2>1. Ribbon!EveryListCounted(st) BY <2>0, <1>c DEF to, Ribbon!CountedIInv
  <2>2. Ribbon!AllCounted(Ribbon!AsGrabbed(st')) BY <1>14 DEF Ribbon!AsGrabbed, Ribbon!AllCounted
  <2>3. st.chain \in Seq(Ribbon!Saves) BY <1>1, RibbonHas
  <2>4. \A n \in DOMAIN c : Ribbon!AllCounted(c[n].secs)
    <3>1. CASE st.timer
      <4>1. ~Ribbon!Moving(st) BY <2>0, <3>1 DEF to
      <4>2. Ribbon!AllCounted(m.secs) BY <1>1, <1>4, <2>1, <4>1, NothingMoved DEF Ribbon!EveryListCounted
      <4>3. c = Append(st.chain, m) BY <3>1 DEF c
      <4> QED BY <1>4, <2>1, <2>3, <4>2, <4>3, SentCounted DEF Ribbon!EveryListCounted
    <3>2. CASE ~st.timer BY <2>1, <3>2 DEF c, Ribbon!EveryListCounted
    <3> QED BY <3>1, <3>2
  <2> QED BY <1>14, <2>1, <2>2, <2>4 DEF Ribbon!EveryListCounted
<1> QED BY <1>2, <1>14, <1>15, <1>16, <1>17, <1>c DEF Ribbon!SectionsIInv

(* ------------------------------- the edits ------------------------------ *)
(* A change the user is done with is wanted, and the timer will save it.    *)
LEMMA RibbonEdited ==
  ASSUME Ribbon!SectionsAssumption, Ribbon!SectionsIInv, NEW q \in Ribbon!Ribbons, q.drag = Ribbon!Idle,
         q.track = st.track, st.track # Ribbon!None, q.chain = st.chain, q.server = st.server, q.want = st.want,
         q.missed = st.missed, q.torn = st.torn, q.read = st.read, st' = Ribbon!scheduleSave(q), acts' \in 0..RibbonActs
  PROVE /\ Ribbon!SectionsIInv'
        /\ Ribbon!CountedIInv /\ (~st.torn => Ribbon!AllCounted(q.secs)) => Ribbon!CountedIInv'
<1>1. st \in Ribbon!Ribbons /\ Ribbon!OnItsWay(st) BY DEF Ribbon!SectionsIInv
<1>2. st.track \in Edited BY <1>1, RibbonHas
<1>3. q.secs \in Ribbon!Lists /\ q.want \in [Edited -> Ribbon!Lists] BY RibbonHas
<1> DEFINE w == [q.want EXCEPT ![q.track] = q.secs]
<1>4. w \in Tracked /\ \A j \in Edited : w[j] = IF j = st.track THEN q.secs ELSE st.want[j]
  BY <1>2, <1>3 DEF Tracked
<1>5. st' = [q EXCEPT !.timer = TRUE, !.want = w] BY DEF Ribbon!scheduleSave
<1> HIDE DEF w
<1>6. /\ st' \in Ribbon!Ribbons /\ st'.track = st.track /\ st'.secs = q.secs /\ st'.drag = Ribbon!Idle
      /\ st'.timer = TRUE /\ st'.chain = st.chain /\ st'.server = st.server /\ st'.want = w
      /\ st'.missed = st.missed /\ st'.torn = st.torn /\ st'.read = st.read
  BY <1>4, <1>5, RibbonsAre
<1>7. Ribbon!OnTheRibbon(st') BY <1>6 DEF Ribbon!OnTheRibbon
<1>8. Ribbon!Wanted(st')
  <2>2. Ribbon!AsGrabbed(st') = q.secs BY <1>6 DEF Ribbon!AsGrabbed
  <2>3. st'.want[st'.track] = q.secs BY <1>2, <1>4, <1>6
  <2> QED BY <2>2, <2>3 DEF Ribbon!Wanted
<1>9. Ribbon!OnItsWay(st')
  <2>2. ASSUME NEW j \in Edited, j \notin st.missed
        PROVE Ribbon!HeldBack(st', j) \/ Ribbon!Arrives(st'.chain, st'.server[j], j, st'.want[j])
    <3>1. CASE j = st.track BY <1>6, <3>1 DEF Ribbon!HeldBack
    <3>2. CASE j # st.track
      <4>1. ~Ribbon!HeldBack(st, j) BY <3>2 DEF Ribbon!HeldBack
      <4>2. Ribbon!Arrives(st.chain, st.server[j], j, st.want[j]) BY <1>1, <2>2, <4>1 DEF Ribbon!OnItsWay
      <4>3. w[j] = st.want[j] BY <1>4, <3>2
      <4> QED BY <1>6, <4>2, <4>3
    <3> QED BY <3>1, <3>2
  <2> QED BY <1>6, <2>2 DEF Ribbon!OnItsWay
<1>c. ASSUME Ribbon!CountedIInv, ~st.torn => Ribbon!AllCounted(q.secs) PROVE Ribbon!CountedIInv'
  <2> SUFFICES ASSUME ~st'.torn PROVE Ribbon!EveryListCounted(st') BY DEF Ribbon!CountedIInv
  <2>1. Ribbon!EveryListCounted(st) /\ Ribbon!AllCounted(q.secs) BY <1>6, <1>c DEF Ribbon!CountedIInv
  <2>2. Ribbon!AsGrabbed(st') = q.secs BY <1>6 DEF Ribbon!AsGrabbed
  <2> QED BY <1>6, <2>1, <2>2, StaysCounted
<1> QED BY <1>6, <1>7, <1>8, <1>9, <1>c DEF Ribbon!SectionsIInv

(* So is one made by a button, with a list that is sound.                   *)
ShowingNow(s, list, armed) == [s EXCEPT !.secs = list, !.armed = armed]
LEMMA RibbonButton ==
  ASSUME Ribbon!SectionsAssumption, Ribbon!SectionsIInv, Ribbon!Act, Ribbon!Clickable,
         NEW list \in Ribbon!Lists, NEW ar \in BOOLEAN, \A x \in list : x \in st.secs \/ Ribbon!Counted(x),
         st' = Ribbon!scheduleSave(ShowingNow(st, list, ar))
  PROVE Ribbon!SectionsIInv' /\ (Ribbon!CountedIInv => Ribbon!CountedIInv')
<1>1. st \in Ribbon!Ribbons BY DEF Ribbon!SectionsIInv
<1>2. st.drag = Ribbon!Idle /\ st.track # Ribbon!None BY DEF Ribbon!Clickable
<1>3. acts' \in 0..RibbonActs BY RibbonActCounts DEF Ribbon!SectionsIInv
<1> DEFINE q == ShowingNow(st, list, ar)
<1>5. list \in Lists BY DEF Lists
<1>6. /\ q \in Ribbon!Ribbons /\ q.drag = st.drag /\ q.track = st.track /\ q.chain = st.chain /\ q.server = st.server
      /\ q.want = st.want /\ q.missed = st.missed /\ q.torn = st.torn /\ q.read = st.read
      /\ q.secs = list
  BY <1>1, <1>5, RibbonsAre DEF ShowingNow
<1>7. st' = Ribbon!scheduleSave(q) OBVIOUS
<1>8. ASSUME Ribbon!CountedIInv, ~st.torn PROVE Ribbon!AllCounted(list)
  <2>1. Ribbon!AllCounted(st.secs)
    BY <1>2, <1>8 DEF Ribbon!CountedIInv, Ribbon!EveryListCounted, Ribbon!AsGrabbed
  <2> QED BY <2>1 DEF Ribbon!AllCounted
<1> HIDE DEF q
<1> QED BY <1>2, <1>3, <1>6, <1>7, <1>8, RibbonEdited

LEMMA ShowsAs ==
  ASSUME NEW s \in Ribbon!Ribbons, NEW list
  PROVE /\ s.armed \in BOOLEAN /\ s.secs \in Ribbon!Lists
        /\ [s EXCEPT !.secs = list] = ShowingNow(s, list, s.armed)
<1>1. s.armed \in BOOLEAN /\ s.secs \in Ribbon!Lists BY RibbonHas
<1>2. [s EXCEPT !.secs = list] = ShowingNow(s, list, s.armed) BY RibbonsAre DEF ShowingNow
<1> QED BY <1>1, <1>2

LEMMA NewSectionIs ==
  ASSUME Ribbon!SectionsAssumption, NEW beats \in SUBSET Ribbon!Times, NEW id \in 1..SectionIds,
         NEW a \in Ribbon!Times, NEW e \in Ribbon!Times, NEW x, x = Ribbon!Sec(beats, id, a, e)
  PROVE x \in Sections /\ x.id = id /\ x.start = a /\ x.end = e /\ Ribbon!Counted(x)
<1>1. Ribbon!barRangeForTime(beats, a, e) \in [lo : Nat, hi : Nat] BY BarsAreNumbers
<1> QED BY <1>1 DEF Ribbon!Sec, Sections, Ribbon!Counted

LEMMA SyncedIs ==
  ASSUME Ribbon!SectionsAssumption, NEW s, s.beats \in SUBSET Ribbon!Times, NEW x \in Sections, NEW y, y = Ribbon!Synced(s, x)
  PROVE y \in Sections /\ y.id = x.id /\ y.start = x.start /\ y.end = x.end /\ Ribbon!Counted(y)
<1>1. x.start \in Ribbon!Times /\ x.end \in Ribbon!Times BY DEF Sections
<1>2. Ribbon!barRangeForTime(s.beats, x.start, x.end) \in [lo : Nat, hi : Nat] BY <1>1, BarsAreNumbers
<1> QED BY <1>2 DEF Ribbon!Synced, Sections, Ribbon!Counted

(* The place for a new section lies in the track.                           *)
LEMMA GapIsInTheTrack ==
  ASSUME Ribbon!SectionsAssumption, st.secs \in Ribbon!Lists
  PROVE Ribbon!GapStart \in Ribbon!Times
<1>0. /\ TrackLength \in Nat /\ ShortestSection \in Nat /\ ShortestSection <= TrackLength
      /\ Ribbon!Times = 0..TrackLength
  BY RibbonNumbers
<1>1. \A x \in st.secs : x.end \in 0..TrackLength BY <1>0, ListsAre DEF Sections
<1> DEFINE ends == {0} \cup {x.end : x \in st.secs}
           room(e) == \A x \in st.secs : x.end > e => x.start - e >= NewSection
           R == {e \in ends : room(e)}
<1>2. ends \in SUBSET Nat /\ ends # {} /\ \A k \in ends : k <= TrackLength BY <1>0, <1>1
<1>3. \A x \in st.secs : x.end \in ends OBVIOUS
<1>4. PICK m \in ends : \A k \in ends : m >= k
  <2> HIDE DEF ends
  <2> QED BY <1>0, <1>2, MostOfNat
<1>5. m \in Nat /\ \A x \in st.secs : ~(x.end > m) BY <1>1, <1>2, <1>3, <1>4
<1>6. m \in R BY <1>4, <1>5
<1>7. R \in SUBSET Nat /\ R # {} /\ R \subseteq ends BY <1>2, <1>6
<1>8. Ribbon!GapStart = Ribbon!MinOf(Ribbon!Least(R), TrackLength - ShortestSection) BY DEF Ribbon!GapStart
<1> HIDE DEF R
<1>9. Ribbon!Least(R) \in R BY <1>7, RibbonLeast
<1>10. Ribbon!Least(R) \in 0..TrackLength
  <2> HIDE DEF ends
  <2>1. Ribbon!Least(R) \in ends BY <1>7, <1>9
  <2>2. Ribbon!Least(R) \in Nat BY <1>2, <2>1
  <2>3. Ribbon!Least(R) <= TrackLength BY <1>2, <2>1
  <2> QED BY <1>0, <2>2, <2>3
<1> QED BY <1>0, <1>8, <1>10 DEF Ribbon!MinOf

LEMMA FreeIdIs ==
  ASSUME Ribbon!SectionsAssumption, Ribbon!FreeIds # {}, NEW id, id = Ribbon!Least(Ribbon!FreeIds)
  PROVE id \in 1..SectionIds /\ \A x \in st.secs : x.id # id
<1>1. Ribbon!FreeIds \in SUBSET Nat BY RibbonNumbers DEF Ribbon!FreeIds
<1>2. id \in Ribbon!FreeIds BY <1>1, RibbonLeast
<1> QED BY <1>2 DEF Ribbon!FreeIds

LEMMA RibbonAdds ==
  ASSUME Ribbon!SectionsAssumption, Ribbon!SectionsIInv, Ribbon!addSection PROVE Ribbon!SectionsIInv' /\ (Ribbon!CountedIInv => Ribbon!CountedIInv')
<1>1. st \in Ribbon!Ribbons BY DEF Ribbon!SectionsIInv
<1>2. Ribbon!Act /\ Ribbon!Clickable /\ Ribbon!FreeIds # {} BY DEF Ribbon!addSection
<1>3. st.beats \in SUBSET Ribbon!Times BY <1>1, RibbonHas
<1> DEFINE id == Ribbon!Least(Ribbon!FreeIds)
           a == Ribbon!GapStart
           e == Ribbon!MinOf(a + NewSection, TrackLength)
           x == Ribbon!Sec(st.beats, id, a, e)
           list == st.secs \cup {x}
<1>4. x.end - x.start >= ShortestSection /\ st' = Ribbon!scheduleSave([st EXCEPT !.secs = list])
  BY DEF Ribbon!addSection
<1>5. st.secs \in Ribbon!Lists /\ st.armed \in BOOLEAN BY <1>1, RibbonHas
<1>6. id \in 1..SectionIds /\ \A y \in st.secs : y.id # id BY <1>2, FreeIdIs
<1>7. a \in Ribbon!Times BY <1>5, GapIsInTheTrack
<1>8. TrackLength \in Nat /\ NewSection \in Nat /\ Ribbon!Times = 0..TrackLength /\ ShortestSection >= 1 /\ ShortestSection \in Nat
  BY RibbonNumbers
<1> HIDE DEF id, a
<1>9. e \in Ribbon!Times BY <1>7, <1>8 DEF Ribbon!MinOf
<1> HIDE DEF e
<1>10. x \in Sections /\ x.id = id /\ x.start = a /\ x.end = e /\ Ribbon!Counted(x)
  BY <1>3, <1>6, <1>7, <1>9, NewSectionIs
<1> HIDE DEF x
<1>11. x.start <= x.end BY <1>4, <1>7, <1>8, <1>9, <1>10
<1>13. \A y \in list : y \in st.secs \/ Ribbon!Counted(y) BY <1>10
<1>12. list \in Ribbon!Lists BY <1>5, <1>6, <1>10, <1>11, OneMoreListed
<1> HIDE DEF list
<1>14. st' = Ribbon!scheduleSave(ShowingNow(st, list, st.armed)) BY <1>1, <1>4, ShowsAs
<1> QED BY <1>2, <1>5, <1>12, <1>13, <1>14, RibbonButton

LEMMA RibbonDeletes ==
  ASSUME Ribbon!SectionsAssumption, Ribbon!SectionsIInv, Ribbon!deleteSection PROVE Ribbon!SectionsIInv' /\ (Ribbon!CountedIInv => Ribbon!CountedIInv')
<1>1. st \in Ribbon!Ribbons BY DEF Ribbon!SectionsIInv
<1>2. Ribbon!Act /\ Ribbon!Clickable BY DEF Ribbon!deleteSection
<1>3. PICK x \in st.secs :
        st' = Ribbon!scheduleSave([st EXCEPT !.secs = Ribbon!Others(st, x.id),
                                             !.armed = @ /\ Ribbon!Others(st, x.id) # {}])
  BY DEF Ribbon!deleteSection
<1> DEFINE list == Ribbon!Others(st, x.id)
           ar == st.armed /\ list # {}
<1>4. st' = Ribbon!scheduleSave(ShowingNow(st, list, ar)) BY <1>3 DEF ShowingNow
<1>5. st.secs \in Ribbon!Lists BY <1>1, RibbonHas
<1>6. list \in SUBSET st.secs BY DEF Ribbon!Others
<1>7. list \in Ribbon!Lists /\ ar \in BOOLEAN
  <2>1. ar \in BOOLEAN OBVIOUS
  <2> HIDE DEF list, ar
  <2> QED BY <1>5, <1>6, <2>1, FewerListed
<1> HIDE DEF list, ar
<1>8. \A y \in list : y \in st.secs BY <1>6
<1> QED BY <1>2, <1>4, <1>7, <1>8, RibbonButton

LEMMA RibbonSplits ==
  ASSUME Ribbon!SectionsAssumption, Ribbon!SectionsIInv, Ribbon!splitSection PROVE Ribbon!SectionsIInv' /\ (Ribbon!CountedIInv => Ribbon!CountedIInv')
<1>1. st \in Ribbon!Ribbons BY DEF Ribbon!SectionsIInv
<1>2. Ribbon!Act /\ Ribbon!Clickable /\ Ribbon!FreeIds # {} BY DEF Ribbon!splitSection
<1>3. st.beats \in SUBSET Ribbon!Times BY <1>1, RibbonHas
<1> DEFINE id == Ribbon!Least(Ribbon!FreeIds)
<1>4. PICK x \in st.secs, playhead \in Ribbon!Times :
        LET at == Ribbon!MaxOf(x.start + ShortestSection, Ribbon!MinOf(x.end - ShortestSection, playhead))
        IN /\ at > x.start /\ at < x.end
           /\ st' = Ribbon!scheduleSave([st EXCEPT !.secs =
                Ribbon!Others(st, x.id) \cup {Ribbon!Sec(st.beats, x.id, x.start, at), Ribbon!Sec(st.beats, id, at, x.end)}])
  BY DEF Ribbon!splitSection
<1> DEFINE at == Ribbon!MaxOf(x.start + ShortestSection, Ribbon!MinOf(x.end - ShortestSection, playhead))
           l == Ribbon!Sec(st.beats, x.id, x.start, at)
           r == Ribbon!Sec(st.beats, id, at, x.end)
           list == Ribbon!Others(st, x.id) \cup {l, r}
<1>5. at > x.start /\ at < x.end /\ st' = Ribbon!scheduleSave([st EXCEPT !.secs = list]) BY <1>4
<1>6. st.secs \in Ribbon!Lists /\ st.armed \in BOOLEAN BY <1>1, RibbonHas
<1>7. id \in 1..SectionIds /\ \A y \in st.secs : y.id # id BY <1>2, FreeIdIs
<1>8. TrackLength \in Nat /\ Ribbon!Times = 0..TrackLength /\ ShortestSection \in Nat BY RibbonNumbers
<1>9. x.id \in 1..SectionIds /\ x.start \in Ribbon!Times /\ x.end \in Ribbon!Times BY <1>6, ListsAre DEF Sections
<1> HIDE DEF id
<1>10. at \in Ribbon!Times
  <2>1. at \in Int BY <1>8, <1>9 DEF Ribbon!MinOf, Ribbon!MaxOf
  <2> HIDE DEF at
  <2> QED BY <1>5, <1>8, <1>9, <2>1
<1> HIDE DEF at
<1>11. l \in Sections /\ l.id = x.id /\ l.start = x.start /\ l.end = at /\ Ribbon!Counted(l)
  BY <1>3, <1>9, <1>10, NewSectionIs
<1>12. r \in Sections /\ r.id = id /\ r.start = at /\ r.end = x.end /\ Ribbon!Counted(r)
  BY <1>3, <1>7, <1>9, <1>10, NewSectionIs
<1> HIDE DEF l, r
<1>13. l.start <= l.end /\ r.start <= r.end BY <1>5, <1>8, <1>9, <1>10, <1>11, <1>12
<1> DEFINE T == {y \in st.secs : y.id # l.id} \cup {l}
<1>14. T \in Ribbon!Lists BY <1>6, <1>11, <1>13, PutListed
<1>15. \A y \in T : y.id # r.id BY <1>7, <1>11, <1>12
<1>16. list = T \cup {r} BY <1>11 DEF Ribbon!Others
<1> HIDE DEF T, list
<1>17. list \in Ribbon!Lists BY <1>12, <1>13, <1>14, <1>15, <1>16, OneMoreListed
<1>18. \A y \in list : y \in st.secs \/ Ribbon!Counted(y) BY <1>11, <1>12, <1>16 DEF T
<1>19. st' = Ribbon!scheduleSave(ShowingNow(st, list, st.armed)) BY <1>1, <1>5, ShowsAs
<1> QED BY <1>2, <1>6, <1>17, <1>18, <1>19, RibbonButton

LEMMA RibbonMerges ==
  ASSUME Ribbon!SectionsAssumption, Ribbon!SectionsIInv, Ribbon!mergeSection PROVE Ribbon!SectionsIInv' /\ (Ribbon!CountedIInv => Ribbon!CountedIInv')
<1>1. st \in Ribbon!Ribbons BY DEF Ribbon!SectionsIInv
<1>2. Ribbon!Act /\ Ribbon!Clickable BY DEF Ribbon!mergeSection
<1>3. st.beats \in SUBSET Ribbon!Times BY <1>1, RibbonHas
<1>4. PICK x \in st.secs, y \in st.secs :
        /\ x # y /\ y.start = x.end
        /\ st' = Ribbon!scheduleSave([st EXCEPT !.secs = (@ \ {x, y}) \cup {Ribbon!merged(x, y)}])
  BY DEF Ribbon!mergeSection
<1> DEFINE z == Timed(x, x.start, y.end)
           m == Ribbon!Synced(st, z)
           list == (st.secs \ {x, y}) \cup {m}
<1>5. st.secs \in Ribbon!Lists /\ st.armed \in BOOLEAN BY <1>1, RibbonHas
<1>6. x \in Sections /\ y \in Sections /\ x.start <= x.end /\ y.start <= y.end
      /\ \A w \in st.secs : w.id = x.id => w = x
  BY <1>5, ListsAre
<1>7. x.start \in Ribbon!Times /\ x.end \in Ribbon!Times /\ y.end \in Ribbon!Times BY <1>6 DEF Sections
<1>8. z = [x EXCEPT !.end = y.end] BY <1>6 DEF Timed, Sections
<1>9. Ribbon!merged(x, y) = m BY <1>8 DEF Ribbon!merged
<1>10. st' = Ribbon!scheduleSave([st EXCEPT !.secs = list]) BY <1>4, <1>9
<1>11. z \in Sections /\ z.id = x.id /\ z.start = x.start /\ z.end = y.end
  <2>1. z = Timed(x, x.start, y.end) /\ x \in Sections BY <1>6
  <2>2. ASSUME NEW a \in Ribbon!Times, NEW e \in Ribbon!Times, NEW w, w = Timed(x, a, e)
        PROVE w \in Sections /\ w.id = x.id /\ w.start = a /\ w.end = e
    BY <1>6, <2>2, TimedIs
  <2> HIDE DEF z
  <2> QED BY <1>7, <2>1, <2>2
<1> HIDE DEF z
<1>12. m \in Sections /\ m.id = x.id /\ m.start = x.start /\ m.end = y.end /\ Ribbon!Counted(m)
  BY <1>3, <1>11, SyncedIs
<1> HIDE DEF m
<1>13. m.start <= m.end
  <2>1. TrackLength \in Nat /\ Ribbon!Times = 0..TrackLength BY RibbonNumbers
  <2> QED BY <1>4, <1>6, <1>7, <1>12, <2>1
<1> DEFINE T == st.secs \ {x, y}
<1>14. T \in Ribbon!Lists BY <1>5, FewerListed
<1>15. \A w \in T : w.id # m.id BY <1>6, <1>12
<1>16. list = T \cup {m} OBVIOUS
<1> HIDE DEF T, list
<1>17. list \in Ribbon!Lists BY <1>12, <1>13, <1>14, <1>15, <1>16, OneMoreListed
<1>18. \A w \in list : w \in st.secs \/ Ribbon!Counted(w) BY <1>12, <1>16 DEF T
<1>19. st' = Ribbon!scheduleSave(ShowingNow(st, list, st.armed)) BY <1>1, <1>10, ShowsAs
<1> QED BY <1>2, <1>5, <1>17, <1>18, <1>19, RibbonButton

LEMMA RibbonClears ==
  ASSUME Ribbon!SectionsAssumption, Ribbon!SectionsIInv, Ribbon!clearAll PROVE Ribbon!SectionsIInv' /\ (Ribbon!CountedIInv => Ribbon!CountedIInv')
<1>1. /\ st \in Ribbon!Ribbons /\ acts \in 0..RibbonActs
      /\ Ribbon!OnTheRibbon(st) /\ Ribbon!Wanted(st) /\ Ribbon!OnItsWay(st)
  BY DEF Ribbon!SectionsIInv
<1>2. Ribbon!Act /\ Ribbon!Clickable BY DEF Ribbon!clearAll
<1>3. CASE st.armed
  <2>1. st' = Ribbon!scheduleSave([st EXCEPT !.armed = FALSE, !.secs = {}]) BY <1>3 DEF Ribbon!clearAll
  <2>2. [st EXCEPT !.armed = FALSE, !.secs = {}] = ShowingNow(st, {}, FALSE) BY <1>1, RibbonsAre DEF ShowingNow
  <2>3. {} \in Ribbon!Lists BY ListsAre
  <2>4. st' = Ribbon!scheduleSave(ShowingNow(st, {}, FALSE)) BY <2>1, <2>2
  <2> QED BY <1>2, <2>3, <2>4, RibbonButton
<1>4. CASE ~st.armed
  <2>1. st' = [st EXCEPT !.armed = TRUE] BY <1>4 DEF Ribbon!clearAll
  <2>2. /\ st' \in Ribbon!Ribbons /\ st.missed \subseteq st'.missed /\ Otherwise(st, st')
        /\ st.track = st'.track /\ st.secs = st'.secs /\ st.drag = st'.drag /\ st.timer = st'.timer
        /\ st.chain = st'.chain /\ st.server = st'.server /\ st.want = st'.want
    BY <1>1, <2>1, RibbonsAre DEF Otherwise
  <2>3. Ribbon!OnTheRibbon(st') /\ Ribbon!Wanted(st') /\ Ribbon!OnItsWay(st')
    BY <1>1, <2>2, SameRibbon
  <2>4. acts' \in 0..RibbonActs BY <1>1, <1>2, RibbonActCounts
  <2>5. ASSUME Ribbon!CountedIInv PROVE Ribbon!CountedIInv'
    <3> SUFFICES ASSUME ~st'.torn PROVE Ribbon!EveryListCounted(st') BY DEF Ribbon!CountedIInv
    <3>1. Ribbon!EveryListCounted(st) BY <2>2, <2>5 DEF Ribbon!CountedIInv, Otherwise
    <3>2. Ribbon!AsGrabbed(st') = st.secs /\ Ribbon!AsGrabbed(st) = st.secs
      BY <1>2, <2>2 DEF Ribbon!AsGrabbed, Ribbon!Clickable
    <3> QED BY <2>2, <3>1, <3>2, StaysCounted DEF Otherwise, Ribbon!EveryListCounted
  <2> QED BY <2>2, <2>3, <2>4, <2>5 DEF Ribbon!SectionsIInv
<1> QED BY <1>3, <1>4

(* ------------------------------ the gestures ---------------------------- *)
(* The section in hand, and the ribbon as it was when it was taken.         *)
LEMMA InHand ==
  ASSUME Ribbon!SectionsAssumption, NEW s \in Ribbon!Ribbons, Ribbon!OnTheRibbon(s), s.drag # Ribbon!Idle,
         NEW d, d = s.drag, NEW o, o = Ribbon!Get(s, d.id)
  PROVE /\ d \in Ribbon!Gestures /\ d.start \in Ribbon!Times /\ d.end \in Ribbon!Times /\ d.start <= d.end
        /\ d.changed \in BOOLEAN /\ d.kind \in {"move", "left", "right"}
        /\ o \in s.secs /\ o \in Sections /\ o.id = d.id /\ o.start <= o.end
        /\ (~d.changed => o.start = d.start /\ o.end = d.end)
        /\ Ribbon!AsGrabbed(s) = {y \in s.secs : y.id # d.id} \cup {Timed(o, d.start, d.end)}
        /\ s.track \in Edited /\ s.track # Ribbon!None
<1>1. d \in Ribbon!Gestures /\ s.secs \in Ribbon!Lists /\ s.track \in Edited \cup {Ribbon!None} BY RibbonHas
<1>2. d.start \in Ribbon!Times /\ d.end \in Ribbon!Times /\ d.changed \in BOOLEAN /\ d.kind \in {"move", "left", "right"}
  BY <1>1, GesturesAre
<1>3. d.start <= d.end /\ (~d.changed => o.start = d.start /\ o.end = d.end) BY DEF Ribbon!OnTheRibbon
<1>4. PICK x \in s.secs : x.id = d.id BY DEF Ribbon!OnTheRibbon
<1>5. o = x BY <1>1, <1>4, Taken
<1>6. x \in Sections /\ x.start <= x.end BY <1>1, <1>4, ListsAre
<1>7. Ribbon!AsGrabbed(s) = {y \in s.secs : y.id # d.id} \cup {Timed(o, d.start, d.end)}
  BY DEF Ribbon!AsGrabbed, Ribbon!Others, Timed
<1>8. s.track # Ribbon!None BY <1>4 DEF Ribbon!OnTheRibbon
<1> QED BY <1>1, <1>2, <1>3, <1>4, <1>5, <1>6, <1>7, <1>8

LEMMA AsItWas ==
  ASSUME Otherwise(st, st'), Ribbon!AsGrabbed(st') = Ribbon!AsGrabbed(st), Ribbon!CountedIInv
  PROVE Ribbon!CountedIInv'
<1> SUFFICES ASSUME ~st'.torn PROVE Ribbon!EveryListCounted(st') BY DEF Ribbon!CountedIInv
<1>1. Ribbon!EveryListCounted(st) BY DEF Otherwise, Ribbon!CountedIInv
<1> QED BY <1>1, StaysCounted DEF Otherwise, Ribbon!EveryListCounted

LEMMA RibbonGrabbed ==
  ASSUME Ribbon!SectionsAssumption, Ribbon!SectionsIInv, Ribbon!Grab PROVE Ribbon!SectionsIInv' /\ (Ribbon!CountedIInv => Ribbon!CountedIInv')
<1>1. st \in Ribbon!Ribbons /\ acts \in 0..RibbonActs /\ Ribbon!OnTheRibbon(st)
      /\ Ribbon!Wanted(st) /\ Ribbon!OnItsWay(st)
  BY DEF Ribbon!SectionsIInv
<1>2. acts' \in 0..RibbonActs BY <1>1, RibbonActCounts DEF Ribbon!Grab
<1>3. st.drag = Ribbon!Idle BY DEF Ribbon!Grab
<1>4. PICK x \in st.secs, kind \in {"move", "left", "right"} :
        st' = [st EXCEPT !.drag = [kind |-> kind, id |-> x.id, start |-> x.start, end |-> x.end, changed |-> FALSE]]
  BY DEF Ribbon!Grab
<1> DEFINE d == [kind |-> kind, id |-> x.id, start |-> x.start, end |-> x.end, changed |-> FALSE]
<1>5. st.secs \in Ribbon!Lists BY <1>1, RibbonHas
<1>6. x \in Sections /\ x.start <= x.end BY <1>5, ListsAre
<1>7. x.id \in 1..SectionIds /\ x.start \in Ribbon!Times /\ x.end \in Ribbon!Times BY <1>6 DEF Sections
<1>8. /\ d \in Ribbon!Gestures /\ d.id = x.id /\ d.start = x.start /\ d.end = x.end /\ ~d.changed
  BY <1>7 DEF Ribbon!Gestures
<1>9. st' = [st EXCEPT !.drag = d] BY <1>4
<1> HIDE DEF d
<1>10. d \in Drags /\ d # Ribbon!Idle BY <1>8, GesturesAre DEF Drags
<1>11. /\ st' \in Ribbon!Ribbons /\ st'.track = st.track /\ st'.secs = st.secs /\ st'.drag = d
       /\ st'.timer = st.timer /\ st'.chain = st.chain /\ st'.server = st.server /\ st'.want = st.want
       /\ st'.missed = st.missed /\ Otherwise(st, st')
  BY <1>1, <1>9, <1>10, RibbonsAre DEF Otherwise
<1>12. Ribbon!Get(st', d.id) = x BY <1>5, <1>8, <1>11, Taken
<1>13. Ribbon!OnTheRibbon(st') BY <1>1, <1>6, <1>8, <1>10, <1>11, <1>12 DEF Ribbon!OnTheRibbon
<1>140. Ribbon!AsGrabbed(st') = Ribbon!AsGrabbed(st)
  <2>2. Ribbon!AsGrabbed(st') = {y \in st.secs : y.id # x.id} \cup {Timed(x, x.start, x.end)}
    BY <1>8, <1>10, <1>11, <1>12 DEF Ribbon!AsGrabbed, Ribbon!Others, Timed
  <2>3. Timed(x, x.start, x.end) = x BY <1>6, <1>7, TimedIs
  <2>4. {y \in st.secs : y.id # x.id} \cup {x} = st.secs BY <1>5, ListsAre
  <2> QED BY <1>3, <2>2, <2>3, <2>4 DEF Ribbon!AsGrabbed
<1>14. Ribbon!Wanted(st') BY <1>1, <1>11, <1>140 DEF Ribbon!Wanted
<1>c. Ribbon!CountedIInv => Ribbon!CountedIInv' BY <1>11, <1>140, AsItWas
<1>15. Ribbon!OnItsWay(st')
  <2>2. \A j : Ribbon!HeldBack(st, j) => Ribbon!HeldBack(st', j) BY <1>3, <1>11 DEF Ribbon!HeldBack, Ribbon!Moving
  <2> QED BY <1>1, <1>11, <2>2 DEF Ribbon!OnItsWay
<1> QED BY <1>2, <1>11, <1>13, <1>14, <1>15, <1>c DEF Ribbon!SectionsIInv

(* Wherever it is dragged to, it has its id and its bars, and its times in  *)
(* order.                                                                   *)
LEMMA DraggedIs ==
  ASSUME Ribbon!SectionsAssumption, NEW s \in Ribbon!Ribbons, Ribbon!OnTheRibbon(s), s.drag # Ribbon!Idle,
         NEW o, o = Ribbon!Get(s, s.drag.id), NEW t \in Ribbon!Times
  PROVE \E a \in Ribbon!Times, e \in Ribbon!Times : a <= e /\ Ribbon!Dragged(s, t) = Timed(o, a, e)
<1> DEFINE d == s.drag
<1>0. /\ TrackLength \in Nat /\ ShortestSection \in Nat /\ Ribbon!Times = 0..TrackLength /\ t \in Nat
  BY RibbonNumbers
<1>1. /\ d.kind \in {"move", "left", "right"} /\ o \in s.secs /\ o \in Sections /\ o.id = d.id /\ o.start <= o.end
  BY InHand
<1>2. o.start \in 0..TrackLength /\ o.end \in 0..TrackLength BY <1>0, <1>1 DEF Sections
<1>3. s.secs \subseteq Sections BY RibbonHas, ListsAre
<1>4. Ribbon!Get(s, d.id) = o /\ Ribbon!Get(s, o.id) = o BY <1>1
<1>5. Ribbon!Others(s, o.id) \subseteq Sections BY <1>3 DEF Ribbon!Others
<1> DEFINE w == o.end - o.start
           at == Ribbon!clampMove(s, o.id, t, w)
           lo == Ribbon!MaxOf(Ribbon!leftNeighborEnd(s, o.id), Ribbon!MinOf(o.end - ShortestSection, t))
           hi == Ribbon!MinOf(Ribbon!rightNeighborStart(s, o.id), Ribbon!MaxOf(o.start + ShortestSection, t))
<1>6. Ribbon!Dragged(s, t) = CASE d.kind = "move" -> [o EXCEPT !.start = at, !.end = at + o.end - o.start]
                               [] d.kind = "left" -> [o EXCEPT !.start = lo]
                               [] OTHER -> [o EXCEPT !.end = hi]
  BY <1>4 DEF Ribbon!Dragged
<1>7. CASE d.kind = "move"
  <2>1. w \in 0..TrackLength BY <1>0, <1>1, <1>2
  <2>2. at \in 0..(TrackLength - w)
    <3> DEFINE b == Ribbon!MaxOf(0, Ribbon!MinOf(TrackLength - w, t))
    <3>1. at = Ribbon!PushedOut(Ribbon!Others(s, o.id), b, w, t) BY DEF Ribbon!clampMove
    <3> HIDE DEF w, at
    <3>2. b \in 0..(TrackLength - w) BY <1>0, <2>1 DEF Ribbon!MaxOf, Ribbon!MinOf
    <3>3. t \in Int BY <1>0
    <3> HIDE DEF b
    <3> QED BY <1>5, <2>1, <3>1, <3>2, <3>3, StaysWithin
  <2> HIDE DEF at
  <2>3. at \in Ribbon!Times /\ at + o.end - o.start \in Ribbon!Times /\ at <= at + o.end - o.start
    BY <1>0, <1>1, <1>2, <2>1, <2>2
  <2>4. Ribbon!Dragged(s, t) = Timed(o, at, at + o.end - o.start) BY <1>6, <1>7 DEF Timed
  <2> QED BY <2>3, <2>4
<1>8. CASE d.kind = "left"
  <2> DEFINE E == {0} \cup {y.end : y \in {x \in Ribbon!Others(s, o.id) : x.end <= o.end}}
  <2>1. E \in SUBSET Nat /\ E # {} /\ \A k \in E : k <= o.end
    <3>1. \A x \in Ribbon!Others(s, o.id) : x.end \in Nat BY <1>0, <1>5 DEF Sections
    <3> QED BY <1>2, <3>1
  <2>2. Ribbon!leftNeighborEnd(s, o.id) = Ribbon!Most(E) BY <1>4 DEF Ribbon!leftNeighborEnd
  <2> HIDE DEF E
  <2>3. Ribbon!Most(E) \in E
    <3>1. o.end \in Nat BY <1>0, <1>2
    <3> QED BY <2>1, <3>1, RibbonMost
  <2>4. Ribbon!Most(E) \in Nat /\ Ribbon!Most(E) <= o.end BY <2>1, <2>3
  <2>5. lo \in Nat /\ lo <= o.end BY <1>0, <1>2, <2>2, <2>4 DEF Ribbon!MaxOf, Ribbon!MinOf
  <2> HIDE DEF lo
  <2>6. lo \in Ribbon!Times /\ o.end \in Ribbon!Times BY <1>0, <1>2, <2>5
  <2>7. Ribbon!Dragged(s, t) = Timed(o, lo, o.end) BY <1>1, <1>6, <1>8 DEF Timed, Sections
  <2> QED BY <2>5, <2>6, <2>7
<1>9. CASE d.kind = "right"
  <2> DEFINE E == {TrackLength} \cup {y.start : y \in {x \in Ribbon!Others(s, o.id) : x.start >= o.start}}
  <2>1. E \in SUBSET Nat /\ E # {} /\ \A k \in E : k >= o.start /\ k <= TrackLength
    <3>1. \A x \in Ribbon!Others(s, o.id) : x.start \in Nat /\ x.start <= TrackLength BY <1>0, <1>5 DEF Sections
    <3> QED BY <1>0, <1>2, <3>1
  <2>2. Ribbon!rightNeighborStart(s, o.id) = Ribbon!Least(E) BY <1>4 DEF Ribbon!rightNeighborStart
  <2> HIDE DEF E
  <2>3. Ribbon!Least(E) \in E BY <2>1, RibbonLeast
  <2>4. Ribbon!Least(E) \in Nat /\ Ribbon!Least(E) <= TrackLength /\ Ribbon!Least(E) >= o.start BY <2>1, <2>3
  <2>5. hi \in Nat /\ hi <= TrackLength /\ o.start <= hi BY <1>0, <1>2, <2>2, <2>4 DEF Ribbon!MaxOf, Ribbon!MinOf
  <2> HIDE DEF hi
  <2>6. hi \in Ribbon!Times /\ o.start \in Ribbon!Times BY <1>0, <1>2, <2>5
  <2>7. Ribbon!Dragged(s, t) = Timed(o, o.start, hi) BY <1>1, <1>6, <1>9 DEF Timed, Sections
  <2> QED BY <2>5, <2>6, <2>7
<1> QED BY <1>1, <1>7, <1>8, <1>9

LEMMA RibbonDragged ==
  ASSUME Ribbon!SectionsAssumption, Ribbon!SectionsIInv, Ribbon!Drag PROVE Ribbon!SectionsIInv' /\ (Ribbon!CountedIInv => Ribbon!CountedIInv')
<1>1. st \in Ribbon!Ribbons /\ acts \in 0..RibbonActs /\ Ribbon!OnTheRibbon(st) /\ st.drag # Ribbon!Idle
      /\ Ribbon!Wanted(st) /\ Ribbon!OnItsWay(st)
  BY DEF Ribbon!SectionsIInv, Ribbon!Drag
<1>2. acts' \in 0..RibbonActs BY <1>1, RibbonActCounts DEF Ribbon!Drag
<1> DEFINE d == st.drag
           o == Ribbon!Get(st, d.id)
<1>3. PICK t \in Ribbon!Times :
        LET x == Ribbon!Dragged(st, t)
        IN st' = Ribbon!Put([st EXCEPT !.drag.changed = @ \/ x.start # st.drag.start \/ x.end # st.drag.end], x)
  BY DEF Ribbon!Drag
<1>4. /\ d \in Ribbon!Gestures /\ d.start \in Ribbon!Times /\ d.end \in Ribbon!Times /\ d.start <= d.end
      /\ d.changed \in BOOLEAN
      /\ o \in st.secs /\ o \in Sections /\ o.id = d.id
      /\ Ribbon!AsGrabbed(st) = {y \in st.secs : y.id # d.id} \cup {Timed(o, d.start, d.end)}
  BY <1>1, InHand
<1> DEFINE x == Ribbon!Dragged(st, t)
<1>5. \E a \in Ribbon!Times, e \in Ribbon!Times : a <= e /\ x = Timed(o, a, e)
  <2> HIDE DEF o
  <2>1. o = Ribbon!Get(st, st.drag.id) BY DEF o
  <2> QED BY <1>1, <2>1, DraggedIs
<1> DEFINE ch == d.changed \/ x.start # d.start \/ x.end # d.end
           g == [d EXCEPT !.changed = ch]
           list == {y \in st.secs : y.id # d.id} \cup {x}
<1> HIDE DEF o
<1>6. PICK a \in Ribbon!Times, e \in Ribbon!Times : a <= e /\ x = Timed(o, a, e) BY <1>5
<1>7. st' = Ribbon!Put([st EXCEPT !.drag.changed = @ \/ x.start # st.drag.start \/ x.end # st.drag.end], x)
  BY <1>3
<1> HIDE DEF x
<1>8. x \in Sections /\ x.id = d.id /\ x.start = a /\ x.end = e
  <2>1. o \in Sections /\ o.id = d.id BY <1>4
  <2> HIDE DEF d, ch, g, list
  <2>2. x \in Sections /\ x.id = o.id /\ x.start = a /\ x.end = e BY <1>6, <2>1 DEF Timed, Sections
  <2> QED BY <2>1, <2>2
<1>9. st.secs \in Ribbon!Lists BY <1>1, RibbonHas
<1>10. list \in Ribbon!Lists
  <2>1. x.start <= x.end BY <1>6, <1>8
  <2> QED BY <1>8, <1>9, <2>1, PutListed
<1>11. ch \in BOOLEAN OBVIOUS
<1>12. st' = [st EXCEPT !.drag = g, !.secs = list]
  <2> DEFINE q == [st EXCEPT !.drag.changed = @ \/ x.start # st.drag.start \/ x.end # st.drag.end]
  <2>1. q = [st EXCEPT !.drag = g] OBVIOUS
  <2>2. q.secs = st.secs BY <1>1, <2>1, RibbonsAre
  <2>3. st' = Ribbon!Put(q, x) BY <1>7
  <2> HIDE DEF q
  <2>4. st' = [q EXCEPT !.secs = list] BY <1>8, <2>2, <2>3 DEF Ribbon!Put, Ribbon!Others
  <2> HIDE DEF g, list
  <2> QED BY <1>1, <2>1, <2>4, RibbonsAre
<1> HIDE DEF ch
<1>13. /\ g \in Ribbon!Gestures /\ g.id = d.id /\ g.start = d.start /\ g.end = d.end /\ g.changed = ch
  <2> HIDE DEF d
  <2> QED BY <1>4, <1>11 DEF Ribbon!Gestures
<1> HIDE DEF g
<1>14. g \in Drags /\ g # Ribbon!Idle /\ list \in Lists BY <1>10, <1>13, GesturesAre DEF Drags, Lists
<1>15. list = {y \in st.secs : y.id # d.id} \cup {x} OBVIOUS
<1> HIDE DEF list
<1>16. /\ st' \in Ribbon!Ribbons /\ st'.track = st.track /\ st'.secs = list /\ st'.drag = g
       /\ st'.timer = st.timer /\ st'.chain = st.chain /\ st'.server = st.server /\ st'.want = st.want
       /\ st'.missed = st.missed /\ Otherwise(st, st')
  BY <1>1, <1>12, <1>14, RibbonsAre DEF Otherwise
<1>17. x \in st'.secs /\ Ribbon!Get(st', g.id) = x
  <2>1. x \in list BY <1>15
  <2>2. x.id = g.id /\ st'.secs = list BY <1>8, <1>13, <1>16
  <2> QED BY <1>10, <2>1, <2>2, Taken
<1>18. Ribbon!OnTheRibbon(st')
  <2>1. st.track # Ribbon!None BY <1>1, InHand
  <2>2. ~ch => x.start = d.start /\ x.end = d.end BY DEF ch
  <2> QED BY <1>4, <1>8, <1>13, <1>16, <1>17, <2>1, <2>2 DEF Ribbon!OnTheRibbon
<1>190. Ribbon!AsGrabbed(st') = Ribbon!AsGrabbed(st)
  <2>2. Ribbon!AsGrabbed(st') = {y \in list : y.id # d.id} \cup {Timed(x, d.start, d.end)}
    BY <1>13, <1>14, <1>16, <1>17 DEF Ribbon!AsGrabbed, Ribbon!Others, Timed
  <2>3. Timed(x, d.start, d.end) = Timed(o, d.start, d.end) BY <1>4, <1>6, TimedTwice
  <2>4. {y \in list : y.id # d.id} = {y \in st.secs : y.id # d.id} BY <1>8, <1>15
  <2> QED BY <1>4, <2>2, <2>3, <2>4
<1>19. Ribbon!Wanted(st') BY <1>1, <1>16, <1>190 DEF Ribbon!Wanted
<1>c. Ribbon!CountedIInv => Ribbon!CountedIInv' BY <1>16, <1>190, AsItWas
<1>20. Ribbon!OnItsWay(st')
  <2>2. d.changed => ch BY DEF ch
  <2>3. \A j : Ribbon!HeldBack(st, j) => Ribbon!HeldBack(st', j)
    BY <1>13, <1>14, <1>16, <2>2 DEF Ribbon!HeldBack, Ribbon!Moving
  <2> QED BY <1>1, <1>16, <2>3 DEF Ribbon!OnItsWay
<1> QED BY <1>2, <1>16, <1>18, <1>19, <1>20, <1>c DEF Ribbon!SectionsIInv

LEMMA RibbonDropped ==
  ASSUME Ribbon!SectionsAssumption, Ribbon!SectionsIInv, Ribbon!Drop PROVE Ribbon!SectionsIInv' /\ (Ribbon!CountedIInv => Ribbon!CountedIInv')
<1>1. st \in Ribbon!Ribbons /\ acts \in 0..RibbonActs /\ Ribbon!OnTheRibbon(st) /\ st.drag # Ribbon!Idle
      /\ Ribbon!Wanted(st) /\ Ribbon!OnItsWay(st)
  BY DEF Ribbon!SectionsIInv, Ribbon!Drop
<1>2. acts' \in 0..RibbonActs BY <1>1, RibbonActCounts DEF Ribbon!Drop
<1> DEFINE d == st.drag
           o == Ribbon!Get(st, d.id)
           idle == [st EXCEPT !.drag = Ribbon!Idle]
           y == Ribbon!Synced(idle, o)
           list == {z \in st.secs : z.id # d.id} \cup {y}
<1>3. st' = IF d.changed THEN Ribbon!scheduleSave(Ribbon!Put(idle, y)) ELSE idle
  BY DEF Ribbon!Drop
<1>4. /\ d \in Ribbon!Gestures /\ d.start \in Ribbon!Times /\ d.end \in Ribbon!Times /\ d.start <= d.end
      /\ d.changed \in BOOLEAN
      /\ o \in st.secs /\ o \in Sections /\ o.id = d.id /\ o.start <= o.end
      /\ Ribbon!AsGrabbed(st) = {z \in st.secs : z.id # d.id} \cup {Timed(o, d.start, d.end)}
      /\ st.track \in Edited /\ st.track # Ribbon!None
  BY <1>1, InHand
<1>5. Ribbon!Idle \in Drags BY DEF Drags
<1>6. /\ idle \in Ribbon!Ribbons /\ idle.track = st.track /\ idle.secs = st.secs /\ idle.drag = Ribbon!Idle
      /\ idle.timer = st.timer /\ idle.chain = st.chain /\ idle.server = st.server /\ idle.want = st.want
      /\ idle.missed = st.missed /\ Otherwise(st, idle)
  BY <1>1, <1>5, RibbonsAre DEF Otherwise
<1> HIDE DEF idle
<1>7. CASE d.changed
  <2> HIDE DEF o
  <2>1. y \in Sections /\ y.id = o.id /\ y.start = o.start /\ y.end = o.end /\ Ribbon!Counted(y)
    <3>1. idle.beats \in SUBSET Ribbon!Times BY <1>6, RibbonHas
    <3> QED BY <1>4, <3>1, SyncedIs
  <2> HIDE DEF y
  <2> DEFINE q == Ribbon!Put(idle, y)
  <2>2. list \in Ribbon!Lists
    <3>1. st.secs \in Ribbon!Lists BY <1>1, RibbonHas
    <3>2. y.id = d.id /\ y.start <= y.end BY <1>4, <2>1
    <3> QED BY <2>1, <3>1, <3>2, PutListed
  <2>3. q = [idle EXCEPT !.secs = list] BY <1>4, <1>6, <2>1 DEF Ribbon!Put, Ribbon!Others
  <2>4. \A z \in list : z = y \/ (z \in st.secs /\ z.id # d.id) OBVIOUS
  <2>5. st' = Ribbon!scheduleSave(q) BY <1>3, <1>7
  <2> HIDE DEF q, list
  <2>6. list \in Lists BY <2>2 DEF Lists
  <2>7. /\ q \in Ribbon!Ribbons /\ q.track = st.track /\ q.secs = list /\ q.drag = Ribbon!Idle
        /\ q.timer = st.timer /\ q.chain = st.chain /\ q.server = st.server /\ q.want = st.want
        /\ q.missed = st.missed /\ q.torn = st.torn /\ q.read = st.read
    BY <1>6, <2>3, <2>6, RibbonsAre DEF Otherwise
  <2>8. ASSUME Ribbon!CountedIInv, ~st.torn PROVE Ribbon!AllCounted(q.secs)
    <3>1. Ribbon!AllCounted(Ribbon!AsGrabbed(st)) BY <2>8 DEF Ribbon!CountedIInv, Ribbon!EveryListCounted
    <3>2. ASSUME NEW z \in list PROVE Ribbon!Counted(z)
      <4>1. CASE z = y BY <2>1, <4>1
      <4>2. CASE z \in st.secs /\ z.id # d.id
        <5>1. z \in Ribbon!AsGrabbed(st) BY <1>4, <4>2
        <5> QED BY <3>1, <5>1 DEF Ribbon!AllCounted
      <4> QED BY <2>4, <4>1, <4>2
    <3> QED BY <2>7, <3>2 DEF Ribbon!AllCounted
  <2> QED BY <1>2, <1>4, <2>5, <2>7, <2>8, RibbonEdited
<1>8. CASE ~d.changed
  <2>1. st' = idle BY <1>3, <1>8
  <2>2. Ribbon!OnTheRibbon(st') BY <1>4, <1>6, <2>1 DEF Ribbon!OnTheRibbon
  <2>3. Ribbon!Wanted(st')
    <3>1. ASSUME st.track \notin st.missed PROVE st.want[st.track] = st.secs
      <4>1. ~Ribbon!Moving(st) BY <1>8 DEF Ribbon!Moving
      <4> QED BY <1>1, <1>4, <3>1, <4>1, NothingChanged
    <3>2. Ribbon!AsGrabbed(st') = st.secs BY <1>6, <2>1 DEF Ribbon!AsGrabbed
    <3> QED BY <1>6, <2>1, <3>1, <3>2 DEF Ribbon!Wanted
  <2>4. Ribbon!OnItsWay(st')
    <3>2. \A l : Ribbon!HeldBack(st, l) => Ribbon!HeldBack(st', l)
      BY <1>6, <1>8, <2>1 DEF Ribbon!HeldBack, Ribbon!Moving
    <3> QED BY <1>1, <1>6, <2>1, <3>2 DEF Ribbon!OnItsWay
  <2>5. ~Ribbon!Moving(st) BY <1>8 DEF Ribbon!Moving
  <2>6. Ribbon!AsGrabbed(st') = Ribbon!AsGrabbed(st)
    BY <1>1, <1>6, <2>1, <2>5, NothingMoved DEF Ribbon!AsGrabbed
  <2>7. Ribbon!CountedIInv => Ribbon!CountedIInv' BY <1>6, <2>1, <2>6, AsItWas
  <2> QED BY <1>2, <1>6, <2>1, <2>2, <2>3, <2>4, <2>7 DEF Ribbon!SectionsIInv
<1> QED BY <1>4, <1>7, <1>8

LEMMA RibbonCancelled ==
  ASSUME Ribbon!SectionsAssumption, Ribbon!SectionsIInv, Ribbon!Cancel PROVE Ribbon!SectionsIInv' /\ (Ribbon!CountedIInv => Ribbon!CountedIInv')
<1>1. st \in Ribbon!Ribbons /\ acts \in 0..RibbonActs /\ Ribbon!OnTheRibbon(st) /\ st.drag # Ribbon!Idle
      /\ Ribbon!Wanted(st) /\ Ribbon!OnItsWay(st)
  BY DEF Ribbon!SectionsIInv, Ribbon!Cancel
<1>2. acts' \in 0..RibbonActs BY <1>1, RibbonActCounts DEF Ribbon!Cancel
<1> DEFINE d == st.drag
           o == Ribbon!Get(st, d.id)
           idle == [st EXCEPT !.drag = Ribbon!Idle]
           back == Timed(o, d.start, d.end)
           list == {z \in st.secs : z.id # d.id} \cup {back}
           mi == st.missed \cup {k \in {st.track} : ~st.timer /\ d.changed}
<1>3. st' = [Ribbon!Put(idle, back) EXCEPT !.missed = @ \cup {k \in {st.track} : ~st.timer /\ d.changed}]
  BY DEF Ribbon!Cancel, Timed
<1>4. /\ d \in Ribbon!Gestures /\ d.start \in Ribbon!Times /\ d.end \in Ribbon!Times /\ d.start <= d.end
      /\ d.changed \in BOOLEAN
      /\ o \in st.secs /\ o \in Sections /\ o.id = d.id
      /\ Ribbon!AsGrabbed(st) = list
      /\ st.track \in Edited /\ st.track # Ribbon!None
  BY <1>1, InHand
<1>5. back \in Sections /\ back.id = d.id /\ back.start = d.start /\ back.end = d.end
  <2>0. o \in Sections BY <1>4
  <2> HIDE DEF o
  <2>1. ASSUME NEW a \in Ribbon!Times, NEW e \in Ribbon!Times, NEW w, w = Timed(o, a, e)
        PROVE w \in Sections /\ w.id = o.id /\ w.start = a /\ w.end = e
    BY <2>0, <2>1, TimedIs
  <2> QED BY <1>4, <2>1
<1> HIDE DEF back
<1>6. list \in Ribbon!Lists
  <2>1. st.secs \in Ribbon!Lists BY <1>1, RibbonHas
  <2>2. back.start <= back.end BY <1>4, <1>5
  <2> QED BY <1>5, <2>1, <2>2, PutListed
<1>7. mi \in Missing
  <2>1. st.missed \in SUBSET Edited BY <1>1, RibbonHas
  <2> QED BY <1>4, <2>1 DEF Missing
<1>8. st' = [st EXCEPT !.drag = Ribbon!Idle, !.secs = list, !.missed = mi]
  <2>1. idle.secs = st.secs BY <1>1, RibbonsAre
  <2>2. Ribbon!Put(idle, back) = [idle EXCEPT !.secs = list] BY <1>5, <2>1 DEF Ribbon!Put, Ribbon!Others
  <2>3. st' = [[idle EXCEPT !.secs = list] EXCEPT !.missed = @ \cup {k \in {st.track} : ~st.timer /\ d.changed}] BY <1>3, <2>2
  <2> HIDE DEF list
  <2> QED BY <1>1, <2>3, RibbonsAre
<1>9. Ribbon!Idle \in Drags /\ list \in Lists BY <1>6 DEF Drags, Lists
<1>10. Ribbon!AsGrabbed(st) = list BY <1>4
<1> HIDE DEF list
<1>11. \A k : k \notin mi => k \notin st.missed /\ (k = st.track => st.timer \/ ~d.changed) OBVIOUS
<1> HIDE DEF mi
<1>12. /\ st' \in Ribbon!Ribbons /\ st'.track = st.track /\ st'.secs = list /\ st'.drag = Ribbon!Idle
       /\ st'.timer = st.timer /\ st'.chain = st.chain /\ st'.server = st.server /\ st'.want = st.want
       /\ st'.missed = mi /\ Otherwise(st, st')
  BY <1>1, <1>7, <1>8, <1>9, RibbonsAre DEF Otherwise
<1>13. Ribbon!OnTheRibbon(st') BY <1>4, <1>12 DEF Ribbon!OnTheRibbon
<1>14. Ribbon!Wanted(st')
  <2>2. Ribbon!AsGrabbed(st') = list BY <1>12 DEF Ribbon!AsGrabbed
  <2> QED BY <1>1, <1>10, <1>11, <1>12, <2>2 DEF Ribbon!Wanted
<1>15. Ribbon!OnItsWay(st')
  <2>1. ASSUME NEW k, k \notin mi, Ribbon!HeldBack(st, k) PROVE Ribbon!HeldBack(st', k)
    BY <1>11, <1>12, <2>1 DEF Ribbon!HeldBack, Ribbon!Moving
  <2> QED BY <1>1, <1>11, <1>12, <2>1 DEF Ribbon!OnItsWay
<1>16. Ribbon!AsGrabbed(st') = Ribbon!AsGrabbed(st) BY <1>10, <1>12 DEF Ribbon!AsGrabbed
<1>c. Ribbon!CountedIInv => Ribbon!CountedIInv' BY <1>12, <1>16, AsItWas
<1> QED BY <1>2, <1>12, <1>13, <1>14, <1>15, <1>c DEF Ribbon!SectionsIInv

LEMMA RibbonSteps ==
  ASSUME Ribbon!SectionsAssumption, Ribbon!SectionsIInv, Ribbon!CountedIInv, Ribbon!SectionsNext
  PROVE Ribbon!SectionsIInv' /\ Ribbon!CountedIInv'
BY RibbonOpens, RibbonShown, RibbonDestroyed, RibbonGrabbed, RibbonDragged, RibbonDropped, RibbonCancelled,
   RibbonAdds, RibbonDeletes, RibbonSplits, RibbonMerges, RibbonClears, RibbonSaved, RibbonSent
   DEF Ribbon!SectionsNext

(* ----------------------------- what is promised ------------------------- *)
LEMMA RibbonKeeps ==
  ASSUME Ribbon!SectionsAssumption, Ribbon!SectionsIInv, Ribbon!CountedIInv
  PROVE Ribbon!SectionsTypeOK /\ Ribbon!BarsDescribeTimes /\ Ribbon!LastEditKept
<1>1. st \in Ribbon!Ribbons /\ acts \in 0..RibbonActs /\ Ribbon!OnTheRibbon(st) BY DEF Ribbon!SectionsIInv
<1>2. /\ st.track \in Edited \cup {Ribbon!None} /\ st.secs \in Ribbon!Lists
      /\ st.drag \in {Ribbon!Idle} \cup Ribbon!Gestures
      /\ st.timer \in BOOLEAN /\ st.chain \in Seq(Ribbon!Saves) /\ st.server \in [Edited -> Ribbon!Lists]
      /\ st.want \in [Edited -> Ribbon!Lists] /\ st.opening \in Edited \cup {Ribbon!None}
      /\ st.armed \in BOOLEAN /\ st.beats \in SUBSET Ribbon!Times /\ st.missed \in SUBSET Edited
      /\ st.torn \in BOOLEAN
  BY <1>1, RibbonHas
<1>3. \A S \in Ribbon!Lists : S \subseteq Ribbon!Section BY DEF Ribbon!Lists
<1>4. Ribbon!SectionsTypeOK
  <2>1. st.drag.kind \in {Ribbon!None, "move", "left", "right"} BY <1>2, GesturesAre DEF Ribbon!Idle
  <2>2. \A n \in DOMAIN st.chain : st.chain[n].of \in Edited /\ st.chain[n].secs \subseteq Ribbon!Section
    <3>1. \A m \in Ribbon!Saves : m.of \in Edited /\ m.secs \subseteq Ribbon!Section BY <1>3 DEF Ribbon!Saves
    <3>2. \A n \in DOMAIN st.chain : st.chain[n] \in Ribbon!Saves BY <1>2
    <3> QED BY <3>1, <3>2
  <2>3. \A j \in Edited : st.server[j] \subseteq Ribbon!Section /\ st.want[j] \subseteq Ribbon!Section BY <1>2, <1>3
  <2> QED BY <1>1, <1>2, <1>3, <2>1, <2>2, <2>3 DEF Ribbon!SectionsTypeOK
<1>5. Ribbon!BarsDescribeTimes
  <2> SUFFICES ASSUME st.drag = Ribbon!Idle, ~st.torn, NEW x \in st.secs
               PROVE /\ Ribbon!Counted(x)
                     /\ \A y \in st.secs : x.by = y.by /\ x.end = y.start /\ y.start \in x.by
                          /\ x.start < x.end /\ (\E b \in x.by : b <= x.start)
                          => x.bars.hi <= y.bars.lo - 1
    BY DEF Ribbon!BarsDescribeTimes
  <2>1. \A z \in st.secs : Ribbon!Counted(z)
    BY DEF Ribbon!CountedIInv, Ribbon!EveryListCounted, Ribbon!AllCounted, Ribbon!AsGrabbed
  <2>2. ASSUME NEW y \in st.secs, x.by = y.by, x.end = y.start, y.start \in x.by, x.start < x.end,
               NEW b \in x.by, b <= x.start
        PROVE x.bars.hi <= y.bars.lo - 1
    <3>1. x \in Sections BY <1>2, ListsAre
    <3>2. x.start \in Ribbon!Times /\ x.end \in Ribbon!Times /\ x.by \in SUBSET Ribbon!Times BY <3>1 DEF Sections
    <3>3. Ribbon!barRangeForTime(x.by, x.start, x.end).hi <= Ribbon!barRangeForTime(x.by, x.end, y.end).lo - 1
      BY <2>2, <3>2, BarsDoNotMeet
    <3>4. x.bars = Ribbon!barRangeForTime(x.by, x.start, x.end) /\ y.bars = Ribbon!barRangeForTime(x.by, x.end, y.end)
      BY <2>1, <2>2 DEF Ribbon!Counted
    <3> QED BY <3>3, <3>4
  <2> QED BY <2>1, <2>2
<1>6. Ribbon!LastEditKept
  <2> SUFFICES ASSUME Ribbon!Settled, NEW j \in Edited \ st.missed PROVE st.server[j] = st.want[j]
    BY DEF Ribbon!LastEditKept
  <2>1. ~st.timer /\ st.chain = <<>> /\ st.drag = Ribbon!Idle BY DEF Ribbon!Settled
  <2>2. Ribbon!OnItsWay(st) BY DEF Ribbon!SectionsIInv
  <2>3. ~Ribbon!HeldBack(st, j) BY <2>1 DEF Ribbon!HeldBack, Ribbon!Moving
  <2>4. Ribbon!Arrives(st.chain, st.server[j], j, st.want[j]) BY <2>2, <2>3 DEF Ribbon!OnItsWay
  <2>5. DOMAIN st.chain = {} BY <2>1
  <2> QED BY <2>4, <2>5 DEF Ribbon!Arrives
<1> QED BY <1>4, <1>5, <1>6

(* ---------------------------- beside one another ------------------------ *)
ApartIn(S) == \A x, y \in S : x # y => ~Ribbon!Overlaps(x, y)
WithinIn(S) == \A x \in S : 0 <= x.start /\ x.start < x.end /\ x.end <= TrackLength
Beside2(x, y) == ~Ribbon!Overlaps(x, y) /\ ~Ribbon!Overlaps(y, x)

LEMMA ApartAre ==
  /\ Ribbon!Apart <=> ApartIn(st.secs) /\ (Ribbon!Within <=> WithinIn(st.secs))
  /\ (Ribbon!Apart <=> ApartIn(st.secs))' /\ (Ribbon!Within <=> WithinIn(st.secs))'
BY DEF Ribbon!Apart, ApartIn, Ribbon!Within, WithinIn

LEMMA TimesOf ==
  ASSUME Ribbon!SectionsAssumption, NEW x \in Sections
  PROVE x.start \in Nat /\ x.end \in Nat /\ x.start <= TrackLength /\ x.end <= TrackLength /\ TrackLength \in Nat
BY RibbonNumbers DEF Sections

LEMMA FewerApart ==
  ASSUME NEW S, NEW T \in SUBSET S, ApartIn(S), WithinIn(S) PROVE ApartIn(T) /\ WithinIn(T)
BY DEF ApartIn, WithinIn

LEMMA OneMoreApart ==
  ASSUME NEW T, ApartIn(T), WithinIn(T), NEW x, \A y \in T : Beside2(x, y),
         0 <= x.start /\ x.start < x.end /\ x.end <= TrackLength
  PROVE ApartIn(T \cup {x}) /\ WithinIn(T \cup {x})
BY DEF ApartIn, WithinIn, Beside2

(* The list a button leaves is the one that is shown.                       *)
LEMMA SavedList ==
  ASSUME NEW s \in Ribbon!Ribbons, NEW list, NEW ar, NEW q,
         q = [s EXCEPT !.secs = list] \/ q = [s EXCEPT !.armed = ar, !.secs = list]
  PROVE Ribbon!scheduleSave(q).secs = list
<1> DEFINE w == [q.want EXCEPT ![q.track] = q.secs]
<1>1. Ribbon!scheduleSave(q) = [q EXCEPT !.timer = TRUE, !.want = w] BY DEF Ribbon!scheduleSave
<1> HIDE DEF w
<1>2. q.secs = list /\ DOMAIN q = DOMAIN s BY RibbonsAre
<1>3. "secs" \in DOMAIN q BY <1>2, RibbonsAre
<1>4. [q EXCEPT !.timer = TRUE, !.want = w].secs = q.secs BY <1>3
<1> QED BY <1>1, <1>2, <1>4

LEMMA ButtonList ==
  ASSUME NEW s \in Ribbon!Ribbons, NEW list PROVE Ribbon!scheduleSave([s EXCEPT !.secs = list]).secs = list
BY SavedList

LEMMA DragKeepsApart ==
  ASSUME Ribbon!SectionsAssumption, Ribbon!SectionsIInv, Ribbon!Drag, st.drag.kind # "move",
         ApartIn(st.secs), WithinIn(st.secs)
  PROVE ApartIn(st'.secs) /\ WithinIn(st'.secs)
<1>1. st \in Ribbon!Ribbons /\ Ribbon!OnTheRibbon(st) /\ st.drag # Ribbon!Idle
  BY DEF Ribbon!SectionsIInv, Ribbon!Drag
<1> DEFINE d == st.drag
           o == Ribbon!Get(st, d.id)
           T == Ribbon!Others(st, o.id)
<1>2. /\ d.kind \in {"move", "left", "right"} /\ o \in st.secs /\ o \in Sections /\ o.id = d.id
  BY <1>1, InHand
<1>3. PICK t \in Ribbon!Times : st'.secs = Ribbon!Others(st, Ribbon!Dragged(st, t).id) \cup {Ribbon!Dragged(st, t)}
  <2>1. PICK t \in Ribbon!Times :
          LET x == Ribbon!Dragged(st, t)
          IN st' = Ribbon!Put([st EXCEPT !.drag.changed = @ \/ x.start # st.drag.start \/ x.end # st.drag.end], x)
    BY DEF Ribbon!Drag
  <2> DEFINE x == Ribbon!Dragged(st, t)
             g == [st.drag EXCEPT !.changed = @ \/ x.start # st.drag.start \/ x.end # st.drag.end]
             q == [st EXCEPT !.drag = g]
  <2>2. st' = Ribbon!Put(q, x) BY <2>1
  <2> HIDE DEF x, g
  <2>3. q.secs = st.secs /\ "secs" \in DOMAIN q BY <1>1, RibbonsAre
  <2> HIDE DEF q
  <2>4. st' = [q EXCEPT !.secs = Ribbon!Others(q, x.id) \cup {x}] BY <2>2 DEF Ribbon!Put
  <2>5. st'.secs = Ribbon!Others(q, x.id) \cup {x} BY <2>3, <2>4
  <2>6. Ribbon!Others(q, x.id) = Ribbon!Others(st, x.id) BY <2>3 DEF Ribbon!Others
  <2> QED BY <2>5, <2>6 DEF x
<1> DEFINE x == Ribbon!Dragged(st, t)
           lo == Ribbon!MaxOf(Ribbon!leftNeighborEnd(st, o.id), Ribbon!MinOf(o.end - ShortestSection, t))
           hi == Ribbon!MinOf(Ribbon!rightNeighborStart(st, o.id), Ribbon!MaxOf(o.start + ShortestSection, t))
<1>4. /\ d.kind = "left" => x = [o EXCEPT !.start = lo]
      /\ d.kind = "right" => x = [o EXCEPT !.end = hi]
  <2>1. Ribbon!Get(st, o.id) = o BY <1>2
  <2> QED BY <2>1 DEF Ribbon!Dragged
<1>5. T \in SUBSET st.secs /\ o \notin T BY DEF Ribbon!Others
<1>6. ApartIn(T) /\ WithinIn(T) BY <1>5, FewerApart
<1>7. /\ TrackLength \in Nat /\ ShortestSection \in Nat /\ ShortestSection >= 1 /\ t \in Nat /\ t <= TrackLength
  BY RibbonNumbers
<1>8. o.start \in Nat /\ o.end \in Nat /\ o.start < o.end /\ o.end <= TrackLength
  BY <1>2, TimesOf DEF WithinIn
<1>9. ASSUME NEW y \in T
      PROVE y.start \in Nat /\ y.end \in Nat /\ y.start < y.end /\ y.end <= TrackLength
            /\ (y.end <= o.start \/ y.start >= o.end)
  <2>1. y \in st.secs /\ y # o BY <1>5
  <2>2. y \in Sections BY <1>1, <2>1, RibbonHas, ListsAre
  <2>3. y.start \in Nat /\ y.end \in Nat /\ y.start < y.end /\ y.end <= TrackLength BY <2>1, <2>2, TimesOf DEF WithinIn
  <2>4. ~Ribbon!Overlaps(y, o) BY <1>2, <2>1 DEF ApartIn
  <2> QED BY <1>8, <2>3, <2>4 DEF Ribbon!Overlaps
<1>10. Ribbon!Get(st, o.id) = o BY <1>2
<1> HIDE DEF x, T, o
<1>11. CASE d.kind = "left"
  <2> DEFINE E == {0} \cup {y.end : y \in {z \in T : z.end <= o.end}}
  <2>1. E \in SUBSET Nat /\ E # {} /\ \A k \in E : k <= o.start BY <1>8, <1>9
  <2>2. Ribbon!leftNeighborEnd(st, o.id) = Ribbon!Most(E) BY <1>10 DEF Ribbon!leftNeighborEnd, T
  <2>3. \A y \in T : y.end <= o.end => y.end \in E OBVIOUS
  <2> HIDE DEF E
  <2>4. Ribbon!Most(E) \in E /\ \A k \in E : Ribbon!Most(E) >= k BY <1>8, <2>1, RibbonMost
  <2> DEFINE n == Ribbon!Most(E)
  <2>5. n \in Nat /\ n <= o.start /\ \A y \in T : y.end <= o.end => y.end <= n BY <1>9, <2>1, <2>3, <2>4
  <2>6. lo = Ribbon!MaxOf(n, Ribbon!MinOf(o.end - ShortestSection, t)) BY <2>2
  <2> HIDE DEF n
  <2>7. lo \in Nat /\ lo >= n /\ lo < o.end BY <1>7, <1>8, <2>5, <2>6 DEF Ribbon!MaxOf, Ribbon!MinOf
  <2> HIDE DEF lo
  <2>8. x.id = o.id /\ x.start = lo /\ x.end = o.end BY <1>2, <1>4, <1>11 DEF Sections
  <2>9. \A y \in T : Beside2(x, y)
    <3>1. ASSUME NEW y \in T PROVE y.end <= lo \/ y.start >= o.end
      <4>1. y.start \in Nat /\ y.end \in Nat /\ y.start < y.end /\ (y.end <= o.start \/ y.start >= o.end) BY <1>9
      <4>2. CASE y.end <= o.start
        <5>1. y.end <= o.end BY <1>8, <4>1, <4>2
        <5>2. y.end <= n BY <2>5, <5>1
        <5> QED BY <2>5, <2>7, <4>1, <5>2
      <4> QED BY <4>1, <4>2
    <3>2. ASSUME NEW y \in T PROVE Beside2(x, y)
      <4>1. y.start \in Nat /\ y.end \in Nat BY <1>9
      <4> QED BY <1>8, <2>7, <2>8, <3>1, <4>1 DEF Beside2, Ribbon!Overlaps
    <3> QED BY <3>2
  <2>10. ApartIn(T \cup {x}) /\ WithinIn(T \cup {x})
    <3>1. 0 <= x.start /\ x.start < x.end /\ x.end <= TrackLength BY <1>8, <2>7, <2>8
    <3> QED BY <1>6, <2>9, <3>1, OneMoreApart
  <2> QED BY <1>3, <2>8, <2>10 DEF x, T
<1>12. CASE d.kind = "right"
  <2> DEFINE E == {TrackLength} \cup {y.start : y \in {z \in T : z.start >= o.start}}
  <2>1. E \in SUBSET Nat /\ E # {} /\ \A k \in E : k >= o.end /\ k <= TrackLength BY <1>7, <1>8, <1>9
  <2>2. Ribbon!rightNeighborStart(st, o.id) = Ribbon!Least(E) BY <1>10 DEF Ribbon!rightNeighborStart, T
  <2>3. \A y \in T : y.start >= o.start => y.start \in E OBVIOUS
  <2> HIDE DEF E
  <2>4. Ribbon!Least(E) \in E /\ \A k \in E : Ribbon!Least(E) <= k BY <2>1, RibbonLeast
  <2> DEFINE n == Ribbon!Least(E)
  <2>5. n \in Nat /\ n >= o.end /\ n <= TrackLength /\ \A y \in T : y.start >= o.start => n <= y.start
    BY <1>9, <2>1, <2>3, <2>4
  <2>6. hi = Ribbon!MinOf(n, Ribbon!MaxOf(o.start + ShortestSection, t)) BY <2>2
  <2> HIDE DEF n
  <2>7. hi \in Nat /\ hi <= n /\ o.start < hi BY <1>7, <1>8, <2>5, <2>6 DEF Ribbon!MaxOf, Ribbon!MinOf
  <2> HIDE DEF hi
  <2>8. x.id = o.id /\ x.start = o.start /\ x.end = hi BY <1>2, <1>4, <1>12 DEF Sections
  <2>9. \A y \in T : Beside2(x, y)
    <3>1. ASSUME NEW y \in T PROVE y.end <= o.start \/ y.start >= hi
      <4>1. y.start \in Nat /\ y.end \in Nat /\ y.start < y.end /\ (y.end <= o.start \/ y.start >= o.end) BY <1>9
      <4>2. CASE y.start >= o.end
        <5>1. y.start >= o.start BY <1>8, <4>1, <4>2
        <5>2. n <= y.start BY <2>5, <5>1
        <5> QED BY <2>5, <2>7, <4>1, <5>2
      <4> QED BY <4>1, <4>2
    <3>2. ASSUME NEW y \in T PROVE Beside2(x, y)
      <4>1. y.start \in Nat /\ y.end \in Nat BY <1>9
      <4> QED BY <1>8, <2>7, <2>8, <3>1, <4>1 DEF Beside2, Ribbon!Overlaps
    <3> QED BY <3>2
  <2>10. ApartIn(T \cup {x}) /\ WithinIn(T \cup {x})
    <3>1. 0 <= x.start /\ x.start < x.end /\ x.end <= TrackLength BY <1>7, <1>8, <2>5, <2>7, <2>8
    <3> QED BY <1>6, <2>9, <3>1, OneMoreApart
  <2> QED BY <1>3, <2>8, <2>10 DEF x, T
<1> QED BY <1>2, <1>11, <1>12

LEMMA AddKeepsApart ==
  ASSUME Ribbon!SectionsAssumption, Ribbon!SectionsIInv, Ribbon!addSection, ApartIn(st.secs), WithinIn(st.secs)
  PROVE ApartIn(st'.secs) /\ WithinIn(st'.secs)
<1>1. st \in Ribbon!Ribbons BY DEF Ribbon!SectionsIInv
<1> DEFINE id == Ribbon!Least(Ribbon!FreeIds)
           a == Ribbon!GapStart
           e == Ribbon!MinOf(a + NewSection, TrackLength)
           x == Ribbon!Sec(st.beats, id, a, e)
<1>3. /\ x.end - x.start >= ShortestSection /\ (\A y \in st.secs : ~Ribbon!Overlaps(x, y))
      /\ st' = Ribbon!scheduleSave([st EXCEPT !.secs = @ \cup {x}])
  BY DEF Ribbon!addSection
<1>4. x.start = a /\ x.end = e BY DEF Ribbon!Sec
<1>5. st.secs \in Ribbon!Lists BY <1>1, RibbonHas
<1>6. a \in Ribbon!Times BY <1>5, GapIsInTheTrack
<1>7. TrackLength \in Nat /\ NewSection \in Nat /\ Ribbon!Times = 0..TrackLength /\ ShortestSection >= 1 /\ ShortestSection \in Nat
  BY RibbonNumbers
<1> HIDE DEF a
<1>8. e \in Nat /\ e <= TrackLength /\ a \in Nat BY <1>6, <1>7 DEF Ribbon!MinOf
<1> HIDE DEF e, x
<1>9. 0 <= x.start /\ x.start < x.end /\ x.end <= TrackLength BY <1>3, <1>4, <1>7, <1>8
<1>10. \A y \in st.secs : Beside2(x, y)
  <2>1. ASSUME NEW y \in st.secs PROVE Beside2(x, y)
    <3>1. y.start \in Nat /\ y.end \in Nat BY <1>5, ListsAre, TimesOf
    <3>2. ~Ribbon!Overlaps(x, y) BY <1>3
    <3> QED BY <1>4, <1>8, <3>1, <3>2 DEF Beside2, Ribbon!Overlaps
  <2> QED BY <2>1
<1>11. ApartIn(st.secs \cup {x}) /\ WithinIn(st.secs \cup {x}) BY <1>9, <1>10, OneMoreApart
<1>12. st'.secs = st.secs \cup {x} BY <1>1, <1>3, ButtonList
<1> QED BY <1>11, <1>12

LEMMA SplitKeepsApart ==
  ASSUME Ribbon!SectionsAssumption, Ribbon!SectionsIInv, Ribbon!splitSection, ApartIn(st.secs), WithinIn(st.secs)
  PROVE ApartIn(st'.secs) /\ WithinIn(st'.secs)
<1>1. st \in Ribbon!Ribbons BY DEF Ribbon!SectionsIInv
<1> DEFINE id == Ribbon!Least(Ribbon!FreeIds)
<1>2. PICK x \in st.secs, playhead \in Ribbon!Times :
        LET at == Ribbon!MaxOf(x.start + ShortestSection, Ribbon!MinOf(x.end - ShortestSection, playhead))
        IN /\ at > x.start /\ at < x.end
           /\ st' = Ribbon!scheduleSave([st EXCEPT !.secs =
                Ribbon!Others(st, x.id) \cup {Ribbon!Sec(st.beats, x.id, x.start, at), Ribbon!Sec(st.beats, id, at, x.end)}])
  BY DEF Ribbon!splitSection
<1> DEFINE at == Ribbon!MaxOf(x.start + ShortestSection, Ribbon!MinOf(x.end - ShortestSection, playhead))
           l == Ribbon!Sec(st.beats, x.id, x.start, at)
           r == Ribbon!Sec(st.beats, id, at, x.end)
           T == Ribbon!Others(st, x.id)
<1>3. at > x.start /\ at < x.end /\ st' = Ribbon!scheduleSave([st EXCEPT !.secs = T \cup {l, r}]) BY <1>2
<1>4. st.secs \in Ribbon!Lists BY <1>1, RibbonHas
<1>5. l.start = x.start /\ l.end = at /\ r.start = at /\ r.end = x.end BY DEF Ribbon!Sec
<1>6. x.start \in Nat /\ x.end \in Nat /\ x.start < x.end /\ x.end <= TrackLength BY <1>4, ListsAre, TimesOf DEF WithinIn
<1>7. TrackLength \in Nat /\ ShortestSection \in Nat /\ playhead \in Nat BY RibbonNumbers
<1>8. at \in Int BY <1>6, <1>7 DEF Ribbon!MaxOf, Ribbon!MinOf
<1>9. T \in SUBSET st.secs /\ x \notin T BY DEF Ribbon!Others
<1> HIDE DEF at, l, r, T
<1>10. ApartIn(T) /\ WithinIn(T) BY <1>9, FewerApart
<1>11. ASSUME NEW y \in T PROVE Beside2(l, y) /\ Beside2(y, r)
  <2>1. y \in st.secs /\ y # x BY <1>9
  <2>2. y.start \in Nat /\ y.end \in Nat /\ y.start < y.end BY <1>4, <2>1, ListsAre, TimesOf DEF WithinIn
  <2>3. ~Ribbon!Overlaps(x, y) BY <2>1 DEF ApartIn
  <2> QED BY <1>3, <1>5, <1>6, <1>8, <2>2, <2>3 DEF Beside2, Ribbon!Overlaps
<1>12. ApartIn(T \cup {l}) /\ WithinIn(T \cup {l})
  <2>1. 0 <= l.start /\ l.start < l.end /\ l.end <= TrackLength BY <1>3, <1>5, <1>6, <1>7, <1>8
  <2> QED BY <1>10, <1>11, <2>1, OneMoreApart
<1>13. \A y \in T \cup {l} : Beside2(r, y)
  <2>1. Beside2(r, l) BY <1>5, <1>8 DEF Beside2, Ribbon!Overlaps
  <2>2. \A y \in T : Beside2(r, y) BY <1>11 DEF Beside2
  <2> QED BY <2>1, <2>2
<1>14. ApartIn((T \cup {l}) \cup {r}) /\ WithinIn((T \cup {l}) \cup {r})
  <2>1. 0 <= r.start /\ r.start < r.end /\ r.end <= TrackLength BY <1>3, <1>5, <1>6, <1>7, <1>8
  <2> QED BY <1>12, <1>13, <2>1, OneMoreApart
<1>15. st'.secs = T \cup {l, r} BY <1>1, <1>3, ButtonList
<1>16. T \cup {l, r} = (T \cup {l}) \cup {r} OBVIOUS
<1> QED BY <1>14, <1>15, <1>16

LEMMA MergeKeepsApart ==
  ASSUME Ribbon!SectionsAssumption, Ribbon!SectionsIInv, Ribbon!mergeSection, ApartIn(st.secs), WithinIn(st.secs)
  PROVE ApartIn(st'.secs) /\ WithinIn(st'.secs)
<1>1. st \in Ribbon!Ribbons BY DEF Ribbon!SectionsIInv
<1>2. PICK x \in st.secs, y \in st.secs :
        /\ x # y /\ y.start = x.end
        /\ st' = Ribbon!scheduleSave([st EXCEPT !.secs = (@ \ {x, y}) \cup {Ribbon!merged(x, y)}])
  BY DEF Ribbon!mergeSection
<1> DEFINE m == Ribbon!merged(x, y)
           T == st.secs \ {x, y}
<1>3. st.secs \in Ribbon!Lists BY <1>1, RibbonHas
<1>4. m.start = x.start /\ m.end = y.end
  <2>1. x \in Sections BY <1>3, ListsAre
  <2> QED BY <2>1 DEF Ribbon!merged, Ribbon!Synced, Sections
<1>5. st' = Ribbon!scheduleSave([st EXCEPT !.secs = T \cup {m}]) BY <1>2
<1> HIDE DEF m, T
<1>6. \A z \in st.secs : z.start \in Nat /\ z.end \in Nat /\ z.start < z.end /\ z.end <= TrackLength
  BY <1>3, ListsAre, TimesOf DEF WithinIn
<1>7. T \in SUBSET st.secs /\ \A z \in T : z # x /\ z # y BY DEF T
<1>8. ApartIn(T) /\ WithinIn(T) BY <1>7, FewerApart
<1>9. ASSUME NEW z \in T PROVE Beside2(m, z)
  <2>1. ~Ribbon!Overlaps(x, z) /\ ~Ribbon!Overlaps(y, z) BY <1>7 DEF ApartIn
  <2>2. z \in st.secs BY <1>7
  <2> QED BY <1>2, <1>4, <1>6, <2>1, <2>2 DEF Beside2, Ribbon!Overlaps
<1>10. 0 <= m.start /\ m.start < m.end /\ m.end <= TrackLength BY <1>2, <1>4, <1>6
<1>11. ApartIn(T \cup {m}) /\ WithinIn(T \cup {m}) BY <1>8, <1>9, <1>10, OneMoreApart
<1>12. st'.secs = T \cup {m} BY <1>1, <1>5, ButtonList
<1> QED BY <1>11, <1>12

LEMMA RibbonEditsKeepApart ==
  ASSUME Ribbon!SectionsAssumption, Ribbon!SectionsIInv, Ribbon!SectionsNext PROVE Ribbon!EditsKeepApart
<1> SUFFICES ASSUME ApartIn(st.secs), WithinIn(st.secs), st.drag.kind # "move",
                    st.drag # Ribbon!Idle => st'.drag # Ribbon!Idle,
                    st.opening # Ribbon!None => st'.opening # Ribbon!None
             PROVE ApartIn(st'.secs) /\ WithinIn(st'.secs)
  BY ApartAre DEF Ribbon!EditsKeepApart
<1>1. st \in Ribbon!Ribbons BY DEF Ribbon!SectionsIInv
<1>2. ASSUME st'.secs \in SUBSET st.secs PROVE ApartIn(st'.secs) /\ WithinIn(st'.secs)
  BY <1>2, FewerApart
<1>3. CASE Ribbon!Open \/ Ribbon!Read \/ Ribbon!disarmClear \/ Ribbon!setBeats \/ Ribbon!Grab
  <2>1. st'.secs = st.secs BY <1>1, <1>3, RibbonsAre 
    DEF Ribbon!Open, Ribbon!Read, Ribbon!disarmClear, Ribbon!setBeats, Ribbon!Grab
  <2> QED BY <1>2, <2>1
<1>4. CASE Ribbon!Shown
  <2>1. st'.opening = Ribbon!None /\ st.opening # Ribbon!None
    BY <1>1, <1>4, RibbonsAre DEF Ribbon!Shown, Ribbon!initSections
  <2> QED BY <2>1
<1>5. CASE Ribbon!destroyPlayer
  <2> DEFINE q == IF st.timer THEN Ribbon!queueSaveSnapshot(st) ELSE st
  <2>1. "secs" \in DOMAIN q BY <1>1, RibbonsAre DEF Ribbon!queueSaveSnapshot
  <2>2. st' = [[q EXCEPT !.timer = FALSE, !.track = Ribbon!None, !.secs = {}, !.drag = Ribbon!Idle, !.armed = FALSE,
                         !.missed = @ \cup {k \in {st.track} : st.drag # Ribbon!Idle}] EXCEPT !.beats = {}]
    BY <1>5 DEF Ribbon!destroyPlayer, Ribbon!destroySections
  <2> HIDE DEF q
  <2>3. st'.secs = {} BY <2>1, <2>2
  <2> QED BY <1>2, <2>3
<1>6. CASE Ribbon!Drag BY <1>6, DragKeepsApart
<1>7. CASE Ribbon!Drop \/ Ribbon!Cancel
  <2>1. st.drag # Ribbon!Idle BY <1>7 DEF Ribbon!Drop, Ribbon!Cancel
  <2>2. st'.drag = Ribbon!Idle
    <3>1. CASE Ribbon!Drop
      <4>1. \E y : st' = Ribbon!scheduleSave(Ribbon!Put([st EXCEPT !.drag = Ribbon!Idle], y))
                   \/ st' = [st EXCEPT !.drag = Ribbon!Idle]
        BY <3>1 DEF Ribbon!Drop
      <4> QED BY <1>1, <4>1, RibbonsAre DEF Ribbon!scheduleSave, Ribbon!Put
    <3>2. CASE Ribbon!Cancel
      <4>1. \E y : st' = [Ribbon!Put([st EXCEPT !.drag = Ribbon!Idle], y)
                            EXCEPT !.missed = @ \cup {k \in {st.track} : ~st.timer /\ st.drag.changed}]
        BY <3>2 DEF Ribbon!Cancel
      <4> QED BY <1>1, <4>1, RibbonsAre DEF Ribbon!Put
    <3> QED BY <1>7, <3>1, <3>2
  <2> QED BY <2>1, <2>2
<1>8. CASE Ribbon!addSection BY <1>8, AddKeepsApart
<1>9. CASE Ribbon!deleteSection
  <2>1. PICK x, ar : st' = Ribbon!scheduleSave([st EXCEPT !.secs = Ribbon!Others(st, x), !.armed = ar])
    BY <1>9 DEF Ribbon!deleteSection
  <2> DEFINE list == Ribbon!Others(st, x)
  <2>2. list \in SUBSET st.secs BY DEF Ribbon!Others
  <2>3. st' = Ribbon!scheduleSave([st EXCEPT !.secs = list, !.armed = ar]) BY <2>1
  <2> HIDE DEF list
  <2> DEFINE q == [st EXCEPT !.secs = list, !.armed = ar]
  <2>4. q = [st EXCEPT !.secs = list, !.armed = ar] /\ st' = Ribbon!scheduleSave(q) BY <2>3
  <2>5. st'.secs = list
    <3> DEFINE w == [q.want EXCEPT ![q.track] = q.secs]
    <3>1. st' = [q EXCEPT !.timer = TRUE, !.want = w] BY <2>4 DEF Ribbon!scheduleSave
    <3>2. q.secs = list /\ "secs" \in DOMAIN q BY <1>1, RibbonsAre
    <3> HIDE DEF q, w
    <3> QED BY <3>1, <3>2
  <2> QED BY <1>2, <2>2, <2>5
<1>10. CASE Ribbon!splitSection BY <1>10, SplitKeepsApart
<1>11. CASE Ribbon!mergeSection BY <1>11, MergeKeepsApart
<1>12. CASE Ribbon!clearAll
  <2>1. \/ st' = Ribbon!scheduleSave([st EXCEPT !.armed = FALSE, !.secs = {}])
        \/ st' = [st EXCEPT !.armed = TRUE]
    BY <1>12 DEF Ribbon!clearAll
  <2>2. CASE st' = [st EXCEPT !.armed = TRUE]
    <3>1. st'.secs = st.secs BY <1>1, <2>2, RibbonsAre
    <3> QED BY <1>2, <3>1
  <2>3. CASE st' = Ribbon!scheduleSave([st EXCEPT !.armed = FALSE, !.secs = {}])
    <3> DEFINE q == [st EXCEPT !.armed = FALSE, !.secs = {}]
    <3>1. Ribbon!scheduleSave(q).secs = {} BY <1>1, SavedList
    <3>2. st'.secs = {} BY <2>3, <3>1
    <3> QED BY <1>2, <3>2
  <2> QED BY <2>1, <2>2, <2>3
<1>13. CASE Ribbon!SaveDue \/ Ribbon!sendSave
  <2>1. st'.secs = st.secs
    <3>1. CASE Ribbon!SaveDue
      <4> DEFINE q == [st EXCEPT !.timer = FALSE]
      <4>1. q.secs = st.secs /\ "secs" \in DOMAIN q BY <1>1, RibbonsAre
      <4>2. st' = Ribbon!queueSaveSnapshot(q) BY <3>1 DEF Ribbon!SaveDue
      <4> HIDE DEF q
      <4>3. \/ st' = q
            \/ \E c, to : st' = [q EXCEPT !.chain = c, !.torn = to]
        BY <4>2 DEF Ribbon!queueSaveSnapshot
      <4> QED BY <4>1, <4>3
    <3>2. CASE Ribbon!sendSave BY <1>1, <3>2, RibbonsAre DEF Ribbon!sendSave
    <3> QED BY <1>13, <3>1, <3>2
  <2> QED BY <1>2, <2>1
<1> QED BY <1>3, <1>4, <1>5, <1>6, <1>7, <1>8, <1>9, <1>10, <1>11, <1>12, <1>13 DEF Ribbon!SectionsNext

(* ---------------------------- lists of failures ------------------------- *)
KeepsTurns(g, s, gone) ==
  /\ g[0] = <<>>
  /\ \A n \in 1..Len(s) : g[n] = IF s[n] \in gone THEN g[n - 1] ELSE Append(g[n - 1], s[n])
  /\ Cards!Kept(s, gone) = g[Len(s)]

LEMMA KeptDefined ==
  ASSUME NEW s, NEW gone, Len(s) \in Nat PROVE \E g : KeepsTurns(g, s, gone)
<1> DEFINE T(n, l) == IF s[n] \in gone THEN l ELSE Append(l, s[n])
           G(g, k) == g = [n \in 0..k |-> IF n = 0 THEN <<>> ELSE T(n, g[n - 1])]
           Bad == {k \in Nat : ~ \E g : G(g, k)}
<1>1. \E g : G(g, Len(s))
  <2>0. SUFFICES ASSUME Bad # {} PROVE FALSE
    <3> HIDE DEF G
    <3> QED OBVIOUS
  <2>1. PICK k \in Bad : \A j \in Bad : k <= j BY <2>0, LeastOfNat
  <2> HIDE DEF T
  <2>2. k # 0
    <3>1. G([n \in 0..0 |-> <<>>], 0) OBVIOUS
    <3> QED BY <3>1
  <2>3. k - 1 \in Nat /\ k - 1 \notin Bad
    <3> HIDE DEF G
    <3>1. k \in Nat OBVIOUS
    <3> HIDE DEF Bad
    <3> QED BY <2>1, <2>2, <3>1
  <2>4. PICK g : G(g, k - 1) BY <2>3
  <2> DEFINE h == [n \in 0..k |-> IF n = k THEN T(k, g[k - 1]) ELSE g[n]]
  <2>5. G(h, k)
    <3>1. ASSUME NEW n \in 0..k PROVE h[n] = IF n = 0 THEN <<>> ELSE T(n, h[n - 1])
      <4>1. CASE n = k BY <4>1, <2>2, <2>3
      <4>2. CASE n # k
        <5>1. n \in 0..(k - 1) BY <4>2, <2>1
        <5>2. h[n] = g[n] BY <4>2
        <5>3. n # 0 => h[n - 1] = g[n - 1] BY <5>1, <2>3
        <5>4. g[n] = IF n = 0 THEN <<>> ELSE T(n, g[n - 1]) BY <5>1, <2>4
        <5> QED BY <5>2, <5>3, <5>4
      <4> QED BY <4>1, <4>2
    <3> HIDE DEF T
    <3> QED BY <3>1
  <2> QED BY <2>5
<1> DEFINE c == CHOOSE g : G(g, Len(s))
<1>2. G(c, Len(s)) BY <1>1
<1>3. Cards!Kept(s, gone) = c[Len(s)] BY DEF Cards!Kept
<1> HIDE DEF c
<1>4. c[0] = <<>> /\ \A n \in 1..Len(s) : c[n] = T(n, c[n - 1])
  <2> HIDE DEF T
  <2>1. \A n \in 0..Len(s) : c[n] = IF n = 0 THEN <<>> ELSE T(n, c[n - 1]) BY <1>2, Zenon
  <2>2. 0 \in 0..Len(s) /\ \A n \in 1..Len(s) : n \in 0..Len(s) /\ n # 0 OBVIOUS
  <2> QED BY <2>1, <2>2, Zenon
<1> QED BY <1>3, <1>4 DEF KeepsTurns

(* Some of a list, in its order; where each of them was.                    *)
PickedBy(h, t, s) ==
  /\ h \in [1..Len(t) -> 1..Len(s)] /\ Len(t) <= Len(s)
  /\ \A i, k \in 1..Len(t) : i < k => h[i] < h[k]
  /\ \A i \in 1..Len(t) : t[i] = s[h[i]]
Picked(t, s) == \E h : PickedBy(h, t, s)

KeptSoFar(h, l, s, gone, n) ==
  /\ Len(l) <= n
  /\ h \in [1..Len(l) -> 1..n]
  /\ \A i, k \in 1..Len(l) : i < k => h[i] < h[k]
  /\ \A i \in 1..Len(l) : l[i] = s[h[i]] /\ l[i] \notin gone
  /\ \A k \in 1..n : s[k] \notin gone => \E i \in 1..Len(l) : h[i] = k
  /\ (\A k \in 1..n : s[k] \notin gone) => Len(l) = n /\ \A i \in 1..n : l[i] = s[i]

LEMMA KeptOneMore ==
  ASSUME NEW T, NEW s \in Seq(T), NEW gone, NEW n \in 1..Len(s), NEW l \in Seq(T), NEW h, KeptSoFar(h, l, s, gone, n - 1),
         NEW m, m = IF s[n] \in gone THEN l ELSE Append(l, s[n])
  PROVE m \in Seq(T) /\ \E j : KeptSoFar(j, m, s, gone, n)
<1>0. n \in Nat /\ n - 1 \in Nat /\ s[n] \in T OBVIOUS
<1>1. CASE s[n] \in gone
  <2>1. m = l BY <1>1
  <2>2. \A x \in 1..(n - 1) : x \in 1..n BY <1>0
  <2>3. \A k \in 1..n : k \in 1..(n - 1) \/ k = n BY <1>0
  <2>4. n \in 1..n /\ Len(l) \in Nat BY <1>0
  <2>5. KeptSoFar(h, l, s, gone, n)
    <3>1. h \in [1..Len(l) -> 1..n] BY <2>2 DEF KeptSoFar
    <3>2. Len(l) <= n BY <1>0, <2>4 DEF KeptSoFar
    <3> QED BY <1>1, <2>3, <2>4, <3>1, <3>2 DEF KeptSoFar
  <2> QED BY <2>1, <2>5
<1>2. CASE s[n] \notin gone
  <2> DEFINE L == Len(l)
             j == [i \in 1..(L + 1) |-> IF i = L + 1 THEN n ELSE h[i]]
  <2>1. m = Append(l, s[n]) BY <1>2
  <2>2. m \in Seq(T) /\ Len(m) = L + 1 /\ m[L + 1] = s[n] /\ \A i \in 1..L : m[i] = l[i] BY <1>0, <2>1
  <2>3. L \in Nat /\ L <= n - 1 BY DEF KeptSoFar
  <2>4. \A i \in 1..L : h[i] \in 1..(n - 1) BY DEF KeptSoFar
  <2> HIDE DEF L
  <2>5. \A i \in 1..(L + 1) : i = L + 1 \/ i \in 1..L BY <2>3
  <2>6. /\ j[L + 1] = n /\ \A i \in 1..L : j[i] = h[i] BY <2>3
  <2>7. j \in [1..(L + 1) -> 1..n] BY <1>0, <2>4, <2>5
  <2> HIDE DEF j
  <2>8. ASSUME NEW i \in 1..(L + 1), NEW k \in 1..(L + 1), i < k PROVE j[i] < j[k]
    <3>1. i \in 1..L BY <2>3, <2>8
    <3>2. j[i] = h[i] /\ h[i] <= n - 1 BY <2>4, <2>6, <3>1
    <3>3. CASE k = L + 1 BY <1>0, <2>4, <2>6, <3>1, <3>2, <3>3
    <3>4. CASE k \in 1..L BY <2>6, <2>8, <3>1, <3>4 DEF KeptSoFar, L
    <3> QED BY <2>5, <3>3, <3>4
  <2>9. ASSUME NEW i \in 1..(L + 1) PROVE m[i] = s[j[i]] /\ m[i] \notin gone
    <3>1. CASE i = L + 1 BY <1>2, <2>2, <2>6, <3>1
    <3>2. CASE i \in 1..L BY <2>2, <2>6, <3>2 DEF KeptSoFar, L
    <3> QED BY <2>5, <3>1, <3>2
  <2>10. ASSUME NEW k \in 1..n, s[k] \notin gone PROVE \E i \in 1..(L + 1) : j[i] = k
    <3>1. CASE k = n
      <4>1. L + 1 \in 1..(L + 1) BY <2>3
      <4> QED BY <2>6, <3>1, <4>1
    <3>2. CASE k \in 1..(n - 1)
      <4>1. PICK i \in 1..L : h[i] = k BY <2>10, <3>2 DEF KeptSoFar, L
      <4>2. i \in 1..(L + 1) BY <2>3
      <4> QED BY <2>6, <4>1, <4>2
    <3> QED BY <1>0, <3>1, <3>2
  <2>11. ASSUME \A k \in 1..n : s[k] \notin gone PROVE L + 1 = n /\ \A i \in 1..n : m[i] = s[i]
    <3>1. \A k \in 1..(n - 1) : k \in 1..n BY <1>0
    <3>2. L = n - 1 /\ \A i \in 1..(n - 1) : l[i] = s[i] BY <2>11, <3>1 DEF KeptSoFar, L
    <3>3. ASSUME NEW i \in 1..n PROVE m[i] = s[i]
      <4>1. CASE i = n BY <1>0, <2>2, <3>2, <4>1
      <4>2. CASE i # n
        <5>1. i \in 1..(n - 1) BY <1>0, <4>2
        <5> QED BY <2>2, <3>2, <5>1
      <4> QED BY <4>1, <4>2
    <3>4. L + 1 = n BY <1>0, <2>3, <3>2
    <3> QED BY <3>3, <3>4
  <2>12. L + 1 <= n BY <1>0, <2>3
  <2>13. KeptSoFar(j, m, s, gone, n)
    BY <2>2, <2>7, <2>8, <2>9, <2>10, <2>11, <2>12 DEF KeptSoFar
  <2> QED BY <2>2, <2>13
<1> QED BY <1>1, <1>2

LEMMA KeptIs ==
  ASSUME NEW T, NEW s \in Seq(T), NEW gone, NEW t, t = Cards!Kept(s, gone)
  PROVE t \in Seq(T) /\ \E h : KeptSoFar(h, t, s, gone, Len(s))
<1>0. Len(s) \in Nat OBVIOUS
<1>1. PICK g : KeepsTurns(g, s, gone) BY <1>0, KeptDefined
<1> DEFINE P(n) == g[n] \in Seq(T) /\ \E h : KeptSoFar(h, g[n], s, gone, n)
           Bad == {n \in Nat : n <= Len(s) /\ ~P(n)}
<1>2. P(0)
  <2> DEFINE h == [i \in 1..0 |-> 0]
  <2>1. g[0] = <<>> BY <1>1 DEF KeepsTurns
  <2>2. <<>> \in Seq(T) /\ Len(<<>>) = 0 OBVIOUS
  <2>3. \A x : x \notin 1..0 OBVIOUS
  <2>4. h \in [1..0 -> 1..0] BY <2>3
  <2> HIDE DEF h
  <2>5. KeptSoFar(h, <<>>, s, gone, 0) BY <2>2, <2>3, <2>4 DEF KeptSoFar
  <2> QED BY <2>1, <2>2, <2>5
<1>3. ASSUME NEW n \in 1..Len(s), P(n - 1) PROVE P(n)
  <2>1. PICK h : KeptSoFar(h, g[n - 1], s, gone, n - 1) BY <1>3
  <2>2. g[n] = IF s[n] \in gone THEN g[n - 1] ELSE Append(g[n - 1], s[n]) BY <1>1 DEF KeepsTurns
  <2>3. g[n - 1] \in Seq(T) BY <1>3
  <2> QED BY <2>1, <2>2, <2>3, KeptOneMore
<1> HIDE DEF P
<1>4. Bad = {}
  <2> SUFFICES ASSUME Bad # {} PROVE FALSE OBVIOUS
  <2>1. PICK n \in Bad : \A k \in Bad : n <= k BY LeastOfNat
  <2>2. n \in Nat /\ n <= Len(s) /\ ~P(n) OBVIOUS
  <2>3. n # 0 BY <1>2, <2>2
  <2>4. n \in 1..Len(s) /\ n - 1 \in Nat /\ n - 1 <= Len(s) /\ ~(n <= n - 1) BY <1>0, <2>2, <2>3
  <2>5. P(n - 1) BY <2>1, <2>4
  <2> QED BY <1>3, <2>2, <2>4, <2>5
<1>5. P(Len(s))
  <2>1. Len(s) <= Len(s) BY <1>0
  <2> QED BY <1>0, <1>4, <2>1
<1>6. t = g[Len(s)] BY <1>1 DEF KeepsTurns
<1> QED BY <1>5, <1>6 DEF P

LEMMA KeptPicks ==
  ASSUME NEW T, NEW s \in Seq(T), NEW gone, NEW t, t = Cards!Kept(s, gone)
  PROVE /\ t \in Seq(T) /\ Picked(t, s) /\ \A i \in 1..Len(t) : t[i] \notin gone
        /\ (\A k \in 1..Len(s) : s[k] \notin gone) => t = s
<1>1. t \in Seq(T) BY KeptIs
<1>2. PICK h : KeptSoFar(h, t, s, gone, Len(s)) BY KeptIs
<1>3. PickedBy(h, t, s) BY <1>2 DEF PickedBy, KeptSoFar
<1>4. ASSUME \A k \in 1..Len(s) : s[k] \notin gone PROVE t = s
  <2>1. Len(t) = Len(s) /\ \A i \in 1..Len(s) : t[i] = s[i] BY <1>2, <1>4 DEF KeptSoFar
  <2> QED BY <1>1, <2>1, SeqEqual
<1> QED BY <1>1, <1>2, <1>3, <1>4 DEF Picked, KeptSoFar

(* ------------------------------- sorting -------------------------------- *)
Sorts(p, s) ==
  /\ p \in [1..Len(s) -> 1..Len(s)]
  /\ \A i, k \in 1..Len(s) : i < k => s[p[i]].at > s[p[k]].at \/ (s[p[i]].at = s[p[k]].at /\ p[i] < p[k])
Moments(s) == /\ \A i \in 1..Len(s) : s[i].at \in Nat
              /\ \A i, k \in 1..Len(s) : s[i].at = s[k].at => i = k

LEMMA OntoItself ==
  ASSUME NEW n \in Nat, NEW f \in [1..n -> 1..n], \A i, k \in 1..n : f[i] = f[k] => i = k
  PROVE \A k \in 1..n : \E i \in 1..n : f[i] = k
<1>1. IsFiniteSet(1..n) BY FS_Interval
<1>2. f \in Injection(1..n, 1..n) BY DEF Injection, IsInjective
<1>3. f \in Surjection(1..n, 1..n) BY <1>1, <1>2, FS_Injection
<1> QED BY <1>3 DEF Surjection

(* The place of each is the number of those that are no older.              *)
LEMMA CanBeSorted ==
  ASSUME NEW s, Len(s) \in Nat, Moments(s) PROVE \E p : Sorts(p, s)
<1> DEFINE n == Len(s)
           Newer(i) == {j \in 1..n : s[j].at >= s[i].at}
           rank == [i \in 1..n |-> Cardinality(Newer(i))]
<1>0. n \in Nat /\ \A i \in 1..n : s[i].at \in Nat BY DEF Moments
<1>a. \A i, k \in 1..n : s[i].at = s[k].at => i = k BY DEF Moments
<1> HIDE DEF n
<1>1. IsFiniteSet(1..n) /\ Cardinality(1..n) = n
  <2>1. IsFiniteSet(1..n) /\ Cardinality(1..n) = IF 1 > n THEN 0 ELSE n - 1 + 1 BY <1>0, FS_Interval
  <2> QED BY <1>0, <2>1
<1>2. ASSUME NEW i \in 1..n PROVE Newer(i) \in SUBSET (1..n) /\ IsFiniteSet(Newer(i)) /\ Cardinality(Newer(i)) \in 1..n
  <2>1. Newer(i) \in SUBSET (1..n) /\ i \in Newer(i) BY <1>0
  <2> HIDE DEF Newer
  <2>2. IsFiniteSet(Newer(i)) /\ Cardinality(Newer(i)) <= n BY <1>1, <2>1, FS_Subset
  <2>3. Cardinality(Newer(i)) \in Nat BY <2>2, FS_CardinalityType
  <2>4. Cardinality(Newer(i)) # 0 BY <2>1, <2>2, FS_EmptySet
  <2> QED BY <1>0, <2>1, <2>2, <2>3, <2>4
<1>3. ASSUME NEW i \in 1..n, NEW k \in 1..n, s[i].at > s[k].at PROVE Cardinality(Newer(i)) < Cardinality(Newer(k))
  <2>1. Newer(i) \in SUBSET Newer(k) /\ k \in Newer(k) /\ k \notin Newer(i) BY <1>0, <1>3
  <2>2. IsFiniteSet(Newer(k)) /\ Cardinality(Newer(k)) \in 1..n /\ Cardinality(Newer(i)) \in 1..n BY <1>2
  <2> HIDE DEF Newer
  <2>3. Cardinality(Newer(i)) <= Cardinality(Newer(k)) /\ Cardinality(Newer(i)) # Cardinality(Newer(k))
    BY <2>1, <2>2, FS_Subset
  <2> QED BY <1>0, <2>2, <2>3
<1> HIDE DEF Newer
<1>4. rank \in [1..n -> 1..n] /\ \A i \in 1..n : rank[i] = Cardinality(Newer(i)) BY <1>2
<1> HIDE DEF rank
<1>5. ASSUME NEW i \in 1..n, NEW k \in 1..n PROVE s[i].at > s[k].at => rank[i] < rank[k] BY <1>3, <1>4
<1>6. ASSUME NEW i \in 1..n, NEW k \in 1..n, rank[i] = rank[k] PROVE i = k
  <2>1. ~(s[i].at > s[k].at) /\ ~(s[k].at > s[i].at)
    <3>1. rank[i] \in Nat /\ rank[k] \in Nat BY <1>0, <1>4
    <3>2. ~(rank[i] < rank[k]) /\ ~(rank[k] < rank[i]) BY <1>6, <3>1
    <3> QED BY <1>5, <3>2
  <2>2. s[i].at = s[k].at BY <1>0, <2>1
  <2> QED BY <1>a, <2>2
<1>7. \A m \in 1..n : \E i \in 1..n : rank[i] = m BY <1>0, <1>4, <1>6, OntoItself
<1> DEFINE p == [m \in 1..n |-> CHOOSE i \in 1..n : rank[i] = m]
<1>8. p \in [1..n -> 1..n] /\ \A m \in 1..n : rank[p[m]] = m BY <1>7
<1> HIDE DEF p
<1>9. ASSUME NEW i \in 1..n, NEW k \in 1..n, i < k PROVE s[p[i]].at > s[p[k]].at
  <2>1. p[i] \in 1..n /\ p[k] \in 1..n /\ rank[p[i]] = i /\ rank[p[k]] = k BY <1>8
  <2>2. ~(k < i) /\ i # k BY <1>0, <1>9
  <2>3. ~(s[p[k]].at > s[p[i]].at) BY <1>5, <2>1, <2>2
  <2>4. s[p[k]].at # s[p[i]].at BY <1>a, <2>1, <2>2
  <2> QED BY <1>0, <2>1, <2>3, <2>4
<1>10. Sorts(p, s) BY <1>8, <1>9 DEF Sorts, n
<1> QED BY <1>10

SortedFrom(t, s) ==
  /\ Len(t) = Len(s)
  /\ \A i, k \in 1..Len(t) : i < k => t[i].at > t[k].at
  /\ \A i \in 1..Len(t) : \E k \in 1..Len(s) : t[i] = s[k]
  /\ \A k \in 1..Len(s) : \E i \in 1..Len(t) : t[i] = s[k]
  /\ \A i, k \in 1..Len(t) : i # k => \E j, m \in 1..Len(s) : j # m /\ t[i] = s[j] /\ t[k] = s[m]

LEMMA NewestFirstSorts ==
  ASSUME NEW T, NEW s \in Seq(T), Moments(s), NEW t, t = Cards!newestFirst(s)
  PROVE /\ t \in Seq(T) /\ SortedFrom(t, s)
        /\ (\A i, k \in 1..Len(s) : i < k => s[i].at > s[k].at) => t = s
<1> DEFINE n == Len(s)
           p == CHOOSE q \in [DOMAIN s -> DOMAIN s] : \A i, k \in DOMAIN s : i < k =>
                  s[q[i]].at > s[q[k]].at \/ (s[q[i]].at = s[q[k]].at /\ q[i] < q[k])
<1>0. n \in Nat /\ DOMAIN s = 1..n OBVIOUS
<1>1. t = [i \in 1..n |-> s[p[i]]] BY <1>0 DEF Cards!newestFirst
<1>2. Sorts(p, s)
  <2>1. PICK q : Sorts(q, s) BY <1>0, CanBeSorted
  <2>2. /\ q \in [DOMAIN s -> DOMAIN s]
        /\ \A i, k \in DOMAIN s : i < k => s[q[i]].at > s[q[k]].at \/ (s[q[i]].at = s[q[k]].at /\ q[i] < q[k])
    BY <1>0, <2>1 DEF Sorts
  <2>3. /\ p \in [DOMAIN s -> DOMAIN s]
        /\ \A i, k \in DOMAIN s : i < k => s[p[i]].at > s[p[k]].at \/ (s[p[i]].at = s[p[k]].at /\ p[i] < p[k])
    BY <2>2
  <2> QED BY <1>0, <2>3 DEF Sorts
<1> HIDE DEF p
<1>3. p \in [1..n -> 1..n] BY <1>2 DEF Sorts
<1>4. /\ \A i \in 1..n : s[i].at \in Nat
      /\ \A i, k \in 1..n : s[i].at = s[k].at => i = k
  BY DEF Moments
<1>5. ASSUME NEW i \in 1..n, NEW k \in 1..n, i < k PROVE s[p[i]].at > s[p[k]].at /\ p[i] # p[k]
  <2>1. p[i] \in 1..n /\ p[k] \in 1..n BY <1>3
  <2>2. s[p[i]].at > s[p[k]].at \/ (s[p[i]].at = s[p[k]].at /\ p[i] < p[k]) BY <1>2, <1>5 DEF Sorts
  <2>3. ~(s[p[i]].at = s[p[k]].at /\ p[i] < p[k]) BY <1>0, <1>4, <2>1
  <2> QED BY <1>4, <2>1, <2>2, <2>3
<1>6. ASSUME NEW i \in 1..n, NEW k \in 1..n, p[i] = p[k] PROVE i = k
  <2>1. ~(i < k) /\ ~(k < i) BY <1>5, <1>6
  <2> QED BY <1>0, <2>1
<1>7. \A k \in 1..n : \E i \in 1..n : p[i] = k BY <1>0, <1>3, <1>6, OntoItself
<1>8. t \in Seq(T) /\ Len(t) = n /\ \A i \in 1..n : t[i] = s[p[i]]
  <2>1. \A i \in 1..n : s[p[i]] \in T BY <1>0, <1>3
  <2> QED BY <1>0, <1>1, <2>1
<1> HIDE DEF n
<1>9. SortedFrom(t, s)
  <2>1. ASSUME NEW k \in 1..n PROVE \E i \in 1..n : t[i] = s[k] BY <1>7, <1>8
  <2>2. ASSUME NEW i \in 1..n PROVE \E k \in 1..n : t[i] = s[k] BY <1>3, <1>8
  <2>3. ASSUME NEW i \in 1..n, NEW k \in 1..n, i # k
        PROVE \E j, m \in 1..n : j # m /\ t[i] = s[j] /\ t[k] = s[m]
    BY <1>3, <1>6, <1>8, <2>3
  <2>4. ASSUME NEW i \in 1..n, NEW k \in 1..n, i < k PROVE t[i].at > t[k].at BY <1>5, <1>8, <2>4
  <2>5. n = Len(s) BY DEF n
  <2>6. Len(t) = n BY <1>8
  <2>7. \A i, k \in 1..Len(t) : i < k => t[i].at > t[k].at BY <2>4, <2>6
  <2>8. \A i \in 1..Len(t) : \E k \in 1..Len(s) : t[i] = s[k] BY <2>2, <2>5, <2>6
  <2>9. \A k \in 1..Len(s) : \E i \in 1..Len(t) : t[i] = s[k] BY <2>1, <2>5, <2>6
  <2>10. \A i, k \in 1..Len(t) : i # k => \E j, m \in 1..Len(s) : j # m /\ t[i] = s[j] /\ t[k] = s[m]
    BY <2>3, <2>5, <2>6
  <2> QED BY <2>5, <2>6, <2>7, <2>8, <2>9, <2>10 DEF SortedFrom
<1>10. ASSUME \A i, k \in 1..n : i < k => s[i].at > s[k].at PROVE t = s
  <2>1. ASSUME NEW i \in 1..n, NEW k \in 1..n, i < k PROVE p[i] < p[k]
    <3>1. p[i] \in 1..n /\ p[k] \in 1..n /\ s[p[i]].at > s[p[k]].at /\ p[i] # p[k] BY <1>3, <1>5, <2>1
    <3>2. ~(p[k] < p[i])
      <4>1. p[k] < p[i] => s[p[k]].at > s[p[i]].at BY <1>10, <3>1
      <4> QED BY <1>4, <3>1, <4>1
    <3> QED BY <1>0, <3>1, <3>2
  <2> DEFINE Off == {i \in 1..n : p[i] # i}
  <2>2. Off = {}
    <3> SUFFICES ASSUME Off # {} PROVE FALSE OBVIOUS
    <3>1. Off \in SUBSET Nat BY <1>0
    <3>2. PICK i \in Off : \A k \in Off : i <= k BY <3>1, LeastOfNat
    <3>3. i \in 1..n /\ p[i] # i /\ i \in Nat BY <3>1
    <3>4. PICK m \in 1..n : p[m] = i BY <1>7, <3>3
    <3>5. CASE m < i
      <4>1. ~(i <= m) BY <1>0, <3>3, <3>5
      <4>2. p[m] = m BY <3>2, <4>1
      <4> QED BY <1>0, <3>3, <3>4, <3>5, <4>2
    <3>6. CASE i < m
      <4>1. p[i] < i /\ p[i] \in 1..n BY <1>3, <2>1, <3>3, <3>4, <3>6
      <4>2. ~(i <= p[i]) BY <1>0, <3>3, <4>1
      <4>3. p[p[i]] = p[i] BY <3>2, <4>1, <4>2
      <4>4. p[i] = i BY <1>6, <3>3, <4>1, <4>3
      <4> QED BY <3>3, <4>4
    <3> QED BY <1>0, <3>3, <3>4, <3>5, <3>6
  <2>3. \A i \in 1..n : p[i] = i BY <2>2
  <2>4. Len(s) = Len(t) /\ \A i \in 1..Len(s) : s[i] = t[i] BY <1>8, <2>3 DEF n
  <2> QED BY <1>8, <2>4, SeqEqual
<1> QED BY <1>8, <1>9, <1>10 DEF n

(* ---------------------------- the notifications ------------------------- *)
LEMMA FailuresAre ==
  ASSUME Cards!NotifAssumption
  PROVE /\ NoteActs \in Nat /\ ListedFailures \in Nat /\ ListedFailures # 0
        /\ \A r \in Cards!Failures : r.id \in Nat /\ r.at \in Nat
        /\ Cards!Lists = Seq(Cards!Failures)
BY DEF Cards!NotifAssumption, Cards!Failures, Cards!Lists

(* The order and the ids of a list, whatever its length.                    *)
Runs(s, n) ==
  /\ \A i, k \in 1..Len(s) : i < k => s[i].at > s[k].at /\ s[i].id # s[k].id
  /\ \A i \in 1..Len(s) : s[i].id <= s[i].at /\ s[i].at <= n
From(t, s) == \A i \in 1..Len(t) : \E k \in 1..Len(s) : t[i] = s[k]

LEMMA ListedRuns ==
  ASSUME NEW s \in Cards!Lists, NEW n PROVE Cards!Listed(s, n) <=> Len(s) <= ListedFailures /\ Runs(s, n)
BY DEF Cards!Listed, Runs, Cards!Lists

LEMMA AgreeOn ==
  ASSUME NEW s \in Cards!Lists, NEW t \in Cards!Lists
  PROVE Cards!Agree(s, t) <=> \A i \in 1..Len(s), k \in 1..Len(t) : s[i].at = t[k].at => s[i].id = t[k].id
BY DEF Cards!Agree, Cards!Lists

LEMMA OneEachOn ==
  ASSUME NEW s \in Cards!Lists
  PROVE Cards!OneEach(s) <=> \A i, k \in 1..Len(s) : i < k /\ s[i].job # Cards!None =>
                               s[i].job # s[k].job \/ s[i].kind # s[k].kind
BY DEF Cards!OneEach, Cards!Lists

LEMMA PickedKeeps ==
  ASSUME NEW s \in Cards!Lists, NEW t \in Cards!Lists, Picked(t, s), NEW n
  PROVE /\ Runs(s, n) => Runs(t, n)
        /\ Cards!OneEach(s) => Cards!OneEach(t)
        /\ From(t, s) /\ Len(t) <= Len(s)
<1>1. PICK h : PickedBy(h, t, s) BY DEF Picked
<1>2. /\ \A i \in 1..Len(t) : h[i] \in 1..Len(s) /\ t[i] = s[h[i]]
      /\ \A i, k \in 1..Len(t) : i < k => h[i] < h[k]
      /\ Len(t) <= Len(s)
  BY <1>1 DEF PickedBy
<1>3. ASSUME Runs(s, n) PROVE Runs(t, n)
  <2>1. ASSUME NEW i \in 1..Len(t) PROVE t[i].id <= t[i].at /\ t[i].at <= n
    <3>1. h[i] \in 1..Len(s) /\ t[i] = s[h[i]] BY <1>2
    <3>2. s[h[i]].id <= s[h[i]].at /\ s[h[i]].at <= n BY <1>3, <3>1 DEF Runs
    <3> QED BY <3>1, <3>2, Zenon
  <2>2. ASSUME NEW i \in 1..Len(t), NEW k \in 1..Len(t), i < k PROVE t[i].at > t[k].at /\ t[i].id # t[k].id
    <3>1. /\ h[i] \in 1..Len(s) /\ t[i] = s[h[i]] /\ h[k] \in 1..Len(s) /\ t[k] = s[h[k]]
          /\ h[i] < h[k]
      BY <1>2, <2>2
    <3>2. s[h[i]].at > s[h[k]].at /\ s[h[i]].id # s[h[k]].id BY <1>3, <3>1 DEF Runs
    <3> QED BY <3>1, <3>2, Zenon
  <2> QED BY <2>1, <2>2 DEF Runs
<1>4. ASSUME Cards!OneEach(s) PROVE Cards!OneEach(t)
  <2>1. ASSUME NEW i \in 1..Len(t), NEW k \in 1..Len(t), i < k, t[i].job # Cards!None
        PROVE t[i].job # t[k].job \/ t[i].kind # t[k].kind
    <3>1. /\ h[i] \in 1..Len(s) /\ t[i] = s[h[i]] /\ h[k] \in 1..Len(s) /\ t[k] = s[h[k]]
          /\ h[i] < h[k]
      BY <1>2, <2>1
    <3>2. s[h[i]].job # Cards!None => s[h[i]].job # s[h[k]].job \/ s[h[i]].kind # s[h[k]].kind
      BY <1>4, <3>1, OneEachOn
    <3> QED BY <2>1, <3>1, <3>2, Zenon
  <2> QED BY <2>1, OneEachOn
<1> QED BY <1>2, <1>3, <1>4 DEF From

LEMMA RunAgrees ==
  ASSUME Cards!NotifAssumption, NEW s \in Cards!Lists, NEW n, Runs(s, n)
  PROVE Cards!Agree(s, s) /\ Moments(s)
<1>1. \A i \in 1..Len(s) : s[i].at \in Nat /\ i \in Nat BY FailuresAre
<1>2. ASSUME NEW i \in 1..Len(s), NEW k \in 1..Len(s), s[i].at = s[k].at PROVE i = k
  <2>1. ~(i < k) /\ ~(k < i) BY <1>1, <1>2 DEF Runs
  <2> QED BY <1>1, <2>1
<1> QED BY <1>1, <1>2, AgreeOn DEF Moments

LEMMA FromAgrees ==
  ASSUME NEW s \in Cards!Lists, NEW t \in Cards!Lists, NEW u \in Cards!Lists, From(t, s), Cards!Agree(s, u)
  PROVE Cards!Agree(t, u)
BY AgreeOn DEF From

LEMMA AgreeBothWays ==
  ASSUME NEW s \in Cards!Lists, NEW t \in Cards!Lists, Cards!Agree(s, t) PROVE Cards!Agree(t, s)
BY AgreeOn

(* The first few.                                                           *)
LEMMA FirstPicks ==
  ASSUME Cards!NotifAssumption, NEW s \in Cards!Lists, NEW t, t = Cards!First(s, ListedFailures)
  PROVE /\ t \in Cards!Lists /\ Picked(t, s) /\ Len(t) <= ListedFailures
        /\ Len(t) # ListedFailures => t = s
        /\ Len(s) <= ListedFailures => t = s
<1> DEFINE n == Len(s)
           m == IF n < ListedFailures THEN n ELSE ListedFailures
           h == [i \in 1..m |-> i]
<1>0. n \in Nat /\ ListedFailures \in Nat /\ s \in Seq(Cards!Failures) BY FailuresAre
<1> HIDE DEF n
<1>1. m \in Nat /\ m <= n /\ m <= ListedFailures /\ (n <= ListedFailures => m = n) /\ (m # ListedFailures => m = n)
  BY <1>0
<1>2. t = SubSeq(s, 1, m) BY DEF Cards!First, n
<1> HIDE DEF m
<1>3. t \in Seq(Cards!Failures) /\ Len(t) = m /\ \A i \in 1..m : t[i] = s[i] BY <1>0, <1>1, <1>2 DEF n
<1>4. PickedBy(h, t, s)
  <2>1. h \in [1..m -> 1..n] /\ \A i \in 1..m : h[i] = i BY <1>0, <1>1
  <2> HIDE DEF h
  <2> QED BY <1>1, <1>3, <2>1 DEF PickedBy, n
<1>5. m = n => t = s
  <2> SUFFICES ASSUME m = n PROVE t = s OBVIOUS
  <2>1. Len(t) = Len(s) /\ \A i \in 1..Len(t) : t[i] = s[i] BY <1>3 DEF n
  <2> QED BY <1>0, <1>3, <2>1, SeqEqual
<1> QED BY <1>1, <1>3, <1>4, <1>5, FailuresAre DEF Picked, n

(* The newest at the head of a list.                                        *)
Headed(u, r, b, n) ==
  /\ u \in Cards!Lists /\ Runs(u, n + 1) /\ Len(u) = Len(b) + 1
  /\ u[1] = r /\ \A i \in 1..Len(b) : u[i + 1] = b[i]
  /\ \A i \in 1..Len(u) : i = 1 \/ i - 1 \in 1..Len(b)
  /\ Cards!OneEach(b) /\ (\A i \in 1..Len(b) : r.job # Cards!None => b[i].job # r.job \/ b[i].kind # r.kind)
     => Cards!OneEach(u)
Heads(r, b, n) ==
  /\ b \in Cards!Lists /\ n \in Nat /\ Runs(b, n) /\ r \in Cards!Failures
  /\ r.at = n + 1 /\ r.id <= n + 1 /\ \A i \in 1..Len(b) : b[i].id # r.id
LEMMA HeadRuns ==
  ASSUME Cards!NotifAssumption, NEW b, NEW n, NEW r, Heads(r, b, n), NEW u, u = <<r>> \o b PROVE Headed(u, r, b, n)
<1>h. /\ b \in Cards!Lists /\ n \in Nat /\ Runs(b, n) /\ r \in Cards!Failures
      /\ r.at = n + 1 /\ r.id <= n + 1 /\ \A i \in 1..Len(b) : b[i].id # r.id
  BY DEF Heads
<1> DEFINE L == Len(b)
<1>0. L \in Nat /\ b \in Seq(Cards!Failures) /\ \A i \in 1..L : b[i] \in Cards!Failures /\ b[i].at \in Nat /\ b[i].id \in Nat
  BY <1>h, FailuresAre
<1>1. u \in Seq(Cards!Failures) /\ Len(u) = L + 1 /\ u[1] = r /\ \A i \in 1..L : u[i + 1] = b[i] BY <1>0, <1>h
<1>2. /\ \A i, k \in 1..L : i < k => b[i].at > b[k].at /\ b[i].id # b[k].id
      /\ \A i \in 1..L : b[i].id <= b[i].at /\ b[i].at <= n
      /\ \A i \in 1..L : b[i].id # r.id
  BY <1>h DEF Runs
<1>n. n \in Nat /\ r.at = n + 1 /\ r.id <= n + 1 BY <1>h
<1> HIDE DEF L
<1>3. ASSUME NEW i \in 1..(L + 1) PROVE i = 1 \/ (i - 1 \in 1..L /\ u[i] = b[i - 1])
  <2>1. i # 1 => i - 1 \in 1..L /\ (i - 1) + 1 = i BY <1>0
  <2> QED BY <1>1, <2>1
<1>4. ASSUME NEW i \in 1..(L + 1), NEW k \in 1..(L + 1), i < k
      PROVE /\ k - 1 \in 1..L /\ u[k] = b[k - 1]
            /\ (i = 1 /\ u[i] = r) \/ (i - 1 \in 1..L /\ u[i] = b[i - 1] /\ i - 1 < k - 1)
  <2>1. k # 1 BY <1>0, <1>4
  <2>2. i - 1 < k - 1 BY <1>0, <1>4
  <2> QED BY <1>1, <1>3, <2>1, <2>2
<1>5. ASSUME NEW i \in 1..(L + 1), NEW k \in 1..(L + 1), i < k PROVE u[i].at > u[k].at /\ u[i].id # u[k].id
  <2>1. CASE i = 1 /\ u[i] = r
    <3>1. u[k] = b[k - 1] /\ k - 1 \in 1..L BY <1>4, <1>5
    <3>2. u[k].at <= n /\ u[k].at \in Nat /\ u[k].id # r.id
      <4>1. b[k - 1].at <= n /\ b[k - 1].at \in Nat /\ b[k - 1].id # r.id BY <1>0, <1>2, <3>1
      <4> QED BY <3>1, <4>1, Zenon
    <3>3. u[i].at = n + 1 /\ u[i].id = r.id BY <1>n, <2>1
    <3>5. \A x \in Nat : x <= n => n + 1 > x BY <1>n
    <3>4. n + 1 > u[k].at BY <3>2, <3>5, Zenon
    <3> QED BY <3>2, <3>3, <3>4, Zenon
  <2>2. CASE i - 1 \in 1..L /\ u[i] = b[i - 1] /\ i - 1 < k - 1
    <3>1. k - 1 \in 1..L /\ u[k] = b[k - 1] BY <1>4, <1>5
    <3>2. b[i - 1].at > b[k - 1].at /\ b[i - 1].id # b[k - 1].id BY <1>2, <2>2, <3>1
    <3> QED BY <2>2, <3>1, <3>2, Zenon
  <2> QED BY <1>4, <1>5, <2>1, <2>2
<1>6. ASSUME NEW i \in 1..(L + 1) PROVE u[i].id <= u[i].at /\ u[i].at <= n + 1
  <2>1. CASE i = 1 BY <1>1, <1>n, <2>1
  <2>2. CASE i - 1 \in 1..L /\ u[i] = b[i - 1]
    <3>1. b[i - 1].at <= n /\ b[i - 1].at \in Nat BY <1>0, <1>2, <2>2
    <3>2. b[i - 1].id <= b[i - 1].at /\ b[i - 1].at <= n + 1 BY <1>2, <1>n, <2>2, <3>1
    <3> QED BY <2>2, <3>2, Zenon
  <2> QED BY <1>3, <2>1, <2>2
<1>7. u \in Cards!Lists BY <1>1, FailuresAre
<1>8. Runs(u, n + 1) BY <1>1, <1>5, <1>6 DEF Runs
<1>9. ASSUME Cards!OneEach(b), \A i \in 1..L : r.job # Cards!None => b[i].job # r.job \/ b[i].kind # r.kind
      PROVE Cards!OneEach(u)
  <2>1. \A i, k \in 1..L : i < k /\ b[i].job # Cards!None => b[i].job # b[k].job \/ b[i].kind # b[k].kind
    BY <1>9, <1>h, OneEachOn DEF L
  <2>2. ASSUME NEW i \in 1..(L + 1), NEW k \in 1..(L + 1), i < k, u[i].job # Cards!None
        PROVE u[i].job # u[k].job \/ u[i].kind # u[k].kind
    <3>1. CASE i = 1 /\ u[i] = r BY <1>4, <1>9, <2>2, <3>1
    <3>2. CASE i - 1 \in 1..L /\ u[i] = b[i - 1] /\ i - 1 < k - 1 BY <1>4, <2>1, <2>2, <3>2
    <3> QED BY <1>4, <2>2, <3>1, <3>2
  <2>4. Len(u) = L + 1 BY <1>1
  <2>3. \A i, k \in 1..Len(u) : i < k /\ u[i].job # Cards!None => u[i].job # u[k].job \/ u[i].kind # u[k].kind
    <3> DEFINE Q(m) == \A i, k \in 1..m : i < k /\ u[i].job # Cards!None => u[i].job # u[k].job \/ u[i].kind # u[k].kind
    <3>1. Q(L + 1) BY <2>2
    <3> HIDE DEF Q
    <3>2. Q(Len(u)) BY <2>4, <3>1
    <3> QED BY <3>2 DEF Q
  <2> QED BY <1>7, <2>3, OneEachOn
<1>10. \A i \in 1..Len(u) : i = 1 \/ i - 1 \in 1..L BY <1>1, <1>3
<1> QED BY <1>1, <1>7, <1>8, <1>9, <1>10 DEF L, Headed

Pages == {"opening", "reading", "open"}
Askings == SUBSET Cards!Requests
LEMMA CentresAre ==
  Cards!Centres = [list : Cards!Lists, stored : Cards!Lists, page : Pages, read : Cards!Lists, asked : Askings,
                   early : BOOLEAN]
BY DEF Cards!Centres, Pages, Askings

LEMMA CentreHas ==
  ASSUME NEW n \in Cards!Centres
  PROVE /\ n.list \in Cards!Lists /\ n.stored \in Cards!Lists /\ n.read \in Cards!Lists
        /\ n.page \in {"opening", "reading", "open"} /\ n.asked \in Askings /\ n.early \in BOOLEAN
<1>1. /\ n.list \in Cards!Lists /\ n.stored \in Cards!Lists /\ n.read \in Cards!Lists
      /\ n.page \in Pages /\ n.asked \in Askings /\ n.early \in BOOLEAN
  BY CentresAre
<1> QED BY <1>1 DEF Pages

ShownAs(m, L, A, e) ==
  /\ m \in Cards!Centres /\ m.list = L /\ m.stored = L /\ m.page = st.page /\ m.read = st.read
  /\ m.asked = A /\ m.early = e

ListedAs(n, x, e) == [n EXCEPT !.list = x, !.early = e]
ToldAs(n, x, a) == [n EXCEPT !.asked = a, !.list = x]
LEMMA Persisted ==
  ASSUME st \in Cards!Centres, NEW x \in Cards!Lists
  PROVE /\ \A e \in BOOLEAN : ShownAs(Cards!persist(ListedAs(st, x, e)), x, st.asked, e)
        /\ \A a \in Askings : ShownAs(Cards!persist(ToldAs(st, x, a)), x, a, st.early)
<1>1. ASSUME NEW n \in Cards!Centres, NEW m, m = Cards!persist(n)
      PROVE /\ m \in Cards!Centres /\ m.list = n.list /\ m.stored = n.list /\ m.page = n.page /\ m.read = n.read
            /\ m.asked = n.asked /\ m.early = n.early
  BY <1>1, CentresAre DEF Cards!persist
<1>2. ASSUME NEW e \in BOOLEAN, NEW m, m = ListedAs(st, x, e)
      PROVE /\ m \in Cards!Centres /\ m.list = x /\ m.page = st.page /\ m.read = st.read
            /\ m.asked = st.asked /\ m.early = e
  BY <1>2, CentresAre DEF ListedAs
<1>3. ASSUME NEW a \in Askings, NEW m, m = ToldAs(st, x, a)
      PROVE /\ m \in Cards!Centres /\ m.list = x /\ m.page = st.page /\ m.read = st.read
            /\ m.asked = a /\ m.early = st.early
  BY <1>3, CentresAre DEF ToldAs
<1>4. ASSUME NEW e \in BOOLEAN PROVE ShownAs(Cards!persist(ListedAs(st, x, e)), x, st.asked, e)
  BY <1>1, <1>2 DEF ShownAs
<1>5. ASSUME NEW a \in Askings PROVE ShownAs(Cards!persist(ToldAs(st, x, a)), x, a, st.early)
  BY <1>1, <1>3 DEF ShownAs
<1> QED BY <1>4, <1>5

(* A new list that is shown and stored.                                     *)
LEMMA Shows ==
  ASSUME Cards!NotifAssumption, Cards!NotifIInv, NEW L \in Cards!Lists, acts' \in 0..NoteActs, acts <= acts',
         Len(L) <= ListedFailures, Runs(L, acts'), Cards!Agree(L, st.read), ~st.early => Cards!OneEach(L),
         NEW A \in Askings, NEW e \in BOOLEAN, ~e => ~st.early /\ st.page = "open",
         ShownAs(st', L, A, e)
  PROVE Cards!NotifIInv'
<1>1. st \in Cards!Centres /\ acts \in 0..NoteActs /\ Cards!Listed(st.read, acts) BY DEF Cards!NotifIInv
<1>2. /\ st' \in Cards!Centres /\ st'.list = L /\ st'.stored = L /\ st'.page = st.page /\ st'.read = st.read
      /\ st'.asked = A /\ st'.early = e
  BY DEF ShownAs
<1>3. st.read \in Cards!Lists BY <1>1, CentreHas
<1>4. Cards!Listed(L, acts') BY ListedRuns
<1>5. Cards!Listed(st.read, acts')
  <2>1. Len(st.read) <= ListedFailures /\ Runs(st.read, acts) BY <1>1, <1>3, ListedRuns
  <2>2. \A i \in 1..Len(st.read) : st.read[i].at \in Nat BY <1>3, FailuresAre
  <2>3. Runs(st.read, acts') BY <1>1, <2>1, <2>2 DEF Runs
  <2> QED BY <1>3, <2>1, <2>3, ListedRuns
<1>6. Cards!Agree(L, L) BY RunAgrees
<1>7. ~e => Cards!Kempt(st')
  <2> SUFFICES ASSUME ~e PROVE Cards!Kempt(st') OBVIOUS
  <2>1. st'.page = "open" /\ st'.list = L /\ st'.stored = L /\ Cards!OneEach(L) BY <1>2
  <2>2. Cards!Mirrors(L, L) BY DEF Cards!Mirrors, Cards!Given
  <2> QED BY <2>1, <2>2 DEF Cards!Kempt
<1> QED BY <1>2, <1>4, <1>5, <1>6, <1>7 DEF Cards!NotifIInv

LEMMA NotesHave ==
  ASSUME Cards!NotifAssumption, Cards!NotifIInv
  PROVE /\ st \in Cards!Centres /\ acts \in 0..NoteActs /\ acts \in Nat /\ NoteActs \in Nat
        /\ st.list \in Cards!Lists /\ st.stored \in Cards!Lists /\ st.read \in Cards!Lists
        /\ Len(st.list) <= ListedFailures /\ Runs(st.list, acts)
        /\ Len(st.stored) <= ListedFailures /\ Runs(st.stored, acts)
        /\ Len(st.read) <= ListedFailures /\ Runs(st.read, acts)
        /\ Cards!Agree(st.list, st.stored) /\ Cards!Agree(st.list, st.read) /\ Cards!Agree(st.stored, st.read)
        /\ ~st.early => Cards!Kempt(st)
<1>1. /\ st \in Cards!Centres /\ acts \in 0..NoteActs
      /\ Cards!Listed(st.list, acts) /\ Cards!Listed(st.stored, acts) /\ Cards!Listed(st.read, acts)
      /\ Cards!Agree(st.list, st.stored) /\ Cards!Agree(st.list, st.read) /\ Cards!Agree(st.stored, st.read)
      /\ ~st.early => Cards!Kempt(st)
  BY DEF Cards!NotifIInv
<1>2. st.list \in Cards!Lists /\ st.stored \in Cards!Lists /\ st.read \in Cards!Lists BY <1>1, CentreHas
<1>3. NoteActs \in Nat /\ acts \in Nat BY <1>1, FailuresAre
<1> QED BY <1>1, <1>2, <1>3, ListedRuns

LEMMA LaterRuns ==
  ASSUME Cards!NotifAssumption, NEW s \in Cards!Lists, NEW n \in Nat, NEW m \in Nat, n <= m, Runs(s, n)
  PROVE Runs(s, m)
<1>1. \A i \in 1..Len(s) : s[i].at \in Nat BY FailuresAre
<1>2. \A x \in Nat : x <= n => x <= m OBVIOUS
<1>3. \A i \in 1..Len(s) : s[i].at <= n /\ s[i].id <= s[i].at BY DEF Runs
<1>4. \A i \in 1..Len(s) : s[i].at <= m BY <1>1, <1>2, <1>3
<1> QED BY <1>3, <1>4 DEF Runs

(* ------------------------------- reports -------------------------------- *)
LEMMA RemovedPicks ==
  ASSUME Cards!NotifAssumption, NEW s \in Cards!Lists, NEW d \in 1..Len(s), NEW t, t = Cards!RemoveAt(s, d)
  PROVE t \in Cards!Lists /\ \E h : PickedBy(h, t, s) /\ \A i \in 1..Len(t) : h[i] # d
<1> DEFINE n == Len(s)
           h == [i \in 1..(n - 1) |-> IF i < d THEN i ELSE i + 1]
<1>0. n \in Nat /\ s \in Seq(Cards!Failures) /\ d \in 1..n BY FailuresAre
<1>1. d - 1 \in 0..(n - 1) BY <1>0
<1>2. t = Without(s, d - 1)
  <2>1. d - 1 + 2 = d + 1 BY <1>0
  <2> QED BY <2>1 DEF Cards!RemoveAt, Without
<1> HIDE DEF n
<1>3. /\ t \in Seq(Cards!Failures) /\ Len(t) = n - 1
      /\ \A i \in 1..(d - 1) : t[i] = s[i]
      /\ \A i \in d..(n - 1) : t[i] = s[i + 1]
  <2>1. d - 1 + 1 = d BY <1>0
  <2>2. /\ t \in Seq(Cards!Failures) /\ Len(t) = Len(s) - 1
        /\ \A i \in 1..(d - 1) : t[i] = s[i]
        /\ \A i \in (d - 1 + 1)..(Len(s) - 1) : t[i] = s[i + 1]
    BY <1>0, <1>1, <1>2, TakenOut DEF n
  <2> QED BY <2>1, <2>2 DEF n
<1>4. h \in [1..(n - 1) -> 1..n] /\ \A i \in 1..(n - 1) : h[i] = IF i < d THEN i ELSE i + 1 BY <1>0
<1> HIDE DEF h
<1>5. \A i \in 1..(n - 1) : h[i] # d BY <1>0, <1>4
<1>6. \A i, k \in 1..(n - 1) : i < k => h[i] < h[k] BY <1>0, <1>4
<1>7. ASSUME NEW i \in 1..(n - 1) PROVE t[i] = s[h[i]]
  <2>1. CASE i < d
    <3>1. i \in 1..(d - 1) /\ h[i] = i BY <1>0, <1>4, <2>1
    <3> QED BY <1>3, <3>1
  <2>2. CASE ~(i < d)
    <3>1. i \in d..(n - 1) /\ h[i] = i + 1 BY <1>0, <1>4, <2>2
    <3> QED BY <1>3, <3>1
  <2> QED BY <2>1, <2>2
<1>8. n - 1 <= n BY <1>0
<1>9. PickedBy(h, t, s) BY <1>3, <1>4, <1>6, <1>7, <1>8 DEF PickedBy, n
<1> QED BY <1>3, <1>5, <1>9, FailuresAre

(* What the first few of a list with a new head are.                        *)
MayHead(r, b) ==
  /\ b \in Cards!Lists /\ Picked(b, st.list) /\ r \in Cards!Failures /\ r.at = acts + 1 /\ r.id <= acts + 1
  /\ \A i \in 1..Len(b) : b[i].id # r.id
  /\ ~st.early => \A i \in 1..Len(b) : r.job # Cards!None => b[i].job # r.job \/ b[i].kind # r.kind
NowHeads(L, r, b) ==
  /\ L \in Cards!Lists /\ Len(L) <= ListedFailures /\ Runs(L, acts + 1) /\ Cards!Agree(L, st.read)
  /\ ~st.early => Cards!OneEach(L)
  /\ \A k \in 1..Len(L) : L[k] = r \/ \E i \in 1..Len(b) : L[k] = b[i]
LEMMA NewHead ==
  ASSUME Cards!NotifAssumption, Cards!NotifIInv, NEW r, NEW b, MayHead(r, b),
         NEW u, u = <<r>> \o b, NEW L, L = Cards!First(u, ListedFailures)
  PROVE NowHeads(L, r, b)
<1>h. /\ b \in Cards!Lists /\ Picked(b, st.list) /\ r \in Cards!Failures /\ r.at = acts + 1 /\ r.id <= acts + 1
      /\ \A i \in 1..Len(b) : b[i].id # r.id
      /\ ~st.early => \A i \in 1..Len(b) : r.job # Cards!None => b[i].job # r.job \/ b[i].kind # r.kind
  BY DEF MayHead
<1>0. acts \in Nat /\ st.list \in Cards!Lists /\ st.read \in Cards!Lists /\ Runs(st.list, acts) /\ Runs(st.read, acts)
      /\ Cards!Agree(st.list, st.read)
  BY NotesHave
<1>1. Runs(b, acts) /\ From(b, st.list) /\ (Cards!OneEach(st.list) => Cards!OneEach(b)) BY <1>0, <1>h, PickedKeeps
<1>2. /\ u \in Cards!Lists /\ Runs(u, acts + 1) /\ Len(u) = Len(b) + 1
      /\ u[1] = r /\ \A i \in 1..Len(b) : u[i + 1] = b[i]
      /\ \A i \in 1..Len(u) : i = 1 \/ i - 1 \in 1..Len(b)
      /\ Cards!OneEach(b) /\ (\A i \in 1..Len(b) : r.job # Cards!None => b[i].job # r.job \/ b[i].kind # r.kind)
         => Cards!OneEach(u)
  <2>1. Heads(r, b, acts) BY <1>0, <1>1, <1>h DEF Heads
  <2>2. Headed(u, r, b, acts) BY <2>1, HeadRuns
  <2> QED BY <2>2 DEF Headed
<1>3. /\ L \in Cards!Lists /\ Picked(L, u) /\ Len(L) <= ListedFailures BY <1>2, FirstPicks
<1>4. Runs(L, acts + 1) /\ From(L, u) /\ (Cards!OneEach(u) => Cards!OneEach(L)) BY <1>2, <1>3, PickedKeeps
<1>5. ~st.early => Cards!OneEach(L)
  <2> SUFFICES ASSUME ~st.early PROVE Cards!OneEach(L) OBVIOUS
  <2>1. Cards!Kempt(st) BY NotesHave
  <2>2. Cards!OneEach(st.list) BY <2>1 DEF Cards!Kempt
  <2> QED BY <1>1, <1>2, <1>4, <1>h, <2>2
<1>6. ASSUME NEW k \in 1..Len(u) PROVE u[k] = r \/ \E i \in 1..Len(b) : u[k] = b[i]
  <2>1. CASE k = 1 BY <1>2, <2>1
  <2>2. CASE k - 1 \in 1..Len(b)
    <3>1. k - 1 + 1 = k OBVIOUS
    <3>2. u[k - 1 + 1] = b[k - 1] BY <1>2, <2>2
    <3>3. u[k] = b[k - 1] BY <3>1, <3>2
    <3> QED BY <2>2, <3>3
  <2> QED BY <1>2, <2>1, <2>2
<1>7. \A k \in 1..Len(L) : L[k] = r \/ \E i \in 1..Len(b) : L[k] = b[i] BY <1>4, <1>6 DEF From
<1>8. ASSUME NEW k \in 1..Len(L), NEW m \in 1..Len(st.read), L[k].at = st.read[m].at PROVE L[k].id = st.read[m].id
  <2>1. CASE L[k] = r
    <3>1. st.read[m].at <= acts /\ st.read[m].at \in Nat BY <1>0, FailuresAre DEF Runs
    <3>2. L[k].at = acts + 1 BY <1>h, <2>1
    <3> QED BY <1>0, <1>8, <3>1, <3>2
  <2>2. CASE \E i \in 1..Len(b) : L[k] = b[i]
    <3>1. PICK i \in 1..Len(b) : L[k] = b[i] BY <2>2
    <3>2. PICK j \in 1..Len(st.list) : b[i] = st.list[j] BY <1>1 DEF From
    <3>3. st.list[j].at = st.read[m].at => st.list[j].id = st.read[m].id BY <1>0, AgreeOn
    <3> QED BY <1>8, <3>1, <3>2, <3>3
  <2> QED BY <1>7, <2>1, <2>2
<1>9. Cards!Agree(L, st.read) BY <1>0, <1>3, <1>8, AgreeOn
<1> QED BY <1>3, <1>4, <1>5, <1>7, <1>9 DEF NowHeads

(* What a step does to the sightings: no id it keeps loses what was known.  *)
Knows(r, s) == (r.rich => s.rich) /\ r.tail = s.tail /\ (r.traceback # s.traceback => s.at > r.at)
KnowsMore(s, L) == \A i \in 1..Len(s), k \in 1..Len(L) : s[i].id = L[k].id => Knows(s[i], L[k])
(* An answer may change what else is known.                                 *)
Learns(r, s) == (r.rich => s.rich) /\ (r.tail # s.tail => s.tail # "unasked")
LearnsMore(s, L) == \A i \in 1..Len(s), k \in 1..Len(L) : s[i].id = L[k].id => Learns(s[i], L[k])

LEMMA AddUp ==
  ASSUME Cards!NotifAssumption, Cards!NotifIInv, st'.list \in Cards!Lists,
         KnowsMore(st.list, st'.list) \/ (LearnsMore(st.list, st'.list) /\ st'.asked # st.asked),
         st'.page = st.page \/ st'.page = "opening" \/ st'.page = "reading"
  PROVE Cards!SightingsAddUp
<1>1. st.list \in Cards!Lists BY NotesHave
<1>2. DOMAIN st.list = 1..Len(st.list) /\ DOMAIN st'.list = 1..Len(st'.list) BY <1>1 DEF Cards!Lists
<1>3. ~(st.page = "reading" /\ st'.page = "open") OBVIOUS
<1> QED BY <1>2, <1>3 DEF Cards!SightingsAddUp, KnowsMore, Knows, LearnsMore, Learns

LEMMA SameIdSame ==
  ASSUME NEW s \in Cards!Lists, NEW n, Runs(s, n), NEW i \in 1..Len(s), NEW k \in 1..Len(s), s[i].id = s[k].id
  PROVE i = k
<1>1. Len(s) \in Nat BY DEF Cards!Lists
<1>2. ~(i < k) /\ ~(k < i) BY DEF Runs
<1> QED BY <1>1, <1>2

LEMMA NotesReport ==
  ASSUME Cards!NotifAssumption, Cards!NotifIInv, Cards!Report
  PROVE Cards!NotifIInv' /\ Cards!SightingsAddUp
<1>1. PICK kind \in Cards!Kinds, job \in FailingJobs \cup {Cards!None}, rich \in BOOLEAN :
        st' = Cards!notifyFailure(st, [id |-> acts + 1, at |-> acts + 1, kind |-> kind, job |-> job,
                                       rich |-> rich, tail |-> "unasked", traceback |-> "unasked"])
  BY DEF Cards!Report
<1> DEFINE s == st.list
           r == [id |-> acts + 1, at |-> acts + 1, kind |-> kind, job |-> job,
                 rich |-> rich, tail |-> "unasked", traceback |-> "unasked"]
           dupes == {i \in DOMAIN s : Cards!same(r, s[i])}
           d == CHOOSE i \in dupes : \A k \in dupes : i <= k
           e == st.early \/ st.page # "open"
<1>2. /\ acts \in Nat /\ s \in Cards!Lists /\ Runs(s, acts) /\ st \in Cards!Centres
      /\ ~st.early => Cards!Kempt(st)
  BY NotesHave
<1>3. acts < NoteActs /\ acts' = acts + 1 /\ NoteActs \in Nat BY NotesHave DEF Cards!Report, Cards!Act
<1>4. r \in Cards!Failures BY <1>2, <1>3 DEF Cards!Failures, Cards!Details
<1>5. DOMAIN s = 1..Len(s) /\ Len(s) \in Nat BY <1>2 DEF Cards!Lists
<1>6. acts' \in 0..NoteActs /\ acts <= acts' /\ acts' = acts + 1 BY <1>2, <1>3
<1>7. \A i \in 1..Len(s) : s[i] \in Cards!Failures /\ s[i].id \in Nat /\ s[i].id <= acts
  <2>1. \A i \in 1..Len(s) : s[i] \in Cards!Failures BY <1>2, FailuresAre
  <2>2. \A i \in 1..Len(s) : s[i].id \in Nat /\ s[i].at \in Nat BY <2>1, FailuresAre
  <2>3. \A i \in 1..Len(s) : s[i].id <= s[i].at /\ s[i].at <= acts BY <1>2 DEF Runs
  <2>4. \A x, y \in Nat : x <= y /\ y <= acts => x <= acts BY <1>2
  <2> QED BY <2>1, <2>2, <2>3, <2>4
<1>8. /\ dupes = {} => st' = Cards!persist(ListedAs(st, Cards!First(<<r>> \o s, ListedFailures), e))
      /\ dupes # {} =>
           st' = Cards!persist(ListedAs(st, Cards!First(<<Cards!refreshed(r, s[d])>> \o Cards!RemoveAt(s, d), ListedFailures), e))
  BY <1>1 DEF Cards!notifyFailure, ListedAs
<1>9. /\ r.at = acts + 1 /\ r.id = acts + 1 /\ r.job = job /\ r.kind = kind OBVIOUS
<1>10. \A i \in 1..Len(s) : s[i].id # r.id BY <1>2, <1>7, <1>9
<1> HIDE DEF r
<1>11. ASSUME NEW b \in Cards!Lists, NEW h, PickedBy(h, b, s), NEW v \in Cards!Failures, v.at = acts + 1, v.id <= acts + 1,
              \A i \in 1..Len(b) : b[i].id # v.id,
              ~st.early => \A i \in 1..Len(b) : v.job # Cards!None => b[i].job # v.job \/ b[i].kind # v.kind,
              \A i \in 1..Len(s) : s[i].id = v.id => Knows(s[i], v),
              NEW L, L = Cards!First(<<v>> \o b, ListedFailures),
              st' = Cards!persist(ListedAs(st, L, e))
       PROVE Cards!NotifIInv' /\ Cards!SightingsAddUp
  <2>1. Picked(b, st.list) BY <1>11 DEF Picked
  <2>2. /\ L \in Cards!Lists /\ Len(L) <= ListedFailures /\ Runs(L, acts + 1) /\ Cards!Agree(L, st.read)
        /\ ~st.early => Cards!OneEach(L)
        /\ \A k \in 1..Len(L) : L[k] = v \/ \E i \in 1..Len(b) : L[k] = b[i]
    <3> DEFINE u == <<v>> \o b
    <3>1. MayHead(v, b) BY <1>11, <2>1 DEF MayHead
    <3>2. L = Cards!First(u, ListedFailures) BY <1>11
    <3> HIDE DEF u
    <3>3. u = <<v>> \o b BY DEF u
    <3>4. NowHeads(L, v, b) BY <3>1, <3>2, <3>3, NewHead
    <3> QED BY <3>4 DEF NowHeads
  <2>3. e \in BOOLEAN /\ st.asked \in Askings /\ (~e => ~st.early /\ st.page = "open")
    BY <1>2, CentreHas
  <2> HIDE DEF e
  <2>10. ShownAs(st', L, st.asked, e) BY <1>2, <1>11, <2>2, <2>3, Persisted
  <2>4. Runs(L, acts') BY <1>6, <2>2
  <2>5. Cards!NotifIInv' BY <1>6, <2>2, <2>3, <2>4, <2>10, Shows
  <2>6. st'.list = L /\ st'.page = st.page BY <2>10 DEF ShownAs
  <2>7. ASSUME NEW i \in 1..Len(s), NEW k \in 1..Len(L), s[i].id = L[k].id
        PROVE Knows(s[i], L[k])
    <3>1. CASE L[k] = v BY <1>11, <2>7, <3>1
    <3>2. CASE \E m \in 1..Len(b) : L[k] = b[m]
      <4>1. PICK m \in 1..Len(b) : L[k] = b[m] BY <3>2
      <4>2. h[m] \in 1..Len(s) /\ b[m] = s[h[m]] BY <1>11 DEF PickedBy
      <4>3. i = h[m] BY <1>2, <2>7, <4>1, <4>2, SameIdSame
      <4> QED BY <4>1, <4>2, <4>3 DEF Knows
    <3> QED BY <2>2, <3>1, <3>2
  <2>8. KnowsMore(st.list, st'.list) BY <2>6, <2>7 DEF KnowsMore
  <2>9. Cards!SightingsAddUp BY <2>2, <2>6, <2>8, AddUp
  <2> QED BY <2>5, <2>9
<1>12. CASE dupes = {}
  <2> DEFINE h == [i \in 1..Len(s) |-> i]
  <2>1. PickedBy(h, s, s) BY <1>5 DEF PickedBy
  <2>2. \A i \in 1..Len(s) : ~Cards!same(r, s[i]) BY <1>5, <1>12
  <2>3. \A i \in 1..Len(s) : r.job # Cards!None => s[i].job # r.job \/ s[i].kind # r.kind BY <2>2 DEF Cards!same
  <2> DEFINE L == Cards!First(<<r>> \o s, ListedFailures)
  <2>4. st' = Cards!persist(ListedAs(st, L, e))
    BY <1>8, <1>12
  <2>5. r.id <= acts + 1 BY <1>2, <1>9
  <2> HIDE DEF h, L, dupes, d, e
  <2> QED BY <1>2, <1>4, <1>9, <1>10, <1>11, <2>1, <2>3, <2>4, <2>5 DEF L
<1>13. CASE dupes # {}
  <2>1. d \in dupes
    <3>1. dupes \in SUBSET Nat BY <1>5
    <3>2. \E m \in dupes : \A k \in dupes : m <= k BY <1>13, <3>1, LeastOfNat
    <3> HIDE DEF dupes
    <3> QED BY <3>2
  <2>2. d \in 1..Len(s) /\ Cards!same(r, s[d]) BY <1>5, <2>1
  <2> DEFINE v == Cards!refreshed(r, s[d])
             b == Cards!RemoveAt(s, d)
             L == Cards!First(<<v>> \o b, ListedFailures)
  <2>3. st' = Cards!persist(ListedAs(st, L, e))
    BY <1>8, <1>13
  <2> HIDE DEF d, dupes, e
  <2>4. /\ v \in Cards!Failures /\ v.at = r.at /\ v.id = s[d].id /\ v.job = r.job /\ v.kind = r.kind
        /\ (s[d].rich => v.rich) /\ s[d].tail = v.tail
    BY <1>4, <1>7, <2>2 DEF Cards!refreshed, Cards!Failures
  <2> HIDE DEF v
  <2>5. b \in Cards!Lists BY <1>2, <2>2, RemovedPicks
  <2>6. PICK h : PickedBy(h, b, s) /\ \A i \in 1..Len(b) : h[i] # d BY <1>2, <2>2, RemovedPicks
  <2> HIDE DEF b, L
  <2>7. \A i \in 1..Len(b) : h[i] \in 1..Len(s) /\ b[i] = s[h[i]] /\ h[i] # d BY <2>6 DEF PickedBy
  <2>8. ASSUME NEW i \in 1..Len(b) PROVE b[i].id # v.id
    <3>1. h[i] \in 1..Len(s) /\ b[i] = s[h[i]] /\ h[i] # d BY <2>7
    <3>2. s[h[i]].id # s[d].id BY <1>2, <2>2, <3>1, SameIdSame
    <3> QED BY <2>4, <3>1, <3>2
  <2>9. \A i \in 1..Len(s) : s[i].id = v.id => Knows(s[i], v)
    <3>1. s[d].at <= acts /\ s[d].at \in Nat BY <1>2, <1>7, <2>2, FailuresAre DEF Runs
    <3>2. v.at > s[d].at BY <1>2, <1>9, <2>4, <3>1
    <3>3. Knows(s[d], v) BY <2>4, <3>2 DEF Knows
    <3> QED BY <1>2, <2>2, <2>4, <3>3, SameIdSame
  <2>10. ~st.early => \A i \in 1..Len(b) : v.job # Cards!None => b[i].job # v.job \/ b[i].kind # v.kind
    <3> SUFFICES ASSUME ~st.early, NEW i \in 1..Len(b), v.job # Cards!None, b[i].job = v.job, b[i].kind = v.kind PROVE FALSE
      OBVIOUS
    <3>1. Cards!Kempt(st) BY <1>2
    <3>2. \A m, k \in 1..Len(s) : m < k /\ s[m].job # Cards!None => s[m].job # s[k].job \/ s[m].kind # s[k].kind
      BY <1>2, <3>1, OneEachOn DEF Cards!Kempt
    <3>3. s[d].job = r.job /\ s[d].kind = r.kind BY <2>2, <2>4 DEF Cards!same
    <3>4. s[h[i]].job = s[d].job /\ s[h[i]].kind = s[d].kind /\ s[d].job # Cards!None BY <2>4, <2>7, <3>3
    <3>5. ~(h[i] < d) /\ ~(d < h[i]) BY <2>2, <2>7, <3>2, <3>4
    <3>6. h[i] \in 1..Len(s) /\ h[i] # d BY <2>7
    <3> QED BY <1>5, <2>2, <3>5, <3>6
  <2>11. v.at = acts + 1 /\ v.id <= acts + 1
    <3>1. v.id \in Nat /\ v.id <= acts BY <1>7, <2>2, <2>4
    <3> QED BY <1>2, <1>9, <2>4, <3>1
  <2> QED BY <1>11, <2>3, <2>4, <2>5, <2>6, <2>8, <2>9, <2>10, <2>11 DEF L
<1> QED BY <1>12, <1>13

(* ------------------------------ dismissals ------------------------------ *)
DismissedAs(n, x, e) == [Cards!persist([n EXCEPT !.list = x]) EXCEPT !.early = e]
LEMMA DismissedIs ==
  ASSUME st \in Cards!Centres, NEW x \in Cards!Lists, NEW e \in BOOLEAN, NEW m, m = DismissedAs(st, x, e)
  PROVE ShownAs(m, x, st.asked, e)
<1> DEFINE p == [st EXCEPT !.list = x]
           q == Cards!persist(p)
<1>1. /\ p \in Cards!Centres /\ p.list = x /\ p.page = st.page /\ p.read = st.read /\ p.asked = st.asked
  BY CentresAre
<1> HIDE DEF p
<1>2. /\ q \in Cards!Centres /\ q.list = x /\ q.stored = x /\ q.page = st.page /\ q.read = st.read
      /\ q.asked = st.asked
  BY <1>1, CentresAre DEF Cards!persist
<1> HIDE DEF q
<1>3. m = [q EXCEPT !.early = e] BY DEF DismissedAs, p, q
<1>4. /\ m \in Cards!Centres /\ m.list = x /\ m.stored = x /\ m.page = st.page /\ m.read = st.read
      /\ m.asked = st.asked /\ m.early = e
  BY <1>2, <1>3, CentresAre
<1> QED BY <1>4 DEF ShownAs

LEMMA FewerKept ==
  ASSUME Cards!NotifAssumption, Cards!NotifIInv, NEW L \in Cards!Lists, Picked(L, st.list)
  PROVE /\ Len(L) <= ListedFailures /\ Runs(L, acts) /\ Cards!Agree(L, st.read)
        /\ ~st.early => Cards!OneEach(L)
        /\ KnowsMore(st.list, L)
<1>0. /\ st.list \in Cards!Lists /\ st.read \in Cards!Lists /\ Runs(st.list, acts) /\ Len(st.list) <= ListedFailures
      /\ Cards!Agree(st.list, st.read) /\ (~st.early => Cards!Kempt(st))
  BY NotesHave
<1>1. /\ Runs(L, acts) /\ From(L, st.list) /\ Len(L) <= Len(st.list)
      /\ (Cards!OneEach(st.list) => Cards!OneEach(L))
  BY <1>0, PickedKeeps
<1>2. Len(L) <= ListedFailures
  <2>1. Len(L) \in Nat /\ Len(st.list) \in Nat /\ ListedFailures \in Nat BY <1>0, FailuresAre DEF Cards!Lists
  <2>2. \A a, b, c \in Nat : a <= b /\ b <= c => a <= c OBVIOUS
  <2> QED BY <1>0, <1>1, <2>1, <2>2
<1>3. Cards!Agree(L, st.read) BY <1>0, <1>1, FromAgrees
<1>4. ~st.early => Cards!OneEach(L) BY <1>0, <1>1 DEF Cards!Kempt
<1>5. KnowsMore(st.list, L)
  <2> SUFFICES ASSUME NEW i \in 1..Len(st.list), NEW k \in 1..Len(L), st.list[i].id = L[k].id
               PROVE Knows(st.list[i], L[k])
    BY DEF KnowsMore
  <2>1. PICK m \in 1..Len(st.list) : L[k] = st.list[m] BY <1>1 DEF From
  <2>2. i = m BY <1>0, <2>1, SameIdSame
  <2> QED BY <2>1, <2>2 DEF Knows
<1> QED BY <1>1, <1>2, <1>3, <1>4, <1>5

LEMMA NotesStutter ==
  ASSUME Cards!NotifAssumption, Cards!NotifIInv, st' = st, acts' \in 0..NoteActs, acts <= acts'
  PROVE Cards!NotifIInv' /\ Cards!SightingsAddUp
<1>0. /\ st \in Cards!Centres /\ acts \in Nat /\ NoteActs \in Nat
      /\ st.list \in Cards!Lists /\ st.stored \in Cards!Lists /\ st.read \in Cards!Lists
      /\ Len(st.list) <= ListedFailures /\ Runs(st.list, acts)
      /\ Len(st.stored) <= ListedFailures /\ Runs(st.stored, acts)
      /\ Len(st.read) <= ListedFailures /\ Runs(st.read, acts)
      /\ Cards!Agree(st.list, st.stored) /\ Cards!Agree(st.list, st.read) /\ Cards!Agree(st.stored, st.read)
      /\ ~st.early => Cards!Kempt(st)
  BY NotesHave
<1>1. acts' \in Nat BY <1>0
<1>2. Runs(st.list, acts') /\ Runs(st.stored, acts') /\ Runs(st.read, acts') BY <1>0, <1>1, LaterRuns
<1>3. Cards!Listed(st.list, acts') /\ Cards!Listed(st.stored, acts') /\ Cards!Listed(st.read, acts')
  BY <1>0, <1>2, ListedRuns
<1>4. Cards!NotifIInv' BY <1>0, <1>3 DEF Cards!NotifIInv
<1>5. KnowsMore(st.list, st'.list)
  <2> SUFFICES ASSUME NEW i \in 1..Len(st.list), NEW k \in 1..Len(st.list), st.list[i].id = st.list[k].id
               PROVE Knows(st.list[i], st.list[k])
    BY DEF KnowsMore
  <2>1. i = k BY <1>0, SameIdSame
  <2> QED BY <2>1 DEF Knows
<1>6. st'.list \in Cards!Lists /\ st'.page = st.page BY <1>0
<1>7. Cards!SightingsAddUp BY <1>5, <1>6, AddUp
<1> QED BY <1>4, <1>7

LEMMA Dismisses ==
  ASSUME Cards!NotifAssumption, Cards!NotifIInv, Cards!Act, NEW gone, st' = Cards!dismissed(st, gone)
  PROVE Cards!NotifIInv' /\ Cards!SightingsAddUp
<1> DEFINE L == Cards!Kept(st.list, gone)
           e == st.early \/ st.page # "open"
<1>0. st \in Cards!Centres /\ st.list \in Cards!Lists /\ acts \in Nat /\ NoteActs \in Nat BY NotesHave
<1>1. acts < NoteActs /\ acts' = acts + 1 BY DEF Cards!Act
<1>2. acts' \in 0..NoteActs /\ acts <= acts' /\ acts' \in Nat BY <1>0, <1>1
<1>3. st' = st \/ st' = DismissedAs(st, L, e)
  <2>1. [st EXCEPT !.list = L].list = L BY <1>0, CentresAre
  <2>2. [st EXCEPT !.list = L].page = st.page /\ [st EXCEPT !.list = L].early = st.early BY <1>0, CentresAre
  <2>3. Cards!persist([st EXCEPT !.list = L]).early = st.early
    <3> DEFINE q == [st EXCEPT !.list = L]
    <3>1. q = [st EXCEPT !.list = L] OBVIOUS
    <3>2. q.early = st.early /\ "early" \in DOMAIN q BY <1>0, <2>2, CentresAre
    <3> HIDE DEF q
    <3>3. Cards!persist(q).early = st.early BY <3>2 DEF Cards!persist
    <3> QED BY <3>1, <3>3
  <2> HIDE DEF L
  <2> DEFINE q == Cards!persist([st EXCEPT !.list = L])
             f == q.early \/ st.page # "open"
  <2>4. st' = st \/ st' = [q EXCEPT !.early = f]
    <3> DEFINE w == [q EXCEPT !.early = q.early \/ st.page # "open"]
    <3>1. Cards!dismissed(st, gone) = IF [st EXCEPT !.list = L].list = st.list THEN st ELSE w
      BY Zenon DEF Cards!dismissed, L
    <3>2. w = [q EXCEPT !.early = f] OBVIOUS
    <3> HIDE DEF w, q, f
    <3> QED BY <3>1, <3>2, Zenon
  <2>5. f = e BY <2>3
  <2> HIDE DEF f, e
  <2>6. st' = st \/ st' = [q EXCEPT !.early = e] BY <2>4, <2>5
  <2> QED BY <2>6 DEF DismissedAs
<1>4. CASE st' = st BY <1>2, <1>4, NotesStutter
<1>5. CASE st' = DismissedAs(st, L, e)
  <2>1. st.list \in Seq(Cards!Failures) BY <1>0, FailuresAre
  <2>2. L \in Cards!Lists /\ Picked(L, st.list) BY <2>1, KeptPicks, FailuresAre
  <2> HIDE DEF L
  <2>3. e \in BOOLEAN /\ (~e => ~st.early /\ st.page = "open") /\ st.asked \in Askings BY <1>0, CentreHas
  <2> HIDE DEF e
  <2>4. ShownAs(st', L, st.asked, e) BY <1>0, <1>5, <2>2, <2>3, DismissedIs
  <2>5. /\ Len(L) <= ListedFailures /\ Runs(L, acts) /\ Cards!Agree(L, st.read)
        /\ ~st.early => Cards!OneEach(L)
        /\ KnowsMore(st.list, L)
    BY <2>2, FewerKept
  <2>6. Runs(L, acts') BY <1>0, <1>2, <2>2, <2>5, LaterRuns
  <2>7. Cards!NotifIInv' BY <1>2, <2>2, <2>3, <2>4, <2>5, <2>6, Shows
  <2>8. st'.list = L /\ st'.page = st.page BY <2>4 DEF ShownAs
  <2>9. Cards!SightingsAddUp BY <2>2, <2>5, <2>8, AddUp
  <2> QED BY <2>7, <2>9
<1> QED BY <1>3, <1>4, <1>5

LEMMA NoneListed ==
  ASSUME Cards!NotifAssumption
  PROVE /\ <<>> \in Cards!Lists /\ \A n : Cards!Listed(<<>>, n) /\ Cards!OneEach(<<>>)
        /\ \A s : Cards!Agree(<<>>, s) /\ Cards!Agree(s, <<>>)
<1>1. DOMAIN <<>> = {} /\ Len(<<>>) = 0 OBVIOUS
<1>2. 0 <= ListedFailures BY FailuresAre
<1> QED BY <1>1, <1>2 DEF Cards!Listed, Cards!OneEach, Cards!Agree, Cards!Lists

LEMMA ListCleared ==
  ASSUME Cards!NotifAssumption, Cards!NotifIInv, Cards!clearFailures PROVE Cards!NotifIInv' /\ Cards!SightingsAddUp
<1> DEFINE L == <<>>
           e == st.early \/ st.page # "open"
           q == Cards!persist([st EXCEPT !.list = L])
<1>0. st \in Cards!Centres /\ st.list \in Cards!Lists /\ acts \in Nat /\ NoteActs \in Nat BY NotesHave
<1>1. acts < NoteActs /\ acts' = acts + 1 /\ st' = Cards!cleared(st) BY DEF Cards!clearFailures, Cards!Act
<1>2. acts' \in 0..NoteActs /\ acts <= acts' /\ acts' \in Nat BY <1>0, <1>1
<1>3. /\ L \in Cards!Lists /\ Len(L) <= ListedFailures /\ Cards!Listed(L, acts') /\ Cards!OneEach(L)
      /\ Cards!Agree(L, st.read) /\ Len(L) = 0
  BY NoneListed DEF Cards!Listed
<1>4. Runs(L, acts') BY <1>3, ListedRuns
<1>5. e \in BOOLEAN /\ (~e => ~st.early /\ st.page = "open") /\ st.asked \in Askings BY <1>0, CentreHas
<1>6. st' = [q EXCEPT !.early = q.early \/ st.page # "open"] BY <1>1 DEF Cards!cleared
<1> HIDE DEF L
<1>7. q.early = st.early
  <2> DEFINE w == [st EXCEPT !.list = L]
  <2>1. w.early = st.early /\ "early" \in DOMAIN w BY <1>0, <1>3, CentresAre
  <2> HIDE DEF w
  <2>2. Cards!persist(w).early = st.early BY <2>1 DEF Cards!persist
  <2> QED BY <2>2 DEF w
<1>8. st' = DismissedAs(st, L, e)
  <2> DEFINE f == q.early \/ st.page # "open"
  <2>1. st' = [q EXCEPT !.early = f] BY <1>6
  <2>2. f = e BY <1>7
  <2> HIDE DEF f, e
  <2> QED BY <2>1, <2>2 DEF DismissedAs
<1> HIDE DEF e
<1>9. ShownAs(st', L, st.asked, e) BY <1>0, <1>3, <1>5, <1>8, DismissedIs
<1>10. Cards!NotifIInv' BY <1>2, <1>3, <1>4, <1>5, <1>9, Shows
<1>11. st'.list = L /\ st'.page = st.page BY <1>9 DEF ShownAs
<1>12. KnowsMore(st.list, L) BY <1>3 DEF KnowsMore
<1>13. Cards!SightingsAddUp BY <1>3, <1>11, <1>12, AddUp
<1> QED BY <1>10, <1>13

LEMMA NotesDismissed ==
  ASSUME Cards!NotifAssumption, Cards!NotifIInv,
         \/ Cards!dismissFailure \/ Cards!dismissFailuresByJobId \/ Cards!dismissFailuresByKind \/ Cards!clearFailures
  PROVE Cards!NotifIInv' /\ Cards!SightingsAddUp
<1>1. CASE Cards!dismissFailure BY <1>1, Dismisses DEF Cards!dismissFailure
<1>2. CASE Cards!dismissFailuresByJobId BY <1>2, Dismisses DEF Cards!dismissFailuresByJobId
<1>3. CASE Cards!dismissFailuresByKind BY <1>3, Dismisses DEF Cards!dismissFailuresByKind
<1>4. CASE Cards!clearFailures BY <1>4, ListCleared
<1> QED BY <1>1, <1>2, <1>3, <1>4

(* -------------------------------- details ------------------------------- *)
(* The rest of the record stays as it is while something is asked for.      *)
LEMMA NotesAsked ==
  ASSUME Cards!NotifAssumption, Cards!NotifIInv, NEW A \in Askings, acts' \in 0..NoteActs, acts <= acts',
         st.list = <<>> => A \subseteq st.asked, st' = [st EXCEPT !.asked = A]
  PROVE Cards!NotifIInv' /\ Cards!SightingsAddUp
<1>0. /\ st \in Cards!Centres /\ acts \in Nat /\ NoteActs \in Nat
      /\ st.list \in Cards!Lists /\ st.stored \in Cards!Lists /\ st.read \in Cards!Lists
      /\ Len(st.list) <= ListedFailures /\ Runs(st.list, acts)
      /\ Len(st.stored) <= ListedFailures /\ Runs(st.stored, acts)
      /\ Len(st.read) <= ListedFailures /\ Runs(st.read, acts)
      /\ Cards!Agree(st.list, st.stored) /\ Cards!Agree(st.list, st.read) /\ Cards!Agree(st.stored, st.read)
      /\ ~st.early => Cards!Kempt(st)
  BY NotesHave
<1>1. /\ st' \in Cards!Centres /\ st'.list = st.list /\ st'.stored = st.stored /\ st'.page = st.page /\ st'.read = st.read
      /\ st'.asked = A /\ st'.early = st.early
  BY <1>0, CentresAre
<1>2. acts' \in Nat BY <1>0
<1>3. Runs(st.list, acts') /\ Runs(st.stored, acts') /\ Runs(st.read, acts') BY <1>0, <1>2, LaterRuns
<1>4. Cards!Listed(st.list, acts') /\ Cards!Listed(st.stored, acts') /\ Cards!Listed(st.read, acts')
  BY <1>0, <1>3, ListedRuns
<1>5. ~st'.early => Cards!Kempt(st') BY <1>0, <1>1 DEF Cards!Kempt
<1>6. Cards!NotifIInv' BY <1>0, <1>1, <1>4, <1>5 DEF Cards!NotifIInv
<1>7. KnowsMore(st.list, st'.list)
  <2> SUFFICES ASSUME NEW i \in 1..Len(st.list), NEW k \in 1..Len(st.list), st.list[i].id = st.list[k].id
               PROVE Knows(st.list[i], st.list[k])
    BY <1>1 DEF KnowsMore
  <2>1. i = k BY <1>0, SameIdSame
  <2> QED BY <2>1 DEF Knows
<1>8. Cards!SightingsAddUp BY <1>0, <1>1, <1>7, AddUp
<1> QED BY <1>6, <1>8

LEMMA NotesOpened ==
  ASSUME Cards!NotifAssumption, Cards!NotifIInv, Cards!openFailureDialog
  PROVE Cards!NotifIInv' /\ Cards!SightingsAddUp
<1>0. st \in Cards!Centres /\ st.list \in Cards!Lists /\ acts \in Nat /\ NoteActs \in Nat BY NotesHave
<1>1. acts' \in 0..NoteActs /\ acts <= acts' BY <1>0 DEF Cards!openFailureDialog, Cards!Act
<1>2. PICK i \in DOMAIN st.list : st' = [st EXCEPT !.asked = @ \cup {<<st.list[i].at, acts + 1>>}]
  BY DEF Cards!openFailureDialog
<1> DEFINE q == <<st.list[i].at, acts + 1>>
           A == st.asked \cup {q}
<1>3. st.list[i].at \in 1..NoteActs /\ acts + 1 \in 1..NoteActs
  <2>1. st.list \in Seq(Cards!Failures) BY <1>0, FailuresAre
  <2>2. st.list[i] \in Cards!Failures BY <2>1
  <2>3. acts < NoteActs BY DEF Cards!openFailureDialog, Cards!Act
  <2> QED BY <1>0, <2>2, <2>3 DEF Cards!Failures
<1>4. st.asked \in Askings BY <1>0, CentreHas
<1>8. q \in Cards!Requests BY <1>3 DEF Cards!Requests
<1>5. A \in Askings BY <1>4, <1>8 DEF Askings
<1>6. st.list # <<>> BY <1>0 DEF Cards!Lists
<1>7. st' = [st EXCEPT !.asked = A] BY <1>2
<1> HIDE DEF A
<1> QED BY <1>1, <1>5, <1>6, <1>7, NotesAsked

(* The same failures, told more of.                                         *)
ToldMore(t, s) ==
  /\ Len(t) = Len(s)
  /\ \A i \in 1..Len(s) : /\ t[i].id = s[i].id /\ t[i].at = s[i].at /\ t[i].job = s[i].job /\ t[i].kind = s[i].kind
                          /\ Learns(s[i], t[i])

LEMMA ToldMoreKeeps ==
  ASSUME Cards!NotifAssumption, NEW s \in Cards!Lists, NEW t \in Cards!Lists, ToldMore(t, s), NEW u \in Cards!Lists, NEW n,
         Runs(s, n), Cards!Agree(s, u)
  PROVE /\ Runs(t, n) /\ Cards!Agree(t, u) /\ (Cards!OneEach(s) => Cards!OneEach(t)) /\ LearnsMore(s, t)
<1>1. /\ Len(t) = Len(s)
      /\ \A i \in 1..Len(s) : /\ t[i].id = s[i].id /\ t[i].at = s[i].at /\ t[i].job = s[i].job /\ t[i].kind = s[i].kind
                              /\ Learns(s[i], t[i])
  BY DEF ToldMore
<1>2. Runs(t, n) BY <1>1 DEF Runs
<1>3. Cards!Agree(t, u)
  <2>1. \A i \in 1..Len(s), k \in 1..Len(u) : s[i].at = u[k].at => s[i].id = u[k].id BY AgreeOn
  <2>2. \A i \in 1..Len(t), k \in 1..Len(u) : t[i].at = u[k].at => t[i].id = u[k].id BY <1>1, <2>1
  <2> QED BY <2>2, AgreeOn
<1>4. ASSUME Cards!OneEach(s) PROVE Cards!OneEach(t)
  <2>1. \A i, k \in 1..Len(s) : i < k /\ s[i].job # Cards!None => s[i].job # s[k].job \/ s[i].kind # s[k].kind
    BY <1>4, OneEachOn
  <2>2. \A i, k \in 1..Len(t) : i < k /\ t[i].job # Cards!None => t[i].job # t[k].job \/ t[i].kind # t[k].kind
    BY <1>1, <2>1
  <2> QED BY <2>2, OneEachOn
<1>5. LearnsMore(s, t)
  <2> SUFFICES ASSUME NEW i \in 1..Len(s), NEW k \in 1..Len(t), s[i].id = t[k].id
               PROVE Learns(s[i], t[k])
    BY DEF LearnsMore
  <2>1. k \in 1..Len(s) /\ s[i].id = s[k].id BY <1>1
  <2>2. i = k BY <2>1, SameIdSame
  <2> QED BY <1>1, <2>1, <2>2
<1> QED BY <1>2, <1>3, <1>4, <1>5

LEMMA NotesDetails ==
  ASSUME Cards!NotifAssumption, Cards!NotifIInv, Cards!DetailsArrive
  PROVE Cards!NotifIInv' /\ Cards!SightingsAddUp
<1> DEFINE w(r, at, d, c) == IF r.at = at THEN [r EXCEPT !.tail = d, !.traceback = d, !.rich = @ \/ c] ELSE r
           L(at, d, c) == [i \in DOMAIN st.list |-> w(st.list[i], at, d, c)]
           A(q) == st.asked \ {q}
<1>0. /\ st \in Cards!Centres /\ acts \in 0..NoteActs /\ acts \in Nat
      /\ st.list \in Cards!Lists /\ st.read \in Cards!Lists /\ st.stored \in Cards!Lists
      /\ Len(st.list) <= ListedFailures /\ Runs(st.list, acts)
      /\ Len(st.stored) <= ListedFailures /\ Runs(st.stored, acts)
      /\ Len(st.read) <= ListedFailures /\ Runs(st.read, acts)
      /\ Cards!Agree(st.list, st.read) /\ Cards!Agree(st.list, st.stored) /\ Cards!Agree(st.stored, st.read)
      /\ ~st.early => Cards!Kempt(st)
  BY NotesHave
<1>1. acts' = acts BY DEF Cards!DetailsArrive
<1>2. acts' \in 0..NoteActs /\ acts <= acts' BY <1>0, <1>1
<1>3. PICK q \in st.asked : \/ \E c \in BOOLEAN : st' = Cards!persist(ToldAs(st, L(q[1], "there", c), A(q)))
                            \/ st' = ToldAs(st, L(q[1], "empty", FALSE), A(q))
  <2>1. PICK q \in st.asked :
          LET n == [st EXCEPT !.asked = st.asked \ {q}]
          IN \/ \E c \in BOOLEAN : st' = Cards!persist(Cards!told(n, q[1], "there", c))
             \/ st' = Cards!told(n, q[1], "empty", FALSE)
    BY DEF Cards!DetailsArrive
  <2>2. ASSUME NEW d, NEW c
        PROVE Cards!told([st EXCEPT !.asked = st.asked \ {q}], q[1], d, c) = ToldAs(st, L(q[1], d, c), A(q))
    <3>1. "asked" \in DOMAIN st /\ "list" \in DOMAIN st BY <1>0, CentresAre
    <3> DEFINE n == [st EXCEPT !.asked = st.asked \ {q}]
    <3>2. n.list = st.list BY <3>1
    <3>3. Cards!told(n, q[1], d, c) = [n EXCEPT !.list = L(q[1], d, c)] BY <3>2 DEF Cards!told
    <3> HIDE DEF L
    <3> QED BY <3>3 DEF ToldAs
  <2> QED BY <2>1, <2>2
<1>4. PICK d \in {"there", "empty"}, c \in BOOLEAN :
        \/ st' = Cards!persist(ToldAs(st, L(q[1], d, c), A(q)))
        \/ d = "empty" /\ c = FALSE /\ st' = ToldAs(st, L(q[1], d, c), A(q))
  <2> HIDE DEF L, A
  <2> QED BY <1>3
<1> DEFINE M == L(q[1], d, c)
           B == A(q)
<1>5. /\ B \in Askings /\ B # st.asked /\ (~st.early => st.page = "open")
  <2>1. st.asked \in Askings BY <1>0, CentreHas
  <2>2. st.asked # {} BY <1>3
  <2> QED BY <1>0, <1>3, <2>1, <2>2 DEF Askings, Cards!Kempt
<1>7. st.list \in Seq(Cards!Failures) BY <1>0, FailuresAre
<1>8. ASSUME NEW r \in Cards!Failures
      PROVE /\ w(r, q[1], d, c) \in Cards!Failures /\ w(r, q[1], d, c).id = r.id /\ w(r, q[1], d, c).at = r.at
            /\ w(r, q[1], d, c).job = r.job /\ w(r, q[1], d, c).kind = r.kind
            /\ Learns(r, w(r, q[1], d, c))
  <2> DEFINE b == r.rich \/ c
             v == [r EXCEPT !.tail = d, !.traceback = d, !.rich = b]
  <2>1. b \in BOOLEAN /\ (r.rich => b) OBVIOUS
  <2> HIDE DEF b
  <2>2. d \in Cards!Details /\ d # "unasked" BY DEF Cards!Details
  <2>3. /\ v \in Cards!Failures /\ v.id = r.id /\ v.at = r.at /\ v.job = r.job /\ v.kind = r.kind
        /\ v.tail = d /\ v.rich = b
    BY <2>1, <2>2 DEF Cards!Failures
  <2>4. w(r, q[1], d, c) = IF r.at = q[1] THEN v ELSE r BY DEF b
  <2> HIDE DEF v, w
  <2>5. Learns(r, v) /\ Learns(r, r) BY <2>1, <2>2, <2>3 DEF Learns
  <2> QED BY <2>3, <2>4, <2>5
<1>9. ASSUME d = "empty", c = FALSE, NEW r \in Cards!Failures, NEW s, Cards!Given(r, s) PROVE Cards!Given(w(r, q[1], d, c), s)
  <2> DEFINE v == [r EXCEPT !.tail = d, !.traceback = d, !.rich = r.rich \/ c]
             z == [s EXCEPT !.tail = "empty", !.traceback = "empty"]
  <2>1. r.rich \/ c = r.rich
    <3>1. r.rich \in BOOLEAN BY DEF Cards!Failures
    <3> QED BY <1>9, <3>1
  <2>2. v = [r EXCEPT !.tail = "empty", !.traceback = "empty"]
    <3> DEFINE b == r.rich \/ c
    <3>1. b = r.rich BY <2>1
    <3>2. v = [r EXCEPT !.tail = d, !.traceback = d, !.rich = b] OBVIOUS
    <3> HIDE DEF b, v
    <3> QED BY <1>9, <3>1, <3>2 DEF Cards!Failures
  <2>3. w(r, q[1], d, c) = IF r.at = q[1] THEN v ELSE r OBVIOUS
  <2> HIDE DEF v, w
  <2>4. r = s \/ r = z BY <1>9 DEF Cards!Given
  <2>5. v = z
    <3>1. CASE r = s BY <2>2, <3>1
    <3>2. CASE r = z BY <2>2, <3>2
    <3> QED BY <2>4, <3>1, <3>2
  <2> QED BY <1>9, <2>3, <2>5 DEF Cards!Given
<1> HIDE DEF w
<1>10. DOMAIN st.list = 1..Len(st.list) /\ Len(st.list) \in Nat /\ \A i \in 1..Len(st.list) : st.list[i] \in Cards!Failures
  BY <1>7
<1>11. \A i \in 1..Len(st.list) : w(st.list[i], q[1], d, c) \in Cards!Failures BY <1>8, <1>10
<1>12. M \in Seq(Cards!Failures) /\ Len(M) = Len(st.list) /\ \A i \in 1..Len(st.list) : M[i] = w(st.list[i], q[1], d, c)
  BY <1>10, <1>11
<1> HIDE DEF M, A, L
<1>13. M \in Cards!Lists BY <1>12, FailuresAre
<1>14. ToldMore(M, st.list) BY <1>8, <1>10, <1>12 DEF ToldMore
<1>15. /\ Runs(M, acts) /\ Cards!Agree(M, st.read) /\ (Cards!OneEach(st.list) => Cards!OneEach(M))
       /\ LearnsMore(st.list, M)
  BY <1>0, <1>13, <1>14, ToldMoreKeeps
<1>16. Cards!Agree(M, st.stored) BY <1>0, <1>13, <1>14, ToldMoreKeeps
<1>17. Len(M) <= ListedFailures BY <1>0, <1>12
<1>18. ~st.early => Cards!OneEach(M) BY <1>0, <1>15 DEF Cards!Kempt
<1>19. Runs(M, acts') BY <1>1, <1>15
<1>20. st.early \in BOOLEAN BY <1>0, CentreHas
<1> HIDE DEF B
<1>21. CASE st' = Cards!persist(ToldAs(st, M, B))
  <2>1. ShownAs(st', M, B, st.early) BY <1>0, <1>5, <1>13, <1>21, Persisted
  <2>2. Cards!NotifIInv' BY <1>2, <1>5, <1>13, <1>15, <1>17, <1>18, <1>19, <1>20, <2>1, Shows
  <2>3. st'.list = M /\ st'.page = st.page /\ st'.asked = B BY <2>1 DEF ShownAs
  <2>4. Cards!SightingsAddUp BY <1>5, <1>13, <1>15, <2>3, AddUp
  <2> QED BY <2>2, <2>4
<1>22. CASE d = "empty" /\ c = FALSE /\ st' = ToldAs(st, M, B)
  <2>1. /\ st' \in Cards!Centres /\ st'.list = M /\ st'.stored = st.stored /\ st'.page = st.page /\ st'.read = st.read
        /\ st'.asked = B /\ st'.early = st.early
    BY <1>0, <1>5, <1>13, <1>22, CentresAre DEF ToldAs
  <2>2. Cards!Listed(M, acts') /\ Cards!Listed(st.stored, acts') /\ Cards!Listed(st.read, acts')
    BY <1>0, <1>1, <1>13, <1>17, <1>19, ListedRuns
  <2>3. ASSUME ~st'.early PROVE Cards!Kempt(st')
    <3>1. Cards!Mirrors(st.list, st.stored) /\ Cards!OneEach(st.stored) /\ st.page = "open" /\ Cards!OneEach(M)
      BY <1>0, <1>5, <1>18, <2>1, <2>3 DEF Cards!Kempt
    <3>2. Len(st.list) = Len(st.stored) /\ \A i \in 1..Len(st.list) : Cards!Given(st.list[i], st.stored[i])
      BY <1>10, <3>1 DEF Cards!Mirrors
    <3>3. \A i \in 1..Len(st.list) : Cards!Given(M[i], st.stored[i]) BY <1>9, <1>10, <1>12, <1>22, <3>2
    <3>4. DOMAIN M = 1..Len(st.list) BY <1>12
    <3>5. Cards!Mirrors(M, st.stored) BY <1>12, <3>2, <3>3, <3>4 DEF Cards!Mirrors
    <3> QED BY <2>1, <3>1, <3>5 DEF Cards!Kempt
  <2>4. Cards!NotifIInv' BY <1>0, <1>2, <1>15, <1>16, <2>1, <2>2, <2>3 DEF Cards!NotifIInv
  <2>5. Cards!SightingsAddUp BY <1>5, <1>13, <1>15, <2>1, AddUp
  <2> QED BY <2>4, <2>5
<1> QED BY <1>4, <1>21, <1>22 DEF M, B

(* ------------------------------- the page ------------------------------- *)
LEMMA NotesRead ==
  ASSUME Cards!NotifAssumption, Cards!NotifIInv, Cards!ReadStore
  PROVE Cards!NotifIInv' /\ Cards!SightingsAddUp
<1>0. /\ st \in Cards!Centres /\ acts \in 0..NoteActs /\ st.stored \in Cards!Lists /\ st.list \in Cards!Lists
      /\ Cards!Agree(st.list, st.stored) /\ Runs(st.stored, acts) /\ Runs(st.list, acts)
      /\ ~st.early => Cards!Kempt(st)
  BY NotesHave
<1>1. acts' = acts /\ st.page = "opening" /\ st' = [st EXCEPT !.page = "reading", !.read = st.stored]
  BY DEF Cards!ReadStore
<1>2. /\ st' \in Cards!Centres /\ st'.list = st.list /\ st'.stored = st.stored /\ st'.page = "reading" /\ st'.read = st.stored
      /\ st'.asked = st.asked /\ st'.early = st.early
  <2>1. "reading" \in Pages BY DEF Pages
  <2> QED BY <1>0, <1>1, <2>1, CentresAre
<1>3. Cards!Agree(st.stored, st.stored) BY <1>0, RunAgrees
<1>4. ~st'.early => Cards!Kempt(st') BY <1>0, <1>1, <1>2 DEF Cards!Kempt
<1>5. Cards!NotifIInv' BY <1>0, <1>1, <1>2, <1>3, <1>4 DEF Cards!NotifIInv
<1>6. KnowsMore(st.list, st.list)
  <2> SUFFICES ASSUME NEW i \in 1..Len(st.list), NEW k \in 1..Len(st.list), st.list[i].id = st.list[k].id
               PROVE Knows(st.list[i], st.list[k])
    BY DEF KnowsMore
  <2>1. i = k BY <1>0, SameIdSame
  <2> QED BY <2>1 DEF Knows
<1>7. Cards!SightingsAddUp BY <1>0, <1>2, <1>6, AddUp
<1> QED BY <1>5, <1>7

LEMMA NotesReload ==
  ASSUME Cards!NotifAssumption, Cards!NotifIInv, Cards!Reload
  PROVE Cards!NotifIInv' /\ Cards!SightingsAddUp
<1>0. /\ st \in Cards!Centres /\ acts \in Nat /\ NoteActs \in Nat
      /\ st.list \in Cards!Lists /\ st.stored \in Cards!Lists /\ st.read \in Cards!Lists
      /\ Len(st.stored) <= ListedFailures /\ Runs(st.stored, acts)
      /\ Len(st.read) <= ListedFailures /\ Runs(st.read, acts)
      /\ Cards!Agree(st.stored, st.read)
      /\ ~st.early => Cards!Kempt(st)
  BY NotesHave
<1>1. /\ acts < NoteActs /\ acts' = acts + 1 /\ st.page = "open"
      /\ st' = [st EXCEPT !.page = "opening", !.list = <<>>, !.asked = {}]
  BY DEF Cards!Reload, Cards!Act
<1>2. acts' \in 0..NoteActs /\ acts <= acts' /\ acts' \in Nat BY <1>0, <1>1
<1>3. <<>> \in Cards!Lists BY NoneListed
<1>4. /\ st' \in Cards!Centres /\ st'.list = <<>> /\ st'.stored = st.stored /\ st'.page = "opening" /\ st'.read = st.read
      /\ st'.asked = {} /\ st'.early = st.early
  <2>1. "opening" \in Pages /\ {} \in Askings BY DEF Pages, Askings
  <2> QED BY <1>0, <1>1, <1>3, <2>1, CentresAre
<1>5. Runs(st.stored, acts') /\ Runs(st.read, acts') BY <1>0, <1>2, LaterRuns
<1>6. Cards!Listed(st.stored, acts') /\ Cards!Listed(st.read, acts') BY <1>0, <1>5, ListedRuns
<1>7. /\ Cards!Listed(<<>>, acts') /\ Cards!Agree(<<>>, st.stored) /\ Cards!Agree(<<>>, st.read) /\ Cards!OneEach(<<>>)
  BY NoneListed
<1>8. ~st'.early => Cards!Kempt(st') BY <1>0, <1>4, <1>7 DEF Cards!Kempt
<1>9. Cards!NotifIInv' BY <1>0, <1>2, <1>4, <1>6, <1>7, <1>8 DEF Cards!NotifIInv
<1>10. KnowsMore(st.list, <<>>) BY DEF KnowsMore
<1>11. Cards!SightingsAddUp BY <1>3, <1>4, <1>10, AddUp
<1> QED BY <1>9, <1>11

LEMMA NotesStart ==
  ASSUME Cards!NotifAssumption, Cards!NotifInit PROVE Cards!NotifIInv
<1>1. /\ st = [list |-> <<>>, stored |-> <<>>, page |-> "opening", read |-> <<>>, asked |-> {}, early |-> FALSE]
      /\ acts = 0
  BY DEF Cards!NotifInit
<1>2. /\ <<>> \in Cards!Lists /\ \A n : Cards!Listed(<<>>, n) /\ Cards!OneEach(<<>>)
      /\ Cards!Agree(<<>>, <<>>)
  BY NoneListed
<1>3. st \in Cards!Centres
  <2>1. "opening" \in Pages /\ {} \in Askings BY DEF Pages, Askings
  <2> QED BY <1>1, <1>2, <2>1, CentresAre
<1>4. acts \in 0..NoteActs BY <1>1, FailuresAre
<1>5. /\ st.list = <<>> /\ st.stored = <<>> /\ st.read = <<>> /\ st.asked = {} /\ st.page = "opening" BY <1>1
<1>6. Cards!Kempt(st) BY <1>2, <1>5 DEF Cards!Kempt
<1> QED BY <1>2, <1>3, <1>4, <1>5, <1>6 DEF Cards!NotifIInv

(* Two lists with no failure in common, one after the other.                *)
Apart(a, b, n) ==
  /\ a \in Cards!Lists /\ b \in Cards!Lists /\ Runs(a, n) /\ Runs(b, n) /\ Cards!Agree(a, b)
  /\ \A i \in 1..Len(a), k \in 1..Len(b) : a[i].id # b[k].id
Bounded(s, n) == \A i \in 1..Len(s) : s[i].id <= s[i].at /\ s[i].at <= n
OneId(s) == \A i, k \in 1..Len(s) : s[i].id = s[k].id => i = k
JoinedFrom(s, a, b) ==
  /\ \A j \in 1..Len(s) : (\E i \in 1..Len(a) : i = j /\ s[j] = a[i]) \/ (\E i \in 1..Len(b) : j = Len(a) + i /\ s[j] = b[i])
  /\ \A i \in 1..Len(a) : i \in 1..Len(s) /\ s[i] = a[i]

SplicedFrom(s, a, b, q, m, p) ==
  /\ \A j \in 1..q : (\E i \in 1..m : i = j /\ s[j] = a[i]) \/ (\E i \in 1..p : j = m + i /\ s[j] = b[i])
  /\ \A i \in 1..m : i \in 1..q /\ s[i] = a[i]

LEMMA Spliced ==
  ASSUME NEW m \in Nat, NEW p \in Nat, NEW q, q = m + p, NEW s, NEW a, NEW b,
         \A i \in 1..q : s[i] = IF i <= m THEN a[i] ELSE b[i - m]
  PROVE SplicedFrom(s, a, b, q, m, p)
<1>1. ASSUME NEW j \in 1..q
      PROVE (\E i \in 1..m : i = j /\ s[j] = a[i]) \/ (\E i \in 1..p : j = m + i /\ s[j] = b[i])
  <2>1. CASE j <= m
    <3>1. j \in 1..m /\ s[j] = a[j] BY <2>1
    <3> QED BY <3>1
  <2>2. CASE ~(j <= m)
    <3>1. (j - m) \in 1..p /\ s[j] = b[j - m] /\ j = m + (j - m) BY <2>2
    <3> QED BY <3>1
  <2> QED BY <2>1, <2>2
<1>2. \A i \in 1..m : i \in 1..q /\ s[i] = a[i] OBVIOUS
<1> QED BY <1>1, <1>2 DEF SplicedFrom

LEMMA JoinedAre ==
  ASSUME NEW T, NEW a \in Seq(T), NEW b \in Seq(T), NEW s, s = a \o b
  PROVE s \in Seq(T) /\ JoinedFrom(s, a, b)
<1>1. /\ Len(a) \in Nat /\ Len(b) \in Nat /\ s \in Seq(T) /\ Len(s) = Len(a) + Len(b)
      /\ \A i \in 1..Len(s) : s[i] = IF i <= Len(a) THEN a[i] ELSE b[i - Len(a)]
  OBVIOUS
<1> DEFINE m == Len(a)  p == Len(b)  q == Len(s)
<1>2. /\ m \in Nat /\ p \in Nat /\ q = m + p
      /\ \A i \in 1..q : s[i] = IF i <= m THEN a[i] ELSE b[i - m]
  BY <1>1
<1> HIDE DEF m, p, q
<1>3. SplicedFrom(s, a, b, q, m, p)
  <2>1. \A i \in 1..q : s[i] = IF i <= m THEN a[i] ELSE b[i - m] BY <1>2
  <2>2. m \in Nat /\ p \in Nat /\ q = m + p BY <1>2
  <2> QED BY <2>1, <2>2, Spliced, Zenon
<1>4. JoinedFrom(s, a, b) BY <1>3 DEF JoinedFrom, SplicedFrom, m, p, q
<1> QED BY <1>1, <1>4

LEMMA AtsApart ==
  ASSUME NEW a, NEW b, NEW n, Apart(a, b, n)
  PROVE \A i \in 1..Len(a), k \in 1..Len(b) : a[i].at # b[k].at
BY AgreeOn DEF Apart

LEMMA JoinedRuns ==
  ASSUME Cards!NotifAssumption, NEW a, NEW b, NEW n, Apart(a, b, n), NEW s, s = a \o b
  PROVE s \in Cards!Lists /\ JoinedFrom(s, a, b) /\ Moments(s) /\ OneId(s) /\ Bounded(s, n)
<1>0. /\ a \in Cards!Lists /\ b \in Cards!Lists /\ Runs(a, n) /\ Runs(b, n)
      /\ \A i \in 1..Len(a), k \in 1..Len(b) : a[i].id # b[k].id
  BY DEF Apart
<1>1. a \in Seq(Cards!Failures) /\ b \in Seq(Cards!Failures) BY <1>0, FailuresAre
<1>2. s \in Seq(Cards!Failures) /\ JoinedFrom(s, a, b) BY <1>1, JoinedAre
<1>3. s \in Cards!Lists BY <1>2, FailuresAre
<1>4. \A i \in 1..Len(a), k \in 1..Len(b) : a[i].at # b[k].at BY AtsApart
<1>5. \A i, k \in 1..Len(a) : a[i].id = a[k].id => i = k BY <1>0, SameIdSame
<1>6. \A i, k \in 1..Len(b) : b[i].id = b[k].id => i = k BY <1>0, SameIdSame
<1>7. Moments(a) /\ Moments(b) BY <1>0, RunAgrees
<1>8. /\ \A i, k \in 1..Len(a) : a[i].at = a[k].at => i = k
      /\ \A i, k \in 1..Len(b) : b[i].at = b[k].at => i = k
  BY <1>7 DEF Moments
<1>9. ASSUME NEW j \in 1..Len(s) PROVE s[j].at \in Nat
  <2>1. s[j] \in Cards!Failures BY <1>2
  <2> QED BY <2>1, FailuresAre
<1>10. ASSUME NEW j \in 1..Len(s), NEW k \in 1..Len(s), s[j].at = s[k].at \/ s[j].id = s[k].id PROVE j = k
  <2>1. (\E i \in 1..Len(a) : i = j /\ s[j] = a[i]) \/ (\E i \in 1..Len(b) : j = Len(a) + i /\ s[j] = b[i])
    BY <1>2 DEF JoinedFrom
  <2>2. (\E i \in 1..Len(a) : i = k /\ s[k] = a[i]) \/ (\E i \in 1..Len(b) : k = Len(a) + i /\ s[k] = b[i])
    BY <1>2 DEF JoinedFrom
  <2>3. CASE (\E i \in 1..Len(a) : i = j /\ s[j] = a[i]) /\ (\E i \in 1..Len(a) : i = k /\ s[k] = a[i])
    BY <1>5, <1>8, <1>10, <2>3
  <2>4. CASE (\E i \in 1..Len(a) : i = j /\ s[j] = a[i]) /\ (\E i \in 1..Len(b) : k = Len(a) + i /\ s[k] = b[i])
    BY <1>0, <1>4, <1>10, <2>4
  <2>5. CASE (\E i \in 1..Len(b) : j = Len(a) + i /\ s[j] = b[i]) /\ (\E i \in 1..Len(a) : i = k /\ s[k] = a[i])
    BY <1>0, <1>4, <1>10, <2>5
  <2>6. CASE (\E i \in 1..Len(b) : j = Len(a) + i /\ s[j] = b[i]) /\ (\E i \in 1..Len(b) : k = Len(a) + i /\ s[k] = b[i])
    <3>1. PICK i \in 1..Len(b) : j = Len(a) + i /\ s[j] = b[i] BY <2>6
    <3>2. PICK l \in 1..Len(b) : k = Len(a) + l /\ s[k] = b[l] BY <2>6
    <3>3. i = l BY <1>6, <1>8, <1>10, <3>1, <3>2
    <3> QED BY <3>1, <3>2, <3>3
  <2> QED BY <2>1, <2>2, <2>3, <2>4, <2>5, <2>6
<1>11. Moments(s) BY <1>9, <1>10 DEF Moments
<1>12. OneId(s) BY <1>10 DEF OneId
<1>13. ASSUME NEW j \in 1..Len(s) PROVE s[j].id <= s[j].at /\ s[j].at <= n
  <2>1. (\E i \in 1..Len(a) : i = j /\ s[j] = a[i]) \/ (\E i \in 1..Len(b) : j = Len(a) + i /\ s[j] = b[i])
    BY <1>2 DEF JoinedFrom
  <2>2. /\ \A i \in 1..Len(a) : a[i].id <= a[i].at /\ a[i].at <= n
        /\ \A i \in 1..Len(b) : b[i].id <= b[i].at /\ b[i].at <= n
    BY <1>0 DEF Runs
  <2> QED BY <2>1, <2>2
<1>14. Bounded(s, n) BY <1>13 DEF Bounded
<1> QED BY <1>2, <1>3, <1>11, <1>12, <1>14

LEMMA SortedRuns ==
  ASSUME Cards!NotifAssumption, NEW s \in Cards!Lists, NEW n, Moments(s), OneId(s), Bounded(s, n),
         NEW t, t = Cards!newestFirst(s)
  PROVE /\ t \in Cards!Lists /\ Runs(t, n) /\ From(t, s) /\ From(s, t)
        /\ (\A i, k \in 1..Len(s) : i < k => s[i].at > s[k].at) => t = s
<1>1. s \in Seq(Cards!Failures) BY FailuresAre
<1>2. /\ t \in Seq(Cards!Failures) /\ SortedFrom(t, s)
      /\ (\A i, k \in 1..Len(s) : i < k => s[i].at > s[k].at) => t = s
  BY <1>1, NewestFirstSorts
<1>3. t \in Cards!Lists BY <1>2, FailuresAre
<1>4. From(t, s) /\ From(s, t)
  <2>1. (\A i \in 1..Len(t) : \E k \in 1..Len(s) : t[i] = s[k]) /\ (\A k \in 1..Len(s) : \E i \in 1..Len(t) : t[i] = s[k])
    BY <1>2 DEF SortedFrom
  <2>2. \A k \in 1..Len(s) : \E i \in 1..Len(t) : s[k] = t[i] BY <2>1
  <2> QED BY <2>1, <2>2 DEF From
<1>5. ASSUME NEW i \in 1..Len(t), NEW k \in 1..Len(t), i < k PROVE t[i].at > t[k].at /\ t[i].id # t[k].id
  <2>1. t[i].at > t[k].at BY <1>2, <1>5 DEF SortedFrom
  <2>2. Len(t) \in Nat /\ i # k BY <1>2, <1>5
  <2>3. PICK j \in 1..Len(s), m \in 1..Len(s) : j # m /\ t[i] = s[j] /\ t[k] = s[m] BY <1>2, <2>2 DEF SortedFrom
  <2> QED BY <2>1, <2>3 DEF OneId
<1>6. ASSUME NEW i \in 1..Len(t) PROVE t[i].id <= t[i].at /\ t[i].at <= n
  BY <1>4 DEF From, Bounded
<1>7. Runs(t, n) BY <1>5, <1>6 DEF Runs
<1> QED BY <1>2, <1>3, <1>4, <1>7

Merges(L, a, b, u, n) ==
  /\ L \in Cards!Lists /\ Len(L) <= ListedFailures /\ Runs(L, n) /\ Cards!Agree(L, u) /\ KnowsMore(a, L)
  /\ Len(L) = ListedFailures \/ From(a, L)
  /\ a = <<>> /\ Len(b) <= ListedFailures => L = b

LEMMA MergedIs ==
  ASSUME Cards!NotifAssumption, NEW a \in Cards!Lists, NEW b \in Cards!Lists, NEW n, Runs(a, n), Runs(b, n),
         Cards!Agree(a, b), NEW u \in Cards!Lists, Cards!Agree(a, u), Cards!Agree(b, u), NEW L, L = Cards!merged(a, b)
  PROVE Merges(L, a, b, u, n)
<1> DEFINE known == {a[i].id : i \in DOMAIN a}
           gone == {r \in Cards!Failures : r.id \in known}
           k == Cards!Kept(b, gone)
           s == a \o k
           t == Cards!newestFirst(s)
<1>1. L = Cards!First(t, ListedFailures) BY DEF Cards!merged
<1>a. a \in Seq(Cards!Failures) /\ b \in Seq(Cards!Failures) BY FailuresAre
<1>b. DOMAIN a = 1..Len(a) BY <1>a
<1>c. a = <<>> => \A i \in 1..Len(b) : b[i] \notin gone BY <1>b
<1>d. \A i \in 1..Len(a) : a[i].id \in known BY <1>b
<1>e. \A r \in Cards!Failures : r \notin gone => r.id \notin known OBVIOUS
<1> HIDE DEF gone, known
<1>2. /\ k \in Seq(Cards!Failures) /\ Picked(k, b) /\ \A i \in 1..Len(k) : k[i] \notin gone
      /\ (\A i \in 1..Len(b) : b[i] \notin gone) => k = b
  BY <1>a, KeptPicks
<1> HIDE DEF k
<1>3. k \in Cards!Lists BY <1>2, FailuresAre
<1>4. Runs(k, n) /\ From(k, b) BY <1>2, <1>3, PickedKeeps
<1>5. Cards!Agree(b, a) BY AgreeBothWays
<1>6. Cards!Agree(k, a) BY <1>3, <1>4, <1>5, FromAgrees
<1>7. Cards!Agree(a, k) BY <1>3, <1>6, AgreeBothWays
<1>8. Cards!Agree(k, u) BY <1>3, <1>4, FromAgrees
<1>9. \A i \in 1..Len(a), j \in 1..Len(k) : a[i].id # k[j].id
  <2> SUFFICES ASSUME NEW i \in 1..Len(a), NEW j \in 1..Len(k) PROVE a[i].id # k[j].id OBVIOUS
  <2>1. k[j] \in Cards!Failures /\ k[j] \notin gone BY <1>2
  <2> QED BY <1>d, <1>e, <2>1
<1>10. Apart(a, k, n) BY <1>3, <1>4, <1>7, <1>9 DEF Apart
<1>11. s \in Cards!Lists /\ JoinedFrom(s, a, k) /\ Moments(s) /\ OneId(s) /\ Bounded(s, n) BY <1>10, JoinedRuns
<1>12. a = <<>> => s = b BY <1>a, <1>c, <1>2
<1> HIDE DEF s
<1>13. /\ t \in Cards!Lists /\ Runs(t, n) /\ From(t, s) /\ From(s, t)
       /\ (\A i, j \in 1..Len(s) : i < j => s[i].at > s[j].at) => t = s
  BY <1>11, SortedRuns
<1> HIDE DEF t
<1>14. /\ L \in Cards!Lists /\ Picked(L, t) /\ Len(L) <= ListedFailures
       /\ Len(L) # ListedFailures => L = t
       /\ Len(t) <= ListedFailures => L = t
  BY <1>1, <1>13, FirstPicks
<1>15. Runs(L, n) /\ From(L, t) BY <1>13, <1>14, PickedKeeps
<1>16. \A j \in 1..Len(L) : (\E i \in 1..Len(a) : L[j] = a[i]) \/ (\E i \in 1..Len(k) : L[j] = k[i])
  <2> SUFFICES ASSUME NEW j \in 1..Len(L) PROVE (\E i \in 1..Len(a) : L[j] = a[i]) \/ (\E i \in 1..Len(k) : L[j] = k[i])
    OBVIOUS
  <2>1. PICK x \in 1..Len(t) : L[j] = t[x] BY <1>15 DEF From
  <2>2. PICK y \in 1..Len(s) : t[x] = s[y] BY <1>13 DEF From
  <2>3. (\E i \in 1..Len(a) : i = y /\ s[y] = a[i]) \/ (\E i \in 1..Len(k) : y = Len(a) + i /\ s[y] = k[i])
    BY <1>11 DEF JoinedFrom
  <2> QED BY <2>1, <2>2, <2>3
<1>17. Cards!Agree(L, u)
  <2>1. \A i \in 1..Len(a), m \in 1..Len(u) : a[i].at = u[m].at => a[i].id = u[m].id BY AgreeOn
  <2>2. \A i \in 1..Len(k), m \in 1..Len(u) : k[i].at = u[m].at => k[i].id = u[m].id BY <1>3, <1>8, AgreeOn
  <2>3. ASSUME NEW j \in 1..Len(L), NEW m \in 1..Len(u), L[j].at = u[m].at PROVE L[j].id = u[m].id
    <3>1. CASE \E i \in 1..Len(a) : L[j] = a[i] BY <2>1, <2>3, <3>1
    <3>2. CASE \E i \in 1..Len(k) : L[j] = k[i] BY <2>2, <2>3, <3>2
    <3> QED BY <1>16, <3>1, <3>2
  <2> QED BY <1>14, <2>3, AgreeOn
<1>18. KnowsMore(a, L)
  <2> SUFFICES ASSUME NEW i \in 1..Len(a), NEW j \in 1..Len(L), a[i].id = L[j].id
               PROVE Knows(a[i], L[j])
    BY DEF KnowsMore
  <2>1. \E m \in 1..Len(a) : L[j] = a[m] BY <1>9, <1>16
  <2>2. PICK m \in 1..Len(a) : L[j] = a[m] BY <2>1
  <2>3. i = m BY <2>2, SameIdSame
  <2> QED BY <2>2, <2>3 DEF Knows
<1>19. Len(L) = ListedFailures \/ From(a, L)
  <2> SUFFICES ASSUME L = t PROVE From(a, L) BY <1>14
  <2> SUFFICES ASSUME NEW i \in 1..Len(a) PROVE \E m \in 1..Len(t) : a[i] = t[m] BY DEF From
  <2>1. i \in 1..Len(s) /\ s[i] = a[i] BY <1>11 DEF JoinedFrom
  <2> QED BY <1>13, <2>1 DEF From
<1>20. ASSUME a = <<>>, Len(b) <= ListedFailures PROVE L = b
  <2>1. s = b BY <1>12, <1>20
  <2>2. \A i, j \in 1..Len(b) : i < j => b[i].at > b[j].at BY DEF Runs
  <2>3. t = b BY <1>13, <2>1, <2>2
  <2> QED BY <1>14, <1>20, <2>3
<1> QED BY <1>14, <1>15, <1>17, <1>18, <1>19, <1>20 DEF Merges

LEMMA NotesMerged ==
  ASSUME Cards!NotifAssumption, Cards!NotifIInv, Cards!initNotifications
  PROVE Cards!NotifIInv' /\ Cards!SightingsAddUp
<1>0. /\ st \in Cards!Centres /\ acts \in 0..NoteActs
      /\ st.list \in Cards!Lists /\ st.stored \in Cards!Lists /\ st.read \in Cards!Lists
      /\ Runs(st.list, acts)
      /\ Len(st.stored) <= ListedFailures /\ Runs(st.stored, acts)
      /\ Len(st.read) <= ListedFailures /\ Runs(st.read, acts)
      /\ Cards!Agree(st.list, st.stored) /\ Cards!Agree(st.list, st.read) /\ Cards!Agree(st.stored, st.read)
      /\ ~st.early => Cards!Kempt(st)
  BY NotesHave
<1> DEFINE L == Cards!merged(st.list, st.read)
<1>1. acts' = acts /\ st.page = "reading" /\ st' = [st EXCEPT !.page = "open", !.read = <<>>, !.list = L]
  BY DEF Cards!initNotifications
<1>2. Cards!Agree(st.read, st.stored) BY <1>0, AgreeBothWays
<1>3. Merges(L, st.list, st.read, st.stored, acts) BY <1>0, <1>2, MergedIs
<1> HIDE DEF L
<1>4. /\ L \in Cards!Lists /\ Len(L) <= ListedFailures /\ Runs(L, acts) /\ Cards!Agree(L, st.stored)
      /\ KnowsMore(st.list, L) /\ (Len(L) = ListedFailures \/ From(st.list, L))
      /\ (st.list = <<>> /\ Len(st.read) <= ListedFailures => L = st.read)
  BY <1>3 DEF Merges
<1>5. /\ <<>> \in Cards!Lists /\ Cards!Listed(<<>>, acts) /\ Cards!Agree(L, <<>>) /\ Cards!Agree(st.stored, <<>>)
  BY NoneListed
<1>6. /\ st' \in Cards!Centres /\ st'.list = L /\ st'.stored = st.stored /\ st'.page = "open" /\ st'.read = <<>>
      /\ st'.asked = st.asked /\ st'.early = st.early
  <2>1. "open" \in Pages BY DEF Pages
  <2> QED BY <1>0, <1>1, <1>4, <1>5, <2>1, CentresAre
<1>7. Cards!Listed(L, acts) /\ Cards!Listed(st.stored, acts) BY <1>0, <1>4, ListedRuns
<1>8. ASSUME ~st'.early PROVE Cards!Kempt(st')
  <2>1. Cards!OneEach(st.stored) /\ st.list = <<>> /\ st.read = st.stored BY <1>0, <1>1, <1>6, <1>8 DEF Cards!Kempt
  <2>2. L = st.stored BY <1>0, <1>4, <2>1
  <2>3. Cards!Mirrors(L, L) BY DEF Cards!Mirrors, Cards!Given
  <2> QED BY <1>6, <2>1, <2>2, <2>3 DEF Cards!Kempt
<1>9. Cards!NotifIInv' BY <1>0, <1>1, <1>4, <1>5, <1>6, <1>7, <1>8 DEF Cards!NotifIInv
<1>10. \A i \in DOMAIN st.list, k \in DOMAIN st'.list : st.list[i].id = st'.list[k].id =>
         Knows(st.list[i], st'.list[k])
  <2>1. DOMAIN st.list = 1..Len(st.list) /\ DOMAIN L = 1..Len(L) BY <1>0, <1>4, FailuresAre
  <2> QED BY <1>4, <1>6, <2>1 DEF KnowsMore
<1>11. \A i \in DOMAIN st.list : Len(st'.list) = ListedFailures \/ \E k \in DOMAIN st'.list : st'.list[k] = st.list[i]
  <2>1. DOMAIN st.list = 1..Len(st.list) /\ DOMAIN L = 1..Len(L) BY <1>0, <1>4, FailuresAre
  <2> QED BY <1>4, <1>6, <2>1 DEF From
<1>12. Cards!SightingsAddUp BY <1>10, <1>11 DEF Cards!SightingsAddUp, Knows
<1> QED BY <1>9, <1>12

LEMMA NotesStep ==
  ASSUME Cards!NotifAssumption, Cards!NotifIInv, Cards!NotifNext PROVE Cards!NotifIInv' /\ Cards!SightingsAddUp
BY NotesReport, NotesDismissed, NotesOpened, NotesDetails, NotesRead, NotesMerged, NotesReload DEF Cards!NotifNext

LEMMA NotesStay ==
  ASSUME Cards!NotifAssumption, Cards!NotifIInv, st' = st, acts' = acts PROVE Cards!NotifIInv' /\ Cards!SightingsAddUp
<1>1. acts \in 0..NoteActs /\ acts \in Nat BY NotesHave
<1>2. acts' \in 0..NoteActs /\ acts <= acts' BY <1>1
<1> QED BY <1>2, NotesStutter

(* One card for a failure of a job, in the store as on the page.            *)
LEMMA NotesInOrder ==
  ASSUME Cards!NotifAssumption, Cards!NotifIInv
  PROVE Cards!NotifTypeOK /\ Cards!OneCardPerFailure /\ Cards!StoreKeepsTheList
<1>0. /\ st \in Cards!Centres /\ acts \in 0..NoteActs
      /\ st.list \in Cards!Lists /\ st.stored \in Cards!Lists /\ st.read \in Cards!Lists
      /\ Len(st.list) <= ListedFailures /\ Runs(st.list, acts)
      /\ ~st.early => Cards!Kempt(st)
  BY NotesHave
<1>1. Cards!NotifTypeOK BY <1>0, CentreHas DEF Cards!NotifTypeOK, Askings
<1>2. DOMAIN st.list = 1..Len(st.list) BY <1>0, FailuresAre
<1>3. ~st.early => Cards!OneEach(st.list) BY <1>0 DEF Cards!Kempt
<1>4. Cards!OneCardPerFailure
  <2> SUFFICES ASSUME NEW i \in DOMAIN st.list, NEW k \in DOMAIN st.list, i < k
               PROVE /\ st.list[i].at > st.list[k].at
                     /\ ~st.early /\ st.list[i].job # Cards!None =>
                          st.list[i].job # st.list[k].job \/ st.list[i].kind # st.list[k].kind
    BY DEF Cards!OneCardPerFailure
  <2>1. st.list[i].at > st.list[k].at BY <1>0, <1>2 DEF Runs
  <2>2. ~st.early /\ st.list[i].job # Cards!None =>
          st.list[i].job # st.list[k].job \/ st.list[i].kind # st.list[k].kind
    BY <1>3 DEF Cards!OneEach
  <2> QED BY <2>1, <2>2
<1>5. Cards!StoreKeepsTheList BY <1>0 DEF Cards!StoreKeepsTheList, Cards!Kempt
<1> QED BY <1>1, <1>4, <1>5

(* ------------------------------ stem choice ----------------------------- *)
ChoiceFields ==
  {"sel", "chips", "strip", "all", "switch", "split", "mode", "store", "storeSplit", "read", "readSplit", "painted",
   "raced", "clicked", "file", "request", "jobs"}
IsChoice(q) == q = [f \in ChoiceFields |-> q[f]]

LEMMA ChoiceChangedSel ==
  ASSUME NEW q, IsChoice(q) PROVE Choice!changed(q).sel = q.sel /\ IsChoice(Choice!changed(q))
BY DEF IsChoice, ChoiceFields, Choice!changed, Choice!savedAndPainted, Choice!buildStripStems,
       Choice!refreshStemChoiceVisuals, Choice!saveSelectedStems

LEMMA ChoicePaintedSel ==
  ASSUME NEW q, IsChoice(q)
  PROVE Choice!refreshStemChoiceVisuals(q).sel = q.sel /\ IsChoice(Choice!refreshStemChoiceVisuals(q))
BY DEF IsChoice, ChoiceFields, Choice!refreshStemChoiceVisuals

LEMMA ChoiceSet ==
  ASSUME NEW q, IsChoice(q), NEW x PROVE [q EXCEPT !.sel = x].sel = x /\ IsChoice([q EXCEPT !.sel = x])
BY DEF IsChoice, ChoiceFields

LEMMA ChoiceStartsShaped == ASSUME Choice!ChoiceInit PROVE IsChoice(st)
BY DEF Choice!ChoiceInit, Choice!Page, IsChoice, ChoiceFields

(* The last chip let go is all of them; only the All button leaves none.    *)
LEMMA ChipsKeepOne ==
  ASSUME Choice!ChoiceAssumption, IsChoice(st), Choice!ChoiceNext PROVE IsChoice(st') /\ Choice!ChipsNeverEmpty
<1>1. CASE Choice!PageOpened
  <2>1. st' = Choice!Page(st) BY <1>1 DEF Choice!PageOpened
  <2>2. st'.sel = Stems /\ IsChoice(st') BY <2>1 DEF Choice!Page, IsChoice, ChoiceFields
  <2>3. Stems # {} BY DEF Choice!ChoiceAssumption
  <2> QED BY <2>2, <2>3 DEF Choice!ChipsNeverEmpty
<1>2. CASE Choice!SelectionAnswers
  <2>1. CASE st' = [st EXCEPT !.read = TRUE]
    <3>1. st'.sel = st.sel /\ IsChoice(st') BY <2>1 DEF IsChoice, ChoiceFields
    <3> QED BY <3>1 DEF Choice!ChipsNeverEmpty
  <2>2. CASE st.store # {} /\ st' = [st EXCEPT !.read = TRUE, !.sel = st.store, !.painted = FALSE]
    <3>1. st'.sel = st.store /\ IsChoice(st') BY <2>2 DEF IsChoice, ChoiceFields
    <3> QED BY <2>2, <3>1 DEF Choice!ChipsNeverEmpty
  <2> QED BY <1>2, <2>1, <2>2 DEF Choice!SelectionAnswers
<1>7. CASE Choice!SplitAnswers \/ Choice!ModeDrawn
  <2> DEFINE p == st.split \/ st.storeSplit
  <2>1. CASE st' = [st EXCEPT !.readSplit = TRUE, !.split = p]
    <3> HIDE DEF p
    <3>1. st'.sel = st.sel /\ IsChoice(st') BY <2>1 DEF IsChoice, ChoiceFields
    <3> QED BY <3>1 DEF Choice!ChipsNeverEmpty
  <2>2. CASE st' = [st EXCEPT !.mode = st.split]
    <3>1. st'.sel = st.sel /\ IsChoice(st') BY <2>2 DEF IsChoice, ChoiceFields
    <3> QED BY <3>1 DEF Choice!ChipsNeverEmpty
  <2> QED BY <1>7, <2>1, <2>2 DEF Choice!SplitAnswers, Choice!ModeDrawn
<1>8. CASE Choice!ChipsDrawn
  <2>1. st'.sel = st.sel /\ IsChoice(st') BY <1>8, ChoicePaintedSel DEF Choice!ChipsDrawn
  <2> QED BY <2>1 DEF Choice!ChipsNeverEmpty
<1>3. CASE Choice!handleStemChoiceClick
  <2>1. PICK stem \in Stems : st' = Choice!changed([st EXCEPT !.sel = Choice!chosen(st.sel, stem)])
    BY <1>3 DEF Choice!handleStemChoiceClick
  <2>2. Choice!chosen(st.sel, stem) = {} => st.sel = {}
    <3>1. Stems # {} OBVIOUS
    <3>2. st.sel = {} \/ Choice!chosen(st.sel, stem) = Stems \/ Choice!chosen(st.sel, stem) # {}
      BY DEF Choice!chosen
    <3> QED BY <3>1, <3>2
  <2>3. st'.sel = Choice!chosen(st.sel, stem) /\ IsChoice(st') BY <2>1, ChoiceSet, ChoiceChangedSel
  <2> QED BY <2>2, <2>3 DEF Choice!ChipsNeverEmpty
<1>4. CASE Choice!AllClicked
  <2> DEFINE x == IF st.sel = Stems THEN {} ELSE Stems
  <2>1. st' = Choice!changed([st EXCEPT !.sel = x]) BY <1>4 DEF Choice!AllClicked
  <2>2. x = {} => st.sel = Stems BY DEF Choice!ChoiceAssumption
  <2> HIDE DEF x
  <2>3. st'.sel = x /\ IsChoice(st') BY <2>1, ChoiceSet, ChoiceChangedSel
  <2> QED BY <2>2, <2>3 DEF Choice!ChipsNeverEmpty
<1>5. CASE Choice!setVocalSplitMode \/ Choice!FilePicked \/ Choice!clearFile \/ Choice!Submit \/ Choice!Refused
  <2>1. CASE Choice!setVocalSplitMode
    <3>1. \E m, r : st' = [st EXCEPT !.split = m, !.mode = m, !.storeSplit = m, !.raced = r] BY <2>1 DEF Choice!setVocalSplitMode
    <3>2. st'.sel = st.sel /\ IsChoice(st') BY <3>1 DEF IsChoice, ChoiceFields
    <3> QED BY <3>2 DEF Choice!ChipsNeverEmpty
  <2>2. CASE Choice!FilePicked \/ Choice!clearFile
    <3>1. \E n : st' = [st EXCEPT !.file = n] BY <2>2 DEF Choice!FilePicked, Choice!clearFile
    <3>2. st'.sel = st.sel /\ IsChoice(st') BY <3>1 DEF IsChoice, ChoiceFields
    <3> QED BY <3>2 DEF Choice!ChipsNeverEmpty
  <2>3. CASE Choice!Submit \/ Choice!Refused
    <3>1. \E r, j : st' = [st EXCEPT !.request = r, !.jobs = j]
      <4>1. CASE Choice!Submit
        <5>1. PICK r : st' = [st EXCEPT !.request = r] BY <4>1 DEF Choice!Submit
        <5>2. st' = [st EXCEPT !.request = r, !.jobs = st.jobs] BY <5>1 DEF IsChoice, ChoiceFields
        <5> QED BY <5>2
      <4>2. CASE Choice!Refused BY <4>2 DEF Choice!Refused
      <4> QED BY <2>3, <4>1, <4>2
    <3>2. st'.sel = st.sel /\ IsChoice(st') BY <3>1 DEF IsChoice, ChoiceFields
    <3> QED BY <3>2 DEF Choice!ChipsNeverEmpty
  <2> QED BY <1>5, <2>1, <2>2, <2>3
<1>6. CASE Choice!Accepted
  <2> DEFINE w == Choice!registered(st)
  <2>1. st' = IF st.request.file = 0 THEN w ELSE [w EXCEPT !.file = 0]
    BY <1>6 DEF Choice!Accepted, Choice!accepted
  <2>2. \E r, j : w = [st EXCEPT !.request = r, !.jobs = j] BY DEF Choice!registered
  <2> HIDE DEF w
  <2>3. w.sel = st.sel /\ IsChoice(w) BY <2>2 DEF IsChoice, ChoiceFields
  <2>4. [w EXCEPT !.file = 0].sel = w.sel /\ IsChoice([w EXCEPT !.file = 0]) BY <2>3 DEF IsChoice, ChoiceFields
  <2>5. st'.sel = st.sel /\ IsChoice(st') BY <2>1, <2>3, <2>4
  <2> QED BY <2>5 DEF Choice!ChipsNeverEmpty
<1> QED BY <1>1, <1>2, <1>3, <1>4, <1>5, <1>6, <1>7, <1>8 DEF Choice!ChoiceNext

(* ----------------------------- all of them ----------------------------- *)
LEMMA GridStutters ==
  ASSUME Grid!GridIInv, st' = st, acts' = acts PROVE Grid!GridIInv'
BY DEF Grid!GridIInv

LEMMA StoreStutters ==
  ASSUME GridStore!StoreIInv, st' = st, acts' = acts PROVE GridStore!StoreIInv'
BY DEF GridStore!StoreIInv, GridStore!StoreTypeOK

LEMMA RibbonStutters ==
  ASSUME Ribbon!SectionsIInv, Ribbon!CountedIInv, st' = st, acts' = acts
  PROVE Ribbon!SectionsIInv' /\ Ribbon!CountedIInv'
BY DEF Ribbon!SectionsIInv, Ribbon!CountedIInv

EditsInv ==
  /\ part = "grid" => Grid!GridIInv
  /\ part = "gridstore" => GridStore!StoreIInv
  /\ part = "sections" => Ribbon!SectionsIInv /\ Ribbon!CountedIInv

LEMMA EditsStart == Init => EditsInv
<1> SUFFICES ASSUME Init PROVE EditsInv OBVIOUS
<1>1. part = "grid" => Grid!GridIInv BY PanelConstants, GridStarts DEF Init
<1>2. part = "gridstore" => GridStore!StoreIInv BY PanelConstants, StoreStarts DEF Init
<1>3. part = "sections" => Ribbon!SectionsIInv /\ Ribbon!CountedIInv BY PanelConstants, RibbonStarts DEF Init
<1> QED BY <1>1, <1>2, <1>3 DEF EditsInv

(* A behaviour stays in the part it starts in.                              *)
LEMMA EditsStep == EditsInv /\ [Next]_vars => EditsInv'
<1> SUFFICES ASSUME EditsInv, [Next]_vars PROVE EditsInv' OBVIOUS
<1>0. part' = part BY DEF Next, vars, Still
<1>1. part = "grid" => Grid!GridIInv'
  <2> HAVE part = "grid"
  <2>1. Grid!GridIInv BY DEF EditsInv
  <2>2. Grid!GridNext \/ (st' = st /\ acts' = acts) BY DEF Next, vars
  <2> QED BY <2>1, <2>2, PanelConstants, GridSteps, GridStutters
<1>2. part = "gridstore" => GridStore!StoreIInv'
  <2> HAVE part = "gridstore"
  <2>1. GridStore!StoreIInv BY DEF EditsInv
  <2>2. GridStore!StoreNext \/ (st' = st /\ acts' = acts) BY DEF Next, vars
  <2> QED BY <2>1, <2>2, PanelConstants, StoreSteps, StoreStutters
<1>3. part = "sections" => (Ribbon!SectionsIInv /\ Ribbon!CountedIInv)'
  <2> HAVE part = "sections"
  <2>1. Ribbon!SectionsIInv /\ Ribbon!CountedIInv BY DEF EditsInv
  <2>2. Ribbon!SectionsNext \/ (st' = st /\ acts' = acts) BY DEF Next, vars
  <2> QED BY <2>1, <2>2, PanelConstants, RibbonSteps, RibbonStutters
<1> QED BY <1>0, <1>1, <1>2, <1>3 DEF EditsInv

(* What the user made of beats and sections is kept, whatever is dragged,   *)
(* undone, saved late, saved twice or not saved, and whichever track is     *)
(* opened meanwhile (beat-grid.js, beat-grid-store.js, sections.js).        *)
THEOREM EditsAlwaysKept == Spec => []EditsAreKept
<1>1. Init => EditsInv BY EditsStart
<1>2. EditsInv /\ [Next]_vars => EditsInv' BY EditsStep
<1>3. EditsInv => EditsAreKept
  <2> SUFFICES ASSUME EditsInv PROVE EditsAreKept OBVIOUS
  <2>1. part = "grid" => Grid!GridTypeOK /\ Grid!BeatsStayInOrder /\ Grid!MarksStandOnBeats
    BY PanelConstants, GridKeeps DEF EditsInv
  <2>2. part = "gridstore" => GridStore!StoreTypeOK /\ GridStore!EditsReachTheServer
    BY PanelConstants, StoreKeeps DEF EditsInv
  <2>3. part = "sections" => Ribbon!SectionsTypeOK /\ Ribbon!BarsDescribeTimes /\ Ribbon!LastEditKept
    BY PanelConstants, RibbonKeeps DEF EditsInv
  <2> QED BY <2>1, <2>2, <2>3 DEF EditsAreKept
<1> QED BY <1>1, <1>2, <1>3, PTL DEF Spec

(* ------------------------------ every step ------------------------------ *)
StepsInv ==
  /\ EditsInv
  /\ part = "notifications" => Cards!NotifIInv
  /\ part = "choice" => IsChoice(st)

KeptByStep ==
  /\ part = "grid" => Grid!AnchorsHold
  /\ part = "sections" => Ribbon!EditsKeepApart
  /\ part = "notifications" => Cards!SightingsAddUp
  /\ part = "choice" => Choice!ChipsNeverEmpty

LEMMA StepsStart == Init => StepsInv
<1> SUFFICES ASSUME Init PROVE StepsInv OBVIOUS
<1>1. EditsInv BY EditsStart
<1>2. part = "notifications" => Cards!NotifIInv BY PanelConstants, NotesStart DEF Init
<1>3. part = "choice" => IsChoice(st) BY ChoiceStartsShaped DEF Init
<1> QED BY <1>1, <1>2, <1>3 DEF StepsInv

LEMMA StepsStep == StepsInv /\ [Next]_vars => StepsInv' /\ KeptByStep
<1> SUFFICES ASSUME StepsInv, [Next]_vars PROVE StepsInv' /\ KeptByStep OBVIOUS
<1>0. part' = part BY DEF Next, vars, Still
<1>1. EditsInv /\ EditsInv' BY EditsStep DEF StepsInv
<1>2. part = "grid" => Grid!AnchorsHold
  <2> HAVE part = "grid"
  <2>1. Grid!GridIInv BY <1>1 DEF EditsInv
  <2>2. Grid!GridNext \/ (st' = st /\ acts' = acts) BY DEF Next, vars
  <2>3. CASE st' = st /\ acts' = acts BY <2>3 DEF Grid!AnchorsHold
  <2> QED BY <2>1, <2>2, <2>3, PanelConstants, GridDragsKeep
<1>3. part = "sections" => Ribbon!EditsKeepApart
  <2> HAVE part = "sections"
  <2>1. Ribbon!SectionsIInv BY <1>1 DEF EditsInv
  <2>2. Ribbon!SectionsNext \/ (st' = st /\ acts' = acts) BY DEF Next, vars
  <2>3. CASE st' = st /\ acts' = acts BY <2>3 DEF Ribbon!EditsKeepApart, Ribbon!Apart, Ribbon!Within
  <2> QED BY <2>1, <2>2, <2>3, PanelConstants, RibbonEditsKeepApart
<1>4. part = "notifications" => Cards!NotifIInv' /\ Cards!SightingsAddUp
  <2> HAVE part = "notifications"
  <2>1. Cards!NotifIInv BY DEF StepsInv
  <2>2. Cards!NotifNext \/ (st' = st /\ acts' = acts) BY DEF Next, vars
  <2> QED BY <2>1, <2>2, PanelConstants, NotesStep, NotesStay
<1>5. part = "choice" => IsChoice(st') /\ Choice!ChipsNeverEmpty
  <2> HAVE part = "choice"
  <2>1. IsChoice(st) BY DEF StepsInv
  <2>2. Choice!ChoiceNext \/ st' = st BY DEF Next, vars
  <2>3. CASE st' = st BY <2>1, <2>3 DEF Choice!ChipsNeverEmpty
  <2> QED BY <2>1, <2>2, <2>3, PanelConstants, ChipsKeepOne
<1>6. (part = "choice" => IsChoice(st))' BY <1>0, <1>5
<1>7. (part = "notifications" => Cards!NotifIInv)' BY <1>0, <1>4
<1>8. StepsInv' BY <1>1, <1>6, <1>7 DEF StepsInv
<1> QED BY <1>2, <1>3, <1>4, <1>5, <1>8 DEF KeptByStep

(* What one step may not do, whichever tracks, jobs and stems there are: a  *)
(* drag moves no anchored beat (beat-grid.js), an edit pushes no section    *)
(* onto another (sections.js), a later sighting of a failure has its        *)
(* detail, cause and tail, though not its traceback, and the store read     *)
(* late loses none (notifications.js), and no chip takes the last stem away *)
(* (main.js).                                                               *)
THEOREM EachStepKeepsWhatWasSet == Spec => StepsKeepWhatWasSet
<1>1. Init => StepsInv BY StepsStart
<1>2. StepsInv /\ [Next]_vars => StepsInv' /\ KeptByStep BY StepsStep
<1>3. KeptByStep => /\ part = "grid" => Grid!AnchorsHold
                    /\ part = "sections" => Ribbon!EditsKeepApart
                    /\ part = "notifications" => Cards!SightingsAddUp
                    /\ part = "choice" => Choice!ChipsNeverEmpty
  BY DEF KeptByStep
<1> QED BY <1>1, <1>2, <1>3, PTL DEF Spec, StepsKeepWhatWasSet

(* A failure of a job has one card, the cards run from the newest to the    *)
(* oldest, and the store has what the page shows, but for the details that  *)
(* were asked for and could not be had (notifications.js), however many     *)
(* jobs fail, by however many paths each is reported and however many cards *)
(* are kept.                                                                *)
THEOREM CardsAlwaysInOrder ==
  Spec => [](part = "notifications" => Cards!NotifTypeOK /\ Cards!OneCardPerFailure /\ Cards!StoreKeepsTheList)
<1>1. Init => StepsInv BY StepsStart
<1>2. StepsInv /\ [Next]_vars => StepsInv' BY StepsStep
<1>3. StepsInv => (part = "notifications" => Cards!NotifTypeOK /\ Cards!OneCardPerFailure /\ Cards!StoreKeepsTheList)
  BY PanelConstants, NotesInOrder DEF StepsInv
<1> QED BY <1>1, <1>2, <1>3, PTL DEF Spec
=============================================================================
