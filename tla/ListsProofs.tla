----------------------------- MODULE ListsProofs -----------------------------
(***************************************************************************)
(* The lists of the browser stay in order and what was removed from them   *)
(* stays removed: proofs about the library, whatever tracks, sources,      *)
(* folders and playlists there are, and with CardsAlwaysInOrder of         *)
(* EditsProofs the proof of ListsInOrder.                                  *)
(***************************************************************************)
EXTENDS EditsProofs

(* ----------------------------- the library ----------------------------- *)
(* One more track in turn. *)
Turn(S, id, status, folder) == UNION {Catalog!addTrackToLibrary(Catalog!claimed(l, id, folder), id, status) : l \in S}

TakesTurns(g, L, ids, status, folder) ==
  /\ g[0] = {L} /\ \A n \in 1..Len(ids) : g[n] = Turn(g[n - 1], ids[n], status, folder)
  /\ Catalog!addEach(L, ids, status, folder) = g[Len(ids)]

LEMMA EachDefined ==
  ASSUME NEW L, NEW ids, NEW status, NEW folder, Len(ids) \in Nat
  PROVE \E g : TakesTurns(g, L, ids, status, folder)
<1> DEFINE T(n, S) == Turn(S, ids[n], status, folder)
           G(g, k) == g = [n \in 0..k |-> IF n = 0 THEN {L} ELSE T(n, g[n - 1])]
           Bad == {k \in Nat : ~ \E g : G(g, k)}
<1>1. \E g : G(g, Len(ids))
  <2>0. SUFFICES ASSUME Bad # {} PROVE FALSE
    <3> HIDE DEF G
    <3> QED OBVIOUS
  <2>1. PICK k \in Bad : \A j \in Bad : k <= j BY <2>0, LeastOfNat
  <2> HIDE DEF T
  <2>2. k # 0
    <3>1. G([n \in 0..0 |-> {L}], 0) OBVIOUS
    <3> QED BY <3>1
  <2>3. k - 1 \in Nat /\ k - 1 \notin Bad
    <3> HIDE DEF G
    <3>1. k \in Nat OBVIOUS
    <3> HIDE DEF Bad
    <3> QED BY <2>1, <2>2, <3>1
  <2>4. PICK g : G(g, k - 1) BY <2>3
  <2> DEFINE h == [n \in 0..k |-> IF n = k THEN T(k, g[k - 1]) ELSE g[n]]
  <2>5. G(h, k)
    <3>1. ASSUME NEW n \in 0..k PROVE h[n] = IF n = 0 THEN {L} ELSE T(n, h[n - 1])
      <4>1. CASE n = k BY <4>1, <2>2, <2>3
      <4>2. CASE n # k
        <5>1. n \in 0..(k - 1) BY <4>2, <2>1
        <5>2. h[n] = g[n] BY <4>2
        <5>3. n # 0 => h[n - 1] = g[n - 1] BY <5>1, <2>3
        <5>4. g[n] = IF n = 0 THEN {L} ELSE T(n, g[n - 1]) BY <5>1, <2>4
        <5> QED BY <5>2, <5>3, <5>4
      <4> QED BY <4>1, <4>2
    <3> HIDE DEF T
    <3> QED BY <3>1
  <2> QED BY <2>5
<1> DEFINE c == CHOOSE g : G(g, Len(ids))
<1>2. G(c, Len(ids)) BY <1>1
<1>3. Catalog!addEach(L, ids, status, folder) = c[Len(ids)] BY DEF Catalog!addEach, Turn
<1> HIDE DEF c
<1>4. c[0] = {L} /\ \A n \in 1..Len(ids) : c[n] = T(n, c[n - 1])
  <2> HIDE DEF T
  <2>1. \A n \in 0..Len(ids) : c[n] = IF n = 0 THEN {L} ELSE T(n, c[n - 1]) BY <1>2, Zenon
  <2>2. 0 \in 0..Len(ids) /\ \A n \in 1..Len(ids) : n \in 0..Len(ids) /\ n # 0 OBVIOUS
  <2> QED BY <2>1, <2>2, Zenon
<1> QED BY <1>3, <1>4 DEF TakesTurns

(* What an import may do to the library: nothing leaves the Trash, and only *)
(* what is imported comes in.                                               *)
Grows(L, R, A) ==
  /\ Catalog!Whole(R) /\ L.items[TrashId] \subseteq R.items[TrashId]
  /\ Catalog!Present(R) \subseteq Catalog!Present(L) \cup A
  /\ \A f \in FolderIds : R.items[f] \subseteq A \cup UNION {L.items[g] : g \in FolderIds}

LEMMA GrowsOn ==
  ASSUME NEW L, NEW Q, NEW R, NEW A, NEW B, Grows(L, Q, A), Grows(Q, R, B)
  PROVE Grows(L, R, A \cup B)
<1>1. Catalog!Whole(R) /\ L.items[TrashId] \subseteq R.items[TrashId] BY DEF Grows
<1>2. Catalog!Present(R) \subseteq Catalog!Present(L) \cup (A \cup B) BY DEF Grows
<1>3. ASSUME NEW f \in FolderIds PROVE R.items[f] \subseteq (A \cup B) \cup UNION {L.items[g] : g \in FolderIds}
  BY DEF Grows
<1> QED BY <1>1, <1>2, <1>3 DEF Grows

LEMMA LandGrows ==
  ASSUME Catalog!LibraryAssumption, NEW L, Catalog!Whole(L), NEW id \in TrackIds
  PROVE Grows(L, Catalog!Land(L, id), {id})
<1> DEFINE f == Catalog!landingFolder(L)
           R == Catalog!Land(L, id)
           O == IF f \in Catalog!Range2Set(L.order) THEN L.order ELSE <<f>> \o L.order
           I == [L.items EXCEPT ![f] = @ \cup {id}]
<1>1. R = [tracks |-> L.tracks, order |-> O, parent |-> L.parent, items |-> I, current |-> L.current]
  <2>1. R = [L EXCEPT !.order = O, !.items[f] = @ \cup {id}] BY DEF Catalog!Land
  <2> HIDE DEF R, O, f
  <2>2. R = [L EXCEPT !.order = O, !.items = I] BY <2>1
  <2> HIDE DEF I
  <2> QED BY <2>2 DEF Catalog!Whole
<1> HIDE DEF f, O
<1>2. I \in [FolderIds -> SUBSET TrackIds] BY DEF Catalog!Whole
<1>3. \A g \in FolderIds : L.items[g] \subseteq I[g] /\ I[g] \subseteq L.items[g] \cup {id} BY DEF Catalog!Whole
<1>4. TrashId \in FolderIds BY DEF Catalog!LibraryAssumption
<1> HIDE DEF I
<1>5. R.tracks = L.tracks /\ R.items = I BY <1>1
<1>6. Catalog!Whole(R) BY <1>1, <1>2 DEF Catalog!Whole
<1> HIDE DEF R
<1>7. Catalog!Present(R) = Catalog!Present(L) BY <1>5 DEF Catalog!Present
<1>8. \A g \in FolderIds : R.items[g] \subseteq {id} \cup UNION {L.items[h] : h \in FolderIds} BY <1>3, <1>5
<1>9. L.items[TrashId] \subseteq R.items[TrashId] BY <1>3, <1>4, <1>5
<1> QED BY <1>6, <1>7, <1>8, <1>9 DEF Grows, R

LEMMA ClaimGrows ==
  ASSUME Catalog!LibraryAssumption, NEW L, Catalog!Whole(L), NEW id \in TrackIds,
         NEW folder \in FolderIds \cup {Nowhere}
  PROVE Grows(L, Catalog!claimed(L, id, folder), {id})
<1>1. CASE folder = Nowhere
  <2>1. Catalog!claimed(L, id, folder) = L BY <1>1 DEF Catalog!claimed
  <2> QED BY <2>1 DEF Grows
<1>2. CASE folder # Nowhere
  <2> DEFINE R == Catalog!claimed(L, id, folder)
             I == [L.items EXCEPT ![folder] = @ \cup {id}]
  <2>1. R = [tracks |-> L.tracks, order |-> L.order, parent |-> L.parent, items |-> I, current |-> L.current]
    BY <1>2 DEF Catalog!claimed, Catalog!Whole
  <2>2. I \in [FolderIds -> SUBSET TrackIds] BY DEF Catalog!Whole
  <2>3. \A g \in FolderIds : L.items[g] \subseteq I[g] /\ I[g] \subseteq L.items[g] \cup {id} BY DEF Catalog!Whole
  <2>4. TrashId \in FolderIds BY DEF Catalog!LibraryAssumption
  <2> HIDE DEF I
  <2>5. R.tracks = L.tracks /\ R.items = I BY <2>1
  <2>6. Catalog!Whole(R) BY <2>1, <2>2 DEF Catalog!Whole
  <2> HIDE DEF R
  <2>7. Catalog!Present(R) = Catalog!Present(L) BY <2>5 DEF Catalog!Present
  <2>8. \A g \in FolderIds : R.items[g] \subseteq {id} \cup UNION {L.items[h] : h \in FolderIds} BY <2>3, <2>5
  <2>9. L.items[TrashId] \subseteq R.items[TrashId] BY <2>3, <2>4, <2>5
  <2> QED BY <2>6, <2>7, <2>8, <2>9 DEF Grows, R
<1> QED BY <1>1, <1>2

(* An entry of the same source is taken over, but not out of the Trash.     *)
LEMMA AddGrows ==
  ASSUME Catalog!LibraryAssumption, NEW L, Catalog!Whole(L), NEW id \in TrackIds, NEW status \in Catalog!Statuses,
         NEW R \in Catalog!addTrackToLibrary(L, id, status)
  PROVE Grows(L, R, {id})
<1> DEFINE kept(o) == IF o = Nowhere \/ o \in L.items[TrashId] THEN L ELSE Catalog!replaceTrackId(L, o, id)
           added(o) == [kept(o) EXCEPT !.tracks[id] = status]
<1>1. PICK o \in Catalog!findTrackBySource(L, id) :
        R = IF id \in Catalog!Placed(added(o)) THEN added(o) ELSE Catalog!Land(added(o), id)
  <2>1. R \in {IF id \in Catalog!Placed(added(o)) THEN added(o) ELSE Catalog!Land(added(o), id) :
                o \in Catalog!findTrackBySource(L, id)}
    BY Zenon DEF Catalog!addTrackToLibrary
  <2> HIDE DEF added
  <2> QED BY <2>1
<1>2. Grows(L, kept(o), {id}) /\ Catalog!Whole(kept(o))
  <2>1. CASE o = Nowhere \/ o \in L.items[TrashId] BY <2>1 DEF Grows
  <2>2. CASE ~(o = Nowhere \/ o \in L.items[TrashId])
    <3>1. o \in Catalog!Present(L) /\ o # id BY <1>1, <2>2 DEF Catalog!findTrackBySource
    <3> DEFINE T == [L.tracks EXCEPT ![o] = "absent", ![id] = IF @ = "absent" THEN L.tracks[o] ELSE @]
               I == [f \in FolderIds |-> IF o \in L.items[f] THEN (L.items[f] \ {o}) \cup {id} ELSE L.items[f]]
               c == IF L.current = o THEN id ELSE L.current
               K == [tracks |-> T, order |-> L.order, parent |-> L.parent, items |-> I, current |-> c]
    <3>2. kept(o) = K BY <2>2 DEF Catalog!replaceTrackId, Catalog!Whole
    <3>3. T \in [TrackIds -> Catalog!Statuses \cup {"absent"}] BY <3>1 DEF Catalog!Whole, Catalog!Present
    <3>4. I \in [FolderIds -> SUBSET TrackIds] BY DEF Catalog!Whole
    <3>5. \A i \in TrackIds \ {id} : L.tracks[i] = "absent" => T[i] = "absent"
      BY <3>1 DEF Catalog!Whole, Catalog!Present
    <3>6. I[TrashId] = L.items[TrashId] BY <2>2 DEF Catalog!LibraryAssumption
    <3>7. \A f \in FolderIds : I[f] \subseteq {id} \cup UNION {L.items[h] : h \in FolderIds} OBVIOUS
    <3> HIDE DEF T, I, c
    <3>8. Catalog!Whole(K) BY <3>3, <3>4 DEF Catalog!Whole
    <3>9. Catalog!Present(K) \subseteq Catalog!Present(L) \cup {id} BY <3>5 DEF Catalog!Present
    <3>10. K.items = I OBVIOUS
    <3> HIDE DEF K
    <3> QED BY <3>2, <3>6, <3>7, <3>8, <3>9, <3>10 DEF Grows
  <2> QED BY <2>1, <2>2
<1> HIDE DEF kept
<1>3. Grows(kept(o), added(o), {id}) /\ Catalog!Whole(added(o))
  <2> DEFINE k == kept(o)
             T == [k.tracks EXCEPT ![id] = status]
             K == [tracks |-> T, order |-> k.order, parent |-> k.parent, items |-> k.items, current |-> k.current]
  <2> HIDE DEF k
  <2>0. Catalog!Whole(k) BY <1>2 DEF k
  <2>1. added(o) = K BY <2>0 DEF Catalog!Whole, k
  <2>2. T \in [TrackIds -> Catalog!Statuses \cup {"absent"}] /\ \A i \in TrackIds \ {id} : T[i] = k.tracks[i]
    BY <2>0 DEF Catalog!Whole
  <2> HIDE DEF T
  <2>3. Catalog!Whole(K) BY <2>0, <2>2 DEF Catalog!Whole
  <2>4. Catalog!Present(K) \subseteq Catalog!Present(k) \cup {id} BY <2>2 DEF Catalog!Present
  <2>5. K.items = k.items OBVIOUS
  <2> HIDE DEF K
  <2>6. Grows(k, K, {id}) BY <2>3, <2>4, <2>5 DEF Grows
  <2> QED BY <2>1, <2>3, <2>6 DEF k
<1>4. Grows(L, added(o), {id})
  <2>1. Grows(L, added(o), {id} \cup {id}) BY <1>2, <1>3, GrowsOn, Zenon
  <2> QED BY <2>1
<1> HIDE DEF added
<1>5. CASE id \in Catalog!Placed(added(o)) BY <1>1, <1>4, <1>5
<1>6. CASE id \notin Catalog!Placed(added(o))
  <2>1. Grows(added(o), R, {id}) BY <1>1, <1>3, <1>6, LandGrows
  <2>2. Grows(L, R, {id} \cup {id}) BY <1>4, <2>1, GrowsOn, Zenon
  <2> QED BY <2>2
<1> QED BY <1>5, <1>6

LEMMA EachGrows ==
  ASSUME Catalog!LibraryAssumption, NEW L, Catalog!Whole(L), NEW ids \in Seq(TrackIds),
         NEW status \in Catalog!Statuses, NEW folder \in FolderIds \cup {Nowhere},
         NEW R \in Catalog!addEach(L, ids, status, folder)
  PROVE Grows(L, R, {ids[n] : n \in 1..Len(ids)})
<1> DEFINE A == {ids[n] : n \in 1..Len(ids)}
           Bad(g) == {n \in 0..Len(ids) : ~ \A l \in g[n] : Grows(L, l, A)}
<1>0. Len(ids) \in Nat OBVIOUS
<1>1. PICK g : TakesTurns(g, L, ids, status, folder) BY <1>0, EachDefined
<1>2. g[0] = {L} /\ \A n \in 1..Len(ids) : g[n] = Turn(g[n - 1], ids[n], status, folder) BY <1>1 DEF TakesTurns
<1>3. Bad(g) = {}
  <2> SUFFICES ASSUME Bad(g) # {} PROVE FALSE OBVIOUS
  <2>0. Bad(g) \in SUBSET Nat OBVIOUS
  <2>1. PICK n \in Bad(g) : \A k \in Bad(g) : n <= k
    <3> HIDE DEF Bad
    <3> QED BY <2>0, LeastOfNat
  <2>2. PICK l \in g[n] : ~ Grows(L, l, A) OBVIOUS
  <2>3. Grows(L, L, A) BY DEF Grows
  <2>4. n # 0 BY <1>2, <2>2, <2>3
  <2>5. n \in 1..Len(ids) /\ n - 1 \in 0..Len(ids) /\ n - 1 \notin Bad(g)
    <3>1. n \in 0..Len(ids) BY <1>0
    <3> HIDE DEF Bad
    <3> QED BY <3>1, <2>1, <2>4
  <2>6. \A q \in g[n - 1] : Grows(L, q, A) BY <2>5
  <2>7. PICK q \in g[n - 1] : l \in Catalog!addTrackToLibrary(Catalog!claimed(q, ids[n], folder), ids[n], status)
    BY <1>2, <2>2, <2>5 DEF Turn
  <2> DEFINE p == Catalog!claimed(q, ids[n], folder)
  <2>8. ids[n] \in TrackIds /\ ids[n] \in A BY <2>5
  <2>9. Catalog!Whole(q) BY <2>6 DEF Grows
  <2>10. Grows(q, p, {ids[n]}) BY <2>8, <2>9, ClaimGrows
  <2>11. Catalog!Whole(p) BY <2>10 DEF Grows
  <2> HIDE DEF p, A
  <2>12. Grows(p, l, {ids[n]}) BY <2>7, <2>8, <2>11, AddGrows DEF p
  <2>13. Grows(L, l, (A \cup {ids[n]}) \cup {ids[n]}) BY <2>6, <2>10, <2>12, GrowsOn, Zenon
  <2>14. (A \cup {ids[n]}) \cup {ids[n]} = A BY <2>8
  <2> QED BY <2>2, <2>13, <2>14
<1>4. Len(ids) \in 0..Len(ids) BY <1>0
<1> QED BY <1>1, <1>3, <1>4 DEF TakesTurns

(* -------------------------------- steps -------------------------------- *)
(* What comes into the library is known to the server.                      *)
Comes(A) ==
  /\ Catalog!Whole(st') /\ Catalog!Present(st') \subseteq Catalog!Present(st) \cup A
  /\ \A f \in FolderIds : st'.items[f] \subseteq A \cup UNION {st.items[g] : g \in FolderIds}

LEMMA GrowsComes == ASSUME NEW A, Grows(st, st', A) PROVE Comes(A) BY DEF Grows, Comes

LEMMA Rearranged ==
  ASSUME NEW L, Catalog!Whole(L), NEW O, NEW P, NEW I \in [FolderIds -> SUBSET TrackIds], NEW c, NEW R,
         R = [tracks |-> L.tracks, order |-> O, parent |-> P, items |-> I, current |-> c]
  PROVE Catalog!Whole(R) /\ Catalog!Present(R) = Catalog!Present(L) /\ R.items = I /\ R.tracks = L.tracks
<1>1. R.items = I /\ R.tracks = L.tracks OBVIOUS
<1>2. Catalog!Whole(R) BY DEF Catalog!Whole
<1> QED BY <1>1, <1>2 DEF Catalog!Present

LEMMA StillHeard ==
  ASSUME Catalog!OnlyHeardOf, server' \in [TrackIds -> Catalog!ServerStatuses],
         Catalog!Heard \subseteq Catalog!Heard',
         NEW A, A \subseteq Catalog!Heard', Comes(A), purged' = purged,
         loading' \in {loading, Nowhere}, completions' \subseteq completions, sync' \in {sync, Nowhere}
  PROVE Catalog!OnlyHeardOf'
<1>1. Catalog!Present(st') \subseteq Catalog!Heard' BY DEF Catalog!OnlyHeardOf, Comes
<1>2. \A f \in FolderIds : st'.items[f] \subseteq Catalog!Heard' BY DEF Catalog!OnlyHeardOf, Comes
<1>3. purged' \subseteq Catalog!Heard' BY DEF Catalog!OnlyHeardOf
<1>4. loading' # Nowhere => loading'.id \in Catalog!Heard' BY DEF Catalog!OnlyHeardOf
<1>5. completions' \subseteq [id : Catalog!Heard', status : Catalog!ServerStatuses] BY DEF Catalog!OnlyHeardOf
<1>6. sync' # Nowhere => sync'.done \cup sync'.lost \subseteq Catalog!Heard' BY DEF Catalog!OnlyHeardOf
<1> QED BY <1>1, <1>2, <1>3, <1>4, <1>5, <1>6 DEF Catalog!OnlyHeardOf

LEMMA SameServer ==
  ASSUME Catalog!OnlyHeardOf, server' = server
  PROVE server' \in [TrackIds -> Catalog!ServerStatuses] /\ Catalog!Heard' = Catalog!Heard
BY DEF Catalog!OnlyHeardOf, Catalog!Heard

LEMMA Tells ==
  ASSUME Catalog!OnlyHeardOf, NEW id \in TrackIds,
         NEW s \in Catalog!ServerStatuses \ {"new"}, server' = [server EXCEPT ![id] = s]
  PROVE server' \in [TrackIds -> Catalog!ServerStatuses] /\ Catalog!Heard \subseteq Catalog!Heard'
        /\ id \in Catalog!Heard'
BY DEF Catalog!OnlyHeardOf, Catalog!Heard

(* An act of the user that brings nothing in that the server has not heard of. *)
LEMMA ActKeeps ==
  ASSUME Catalog!LibraryIInv, Catalog!Act, NEW A, A \subseteq Catalog!Heard, A \subseteq Catalog!Present(st),
         Comes(A), Catalog!OnlyLibrary
  PROVE Catalog!LibraryIInv' /\ Catalog!TrashedStaysTrashed /\ Catalog!PurgedStaysPurged
<1>1. acts' # acts /\ acts' \in Nat BY DEF Catalog!Act, Catalog!LibraryIInv
<1>2. Catalog!OnlyHeardOf'
  <2>1. server' \in [TrackIds -> Catalog!ServerStatuses] /\ Catalog!Heard' = Catalog!Heard
    BY SameServer DEF Catalog!LibraryIInv, Catalog!OnlyLibrary
  <2> QED BY <2>1, StillHeard DEF Catalog!LibraryIInv, Catalog!OnlyLibrary, Catalog!answers
<1>3. Catalog!TombstonesStand' BY DEF Catalog!LibraryIInv, Catalog!OnlyLibrary, Catalog!TombstonesStand
<1>4. Catalog!Whole(st') BY DEF Comes
<1>5. Catalog!LibraryIInv' BY <1>1, <1>2, <1>3, <1>4 DEF Catalog!LibraryIInv, Catalog!OnlyLibrary
<1>6. Catalog!TrashedStaysTrashed BY <1>1 DEF Catalog!TrashedStaysTrashed
<1>7. Catalog!PurgedStaysPurged
  <2>0. purged' = purged BY DEF Catalog!OnlyLibrary
  <2> SUFFICES ASSUME NEW i \in purged, st.tracks[i] = "absent", st'.tracks[i] # "absent" PROVE FALSE
    BY <2>0 DEF Catalog!PurgedStaysPurged
  <2>1. i \in TrackIds BY DEF Catalog!LibraryIInv, Catalog!OnlyHeardOf, Catalog!Heard
  <2> QED BY <2>1 DEF Comes, Catalog!Present
<1> QED BY <1>5, <1>6, <1>7

LEMMA LibCreateStep ==
  ASSUME Catalog!LibraryAssumption, Catalog!LibraryIInv, NEW f \in FolderIds, NEW p \in FolderIds,
         Catalog!createFolder(f) \/ Catalog!createSubfolder(f, p)
  PROVE Catalog!LibraryIInv' /\ Catalog!TrashedStaysTrashed /\ Catalog!PurgedStaysPurged
<1>0. Catalog!Whole(st) BY DEF Catalog!LibraryIInv
<1>3. Catalog!Whole(st') /\ Catalog!Present(st') = Catalog!Present(st) /\ st'.items = st.items
  <2> DEFINE O == Append(st.order, f)
             P == [st.parent EXCEPT ![f] = p]
  <2>0. st.items \in [FolderIds -> SUBSET TrackIds] BY <1>0 DEF Catalog!Whole
  <2>1. CASE Catalog!createFolder(f)
    <3>1. st' = [tracks |-> st.tracks, order |-> O, parent |-> st.parent, items |-> st.items, current |-> st.current]
      BY <2>1, <1>0 DEF Catalog!createFolder, Catalog!Whole
    <3> HIDE DEF O
    <3> QED BY <1>0, <2>0, <3>1, Rearranged
  <2>2. CASE Catalog!createSubfolder(f, p)
    <3>1. st' = [tracks |-> st.tracks, order |-> O, parent |-> P, items |-> st.items, current |-> st.current]
      BY <2>2, <1>0 DEF Catalog!createSubfolder, Catalog!Whole
    <3> HIDE DEF O, P
    <3> QED BY <1>0, <2>0, <3>1, Rearranged
  <2> QED BY <2>1, <2>2
<1>4. Comes({}) BY <1>3 DEF Comes
<1>5. Catalog!Act /\ Catalog!OnlyLibrary BY DEF Catalog!createFolder, Catalog!createSubfolder
<1> QED BY <1>4, <1>5, ActKeeps

LEMMA DeleteStep ==
  ASSUME Catalog!LibraryAssumption, Catalog!LibraryIInv, NEW f \in FolderIds, Catalog!deleteFolder(f)
  PROVE Catalog!LibraryIInv' /\ Catalog!TrashedStaysTrashed /\ Catalog!PurgedStaysPurged
<1>0. Catalog!Whole(st) BY DEF Catalog!LibraryIInv
<1> DEFINE gone == Catalog!Doomed(f)
           dropped == (UNION {st.items[g] : g \in gone}) \cap Catalog!Present(st)
           O == Catalog!Kept(st.order, gone)
           P == [g \in FolderIds |-> IF g \in gone THEN Nowhere ELSE st.parent[g]]
           I == [g \in FolderIds |-> IF g \in gone THEN {}
                                     ELSE IF g = TrashId THEN st.items[g] \cup dropped ELSE st.items[g]]
<1>1. st' = [st EXCEPT !.order = O, !.parent = P, !.items = I]
  BY DEF Catalog!deleteFolder, Catalog!RemoveFolders
<1> HIDE DEF gone
<1>2. dropped \subseteq Catalog!Present(st) /\ dropped \subseteq TrackIds
  <2>1. dropped \subseteq Catalog!Present(st) BY Zenon
  <2> HIDE DEF dropped
  <2> QED BY <2>1 DEF Catalog!Present
<1> HIDE DEF dropped
<1>3. I \in [FolderIds -> SUBSET TrackIds] BY <1>0, <1>2 DEF Catalog!Whole
<1>4. \A g \in FolderIds : I[g] \subseteq Catalog!Present(st) \cup UNION {st.items[h] : h \in FolderIds} BY <1>2
<1> HIDE DEF I, O, P
<1>5. st' = [tracks |-> st.tracks, order |-> O, parent |-> P, items |-> I, current |-> st.current]
  BY <1>0, <1>1 DEF Catalog!Whole
<1>6. Catalog!Whole(st') /\ Catalog!Present(st') = Catalog!Present(st) /\ st'.items = I
  BY <1>0, <1>3, <1>5, Rearranged
<1>7. Comes(Catalog!Present(st)) BY <1>4, <1>6 DEF Comes
<1>8. Catalog!Act /\ Catalog!OnlyLibrary BY DEF Catalog!deleteFolder
<1>9. Catalog!Present(st) \subseteq Catalog!Heard BY DEF Catalog!LibraryIInv, Catalog!OnlyHeardOf
<1> QED BY <1>7, <1>8, <1>9, ActKeeps

LEMMA MoveStep ==
  ASSUME Catalog!LibraryAssumption, Catalog!LibraryIInv, NEW f \in FolderIds, NEW g \in FolderIds,
         NEW before \in BOOLEAN,
         Catalog!reorderFolder(f, g, before) \/ Catalog!reparentFolder(f, g)
  PROVE Catalog!LibraryIInv' /\ Catalog!TrashedStaysTrashed /\ Catalog!PurgedStaysPurged
<1>0. Catalog!Whole(st) BY DEF Catalog!LibraryIInv
<1>3. Catalog!Whole(st') /\ Catalog!Present(st') = Catalog!Present(st) /\ st'.items = st.items
  <2> DEFINE rest == Catalog!Kept(st.order, {f})
             at == CHOOSE i \in 1..Len(rest) : rest[i] = g
             O == Catalog!InsertAt(rest, IF before THEN at ELSE at + 1, f)
             P == [st.parent EXCEPT ![f] = g]
  <2>0. st.items \in [FolderIds -> SUBSET TrackIds] BY <1>0 DEF Catalog!Whole
  <2>1. CASE Catalog!reorderFolder(f, g, before)
    <3>1. st' = [st EXCEPT !.order = O] BY <2>1 DEF Catalog!reorderFolder
    <3> HIDE DEF O
    <3>2. st' = [tracks |-> st.tracks, order |-> O, parent |-> st.parent, items |-> st.items, current |-> st.current]
      BY <3>1, <1>0 DEF Catalog!Whole
    <3> QED BY <1>0, <2>0, <3>2, Rearranged
  <2>2. CASE Catalog!reparentFolder(f, g)
    <3>1. st' = [tracks |-> st.tracks, order |-> st.order, parent |-> P, items |-> st.items, current |-> st.current]
      BY <2>2, <1>0 DEF Catalog!reparentFolder, Catalog!Whole
    <3> HIDE DEF P
    <3> QED BY <1>0, <2>0, <3>1, Rearranged
  <2> QED BY <2>1, <2>2
<1>4. Comes({}) BY <1>3 DEF Comes
<1>5. Catalog!Act /\ Catalog!OnlyLibrary BY DEF Catalog!reorderFolder, Catalog!reparentFolder
<1> QED BY <1>4, <1>5, ActKeeps

LEMMA TrashStep ==
  ASSUME Catalog!LibraryAssumption, Catalog!LibraryIInv, NEW id \in TrackIds, Catalog!MoveToTrash(id)
  PROVE Catalog!LibraryIInv' /\ Catalog!TrashedStaysTrashed /\ Catalog!PurgedStaysPurged
<1>0. Catalog!Whole(st) BY DEF Catalog!LibraryIInv
<1> DEFINE I0 == [g \in FolderIds |-> st.items[g] \ {id}]
           I == [I0 EXCEPT ![TrashId] = @ \cup {id}]
           c == IF st.current = id THEN Nowhere ELSE st.current
<1>1. st' = [tracks |-> st.tracks, order |-> st.order, parent |-> st.parent, items |-> I, current |-> c]
  <2>1. Catalog!Without(st, {id}) = [tracks |-> st.tracks, order |-> st.order, parent |-> st.parent, items |-> I0,
                              current |-> st.current]
    <3>1. Catalog!Without(st, {id}) = [st EXCEPT !.items = I0] BY DEF Catalog!Without
    <3> HIDE DEF I0
    <3> QED BY <1>0, <3>1 DEF Catalog!Whole
  <2>2. st' = [Catalog!Without(st, {id}) EXCEPT !.items[TrashId] = @ \cup {id}, !.current = IF @ = id THEN Nowhere ELSE @]
    BY DEF Catalog!MoveToTrash, Catalog!moveTrackToTrash
  <2> DEFINE W == Catalog!Without(st, {id})
  <2> HIDE DEF I0
  <2>3. W.items = I0 /\ W.current = st.current BY <2>1
  <2>4. st' = [W EXCEPT !.items = I, !.current = c]
    <3> HIDE DEF W
    <3> QED BY <2>2, <2>3 DEF W
  <2>5. W = [tracks |-> st.tracks, order |-> st.order, parent |-> st.parent, items |-> I0,
             current |-> st.current]
    BY <2>1
  <2> HIDE DEF I, c, W
  <2> QED BY <2>4, <2>5
<1>2. I \in [FolderIds -> SUBSET TrackIds]
      /\ \A g \in FolderIds : I[g] \subseteq {id} \cup UNION {st.items[h] : h \in FolderIds}
  BY <1>0 DEF Catalog!Whole
<1> HIDE DEF I, c
<1>3. Catalog!Whole(st') /\ Catalog!Present(st') = Catalog!Present(st) /\ st'.items = I
  BY <1>0, <1>1, <1>2, Rearranged
<1>4. Comes({id}) BY <1>2, <1>3 DEF Comes
<1>5. Catalog!Act /\ Catalog!OnlyLibrary /\ {id} \subseteq Catalog!Present(st) BY DEF Catalog!MoveToTrash
<1>6. {id} \subseteq Catalog!Heard BY <1>5 DEF Catalog!LibraryIInv, Catalog!OnlyHeardOf
<1> QED BY <1>4, <1>5, <1>6, ActKeeps

LEMMA RestoreStep ==
  ASSUME Catalog!LibraryAssumption, Catalog!LibraryIInv, NEW id \in TrackIds, Catalog!restoreTrackFromTrash(id)
  PROVE Catalog!LibraryIInv' /\ Catalog!TrashedStaysTrashed /\ Catalog!PurgedStaysPurged
<1>0. Catalog!Whole(st) BY DEF Catalog!LibraryIInv
<1> DEFINE I == [st.items EXCEPT ![TrashId] = @ \ {id}]
           L == [tracks |-> st.tracks, order |-> st.order, parent |-> st.parent, items |-> I, current |-> st.current]
<1>1. st' = Catalog!Land(L, id)
  <2>1. [st EXCEPT !.items[TrashId] = @ \ {id}] = L BY <1>0 DEF Catalog!Whole
  <2> QED BY <2>1 DEF Catalog!restoreTrackFromTrash
<1>2. I \in [FolderIds -> SUBSET TrackIds] /\ \A g \in FolderIds : I[g] \subseteq st.items[g]
  BY <1>0 DEF Catalog!Whole
<1> HIDE DEF I
<1>3. Catalog!Whole(L) /\ Catalog!Present(L) = Catalog!Present(st) /\ L.items = I BY <1>0, <1>2, Rearranged
<1> HIDE DEF L
<1>4. Grows(L, st', {id}) BY <1>1, <1>3, LandGrows
<1>5. Comes({id}) BY <1>2, <1>3, <1>4 DEF Grows, Comes
<1>6. Catalog!Act /\ Catalog!OnlyLibrary /\ {id} \subseteq Catalog!Present(st) BY DEF Catalog!restoreTrackFromTrash
<1>7. {id} \subseteq Catalog!Heard BY <1>6 DEF Catalog!LibraryIInv, Catalog!OnlyHeardOf
<1> QED BY <1>5, <1>6, <1>7, ActKeeps

LEMMA DropStep ==
  ASSUME Catalog!LibraryAssumption, Catalog!LibraryIInv, NEW id \in TrackIds, NEW f \in FolderIds,
         Catalog!dropOnFolder(id, f)
  PROVE Catalog!LibraryIInv' /\ Catalog!TrashedStaysTrashed /\ Catalog!PurgedStaysPurged
<1>0. Catalog!Whole(st) BY DEF Catalog!LibraryIInv
<1> DEFINE holding == Catalog!Kept(st.order, {g \in FolderIds : id \notin st.items[g]})
           I0 == IF holding = <<>> THEN st.items ELSE [st.items EXCEPT ![holding[1]] = @ \ {id}]
           I == [I0 EXCEPT ![f] = @ \cup {id}]
<1>1. st' = [tracks |-> st.tracks, order |-> st.order, parent |-> st.parent, items |-> I, current |-> st.current]
  <2> DEFINE left == IF holding = <<>> THEN st ELSE [st EXCEPT !.items[holding[1]] = @ \ {id}]
  <2>1. st' = [left EXCEPT !.items[f] = @ \cup {id}] BY DEF Catalog!dropOnFolder
  <2> HIDE DEF holding
  <2>2. left = [tracks |-> st.tracks, order |-> st.order, parent |-> st.parent, items |-> I0, current |-> st.current]
    BY <1>0 DEF Catalog!Whole
  <2> HIDE DEF I0, left
  <2> QED BY <2>1, <2>2
<1> HIDE DEF holding
<1>2. I0 \in [FolderIds -> SUBSET TrackIds] /\ \A g \in FolderIds : I0[g] \subseteq st.items[g]
  BY <1>0 DEF Catalog!Whole
<1> HIDE DEF I0
<1>3. I \in [FolderIds -> SUBSET TrackIds]
      /\ \A g \in FolderIds : I[g] \subseteq {id} \cup UNION {st.items[h] : h \in FolderIds}
  BY <1>2
<1> HIDE DEF I
<1>4. Catalog!Whole(st') /\ Catalog!Present(st') = Catalog!Present(st) /\ st'.items = I
  BY <1>0, <1>1, <1>3, Rearranged
<1>5. Comes({id}) BY <1>3, <1>4 DEF Comes
<1>6. Catalog!Act /\ Catalog!OnlyLibrary /\ {id} \subseteq Catalog!Present(st) BY DEF Catalog!dropOnFolder
<1>7. {id} \subseteq Catalog!Heard BY <1>6 DEF Catalog!LibraryIInv, Catalog!OnlyHeardOf
<1> QED BY <1>5, <1>6, <1>7, ActKeeps

(* ------------------------- imports and the server ----------------------- *)
LEMMA SameLibrary ==
  ASSUME Catalog!LibraryIInv, st' = st, purged' = purged
  PROVE Comes({}) /\ Catalog!TrashedStaysTrashed /\ Catalog!PurgedStaysPurged
BY DEF Catalog!LibraryIInv, Comes, Catalog!TrashedStaysTrashed, Catalog!PurgedStaysPurged

(* Nothing comes in that was purged and has its tombstone on disk.           *)
LEMMA PurgedStayOut ==
  ASSUME Catalog!LibraryIInv, NEW A, Comes(A), A \cap (purged \cap savedDeleted) = {}, purged' = purged
  PROVE Catalog!PurgedStaysPurged
<1> SUFFICES ASSUME NEW i \in purged \cap savedDeleted, st.tracks[i] = "absent", st'.tracks[i] # "absent" PROVE FALSE
  BY DEF Catalog!PurgedStaysPurged
<1>1. i \in TrackIds BY DEF Catalog!LibraryIInv, Catalog!OnlyHeardOf, Catalog!Heard
<1> QED BY <1>1 DEF Comes, Catalog!Present

LEMMA LibImportStep ==
  ASSUME Catalog!LibraryAssumption, Catalog!LibraryIInv, NEW id \in TrackIds, Catalog!Import(id)
  PROVE Catalog!LibraryIInv' /\ Catalog!TrashedStaysTrashed /\ Catalog!PurgedStaysPurged
<1>1. server' = [server EXCEPT ![id] = "running"] /\ server[id] = "new" BY DEF Catalog!Import
<1>2. Catalog!Whole(st) /\ Catalog!OnlyHeardOf /\ acts \in Nat BY DEF Catalog!LibraryIInv
<1>3. server' \in [TrackIds -> Catalog!ServerStatuses] /\ Catalog!Heard \subseteq Catalog!Heard'
      /\ id \in Catalog!Heard'
  BY <1>1, <1>2, Tells DEF Catalog!ServerStatuses
<1>4. st' \in Catalog!addTrackToLibrary(st, id, "processing") /\ "processing" \in Catalog!Statuses
  BY DEF Catalog!Import, Catalog!Statuses
<1>5. Comes({id}) BY <1>2, <1>4, AddGrows, GrowsComes
<1>6. Catalog!OnlyHeardOf' BY <1>2, <1>3, <1>5, StillHeard DEF Catalog!Import, Catalog!answers
<1>7. acts' # acts /\ acts' \in Nat BY <1>2 DEF Catalog!Import, Catalog!Act
<1>8. Catalog!TombstonesStand' BY DEF Catalog!Import, Catalog!LibraryIInv, Catalog!TombstonesStand
<1>9. bin' \in Catalog!Binning BY DEF Catalog!Import, Catalog!LibraryIInv
<1>10. id \notin purged BY <1>1, <1>2 DEF Catalog!OnlyHeardOf, Catalog!Heard
<1>11. Catalog!PurgedStaysPurged BY <1>5, <1>10, PurgedStayOut DEF Catalog!Import
<1>12. Catalog!TrashedStaysTrashed BY <1>7 DEF Catalog!TrashedStaysTrashed
<1>13. Catalog!Whole(st') BY <1>5 DEF Comes
<1> QED BY <1>6, <1>7, <1>8, <1>9, <1>11, <1>12, <1>13 DEF Catalog!LibraryIInv

LEMMA PlaylistStep ==
  ASSUME Catalog!LibraryAssumption, Catalog!LibraryIInv, Catalog!ImportPlaylist
  PROVE Catalog!LibraryIInv' /\ Catalog!TrashedStaysTrashed /\ Catalog!PurgedStaysPurged
<1> DEFINE A == {PlaylistIds[n] : n \in 1..Len(PlaylistIds)}
           O == IF PlaylistId \in Catalog!Range2Set(st.order) THEN st.order ELSE <<PlaylistId>> \o st.order
           L == [tracks |-> st.tracks, order |-> O, parent |-> st.parent, items |-> st.items,
                 current |-> st.current]
<1>1. PlaylistIds \in Seq(TrackIds) /\ PlaylistId \in FolderIds /\ "processing" \in Catalog!Statuses
  BY DEF Catalog!LibraryAssumption, Catalog!Statuses
<1>2. Catalog!Whole(st) /\ Catalog!OnlyHeardOf /\ acts \in Nat BY DEF Catalog!LibraryIInv
<1>3. st' \in Catalog!addEach(L, PlaylistIds, "processing", PlaylistId)
  <2>1. (IF PlaylistId \in Catalog!Range2Set(st.order) THEN st ELSE [st EXCEPT !.order = <<PlaylistId>> \o @]) = L
    BY <1>2 DEF Catalog!Whole
  <2> HIDE DEF L
  <2> QED BY <2>1 DEF Catalog!ImportPlaylist, Catalog!addPlaylistToLibrary
<1>4. Catalog!Whole(L) /\ Catalog!Present(L) = Catalog!Present(st) /\ L.items = st.items
  <2>1. st.items \in [FolderIds -> SUBSET TrackIds] BY <1>2 DEF Catalog!Whole
  <2> HIDE DEF O
  <2> QED BY <1>2, <2>1, Rearranged
<1> HIDE DEF L
<1>5. Grows(L, st', A) BY <1>1, <1>3, <1>4, EachGrows
<1>6. Comes(A) BY <1>4, <1>5 DEF Grows, Comes
<1>7. \A i \in 1..Len(PlaylistIds) : server[PlaylistIds[i]] = "new" BY DEF Catalog!ImportPlaylist
<1>8. \A i \in A : i \in TrackIds /\ server[i] = "new" BY <1>1, <1>7
<1>9. A = Catalog!Range2Set(PlaylistIds) BY DEF Catalog!Range2Set
<1>10. server' = [i \in TrackIds |-> IF i \in A THEN "running" ELSE server[i]] BY <1>9 DEF Catalog!ImportPlaylist
<1> HIDE DEF A
<1>11. server' \in [TrackIds -> Catalog!ServerStatuses] /\ Catalog!Heard \subseteq Catalog!Heard'
      /\ A \subseteq Catalog!Heard'
  BY <1>2, <1>8, <1>10 DEF Catalog!OnlyHeardOf, Catalog!Heard, Catalog!ServerStatuses
<1>12. Catalog!OnlyHeardOf' BY <1>2, <1>6, <1>11, StillHeard DEF Catalog!ImportPlaylist, Catalog!answers
<1>13. acts' # acts /\ acts' \in Nat BY <1>2 DEF Catalog!ImportPlaylist, Catalog!Act
<1>14. Catalog!TombstonesStand' BY DEF Catalog!ImportPlaylist, Catalog!LibraryIInv, Catalog!TombstonesStand
<1>15. bin' \in Catalog!Binning BY DEF Catalog!ImportPlaylist, Catalog!LibraryIInv
<1>16. A \cap purged = {} BY <1>2, <1>8 DEF Catalog!OnlyHeardOf, Catalog!Heard
<1>17. Catalog!PurgedStaysPurged BY <1>6, <1>16, PurgedStayOut DEF Catalog!ImportPlaylist
<1>18. Catalog!TrashedStaysTrashed BY <1>13 DEF Catalog!TrashedStaysTrashed
<1>19. Catalog!Whole(st') BY <1>6 DEF Comes
<1> QED BY <1>12, <1>13, <1>14, <1>15, <1>17, <1>18, <1>19 DEF Catalog!LibraryIInv

LEMMA EndStep ==
  ASSUME Catalog!LibraryAssumption, Catalog!LibraryIInv, NEW id \in TrackIds,
         Catalog!ServerEnds(id) \/ Catalog!ServerLosesFiles(id)
  PROVE Catalog!LibraryIInv' /\ Catalog!TrashedStaysTrashed /\ Catalog!PurgedStaysPurged
<1>1. st' = st /\ purged' = purged /\ loading' = loading /\ sync' = sync
      /\ deleted' = deleted /\ savedDeleted' = savedDeleted /\ bin' = bin
  BY DEF Catalog!ServerEnds, Catalog!ServerLosesFiles, Catalog!answers
<1>2. Catalog!Whole(st) /\ Catalog!OnlyHeardOf /\ acts \in Nat /\ Catalog!TombstonesStand /\ bin \in Catalog!Binning
  BY DEF Catalog!LibraryIInv
<1>3. PICK s \in Catalog!ServerStatuses \ {"new"} : server' = [server EXCEPT ![id] = s]
  BY DEF Catalog!ServerEnds, Catalog!ServerLosesFiles, Catalog!ServerStatuses
<1>4. server' \in [TrackIds -> Catalog!ServerStatuses] /\ Catalog!Heard \subseteq Catalog!Heard'
      /\ id \in Catalog!Heard' BY <1>2, <1>3, Tells
<1>5. completions' \subseteq [id : Catalog!Heard', status : Catalog!ServerStatuses]
  <2>1. CASE Catalog!ServerEnds(id)
    <3>1. \A c \in completions' : c \in completions \/ c \in [id : {id}, status : Catalog!ServerStatuses]
      BY <2>1 DEF Catalog!ServerEnds, Catalog!ServerStatuses
    <3> QED BY <1>2, <1>4, <3>1 DEF Catalog!OnlyHeardOf
  <2>2. CASE Catalog!ServerLosesFiles(id)
    <3>1. completions' = completions BY <2>2 DEF Catalog!ServerLosesFiles, Catalog!answers
    <3> QED BY <1>2, <1>4, <3>1 DEF Catalog!OnlyHeardOf
  <2> QED BY <2>1, <2>2
<1>6. acts' \in Nat BY <1>2 DEF Catalog!ServerEnds, Catalog!ServerLosesFiles, Catalog!Act
<1>7. Catalog!OnlyHeardOf'
  <2>1. Catalog!Present(st') \subseteq Catalog!Heard' /\ purged' \subseteq Catalog!Heard'
    BY <1>1, <1>2, <1>4 DEF Catalog!OnlyHeardOf
  <2>2. \A f \in FolderIds : st'.items[f] \subseteq Catalog!Heard' BY <1>1, <1>2, <1>4 DEF Catalog!OnlyHeardOf
  <2>3. loading' # Nowhere => loading'.id \in Catalog!Heard' BY <1>1, <1>2, <1>4 DEF Catalog!OnlyHeardOf
  <2>4. sync' # Nowhere => sync'.done \cup sync'.lost \subseteq Catalog!Heard'
    BY <1>1, <1>2, <1>4 DEF Catalog!OnlyHeardOf
  <2> QED BY <1>4, <1>5, <2>1, <2>2, <2>3, <2>4 DEF Catalog!OnlyHeardOf
<1>8. Catalog!TombstonesStand' BY <1>1, <1>2 DEF Catalog!TombstonesStand
<1> QED BY <1>1, <1>2, <1>6, <1>7, <1>8, SameLibrary DEF Catalog!LibraryIInv

LEMMA CompleteStep ==
  ASSUME Catalog!LibraryAssumption, Catalog!LibraryIInv, NEW c \in completions, Catalog!completeSettledJob(c)
  PROVE Catalog!LibraryIInv' /\ Catalog!TrashedStaysTrashed /\ Catalog!PurgedStaysPurged
<1>1. Catalog!Whole(st) /\ Catalog!OnlyHeardOf /\ acts \in Nat /\ Catalog!TombstonesStand /\ bin \in Catalog!Binning
  BY DEF Catalog!LibraryIInv
<1>2. c.id \in Catalog!Heard /\ c.id \in TrackIds BY <1>1 DEF Catalog!OnlyHeardOf, Catalog!Heard
<1>3. completions' = completions \ {c} BY DEF Catalog!completeSettledJob
<1>4. UNCHANGED <<deleted, savedDeleted, server, bin, loading, sync, purged, acts>> BY DEF Catalog!completeSettledJob
<1>5. /\ Comes({c.id})
      /\ \/ st.items[TrashId] \subseteq st'.items[TrashId]
         \/ c.status = "cancelled" /\ st.items[TrashId] \subseteq st'.items[TrashId] \cup {c.id}
  <2> DEFINE i == c.id
  <2>0. i \in TrackIds /\ TrashId \in FolderIds BY <1>2 DEF Catalog!LibraryAssumption
  <2> HIDE DEF i
  <2>1. CASE st' = IF i \in Catalog!Present(st) THEN [st EXCEPT !.tracks[i] = "unavailable"] ELSE st
    <3>1. CASE i \notin Catalog!Present(st) BY <1>1, <2>1, <3>1 DEF Comes
    <3>2. CASE i \in Catalog!Present(st)
      <4> DEFINE T == [st.tracks EXCEPT ![i] = "unavailable"]
      <4>1. st' = [tracks |-> T, order |-> st.order, parent |-> st.parent, items |-> st.items,
                    current |-> st.current]
        BY <1>1, <2>1, <3>2 DEF Catalog!Whole
      <4>2. T \in [TrackIds -> Catalog!Statuses \cup {"absent"}] /\ \A j \in TrackIds \ {i} : T[j] = st.tracks[j]
        BY <1>1, <2>0 DEF Catalog!Whole, Catalog!Statuses
      <4> HIDE DEF T
      <4>3. Catalog!Whole(st') BY <1>1, <4>1, <4>2 DEF Catalog!Whole
      <4>4. st'.tracks = T /\ st'.items = st.items BY <4>1
      <4> QED BY <4>2, <4>3, <4>4 DEF Comes, Catalog!Present, i
    <3> QED BY <3>1, <3>2
  <2>2. CASE c.status = "cancelled" /\ st' = [Catalog!Without(st, {i}) EXCEPT !.tracks[i] = "absent"]
    <3> DEFINE I == [g \in FolderIds |-> st.items[g] \ {i}]
               W == Catalog!Without(st, {i})
               T == [st.tracks EXCEPT ![i] = "absent"]
    <3>1. W = [st EXCEPT !.items = I] BY DEF Catalog!Without
    <3>2. st' = [W EXCEPT !.tracks[i] = "absent"] BY <2>2
    <3>3. I \in [FolderIds -> SUBSET TrackIds] /\ \A g \in FolderIds : I[g] \subseteq st.items[g]
          /\ st.items[g] \subseteq I[g] \cup {i}
      BY <1>1 DEF Catalog!Whole
    <3>4. T \in [TrackIds -> Catalog!Statuses \cup {"absent"}] /\ \A j \in TrackIds \ {i} : T[j] = st.tracks[j]
      BY <1>1, <2>0 DEF Catalog!Whole
    <3> HIDE DEF I, W
    <3>5. W = [tracks |-> st.tracks, order |-> st.order, parent |-> st.parent, items |-> I,
               current |-> st.current]
      BY <1>1, <3>1 DEF Catalog!Whole
    <3>6. st' = [tracks |-> T, order |-> st.order, parent |-> st.parent, items |-> I, current |-> st.current]
      BY <3>2, <3>5
    <3> HIDE DEF T
    <3>7. Catalog!Whole(st') /\ st'.tracks = T /\ st'.items = I BY <3>3, <3>4, <3>6 DEF Catalog!Whole
    <3>8. Catalog!Present(st') \subseteq Catalog!Present(st) \cup {i} BY <3>4, <3>7 DEF Catalog!Present
    <3>9. \A g \in FolderIds : st'.items[g] \subseteq {i} \cup UNION {st.items[h] : h \in FolderIds} BY <3>3, <3>7
    <3>10. st.items[TrashId] \subseteq st'.items[TrashId] \cup {i} BY <2>0, <3>3, <3>7
    <3> QED BY <2>2, <3>7, <3>8, <3>9, <3>10 DEF Comes, i
  <2>3. CASE c.status \in {"done", "error"} /\ st' \in Catalog!addTrackToLibrary(st, i, c.status)
    <3>1. c.status \in Catalog!Statuses BY <2>3 DEF Catalog!Statuses
    <3>2. Grows(st, st', {i}) BY <1>1, <2>0, <2>3, <3>1, AddGrows
    <3> QED BY <3>2 DEF Grows, Comes, i
  <2> QED BY <2>1, <2>2, <2>3 DEF Catalog!completeSettledJob, i
<1>6. server' \in [TrackIds -> Catalog!ServerStatuses] /\ Catalog!Heard' = Catalog!Heard BY <1>1, <1>4, SameServer
<1>7. Catalog!OnlyHeardOf' BY <1>1, <1>2, <1>3, <1>4, <1>5, <1>6, StillHeard
<1>8. Catalog!TombstonesStand' BY <1>1, <1>4 DEF Catalog!TombstonesStand
<1>9. Catalog!Whole(st') BY <1>5 DEF Comes
<1>10. Catalog!PurgedStaysPurged BY <1>3, <1>4 DEF Catalog!PurgedStaysPurged
<1>11. c.status = "cancelled" => [id |-> c.id, status |-> "cancelled"] = c BY <1>1 DEF Catalog!OnlyHeardOf
<1>12. Catalog!TrashedStaysTrashed BY <1>5, <1>11 DEF Catalog!TrashedStaysTrashed
<1> QED BY <1>12, <1>1, <1>4, <1>7, <1>8, <1>9, <1>10 DEF Catalog!LibraryIInv

LEMMA OpenStep ==
  ASSUME Catalog!LibraryAssumption,
         Catalog!LibraryIInv, (\E id \in TrackIds : Catalog!OpenTrack(id)) \/ Catalog!ClearBin \/ Catalog!Resync
  PROVE Catalog!LibraryIInv' /\ Catalog!TrashedStaysTrashed /\ Catalog!PurgedStaysPurged
<1>1. Catalog!Whole(st) /\ Catalog!OnlyHeardOf /\ acts \in Nat /\ Catalog!TombstonesStand /\ bin \in Catalog!Binning
  BY DEF Catalog!LibraryIInv
<1>2. UNCHANGED <<st, savedDeleted, server, completions, restore, purged>> /\ Catalog!Act
  BY DEF Catalog!OpenTrack, Catalog!ClearBin, Catalog!Resync, Catalog!answers
<1>3. Catalog!Heard' = Catalog!Heard BY <1>2 DEF Catalog!Heard
<1>4. loading' # Nowhere => loading'.id \in Catalog!Heard
  <2>1. CASE \E id \in TrackIds : Catalog!OpenTrack(id)
    <3>1. PICK id \in TrackIds : Catalog!OpenTrack(id) BY <2>1
    <3>2. id \in Catalog!Heard BY <1>1, <3>1 DEF Catalog!OpenTrack, Catalog!OnlyHeardOf
    <3> QED BY <3>1, <3>2 DEF Catalog!OpenTrack
  <2>2. CASE loading' = loading BY <1>1, <2>2 DEF Catalog!OnlyHeardOf
  <2> QED BY <2>1, <2>2 DEF Catalog!ClearBin, Catalog!Resync, Catalog!answers
<1>5. sync' # Nowhere => sync'.done \cup sync'.lost \subseteq Catalog!Heard
  <2>1. CASE Catalog!Resync BY <2>1 DEF Catalog!Resync, Catalog!Listed, Catalog!Heard
  <2>2. CASE sync' = sync BY <1>1, <2>2 DEF Catalog!OnlyHeardOf
  <2> QED BY <2>1, <2>2 DEF Catalog!ClearBin, Catalog!OpenTrack, Catalog!answers
<1>6. Catalog!OnlyHeardOf'
  <2>1. Catalog!Present(st') \subseteq Catalog!Heard' /\ purged' \subseteq Catalog!Heard'
    BY <1>1, <1>2, <1>3 DEF Catalog!OnlyHeardOf
  <2>2. \A f \in FolderIds : st'.items[f] \subseteq Catalog!Heard' BY <1>1, <1>2, <1>3 DEF Catalog!OnlyHeardOf
  <2>3. completions' \subseteq [id : Catalog!Heard', status : Catalog!ServerStatuses]
    BY <1>1, <1>2, <1>3 DEF Catalog!OnlyHeardOf
  <2>4. server' \in [TrackIds -> Catalog!ServerStatuses] BY <1>1, <1>2 DEF Catalog!OnlyHeardOf
  <2> QED BY <1>3, <1>4, <1>5, <2>1, <2>2, <2>3, <2>4 DEF Catalog!OnlyHeardOf
<1>7. bin' \in Catalog!Binning /\ Catalog!TombstonesStand'
  <2>1. CASE Catalog!ClearBin
    <3>1. st.items[TrashId] \subseteq TrackIds BY <1>1 DEF Catalog!Whole, Catalog!LibraryAssumption
    <3>2. bin' \in Catalog!Binning BY <2>1, <3>1 DEF Catalog!ClearBin, Catalog!Binning
    <3>3. deleted' = deleted \cup st.items[TrashId] /\ bin'.list = st.items[TrashId] BY <2>1 DEF Catalog!ClearBin
    <3> QED BY <1>1, <1>2, <3>2, <3>3 DEF Catalog!TombstonesStand
  <2>2. CASE bin' = bin /\ deleted' = deleted BY <1>1, <1>2, <2>2 DEF Catalog!TombstonesStand
  <2> QED BY <2>1, <2>2 DEF Catalog!OpenTrack, Catalog!Resync
<1>8. acts' \in Nat BY <1>1, <1>2 DEF Catalog!Act
<1>9. Catalog!TrashedStaysTrashed /\ Catalog!PurgedStaysPurged BY <1>2, SameLibrary
<1> QED BY <1>1, <1>2, <1>6, <1>7, <1>8, <1>9 DEF Catalog!LibraryIInv

LEMMA OpenedStep ==
  ASSUME Catalog!LibraryAssumption, Catalog!LibraryIInv, Catalog!TrackOpened
  PROVE Catalog!LibraryIInv' /\ Catalog!TrashedStaysTrashed /\ Catalog!PurgedStaysPurged
<1>1. Catalog!Whole(st) /\ Catalog!OnlyHeardOf /\ acts \in Nat /\ Catalog!TombstonesStand /\ bin \in Catalog!Binning
  BY DEF Catalog!LibraryIInv
<1>2. loading # Nowhere /\ loading' = Nowhere BY DEF Catalog!TrackOpened
<1>3. UNCHANGED <<deleted, savedDeleted, server, bin, completions, sync, restore, purged, acts>>
  BY DEF Catalog!TrackOpened
<1> DEFINE i == loading.id
<1>4. i \in Catalog!Heard /\ i \in TrackIds /\ TrashId \in FolderIds
  BY <1>1, <1>2 DEF Catalog!OnlyHeardOf, Catalog!Heard, Catalog!LibraryAssumption
<1> DEFINE s == CASE loading.status = "running" -> "processing"
                  [] loading.status \in {"done", "error"} -> loading.status
                  [] OTHER -> "unavailable"
           c == IF loading.status = "done" THEN i ELSE st.current
<1>5. st' = [st EXCEPT !.tracks[i] = s, !.current = c] BY DEF Catalog!TrackOpened
<1>15. s \in Catalog!Statuses BY DEF Catalog!Statuses
<1> HIDE DEF i, s, c
<1> DEFINE T == [st.tracks EXCEPT ![i] = s]
<1>6. st' = [tracks |-> T, order |-> st.order, parent |-> st.parent, items |-> st.items, current |-> c]
  BY <1>1, <1>5 DEF Catalog!Whole
<1>7. T \in [TrackIds -> Catalog!Statuses \cup {"absent"}] /\ \A j \in TrackIds \ {i} : T[j] = st.tracks[j]
  BY <1>1, <1>4, <1>15 DEF Catalog!Whole
<1> HIDE DEF T
<1>8. Catalog!Whole(st') /\ st'.tracks = T /\ st'.items = st.items BY <1>1, <1>6, <1>7 DEF Catalog!Whole
<1>9. Comes({i}) BY <1>7, <1>8 DEF Comes, Catalog!Present
<1>10. server' \in [TrackIds -> Catalog!ServerStatuses] /\ Catalog!Heard' = Catalog!Heard BY <1>1, <1>3, SameServer
<1>11. Catalog!OnlyHeardOf' BY <1>1, <1>2, <1>3, <1>4, <1>9, <1>10, StillHeard
<1>12. Catalog!TombstonesStand' BY <1>1, <1>3 DEF Catalog!TombstonesStand
<1>13. Catalog!PurgedStaysPurged BY <1>2, <1>3 DEF Catalog!PurgedStaysPurged
<1>14. Catalog!TrashedStaysTrashed BY <1>8 DEF Catalog!TrashedStaysTrashed
<1> QED BY <1>1, <1>3, <1>8, <1>11, <1>12, <1>13, <1>14 DEF Catalog!LibraryIInv

LEMMA PurgeStep ==
  ASSUME Catalog!LibraryAssumption, Catalog!LibraryIInv, Catalog!TombstonesWritten
  PROVE Catalog!LibraryIInv' /\ Catalog!TrashedStaysTrashed /\ Catalog!PurgedStaysPurged
<1>1. Catalog!Whole(st) /\ Catalog!OnlyHeardOf /\ acts \in Nat /\ Catalog!TombstonesStand /\ bin \in Catalog!Binning
  BY DEF Catalog!LibraryIInv
<1> DEFINE X == st.items[TrashId]
           I == [g \in FolderIds |-> st.items[g] \ X]
           W == Catalog!Without(st, X)
           T == [j \in TrackIds |-> IF j \in X THEN "absent" ELSE st.tracks[j]]
<1>2. UNCHANGED <<deleted, server, loading, completions, sync, restore>>
  BY DEF Catalog!TombstonesWritten, Catalog!answers
<1>3. /\ bin.pc = "marking" /\ bin' = [bin EXCEPT !.pc = "deleting"]
      /\ \/ savedDeleted' = deleted /\ acts' = acts
         \/ acts' = acts + 1 /\ savedDeleted' = savedDeleted
      /\ purged' = purged \cup (bin.list \cap X)
  BY DEF Catalog!TombstonesWritten, Catalog!Act
<1>4. st' = [tracks |-> T, order |-> st.order, parent |-> st.parent, items |-> I, current |-> st.current]
  <2>1. W = [st EXCEPT !.items = I] BY DEF Catalog!Without
  <2>2. st' = [W EXCEPT !.tracks = [j \in TrackIds |-> IF j \in X THEN "absent" ELSE @[j]]]
    BY DEF Catalog!TombstonesWritten, Catalog!purgeTrash
  <2> HIDE DEF X, I, W
  <2>3. W = [tracks |-> st.tracks, order |-> st.order, parent |-> st.parent, items |-> I, current |-> st.current]
    BY <1>1, <2>1 DEF Catalog!Whole
  <2>4. W.tracks = st.tracks BY <2>3
  <2>5. st' = [W EXCEPT !.tracks = T] BY <2>2, <2>4
  <2> HIDE DEF T
  <2> QED BY <2>3, <2>5
<1>5. T \in [TrackIds -> Catalog!Statuses \cup {"absent"}] /\ I \in [FolderIds -> SUBSET TrackIds]
  BY <1>1 DEF Catalog!Whole
<1>6. \A j \in TrackIds : st.tracks[j] = "absent" => T[j] = "absent" OBVIOUS
<1>7. \A g \in FolderIds : I[g] \subseteq st.items[g] OBVIOUS
<1>8. X \subseteq Catalog!Heard BY <1>1 DEF Catalog!OnlyHeardOf, Catalog!LibraryAssumption
<1> HIDE DEF T, I, X
<1>9. Catalog!Whole(st') /\ st'.tracks = T /\ st'.items = I BY <1>4, <1>5 DEF Catalog!Whole
<1>10. Catalog!Present(st') \subseteq Catalog!Present(st) BY <1>6, <1>9 DEF Catalog!Present
<1>11. Catalog!Heard' = Catalog!Heard BY <1>2 DEF Catalog!Heard
<1>12. Catalog!OnlyHeardOf'
  <2>1. Catalog!Present(st') \subseteq Catalog!Heard' /\ purged' \subseteq Catalog!Heard'
    BY <1>1, <1>3, <1>8, <1>10, <1>11 DEF Catalog!OnlyHeardOf
  <2>2. \A f \in FolderIds : st'.items[f] \subseteq Catalog!Heard' BY <1>1, <1>7, <1>9, <1>11 DEF Catalog!OnlyHeardOf
  <2>3. completions' \subseteq [id : Catalog!Heard', status : Catalog!ServerStatuses]
    BY <1>1, <1>2, <1>11 DEF Catalog!OnlyHeardOf
  <2>4. loading' # Nowhere => loading'.id \in Catalog!Heard' BY <1>1, <1>2, <1>11 DEF Catalog!OnlyHeardOf
  <2>5. sync' # Nowhere => sync'.done \cup sync'.lost \subseteq Catalog!Heard'
    BY <1>1, <1>2, <1>11 DEF Catalog!OnlyHeardOf
  <2>6. server' \in [TrackIds -> Catalog!ServerStatuses] BY <1>1, <1>2 DEF Catalog!OnlyHeardOf
  <2> QED BY <2>1, <2>2, <2>3, <2>4, <2>5, <2>6 DEF Catalog!OnlyHeardOf
<1>13. bin' \in Catalog!Binning /\ bin'.pc = "deleting" BY <1>1, <1>3 DEF Catalog!Binning
<1>14. Catalog!TombstonesStand' BY <1>1, <1>2, <1>3, <1>13 DEF Catalog!TombstonesStand
<1>15. Catalog!TrashedStaysTrashed BY <1>3, <1>13 DEF Catalog!TrashedStaysTrashed
<1>16. Catalog!PurgedStaysPurged
  <2>1. \A i \in purged : i \in TrackIds BY <1>1 DEF Catalog!OnlyHeardOf, Catalog!Heard
  <2>2. \A i \in purged' \ purged : i \in savedDeleted' \/ acts' # acts
    <3>1. bin.list \subseteq deleted BY <1>1, <1>3 DEF Catalog!TombstonesStand
    <3>2. acts + 1 # acts BY <1>1
    <3> QED BY <1>3, <3>1, <3>2
  <2> QED BY <1>3, <1>6, <1>9, <2>1, <2>2 DEF Catalog!PurgedStaysPurged
<1>17. acts' \in Nat BY <1>1, <1>3
<1> QED BY <1>1, <1>2, <1>9, <1>12, <1>13, <1>14, <1>15, <1>16, <1>17 DEF Catalog!LibraryIInv

LEMMA BinStep ==
  ASSUME Catalog!LibraryAssumption,
         Catalog!LibraryIInv, (\E id \in TrackIds : Catalog!DeleteAnswered(id)) \/ Catalog!BinCleared
  PROVE Catalog!LibraryIInv' /\ Catalog!TrashedStaysTrashed /\ Catalog!PurgedStaysPurged
<1>1. Catalog!Whole(st) /\ Catalog!OnlyHeardOf /\ acts \in Nat /\ Catalog!TombstonesStand /\ bin \in Catalog!Binning
  BY DEF Catalog!LibraryIInv
<1>2. UNCHANGED <<st, deleted, savedDeleted, loading, completions, sync, restore, purged>>
  BY DEF Catalog!DeleteAnswered, Catalog!BinCleared, Catalog!answers
<1>3. server' \in [TrackIds -> Catalog!ServerStatuses] /\ Catalog!Heard \subseteq Catalog!Heard'
  <2>1. CASE server' = server BY <1>1, <2>1, SameServer
  <2>2. CASE server' # server
    <3>1. PICK id \in TrackIds : server' = [server EXCEPT ![id] = "deleted"]
      BY <2>2 DEF Catalog!DeleteAnswered, Catalog!BinCleared
    <3> QED BY <1>1, <3>1, Tells DEF Catalog!ServerStatuses
  <2> QED BY <2>1, <2>2
<1>4. Comes({}) /\ Catalog!TrashedStaysTrashed /\ Catalog!PurgedStaysPurged BY <1>2, SameLibrary
<1>5. Catalog!OnlyHeardOf' BY <1>1, <1>2, <1>3, <1>4, StillHeard
<1>6. bin' \in Catalog!Binning /\ bin'.pc # "marking"
  BY <1>1 DEF Catalog!DeleteAnswered, Catalog!BinCleared, Catalog!Binning
<1>7. Catalog!TombstonesStand' BY <1>1, <1>2, <1>6 DEF Catalog!TombstonesStand
<1>8. acts' \in Nat BY <1>1 DEF Catalog!DeleteAnswered, Catalog!BinCleared, Catalog!Act
<1> QED BY <1>1, <1>2, <1>4, <1>5, <1>6, <1>7, <1>8 DEF Catalog!LibraryIInv

LEMMA CatalogCounts ==
  ASSUME NEW S
  PROVE Catalog!Cardinality(S) = Cardinality(S) /\ Catalog!IsFiniteSet(S) = IsFiniteSet(S)
BY DEF Catalog!Cardinality, Cardinality, Catalog!IsFiniteSet, IsFiniteSet

(* Tombstones are what keeps a deleted job out of a sync.                   *)
LEMMA SyncStep ==
  ASSUME Catalog!LibraryAssumption, Catalog!LibraryIInv, Catalog!SyncAnswered
  PROVE Catalog!LibraryIInv' /\ Catalog!TrashedStaysTrashed /\ Catalog!PurgedStaysPurged
<1>1. Catalog!Whole(st) /\ Catalog!OnlyHeardOf /\ acts \in Nat /\ Catalog!TombstonesStand /\ bin \in Catalog!Binning
  BY DEF Catalog!LibraryIInv
<1>2. UNCHANGED <<deleted, savedDeleted, server, bin, loading, completions, purged, acts>> BY DEF Catalog!SyncAnswered
<1>3. sync # Nowhere /\ sync' = Nowhere BY DEF Catalog!SyncAnswered
<1>4. PICK ids \in Catalog!SetToSeqs(Catalog!Adopted(st)) :
        \E added \in Catalog!addEach(st, ids, "done", Nowhere) : st' = Catalog!reconcileAvailability(added)
  BY DEF Catalog!SyncAnswered
<1>5. PICK added \in Catalog!addEach(st, ids, "done", Nowhere) : st' = Catalog!reconcileAvailability(added) BY <1>4
<1>6. Catalog!Adopted(st) \subseteq Catalog!Heard /\ Catalog!Adopted(st) \cap deleted = {}
  BY <1>1, <1>3 DEF Catalog!OnlyHeardOf, Catalog!Adopted
<1>7. Catalog!Adopted(st) \subseteq TrackIds BY <1>6 DEF Catalog!Heard
<1>8. Cardinality(Catalog!Adopted(st)) \in Nat
  <2>1. IsFiniteSet(TrackIds) BY CatalogCounts DEF Catalog!LibraryAssumption
  <2> QED BY <2>1, <1>7, FS_Subset, FS_CardinalityType
<1>9. ids \in Seq(TrackIds) /\ \A n \in 1..Len(ids) : ids[n] \in Catalog!Adopted(st)
  <2>1. ids \in [1..Catalog!Cardinality(Catalog!Adopted(st)) -> Catalog!Adopted(st)] BY <1>4 DEF Catalog!SetToSeqs
  <2>2. ids \in [1..Cardinality(Catalog!Adopted(st)) -> Catalog!Adopted(st)] BY <2>1, CatalogCounts
  <2> QED BY <2>2, <1>7, <1>8
<1> DEFINE A == {ids[n] : n \in 1..Len(ids)}
<1>10. A \subseteq Catalog!Adopted(st) BY <1>9
<1>11. Grows(st, added, A)
  <2>1. "done" \in Catalog!Statuses BY DEF Catalog!Statuses
  <2> QED BY <1>1, <1>5, <1>9, <2>1, EachGrows
<1> HIDE DEF A
<1> DEFINE T == [i \in TrackIds |->
             IF added.tracks[i] \notin {"done", "unavailable"} \/ i \in added.items[TrashId] THEN added.tracks[i]
             ELSE IF i \in sync.lost THEN "unavailable"
             ELSE IF i \in sync.done THEN "done"
             ELSE "unavailable"]
<1>12. Catalog!Whole(added) BY <1>11 DEF Grows
<1>13. st' = [tracks |-> T, order |-> added.order, parent |-> added.parent, items |-> added.items,
               current |-> added.current]
  <2>1. st' = [added EXCEPT !.tracks = T] BY <1>5 DEF Catalog!reconcileAvailability
  <2> HIDE DEF T
  <2> QED BY <1>12, <2>1 DEF Catalog!Whole
<1>14. T \in [TrackIds -> Catalog!Statuses \cup {"absent"}] BY <1>12 DEF Catalog!Whole, Catalog!Statuses
<1>15. \A i \in TrackIds : added.tracks[i] = "absent" => T[i] = "absent" OBVIOUS
<1> HIDE DEF T
<1>16. Catalog!Whole(st') /\ st'.tracks = T /\ st'.items = added.items BY <1>12, <1>13, <1>14 DEF Catalog!Whole
<1>17. Catalog!Present(st') \subseteq Catalog!Present(added) BY <1>15, <1>16 DEF Catalog!Present
<1>18. Comes(A) BY <1>11, <1>16, <1>17 DEF Grows, Comes
<1>19. server' \in [TrackIds -> Catalog!ServerStatuses] /\ Catalog!Heard' = Catalog!Heard BY <1>1, <1>2, SameServer
<1>20. Catalog!OnlyHeardOf' BY <1>1, <1>2, <1>3, <1>6, <1>10, <1>18, <1>19, StillHeard
<1>21. Catalog!TombstonesStand' BY <1>1, <1>2 DEF Catalog!TombstonesStand
<1>22. A \cap (purged \cap savedDeleted) = {} BY <1>1, <1>6, <1>10 DEF Catalog!TombstonesStand
<1>23. Catalog!PurgedStaysPurged BY <1>2, <1>18, <1>22, PurgedStayOut
<1>24. Catalog!TrashedStaysTrashed BY <1>11, <1>16 DEF Grows, Catalog!TrashedStaysTrashed
<1> QED BY <1>1, <1>2, <1>16, <1>20, <1>21, <1>23, <1>24 DEF Catalog!LibraryIInv

LEMMA AgainStep ==
  ASSUME Catalog!LibraryAssumption, Catalog!LibraryIInv, NEW old \in TrackIds, Catalog!RestoreNext(old)
  PROVE Catalog!LibraryIInv' /\ Catalog!TrashedStaysTrashed /\ Catalog!PurgedStaysPurged
<1>1. Catalog!Whole(st) /\ Catalog!OnlyHeardOf /\ acts \in Nat /\ Catalog!TombstonesStand /\ bin \in Catalog!Binning
  BY DEF Catalog!LibraryIInv
<1>2. UNCHANGED <<deleted, savedDeleted, bin, loading, completions, sync, purged, acts>> BY DEF Catalog!RestoreNext
<1>3. PICK A \in SUBSET TrackIds :
        /\ server' \in [TrackIds -> Catalog!ServerStatuses] /\ Catalog!Heard \subseteq Catalog!Heard'
        /\ A \subseteq Catalog!Heard'
        /\ Grows(st, st', A) /\ A \cap purged = {}
  <2>1. CASE server' = server /\ st' = st
    <3>1. Grows(st, st', {}) BY <1>1, <2>1 DEF Grows
    <3>2. server' \in [TrackIds -> Catalog!ServerStatuses] /\ Catalog!Heard' = Catalog!Heard BY <1>1, <2>1, SameServer
    <3> QED BY <3>1, <3>2
  <2>2. CASE ~(server' = server /\ st' = st)
    <3>1. PICK id \in TrackIds : /\ server[id] = "new" /\ server' = [server EXCEPT ![id] = "running"]
                                 /\ st' \in Catalog!addTrackToLibrary(st, id, "processing")
      BY <2>2 DEF Catalog!RestoreNext
    <3>2. server' \in [TrackIds -> Catalog!ServerStatuses] /\ Catalog!Heard \subseteq Catalog!Heard'
          /\ id \in Catalog!Heard'
      BY <1>1, <3>1, Tells DEF Catalog!ServerStatuses
    <3>3. Grows(st, st', {id})
      <4>1. "processing" \in Catalog!Statuses BY DEF Catalog!Statuses
      <4> QED BY <1>1, <3>1, <4>1, AddGrows
    <3>4. id \notin purged BY <1>1, <3>1 DEF Catalog!OnlyHeardOf, Catalog!Heard
    <3>5. {id} \subseteq Catalog!Heard' /\ {id} \cap purged = {} /\ {id} \in SUBSET TrackIds BY <3>2, <3>4
    <3> QED BY <3>2, <3>3, <3>5
  <2> QED BY <2>1, <2>2
<1>4. Comes(A) BY <1>3, GrowsComes
<1>5. Catalog!OnlyHeardOf' BY <1>1, <1>2, <1>3, <1>4, StillHeard
<1>6. Catalog!TombstonesStand' BY <1>1, <1>2 DEF Catalog!TombstonesStand
<1>7. Catalog!PurgedStaysPurged BY <1>2, <1>3, <1>4, PurgedStayOut
<1>8. Catalog!TrashedStaysTrashed BY <1>3 DEF Grows, Catalog!TrashedStaysTrashed
<1>9. Catalog!Whole(st') BY <1>4 DEF Comes
<1> QED BY <1>1, <1>2, <1>5, <1>6, <1>7, <1>8, <1>9 DEF Catalog!LibraryIInv

LEMMA ReloadStep ==
  ASSUME Catalog!LibraryAssumption, Catalog!LibraryIInv, Catalog!Reload
  PROVE Catalog!LibraryIInv' /\ Catalog!TrashedStaysTrashed /\ Catalog!PurgedStaysPurged
<1>1. Catalog!Whole(st) /\ Catalog!OnlyHeardOf /\ acts \in Nat /\ Catalog!TombstonesStand /\ bin \in Catalog!Binning
  BY DEF Catalog!LibraryIInv
<1>2. UNCHANGED <<savedDeleted, server, purged>> /\ deleted' = savedDeleted /\ loading' = Nowhere /\ completions' = {}
  BY DEF Catalog!Reload
<1>3. sync' = Catalog!Listed(FALSE) /\ bin' = [pc |-> "idle", list |-> {}] BY DEF Catalog!Reload
<1> DEFINE I == [st.items EXCEPT ![TrashId] = @ \cap Catalog!Present(st)]
<1>4. st' = [tracks |-> st.tracks, order |-> st.order, parent |-> st.parent, items |-> I, current |-> Nowhere]
  <2>1. st' = [st EXCEPT !.items = I, !.current = Nowhere] BY DEF Catalog!Reload
  <2> HIDE DEF I
  <2> QED BY <1>1, <2>1 DEF Catalog!Whole
<1>5. I \in [FolderIds -> SUBSET TrackIds] /\ \A g \in FolderIds : I[g] \subseteq st.items[g]
  BY <1>1 DEF Catalog!Whole
<1> HIDE DEF I
<1>6. Catalog!Whole(st') /\ Catalog!Present(st') = Catalog!Present(st) /\ st'.items = I
  BY <1>1, <1>4, <1>5, Rearranged
<1>7. Comes({}) BY <1>5, <1>6 DEF Comes
<1>8. Catalog!Heard' = Catalog!Heard BY <1>2 DEF Catalog!Heard
<1>9. sync'.done \cup sync'.lost \subseteq Catalog!Heard BY <1>3 DEF Catalog!Listed, Catalog!Heard
<1>10. Catalog!OnlyHeardOf'
  <2>1. Catalog!Present(st') \subseteq Catalog!Heard' /\ purged' \subseteq Catalog!Heard'
    BY <1>1, <1>2, <1>6, <1>8 DEF Catalog!OnlyHeardOf
  <2>2. \A f \in FolderIds : st'.items[f] \subseteq Catalog!Heard' BY <1>1, <1>5, <1>6, <1>8 DEF Catalog!OnlyHeardOf
  <2>3. completions' \subseteq [id : Catalog!Heard', status : Catalog!ServerStatuses] BY <1>2
  <2>4. server' \in [TrackIds -> Catalog!ServerStatuses] BY <1>1, <1>2 DEF Catalog!OnlyHeardOf
  <2> QED BY <1>2, <1>8, <1>9, <2>1, <2>2, <2>3, <2>4 DEF Catalog!OnlyHeardOf
<1>11. bin' \in Catalog!Binning /\ Catalog!TombstonesStand'
  BY <1>1, <1>2, <1>3 DEF Catalog!Binning, Catalog!TombstonesStand
<1>12. acts' # acts /\ acts' \in Nat BY <1>1 DEF Catalog!Reload, Catalog!Act
<1>13. Catalog!TrashedStaysTrashed BY <1>12 DEF Catalog!TrashedStaysTrashed
<1>14. Catalog!PurgedStaysPurged BY <1>2, <1>7, PurgedStayOut
<1> QED BY <1>6, <1>10, <1>11, <1>12, <1>13, <1>14 DEF Catalog!LibraryIInv

LEMMA LibraryStarts == ASSUME Catalog!LibraryAssumption, Catalog!Init PROVE Catalog!LibraryIInv
<1> DEFINE T == [i \in TrackIds |-> IF i \in KnownIds THEN "done" ELSE "absent"]
           I == [f \in FolderIds |-> IF f = UnsortedId THEN KnownIds ELSE {}]
<1>1. st = [tracks |-> T, order |-> <<UnsortedId, TrashId>>, parent |-> [f \in FolderIds |-> Nowhere], items |-> I,
             current |-> Nowhere]
  BY DEF Catalog!Init
<1>2. KnownIds \subseteq TrackIds BY DEF Catalog!LibraryAssumption
<1>3. T \in [TrackIds -> Catalog!Statuses \cup {"absent"}] /\ I \in [FolderIds -> SUBSET TrackIds]
  BY <1>2 DEF Catalog!Statuses
<1>4. \A i \in TrackIds : T[i] # "absent" => i \in KnownIds OBVIOUS
<1>5. \A f \in FolderIds : I[f] \subseteq KnownIds OBVIOUS
<1> HIDE DEF T, I
<1>6. Catalog!Whole(st) /\ st.tracks = T /\ st.items = I BY <1>1, <1>3 DEF Catalog!Whole
<1>7. KnownIds \subseteq Catalog!Heard BY <1>2 DEF Catalog!Init, Catalog!Heard
<1>8. Catalog!OnlyHeardOf
  <2>1. server \in [TrackIds -> Catalog!ServerStatuses] BY DEF Catalog!Init, Catalog!ServerStatuses
  <2>2. Catalog!Present(st) \subseteq Catalog!Heard BY <1>4, <1>6, <1>7 DEF Catalog!Present
  <2>3. \A f \in FolderIds : st.items[f] \subseteq Catalog!Heard BY <1>5, <1>6, <1>7
  <2>4. purged = {} /\ loading = Nowhere /\ completions = {} /\ sync = Nowhere BY DEF Catalog!Init
  <2> QED BY <2>1, <2>2, <2>3, <2>4 DEF Catalog!OnlyHeardOf
<1>9. bin \in Catalog!Binning /\ Catalog!TombstonesStand /\ acts \in Nat
  BY DEF Catalog!Init, Catalog!Binning, Catalog!TombstonesStand
<1> QED BY <1>6, <1>8, <1>9 DEF Catalog!LibraryIInv

LEMMA LibraryStep ==
  ASSUME Catalog!LibraryAssumption, Catalog!LibraryIInv, Catalog!Next
  PROVE Catalog!LibraryIInv' /\ Catalog!TrashedStaysTrashed /\ Catalog!PurgedStaysPurged
<1> DEFINE Nest(f, g) == \/ Catalog!createSubfolder(f, g) \/ Catalog!reparentFolder(f, g)
                         \/ \E before \in BOOLEAN : Catalog!reorderFolder(f, g, before)
           On(id) == \/ Catalog!MoveToTrash(id) \/ Catalog!restoreTrackFromTrash(id)
                     \/ \E f \in FolderIds : Catalog!dropOnFolder(id, f)
                     \/ Catalog!Import(id) \/ Catalog!ServerEnds(id) \/ Catalog!ServerLosesFiles(id)
                     \/ Catalog!OpenTrack(id) \/ Catalog!DeleteAnswered(id) \/ Catalog!RestoreNext(id)
<1>1. CASE \E f \in FolderIds : Catalog!createFolder(f) \/ Catalog!deleteFolder(f) BY <1>1, LibCreateStep, DeleteStep
<1>2. CASE \E f, g \in FolderIds : Nest(f, g)
  <2>1. PICK f \in FolderIds, g \in FolderIds : Nest(f, g) BY <1>2
  <2>2. CASE Catalog!createSubfolder(f, g) BY <2>2, LibCreateStep
  <2>3. CASE Catalog!reparentFolder(f, g)
    <3>1. TRUE \in BOOLEAN OBVIOUS
    <3> QED BY <2>3, <3>1, MoveStep
  <2>4. CASE \E before \in BOOLEAN : Catalog!reorderFolder(f, g, before) BY <2>4, MoveStep
  <2> QED BY <2>1, <2>2, <2>3, <2>4
<1>3. CASE \E id \in TrackIds : On(id)
  <2>1. PICK id \in TrackIds : On(id) BY <1>3
  <2>2. CASE Catalog!MoveToTrash(id) BY <2>2, TrashStep
  <2>3. CASE Catalog!restoreTrackFromTrash(id) BY <2>3, RestoreStep
  <2>4. CASE \E f \in FolderIds : Catalog!dropOnFolder(id, f) BY <2>4, DropStep
  <2>5. CASE Catalog!Import(id) BY <2>5, LibImportStep
  <2>6. CASE Catalog!ServerEnds(id) \/ Catalog!ServerLosesFiles(id) BY <2>6, EndStep
  <2>7. CASE Catalog!OpenTrack(id) BY <2>7, OpenStep
  <2>8. CASE Catalog!DeleteAnswered(id) BY <2>8, BinStep
  <2>9. CASE Catalog!RestoreNext(id) BY <2>9, AgainStep
  <2> QED BY <2>1, <2>2, <2>3, <2>4, <2>5, <2>6, <2>7, <2>8, <2>9
<1>4. CASE \E c \in completions : Catalog!completeSettledJob(c) BY <1>4, CompleteStep
<1>5. CASE Catalog!ImportPlaylist BY <1>5, PlaylistStep
<1>6. CASE Catalog!TrackOpened BY <1>6, OpenedStep
<1>7. CASE Catalog!ClearBin BY <1>7, OpenStep
<1>12. CASE Catalog!Resync BY <1>12, OpenStep
<1>8. CASE Catalog!TombstonesWritten BY <1>8, PurgeStep
<1>9. CASE Catalog!BinCleared BY <1>9, BinStep
<1>10. CASE Catalog!SyncAnswered BY <1>10, SyncStep
<1>11. CASE Catalog!Reload BY <1>11, ReloadStep
<1>13. \/ \E f \in FolderIds : Catalog!createFolder(f) \/ Catalog!deleteFolder(f)
       \/ \E f, g \in FolderIds : Nest(f, g)
       \/ \E id \in TrackIds : On(id)
       \/ \E c \in completions : Catalog!completeSettledJob(c)
       \/ Catalog!ImportPlaylist \/ Catalog!TrackOpened \/ Catalog!ClearBin \/ Catalog!TombstonesWritten
       \/ Catalog!BinCleared \/ Catalog!Resync \/ Catalog!SyncAnswered \/ Catalog!Reload
  BY Zenon DEF Catalog!Next
<1> HIDE DEF Nest, On
<1> QED BY <1>1, <1>2, <1>3, <1>4, <1>5, <1>6, <1>7, <1>8, <1>9, <1>10, <1>11, <1>12, <1>13, Zenon

LEMMA LibraryStutters ==
  ASSUME Catalog!LibraryIInv, UNCHANGED Catalog!vars
  PROVE Catalog!LibraryIInv' /\ Catalog!TrashedStaysTrashed /\ Catalog!PurgedStaysPurged
<1>1. UNCHANGED <<st, deleted, savedDeleted, server, bin, loading, completions, sync, restore, purged, acts>>
  BY DEF Catalog!vars, Catalog!answers
<1>2. Catalog!OnlyHeardOf' BY <1>1 DEF Catalog!LibraryIInv, Catalog!OnlyHeardOf, Catalog!Heard
<1>3. Catalog!TombstonesStand' BY <1>1 DEF Catalog!LibraryIInv, Catalog!TombstonesStand
<1>4. Catalog!TrashedStaysTrashed /\ Catalog!PurgedStaysPurged BY <1>1, SameLibrary
<1> QED BY <1>1, <1>2, <1>3, <1>4 DEF Catalog!LibraryIInv

(* Each part keeps its own record, so the library's invariant holds of the  *)
(* library alone.                                                           *)
LibraryHolds == part = "library" => Catalog!LibraryIInv

LEMMA LibraryHoldsOn ==
  ASSUME LibraryHolds, [Next]_vars
  PROVE LibraryHolds' /\ (part = "library" => Catalog!TrashedStaysTrashed /\ Catalog!PurgedStaysPurged)
<1>0. part' = part BY DEF Next, vars, Still
<1> SUFFICES ASSUME part = "library"
             PROVE Catalog!LibraryIInv' /\ Catalog!TrashedStaysTrashed /\ Catalog!PurgedStaysPurged
  BY <1>0 DEF LibraryHolds
<1>1. Catalog!LibraryIInv BY DEF LibraryHolds
<1>2. Catalog!LibraryAssumption BY PanelConstants
<1>3. CASE Next
  <2>1. Catalog!Next BY <1>3 DEF Next
  <2> QED BY <1>1, <1>2, <2>1, LibraryStep
<1>4. CASE UNCHANGED vars
  <2>1. UNCHANGED Catalog!vars BY <1>4 DEF vars, catalog, Catalog!vars, Catalog!answers
  <2> QED BY <1>1, <2>1, LibraryStutters
<1> QED BY <1>3, <1>4

(* A trashed track leaves the Trash only by the user's act or by word that  *)
(* its import was cancelled (#542), and what was deleted for good comes     *)
(* back only with an answer that was under way (#521), whatever tracks,     *)
(* folders and playlists there are.                                         *)
THEOREM TheRemovedStaysRemoved == Spec => RemovedStaysRemoved
<1>1. Init => LibraryHolds BY PanelConstants, LibraryStarts DEF Init, LibraryHolds
<1>2. LibraryHolds /\ [Next]_vars
        => LibraryHolds' /\ (part = "library" => Catalog!TrashedStaysTrashed /\ Catalog!PurgedStaysPurged)
  BY LibraryHoldsOn
<1> QED BY <1>1, <1>2, PTL DEF Spec, RemovedStaysRemoved

(* --------------------------- folders in order --------------------------- *)
LEMMA Upto ==
  ASSUME NEW N \in Nat, NEW T, 0 \in T, \A n \in 1..N : n - 1 \in T => n \in T
  PROVE \A n \in 0..N : n \in T
<1> DEFINE Bad == {n \in 0..N : n \notin T}
<1> SUFFICES ASSUME Bad # {} PROVE FALSE OBVIOUS
<1>1. PICK n \in Bad : \A k \in Bad : n <= k
  <2>1. Bad \in SUBSET Nat OBVIOUS
  <2> HIDE DEF Bad
  <2> QED BY <2>1, LeastOfNat
<1>2. n \in 0..N /\ n \notin T OBVIOUS
<1>3. n \in 1..N /\ n - 1 \in 0..N /\ ~(n <= n - 1)
  <2>1. n # 0 BY <1>2
  <2> QED BY <1>2, <2>1
<1>4. n - 1 \in T BY <1>1, <1>3
<1> QED BY <1>2, <1>3, <1>4

(* What is reached, after each number of steps. *)
ReachTurns(r, from, next, N) ==
  /\ r[0] = from /\ \A n \in 1..N : r[n] = r[n - 1] \cup UNION {next[g] : g \in r[n - 1]}
  /\ Catalog!Reach(from, next) = r[N]

LEMMA ReachDefined ==
  ASSUME NEW N \in Nat, N = Catalog!Cardinality(FolderIds), NEW from, NEW next
  PROVE \E r : ReachTurns(r, from, next, N)
<1> DEFINE T(S) == S \cup UNION {next[g] : g \in S}
           G(r, k) == r = [n \in 0..k |-> IF n = 0 THEN from ELSE T(r[n - 1])]
           Good == {k \in Nat : \E r : G(r, k)}
<1>1. \E r : G(r, N)
  <2> HIDE DEF T
  <2>1. 0 \in Good
    <3>1. G([n \in 0..0 |-> from], 0) OBVIOUS
    <3> QED BY <3>1
  <2>2. ASSUME NEW k \in 1..N, k - 1 \in Good PROVE k \in Good
    <3>1. PICK r : G(r, k - 1) BY <2>2
    <3> DEFINE h == [n \in 0..k |-> IF n = k THEN T(r[k - 1]) ELSE r[n]]
    <3>2. ASSUME NEW n \in 0..k PROVE h[n] = IF n = 0 THEN from ELSE T(h[n - 1])
      <4>1. CASE n = k
        <5>1. n - 1 \in 0..k /\ n - 1 # k /\ n # 0 BY <4>1
        <5>2. h[n] = T(r[k - 1]) /\ h[n - 1] = r[n - 1] BY <4>1, <5>1
        <5> QED BY <4>1, <5>1, <5>2
      <4>2. CASE n # k
        <5>1. n \in 0..(k - 1) /\ (n # 0 => n - 1 \in 0..k /\ n - 1 # k) BY <4>2
        <5>2. h[n] = r[n] /\ (n # 0 => h[n - 1] = r[n - 1]) BY <4>2, <5>1
        <5>3. r[n] = IF n = 0 THEN from ELSE T(r[n - 1]) BY <3>1, <5>1
        <5> QED BY <5>2, <5>3
      <4> QED BY <4>1, <4>2
    <3>3. h = [n \in 0..k |-> h[n]] OBVIOUS
    <3> HIDE DEF h
    <3>4. G(h, k) BY <3>2, <3>3
    <3> HIDE DEF G
    <3> QED BY <3>4
  <2> HIDE DEF Good
  <2>3. \A n \in 0..N : n \in Good BY <2>1, <2>2, Upto
  <2>4. N \in Good BY <2>3
  <2> QED BY <2>4 DEF Good
<1> DEFINE c == CHOOSE r : G(r, N)
<1>2. G(c, N) BY <1>1
<1>3. Catalog!Reach(from, next) = c[N] BY DEF Catalog!Reach
<1> HIDE DEF c
<1>4. c[0] = from /\ \A n \in 1..N : c[n] = T(c[n - 1])
  <2> HIDE DEF T
  <2>1. \A n \in 0..N : c[n] = IF n = 0 THEN from ELSE T(c[n - 1]) BY <1>2, Zenon
  <2>2. 0 \in 0..N /\ \A n \in 1..N : n \in 0..N /\ n # 0 OBVIOUS
  <2> QED BY <2>1, <2>2, Zenon
<1> QED BY <1>3, <1>4 DEF ReachTurns

(* Folders reached are the least set that has the first ones and, with a   *)
(* folder, the next ones: as many steps as there are folders are enough.   *)
ClosedUnder(S, next) == \A g \in S : next[g] \subseteq S

LEMMA ReachIsClosed ==
  ASSUME IsFiniteSet(FolderIds), NEW N, N = Cardinality(FolderIds), NEW from \in SUBSET FolderIds,
         NEW next \in [FolderIds -> SUBSET FolderIds], NEW r, ReachTurns(r, from, next, N)
  PROVE r[N] \subseteq FolderIds /\ from \subseteq r[N] /\ ClosedUnder(r[N], next)
<1>0. N \in Nat BY FS_CardinalityType
<1>1. \A n \in 0..N : r[n] \subseteq FolderIds /\ from \subseteq r[n]
  <2> DEFINE T == {n \in Nat : r[n] \subseteq FolderIds /\ from \subseteq r[n]}
  <2>1. 0 \in T BY DEF ReachTurns
  <2>2. ASSUME NEW n \in 1..N, n - 1 \in T PROVE n \in T
    <3>1. r[n] = r[n - 1] \cup UNION {next[g] : g \in r[n - 1]} BY DEF ReachTurns
    <3>2. \A g \in r[n - 1] : next[g] \subseteq FolderIds BY <2>2
    <3>3. r[n] \subseteq FolderIds /\ from \subseteq r[n] BY <2>2, <3>1, <3>2
    <3> QED BY <3>3
  <2> HIDE DEF T
  <2>3. \A n \in 0..N : n \in T BY <1>0, <2>1, <2>2, Upto
  <2> QED BY <2>3 DEF T
<1>2. N \in 0..N BY <1>0
<1>3. ClosedUnder(r[N], next)
  <2> SUFFICES ASSUME ~ClosedUnder(r[N], next) PROVE FALSE OBVIOUS
  <2>1. ASSUME NEW n \in 0..N, ClosedUnder(r[n], next) PROVE FALSE
    <3> DEFINE T == {m \in Nat : n + m <= N => r[n + m] = r[n]}
    <3>1. 0 \in T BY <1>0
    <3>2. ASSUME NEW m \in 1..N, m - 1 \in T PROVE m \in T
      <4> SUFFICES ASSUME n + m <= N PROVE r[n + m] = r[n] BY <1>0
      <4>1. n + m \in 1..N /\ (n + m) - 1 = n + (m - 1) /\ n + (m - 1) <= N BY <1>0
      <4>2. r[n + m] = r[n + (m - 1)] \cup UNION {next[g] : g \in r[n + (m - 1)]} BY <4>1 DEF ReachTurns
      <4>3. r[n + (m - 1)] = r[n] BY <3>2, <4>1
      <4> QED BY <2>1, <4>2, <4>3 DEF ClosedUnder
    <3> HIDE DEF T
    <3>3. \A m \in 0..N : m \in T BY <1>0, <3>1, <3>2, Upto
    <3>4. N - n \in 0..N /\ n + (N - n) = N /\ N <= N BY <1>0
    <3>5. r[N] = r[n] BY <3>3, <3>4 DEF T
    <3> QED BY <2>1, <3>5
  <2> DEFINE T == {n \in Nat : n <= Cardinality(r[n])}
  <2>2. \A n \in 0..N : IsFiniteSet(r[n]) /\ Cardinality(r[n]) \in Nat BY <1>1, FS_Subset, FS_CardinalityType
  <2>3. 0 \in T
    <3>1. 0 \in 0..N BY <1>0
    <3> QED BY <2>2, <3>1
  <2>4. ASSUME NEW n \in 1..N, n - 1 \in T PROVE n \in T
    <3>1. n - 1 \in 0..N /\ n \in 0..N BY <1>0
    <3>2. r[n] = r[n - 1] \cup UNION {next[g] : g \in r[n - 1]} BY DEF ReachTurns
    <3>3. ~ClosedUnder(r[n - 1], next) BY <2>1, <3>1
    <3>4. r[n - 1] \in SUBSET r[n] /\ r[n] # r[n - 1] BY <3>2, <3>3 DEF ClosedUnder
    <3>5. Cardinality(r[n - 1]) <= Cardinality(r[n]) /\ Cardinality(r[n]) # Cardinality(r[n - 1])
      BY <2>2, <3>1, <3>4, FS_Subset
    <3>6. Cardinality(r[n - 1]) \in Nat /\ Cardinality(r[n]) \in Nat /\ n - 1 <= Cardinality(r[n - 1])
      BY <2>2, <2>4, <3>1
    <3> DEFINE a == Cardinality(r[n - 1])
               b == Cardinality(r[n])
    <3> HIDE DEF a, b
    <3>7. n <= b BY <3>5, <3>6 DEF a, b
    <3> QED BY <3>7 DEF b
  <2> HIDE DEF T
  <2>5. \A n \in 0..N : n \in T BY <1>0, <2>3, <2>4, Upto
  <2>6. N <= Cardinality(r[N]) BY <1>2, <2>5 DEF T
  <2>7. r[N] \in SUBSET FolderIds BY <1>1, <1>2
  <2>8. Cardinality(r[N]) <= N BY <2>7, FS_Subset
  <2>9. Cardinality(r[N]) = N BY <1>0, <1>2, <2>2, <2>6, <2>8
  <2>10. r[N] = FolderIds BY <2>7, <2>9, FS_Subset
  <2> QED BY <2>10 DEF ClosedUnder
<1> QED BY <1>1, <1>2, <1>3

LEMMA ReachIsLeast ==
  ASSUME IsFiniteSet(FolderIds), NEW from \in SUBSET FolderIds, NEW next \in [FolderIds -> SUBSET FolderIds],
         NEW R, R = Catalog!Reach(from, next)
  PROVE /\ R \subseteq FolderIds /\ from \subseteq R /\ ClosedUnder(R, next)
        /\ \A S \in SUBSET FolderIds : from \subseteq S /\ ClosedUnder(S, next) => R \subseteq S
<1> DEFINE N == Cardinality(FolderIds)
<1>0. N \in Nat /\ N = Catalog!Cardinality(FolderIds) BY FS_CardinalityType, CatalogCounts
<1> HIDE DEF N
<1>1. PICK r : ReachTurns(r, from, next, N) BY <1>0, ReachDefined
<1>2. R = r[N] BY <1>1 DEF ReachTurns
<1>3. R \subseteq FolderIds /\ from \subseteq R /\ ClosedUnder(R, next)
  <2>1. N = Cardinality(FolderIds) BY DEF N
  <2>2. r[N] \subseteq FolderIds /\ from \subseteq r[N] /\ ClosedUnder(r[N], next) BY <1>1, <2>1, ReachIsClosed
  <2> QED BY <1>2, <2>2
<1>4. ASSUME NEW S \in SUBSET FolderIds, from \subseteq S, ClosedUnder(S, next) PROVE R \subseteq S
  <2> DEFINE T == {n \in Nat : r[n] \subseteq S}
  <2>1. 0 \in T BY <1>1, <1>4 DEF ReachTurns
  <2>2. ASSUME NEW n \in 1..N, n - 1 \in T PROVE n \in T
    <3>1. r[n] = r[n - 1] \cup UNION {next[g] : g \in r[n - 1]} BY <1>1 DEF ReachTurns
    <3>2. r[n - 1] \subseteq S BY <2>2
    <3>3. r[n] \subseteq S BY <1>4, <3>1, <3>2 DEF ClosedUnder
    <3> QED BY <3>3
  <2> HIDE DEF T
  <2>3. \A n \in 0..N : n \in T BY <1>0, <2>1, <2>2, Upto
  <2>4. N \in T BY <1>0, <2>3
  <2> QED BY <1>2, <2>4 DEF T
<1> QED BY <1>3, <1>4

(* What is above a folder, by the parents alone.                           *)
Parents == [FolderIds -> FolderIds \cup {Nowhere}]
UpBy(P) == [f \in FolderIds |-> {P[f]} \ {Nowhere}]
Above(P, f) == Catalog!Reach(UpBy(P)[f], UpBy(P))
Upward(P, S) == \A g \in S : P[g] \in S \cup {Nowhere}

LEMMA AncestorsAre == ASSUME NEW L, NEW f PROVE Catalog!Ancestors(L, f) = Above(L.parent, f)
BY DEF Catalog!Ancestors, Catalog!Up, Above, UpBy

LEMMA AboveIsLeast ==
  ASSUME Catalog!LibraryAssumption, NEW P \in Parents, NEW f \in FolderIds, NEW A, A = Above(P, f)
  PROVE /\ A \subseteq FolderIds /\ P[f] \in A \cup {Nowhere} /\ Upward(P, A)
        /\ \A S \in SUBSET FolderIds : P[f] \in S \cup {Nowhere} /\ Upward(P, S) => A \subseteq S
<1> DEFINE U == UpBy(P)
<1>0. IsFiniteSet(FolderIds) /\ Nowhere \notin FolderIds
  BY CatalogCounts DEF Catalog!LibraryAssumption
<1>1. U \in [FolderIds -> SUBSET FolderIds] /\ \A g \in FolderIds : U[g] = {P[g]} \ {Nowhere}
  BY DEF Parents, UpBy
<1>2. A = Catalog!Reach(U[f], U) BY DEF Above
<1> HIDE DEF U
<1>3. U[f] \in SUBSET FolderIds BY <1>1
<1>4. /\ A \subseteq FolderIds /\ U[f] \subseteq A /\ ClosedUnder(A, U)
      /\ \A S \in SUBSET FolderIds : U[f] \subseteq S /\ ClosedUnder(S, U) => A \subseteq S
  BY <1>0, <1>1, <1>2, <1>3, ReachIsLeast
<1>5. ASSUME NEW S \in SUBSET FolderIds PROVE (U[f] \subseteq S <=> P[f] \in S \cup {Nowhere}) /\ (ClosedUnder(S, U) <=> Upward(P, S))
  <2>1. \A g \in FolderIds : U[g] \subseteq S <=> P[g] \in S \cup {Nowhere} BY <1>0, <1>1
  <2> QED BY <2>1 DEF ClosedUnder, Upward
<1>6. A \in SUBSET FolderIds BY <1>4
<1>7. P[f] \in A \cup {Nowhere} /\ Upward(P, A) BY <1>4, <1>5, <1>6
<1>8. \A S \in SUBSET FolderIds : P[f] \in S \cup {Nowhere} /\ Upward(P, S) => A \subseteq S BY <1>4, <1>5
<1> QED BY <1>6, <1>7, <1>8

LEMMA AboveWithin ==
  ASSUME Catalog!LibraryAssumption, NEW P \in Parents, NEW f \in FolderIds, NEW S \in SUBSET FolderIds,
         P[f] \in S \cup {Nowhere}, Upward(P, S)
  PROVE Above(P, f) \subseteq S
BY AboveIsLeast

Forest(P) == \A f \in FolderIds : f \notin Above(P, f)

(* A folder comes under one that it is not above.                           *)
LEMMA Grafted ==
  ASSUME Catalog!LibraryAssumption, NEW P \in Parents, Forest(P), NEW f \in FolderIds, NEW g \in FolderIds,
         f # g, f \notin Above(P, g), NEW Q, Q = [P EXCEPT ![f] = g]
  PROVE Q \in Parents /\ Forest(Q)
<1>0. Q \in Parents BY DEF Parents
<1>1. Q[f] = g /\ \A h \in FolderIds \ {f} : Q[h] = P[h] BY DEF Parents
<1> DEFINE G == {g} \cup Above(P, g)
<1>2. G \in SUBSET FolderIds /\ Upward(P, G) /\ f \notin G
  <2> DEFINE A == Above(P, g)
  <2>1. A \subseteq FolderIds /\ P[g] \in A \cup {Nowhere} /\ Upward(P, A) /\ f \notin A BY AboveIsLeast
  <2> HIDE DEF A
  <2>2. {g} \cup A \in SUBSET FolderIds /\ f \notin {g} \cup A BY <2>1
  <2>3. Upward(P, {g} \cup A) BY <2>1 DEF Upward
  <2> QED BY <2>2, <2>3 DEF A
<1>3. g \in G OBVIOUS
<1> HIDE DEF G
<1>4. Upward(Q, G) BY <1>1, <1>2 DEF Upward
<1>5. ASSUME NEW h \in FolderIds PROVE h \notin Above(Q, h)
  <2> DEFINE A == Above(P, h)
             B == Above(Q, h)
  <2>1. A \in SUBSET FolderIds /\ P[h] \in A \cup {Nowhere} /\ Upward(P, A) /\ h \notin A
    BY AboveIsLeast DEF Forest
  <2>2. \A S \in SUBSET FolderIds : P[h] \in S \cup {Nowhere} /\ Upward(P, S) => A \subseteq S BY AboveIsLeast
  <2>3. ASSUME NEW S \in SUBSET FolderIds, Q[h] \in S \cup {Nowhere}, Upward(Q, S) PROVE B \subseteq S
    <3>1. Above(Q, h) \subseteq S BY <1>0, <2>3, AboveWithin, Zenon
    <3> QED BY <3>1
  <2> HIDE DEF A, B
  <2>4. CASE h = f
    <3>1. Q[h] \in G \cup {Nowhere} BY <1>1, <1>3, <2>4
    <3>2. B \subseteq G BY <1>2, <1>4, <2>3, <3>1
    <3> QED BY <1>2, <2>4, <3>2 DEF B
  <2>5. CASE h # f /\ f \notin A
    <3>1. Q[h] \in A \cup {Nowhere} BY <1>1, <2>1, <2>5
    <3>2. Upward(Q, A) BY <1>1, <2>1, <2>5 DEF Upward
    <3>3. B \subseteq A BY <2>1, <2>3, <3>1, <3>2
    <3> QED BY <2>1, <3>3 DEF B
  <2>6. CASE h # f /\ f \in A
    <3> DEFINE S == A \cup G
    <3>1. S \in SUBSET FolderIds BY <1>2, <2>1
    <3>2. Q[h] \in S \cup {Nowhere} BY <1>1, <2>1, <2>6
    <3>3. Upward(Q, S)
      <4> SUFFICES ASSUME NEW x \in S PROVE Q[x] \in S \cup {Nowhere} BY DEF Upward
      <4>1. CASE x = f BY <1>1, <1>3, <4>1
      <4>2. CASE x # f
        <5>1. Q[x] = P[x] BY <1>1, <3>1, <4>2
        <5>2. CASE x \in A BY <2>1, <5>1, <5>2 DEF Upward
        <5>3. CASE x \in G BY <1>2, <5>1, <5>3 DEF Upward
        <5> QED BY <5>2, <5>3
      <4> QED BY <4>1, <4>2
    <3>4. h \notin G
      <4> SUFFICES ASSUME h \in G PROVE FALSE OBVIOUS
      <4>1. P[h] \in G \cup {Nowhere} BY <1>2 DEF Upward
      <4>2. A \subseteq G BY <1>2, <2>2, <4>1
      <4> QED BY <1>2, <2>6, <4>2
    <3>5. h \notin S BY <2>1, <3>4
    <3> HIDE DEF S
    <3>6. B \subseteq S BY <2>3, <3>1, <3>2, <3>3
    <3> QED BY <3>5, <3>6 DEF B
  <2> QED BY <2>4, <2>5, <2>6
<1> QED BY <1>0, <1>5 DEF Forest

(* Some folders become roots.                                               *)
LEMMA Pruned ==
  ASSUME Catalog!LibraryAssumption, NEW P \in Parents, Forest(P), NEW Q \in Parents,
         \A h \in FolderIds : Q[h] \in {P[h], Nowhere}
  PROVE Forest(Q)
<1> SUFFICES ASSUME NEW h \in FolderIds PROVE h \notin Above(Q, h) BY DEF Forest
<1> DEFINE A == Above(P, h)
           B == Above(Q, h)
<1>1. A \in SUBSET FolderIds /\ P[h] \in A \cup {Nowhere} /\ Upward(P, A) /\ h \notin A
  BY AboveIsLeast DEF Forest
<1>2. \A S \in SUBSET FolderIds : Q[h] \in S \cup {Nowhere} /\ Upward(Q, S) => B \subseteq S BY AboveIsLeast
<1> HIDE DEF A, B
<1>3. Q[h] \in A \cup {Nowhere} BY <1>1
<1>4. Upward(Q, A) BY <1>1 DEF Upward
<1>5. B \subseteq A BY <1>1, <1>2, <1>3, <1>4
<1> QED BY <1>1, <1>5 DEF B

(* Lists of folders without doubles.                                        *)
Ranked(O) == O \in Seq(FolderIds) /\ Catalog!NoneTwice(O)

LEMMA Appended ==
  ASSUME NEW O, Ranked(O), NEW f \in FolderIds, f \notin Catalog!Range2Set(O), NEW R, R \in {Append(O, f), <<f>> \o O}
  PROVE Ranked(R) /\ Catalog!Range2Set(R) = Catalog!Range2Set(O) \cup {f}
<1> DEFINE n == Len(O)
<1>0. n \in Nat /\ O \in Seq(FolderIds) /\ (\A i, j \in 1..n : O[i] = O[j] => i = j) /\ \A i \in 1..n : O[i] # f
  BY DEF Ranked, Catalog!NoneTwice, Catalog!Range2Set
<1>1. R \in Seq(FolderIds) /\ Len(R) = n + 1
  <2>1. CASE R = Append(O, f) BY <1>0, <2>1
  <2>2. CASE R = <<f>> \o O
    <3>1. <<f>> \in Seq(FolderIds) /\ Len(<<f>>) = 1 OBVIOUS
    <3> QED BY <1>0, <2>2, <3>1
  <2> QED BY <2>1, <2>2
<1>2. CASE R = Append(O, f)
  <2>1. \A i \in 1..(n + 1) : R[i] = IF i = n + 1 THEN f ELSE O[i] BY <1>0, <1>2
  <2> HIDE DEF n
  <2>2. \A i \in 1..(n + 1) : i # n + 1 => i \in 1..n BY <1>0
  <2>3. \A i \in 1..n : i \in 1..(n + 1) /\ i # n + 1 BY <1>0
  <2>4. n + 1 \in 1..(n + 1) BY <1>0
  <2>5. \A i, j \in 1..(n + 1) : R[i] = R[j] => i = j BY <1>0, <2>1, <2>2
  <2>6. {R[i] : i \in 1..(n + 1)} = {O[i] : i \in 1..n} \cup {f} BY <2>1, <2>2, <2>3, <2>4
  <2> QED BY <1>1, <2>5, <2>6 DEF Ranked, Catalog!NoneTwice, Catalog!Range2Set, n
<1>3. CASE R = <<f>> \o O
  <2>1. \A i \in 1..(n + 1) : R[i] = IF i = 1 THEN f ELSE O[i - 1] BY <1>0, <1>3
  <2> HIDE DEF n
  <2>2. \A i \in 1..(n + 1) : i # 1 => i - 1 \in 1..n BY <1>0
  <2>3. \A i \in 1..n : i + 1 \in 1..(n + 1) /\ i + 1 # 1 /\ (i + 1) - 1 = i BY <1>0
  <2>4. 1 \in 1..(n + 1) BY <1>0
  <2>5. \A i, j \in 1..(n + 1) : R[i] = R[j] => i = j
    <3> SUFFICES ASSUME NEW i \in 1..(n + 1), NEW j \in 1..(n + 1), R[i] = R[j] PROVE i = j OBVIOUS
    <3>1. CASE i = 1 /\ j = 1 BY <3>1
    <3>2. CASE i = 1 /\ j # 1 BY <1>0, <2>1, <2>2, <3>2
    <3>3. CASE i # 1 /\ j = 1 BY <1>0, <2>1, <2>2, <3>3
    <3>4. CASE i # 1 /\ j # 1
      <4>1. O[i - 1] = O[j - 1] /\ i - 1 \in 1..n /\ j - 1 \in 1..n BY <2>1, <2>2, <3>4
      <4>2. i - 1 = j - 1 BY <1>0, <4>1
      <4> QED BY <1>0, <4>2
    <3> QED BY <3>1, <3>2, <3>3, <3>4
  <2>6. {R[i] : i \in 1..(n + 1)} = {O[i] : i \in 1..n} \cup {f}
    <3>1. \A i \in 1..n : R[i + 1] = O[i] BY <2>1, <2>3
    <3>2. R[1] = f BY <2>1, <2>4
    <3>3. \A i \in 1..(n + 1) : R[i] = f \/ \E j \in 1..n : R[i] = O[j] BY <2>1, <2>2
    <3> QED BY <2>3, <2>4, <3>1, <3>2, <3>3
  <2> QED BY <1>1, <2>5, <2>6 DEF Ranked, Catalog!NoneTwice, Catalog!Range2Set, n
<1> QED BY <1>2, <1>3

LEMMA KeptRanked ==
  ASSUME NEW O, Ranked(O), NEW gone, NEW R, R = Catalog!Kept(O, gone)
  PROVE Ranked(R) /\ Catalog!Range2Set(R) = Catalog!Range2Set(O) \ gone
<1>0. O \in Seq(FolderIds) /\ \A i, j \in 1..Len(O) : O[i] = O[j] => i = j BY DEF Ranked, Catalog!NoneTwice
<1>1. R = Cards!Kept(O, gone) BY DEF Catalog!Kept, Cards!Kept
<1>2. R \in Seq(FolderIds) /\ \E h : KeptSoFar(h, R, O, gone, Len(O)) BY <1>0, <1>1, KeptIs
<1>3. PICK h : KeptSoFar(h, R, O, gone, Len(O)) BY <1>2
<1>4. /\ \A i \in 1..Len(R) : h[i] \in 1..Len(O) /\ R[i] = O[h[i]] /\ R[i] \notin gone
      /\ \A i, k \in 1..Len(R) : i < k => h[i] < h[k]
      /\ \A k \in 1..Len(O) : O[k] \notin gone => \E i \in 1..Len(R) : h[i] = k
  BY <1>3 DEF KeptSoFar
<1>5. \A i, k \in 1..Len(R) : R[i] = R[k] => i = k
  <2> SUFFICES ASSUME NEW i \in 1..Len(R), NEW k \in 1..Len(R), R[i] = R[k], i # k PROVE FALSE OBVIOUS
  <2>1. h[i] = h[k] /\ h[i] \in 1..Len(O) BY <1>0, <1>4
  <2>2. Len(O) \in Nat /\ Len(R) \in Nat BY <1>0, <1>2
  <2>3. i < k \/ k < i BY <2>2
  <2>4. h[i] < h[k] \/ h[k] < h[i] BY <1>4, <2>3
  <2>5. h[i] \in Int BY <2>1, <2>2
  <2> QED BY <2>1, <2>4, <2>5
<1>6. \A i \in 1..Len(R) : R[i] \in Catalog!Range2Set(O) \ gone BY <1>4 DEF Catalog!Range2Set
<1>7. \A x \in Catalog!Range2Set(O) \ gone : \E i \in 1..Len(R) : R[i] = x BY <1>4 DEF Catalog!Range2Set
<1>8. Catalog!Range2Set(R) = Catalog!Range2Set(O) \ gone BY <1>6, <1>7 DEF Catalog!Range2Set
<1> QED BY <1>2, <1>5, <1>8 DEF Ranked, Catalog!NoneTwice

LEMMA InsertRanked ==
  ASSUME NEW O, Ranked(O), NEW f \in FolderIds, f \notin Catalog!Range2Set(O), NEW k \in 1..(Len(O) + 1),
         NEW R, R = Catalog!InsertAt(O, k, f)
  PROVE Ranked(R) /\ Catalog!Range2Set(R) = Catalog!Range2Set(O) \cup {f}
<1> DEFINE n == Len(O)
<1>0. n \in Nat /\ O \in Seq(FolderIds) /\ (\A i, j \in 1..n : O[i] = O[j] => i = j) /\ \A i \in 1..n : O[i] # f
  BY DEF Ranked, Catalog!NoneTwice, Catalog!Range2Set
<1> DEFINE a == SubSeq(O, 1, k - 1)
           b == SubSeq(O, k, n)
<1>1. R = (a \o <<f>>) \o b BY DEF Catalog!InsertAt
<1>2. /\ a \in Seq(FolderIds) /\ Len(a) = k - 1 /\ \A i \in 1..(k - 1) : a[i] = O[i]
      /\ b \in Seq(FolderIds) /\ Len(b) = n + 1 - k /\ \A i \in 1..(n + 1 - k) : b[i] = O[k + i - 1]
  BY <1>0
<1> HIDE DEF a, b, n
<1>3. k \in Nat /\ 1 <= k /\ k <= n + 1 BY <1>0 DEF n
<1>4. R \in Seq(FolderIds) /\ Len(R) = n + 1
  <2>1. <<f>> \in Seq(FolderIds) /\ Len(<<f>>) = 1 OBVIOUS
  <2>2. a \o <<f>> \in Seq(FolderIds) /\ Len(a \o <<f>>) = k BY <1>2, <1>3, <2>1
  <2> DEFINE c == a \o <<f>>
  <2> HIDE DEF c
  <2>3. R = c \o b /\ c \in Seq(FolderIds) /\ Len(c) = k BY <1>1, <2>2 DEF c
  <2>4. b \in Seq(FolderIds) /\ Len(b) = n + 1 - k BY <1>2
  <2>5. R \in Seq(FolderIds) /\ Len(R) = Len(c) + Len(b) BY <2>3, <2>4, ConcatProperties
  <2> QED BY <1>0, <1>3, <2>3, <2>4, <2>5
<1>5. \A i \in 1..(n + 1) : R[i] = IF i < k THEN O[i] ELSE IF i = k THEN f ELSE O[i - 1]
  <2> SUFFICES ASSUME NEW i \in 1..(n + 1) PROVE R[i] = IF i < k THEN O[i] ELSE IF i = k THEN f ELSE O[i - 1] OBVIOUS
  <2>1. CASE i < k
    <3>1. i \in 1..(k - 1) BY <1>3, <2>1
    <3>2. R[i] = a[i] BY <1>1, <1>2, <1>3, <3>1
    <3> QED BY <1>2, <2>1, <3>1, <3>2
  <2>2. CASE i = k
    <3>1. R[i] = f BY <1>1, <1>2, <1>3, <2>2
    <3> QED BY <1>3, <2>2, <3>1
  <2>3. CASE i > k
    <3>1. i - k \in 1..(n + 1 - k) /\ k + (i - k) - 1 = i - 1 BY <1>0, <1>3, <2>3
    <3>2. R[i] = b[i - k] BY <1>1, <1>2, <1>3, <2>3, <3>1
    <3>3. b[i - k] = O[i - 1] BY <1>2, <3>1
    <3> QED BY <1>3, <2>3, <3>2, <3>3
  <2> QED BY <1>0, <1>3, <2>1, <2>2, <2>3
<1> DEFINE from(i) == IF i < k THEN i ELSE i - 1
<1>6. ASSUME NEW i \in 1..(n + 1), i # k PROVE from(i) \in 1..n /\ R[i] = O[from(i)]
  BY <1>0, <1>3, <1>5, <1>6
<1>7. ASSUME NEW i \in 1..(n + 1), NEW j \in 1..(n + 1), R[i] = R[j] PROVE i = j
  <2>1. R[k] = f /\ k \in 1..(n + 1) BY <1>0, <1>3, <1>5
  <2>2. CASE i # k /\ j # k
    <3>1. from(i) = from(j) BY <1>0, <1>6, <1>7, <2>2
    <3> QED BY <1>0, <1>3, <2>2, <3>1
  <2>3. CASE i = k \/ j = k
    <3> HIDE DEF from
    <3> QED BY <1>0, <1>6, <1>7, <2>1, <2>3
  <2> QED BY <2>2, <2>3
<1>8. {R[i] : i \in 1..(n + 1)} = {O[i] : i \in 1..n} \cup {f}
  <2>1. \A i \in 1..(n + 1) : R[i] = f \/ \E j \in 1..n : R[i] = O[j] BY <1>0, <1>3, <1>5, <1>6
  <2>2. k \in 1..(n + 1) /\ R[k] = f BY <1>0, <1>3, <1>5
  <2>3. ASSUME NEW j \in 1..n PROVE \E i \in 1..(n + 1) : R[i] = O[j]
    <3>1. CASE j < k
      <4>1. j \in 1..(n + 1) BY <1>0
      <4> QED BY <1>5, <3>1, <4>1
    <3>2. CASE j >= k
      <4>1. j + 1 \in 1..(n + 1) /\ ~(j + 1 < k) /\ j + 1 # k /\ (j + 1) - 1 = j BY <1>0, <1>3, <3>2
      <4>2. R[j + 1] = O[(j + 1) - 1] BY <1>5, <4>1
      <4> QED BY <4>1, <4>2
    <3> QED BY <1>0, <1>3, <3>1, <3>2
  <2> QED BY <2>1, <2>2, <2>3
<1> QED BY <1>4, <1>7, <1>8 DEF Ranked, Catalog!NoneTwice, Catalog!Range2Set, n

(* What an import leaves of the order: no folder goes, and what lies in     *)
(* none did so before, or is in A.                                          *)
Loose(L) == Catalog!Present(L) \ Catalog!Placed(L)
Tidies(L, R, A) ==
  /\ Catalog!InOrder(R) /\ Catalog!Range2Set(L.order) \subseteq Catalog!Range2Set(R.order)
  /\ Loose(R) \subseteq Loose(L) \cup A

Shelved(O, P, I) ==
  /\ Ranked(O) /\ {TrashId, UnsortedId} \subseteq Catalog!Range2Set(O)
  /\ P \in Parents /\ P[TrashId] = Nowhere /\ Forest(P)
  /\ \A f \in FolderIds \ Catalog!Range2Set(O) : I[f] = {} /\ P[f] = Nowhere
  /\ \A f \in Catalog!Range2Set(O) \ {UnsortedId} : P[f] \in Catalog!Range2Set(O) \cup {Nowhere}
Holdings == [FolderIds -> SUBSET TrackIds]
Entries == [TrackIds -> Catalog!Statuses \cup {"absent"}]

LEMMA InOrderIs ==
  ASSUME NEW L
  PROVE Catalog!InOrder(L) <=> /\ L.tracks \in Entries /\ L.items \in Holdings
                               /\ L.current \in TrackIds \cup {Nowhere} /\ Shelved(L.order, L.parent, L.items)
<1>1. Forest(L.parent) <=> \A f \in FolderIds : f \notin Catalog!Ancestors(L, f) BY AncestorsAre DEF Forest
<1> QED BY <1>1 DEF Catalog!InOrder, Catalog!LibTypeOK, Shelved, Ranked, Parents, Holdings, Entries

LEMMA GoneAreEmpty ==
  ASSUME NEW L, Catalog!InOrder(L)
  PROVE /\ Ranked(L.order) /\ Catalog!Range2Set(L.order) \subseteq FolderIds
        /\ L.items \in Holdings /\ L.tracks \in Entries /\ L.current \in TrackIds \cup {Nowhere}
        /\ \A f \in FolderIds \ Catalog!Range2Set(L.order) : L.items[f] = {}
<1>1. Ranked(L.order) /\ L.items \in Holdings /\ L.tracks \in Entries /\ L.current \in TrackIds \cup {Nowhere}
      /\ \A f \in FolderIds \ Catalog!Range2Set(L.order) : L.items[f] = {}
  BY InOrderIs DEF Shelved
<1>2. Catalog!Range2Set(L.order) \subseteq FolderIds BY <1>1 DEF Ranked, Catalog!Range2Set
<1> QED BY <1>1, <1>2

LEMMA PlacedIs ==
  ASSUME NEW L, NEW i
  PROVE i \in Catalog!Placed(L) <=> \E f \in Catalog!Range2Set(L.order) : i \in L.items[f]
BY DEF Catalog!Placed

LEMMA Shelves ==
  ASSUME Catalog!LibraryAssumption, NEW L, Catalog!InOrder(L), NEW T \in Entries, NEW O, Ranked(O),
         Catalog!Range2Set(L.order) \subseteq Catalog!Range2Set(O), NEW I \in Holdings,
         \A f \in FolderIds \ Catalog!Range2Set(O) : I[f] = {}, NEW c \in TrackIds \cup {Nowhere}, NEW R,
         R = [tracks |-> T, order |-> O, parent |-> L.parent, items |-> I, current |-> c], NEW A,
         \A i \in TrackIds : T[i] # "absent" =>
           i \in A \/ i \in Loose(L) \/ \E f \in Catalog!Range2Set(O) : i \in I[f]
  PROVE Tidies(L, R, A)
<1>1. R.tracks = T /\ R.order = O /\ R.parent = L.parent /\ R.items = I /\ R.current = c OBVIOUS
<1>2. Shelved(L.order, L.parent, L.items) BY InOrderIs
<1>3. Shelved(O, L.parent, I)
  <2>1. {TrashId, UnsortedId} \subseteq Catalog!Range2Set(O) BY <1>2 DEF Shelved
  <2>2. \A f \in FolderIds \ Catalog!Range2Set(O) : L.parent[f] = Nowhere BY <1>2 DEF Shelved
  <2>3. Catalog!Range2Set(O) \subseteq FolderIds BY DEF Ranked, Catalog!Range2Set
  <2>4. ASSUME NEW f \in Catalog!Range2Set(O) \ {UnsortedId} PROVE L.parent[f] \in Catalog!Range2Set(O) \cup {Nowhere}
    BY <1>2, <2>3 DEF Shelved
  <2>5. L.parent \in Parents /\ L.parent[TrashId] = Nowhere /\ Forest(L.parent) BY <1>2 DEF Shelved
  <2> QED BY <2>1, <2>2, <2>4, <2>5 DEF Shelved
<1>4. Catalog!InOrder(R) BY <1>1, <1>3, InOrderIs
<1>5. Loose(R) \subseteq Loose(L) \cup A
  <2> SUFFICES ASSUME NEW i \in Loose(R) PROVE i \in A \/ i \in Loose(L) OBVIOUS
  <2>1. i \in TrackIds /\ T[i] # "absent" BY <1>1 DEF Loose, Catalog!Present
  <2>2. ~ \E f \in Catalog!Range2Set(O) : i \in I[f] BY <1>1, PlacedIs DEF Loose
  <2> QED BY <2>1, <2>2
<1> QED BY <1>1, <1>4, <1>5 DEF Tidies

LEMMA TidiesOn ==
  ASSUME NEW L, NEW Q, NEW R, NEW A, NEW B, Tidies(L, Q, A), Tidies(Q, R, B)
  PROVE Tidies(L, R, A \cup B)
BY DEF Tidies

LEMMA LandTidies ==
  ASSUME Catalog!LibraryAssumption, NEW L, Catalog!Whole(L), Catalog!InOrder(L), NEW id \in TrackIds,
         NEW R, R = Catalog!Land(L, id)
  PROVE Tidies(L, R, {}) /\ id \in Catalog!Placed(R)
<1> DEFINE f == Catalog!landingFolder(L)
           O == IF f \in Catalog!Range2Set(L.order) THEN L.order ELSE <<f>> \o L.order
           I == [L.items EXCEPT ![f] = @ \cup {id}]
<1>1. R = [tracks |-> L.tracks, order |-> O, parent |-> L.parent, items |-> I, current |-> L.current]
  <2>1. R = [L EXCEPT !.order = O, !.items[f] = @ \cup {id}] BY DEF Catalog!Land
  <2> HIDE DEF O, f
  <2>2. R = [L EXCEPT !.order = O, !.items = I] BY <2>1
  <2> HIDE DEF I
  <2> QED BY <2>2 DEF Catalog!Whole
<1>2. f \in FolderIds
  <2> DEFINE open == Catalog!Kept(L.order, {TrashId})
  <2>1. f = IF open = <<>> THEN UnsortedId ELSE open[1] BY DEF Catalog!landingFolder
  <2>2. open \in Seq(FolderIds) BY GoneAreEmpty, KeptRanked DEF Ranked
  <2> HIDE DEF open, f
  <2>3. open # <<>> => open[1] \in FolderIds BY <2>2
  <2> QED BY <2>1, <2>3 DEF Catalog!LibraryAssumption
<1> HIDE DEF f
<1>3. Ranked(O) /\ Catalog!Range2Set(O) = Catalog!Range2Set(L.order) \cup {f}
  <2>1. CASE f \in Catalog!Range2Set(L.order) BY <2>1, GoneAreEmpty
  <2>2. CASE f \notin Catalog!Range2Set(L.order)
    <3>1. Ranked(L.order) BY GoneAreEmpty
    <3>2. O \in {Append(L.order, f), <<f>> \o L.order} BY <2>2
    <3> HIDE DEF O
    <3> QED BY <1>2, <2>2, <3>1, <3>2, Appended
  <2> QED BY <2>1, <2>2
<1> HIDE DEF O
<1>4. I \in Holdings /\ id \in I[f] /\ (\A g \in FolderIds : L.items[g] \subseteq I[g])
      /\ \A g \in FolderIds \ {f} : I[g] = L.items[g]
  BY <1>2 DEF Catalog!Whole, Holdings
<1> HIDE DEF I
<1>5. \A g \in FolderIds \ Catalog!Range2Set(O) : I[g] = {} BY <1>3, <1>4, GoneAreEmpty
<1>6. ASSUME NEW i \in TrackIds, L.tracks[i] # "absent"
      PROVE i \in {} \/ i \in Loose(L) \/ \E g \in Catalog!Range2Set(O) : i \in I[g]
  <2>1. CASE i \in Catalog!Placed(L)
    <3>1. PICK g \in Catalog!Range2Set(L.order) : i \in L.items[g] BY <2>1, PlacedIs
    <3>2. g \in FolderIds /\ g \in Catalog!Range2Set(O) BY <1>3, GoneAreEmpty
    <3> QED BY <1>4, <3>1, <3>2
  <2>2. CASE i \notin Catalog!Placed(L) BY <1>6, <2>2 DEF Loose, Catalog!Present
  <2> QED BY <2>1, <2>2
<1>7. L.tracks \in Entries /\ L.current \in TrackIds \cup {Nowhere} BY GoneAreEmpty
<1>8. Tidies(L, R, {}) BY <1>1, <1>3, <1>4, <1>5, <1>6, <1>7, Shelves
<1>9. R.order = O /\ R.items = I BY <1>1
<1>10. id \in Catalog!Placed(R) BY <1>3, <1>4, <1>9, PlacedIs
<1> QED BY <1>8, <1>10

LEMMA ClaimTidies ==
  ASSUME Catalog!LibraryAssumption, NEW L, Catalog!Whole(L), Catalog!InOrder(L), NEW id \in TrackIds,
         NEW folder \in Catalog!Range2Set(L.order) \cup {Nowhere}, NEW R, R = Catalog!claimed(L, id, folder)
  PROVE Tidies(L, R, {})
<1>1. CASE folder = Nowhere
  <2>1. R = L BY <1>1 DEF Catalog!claimed
  <2> QED BY <2>1 DEF Tidies
<1>2. CASE folder # Nowhere
  <2> DEFINE I == [L.items EXCEPT ![folder] = @ \cup {id}]
             O == L.order
  <2>1. R = [tracks |-> L.tracks, order |-> O, parent |-> L.parent, items |-> I, current |-> L.current]
    BY <1>2 DEF Catalog!claimed, Catalog!Whole
  <2>2. folder \in Catalog!Range2Set(O) /\ folder \in FolderIds BY <1>2, GoneAreEmpty
  <2>3. I \in Holdings /\ (\A g \in FolderIds : L.items[g] \subseteq I[g]) /\ \A g \in FolderIds \ {folder} : I[g] = L.items[g]
    BY <2>2 DEF Catalog!Whole, Holdings
  <2> HIDE DEF I
  <2>4. \A g \in FolderIds \ Catalog!Range2Set(O) : I[g] = {} BY <2>2, <2>3, GoneAreEmpty
  <2>5. ASSUME NEW i \in TrackIds, L.tracks[i] # "absent"
        PROVE i \in {} \/ i \in Loose(L) \/ \E g \in Catalog!Range2Set(O) : i \in I[g]
    <3>1. CASE i \in Catalog!Placed(L)
      <4>1. PICK g \in Catalog!Range2Set(L.order) : i \in L.items[g] BY <3>1, PlacedIs
      <4>2. g \in FolderIds BY GoneAreEmpty
      <4> QED BY <2>3, <4>1, <4>2
    <3>2. CASE i \notin Catalog!Placed(L) BY <2>5, <3>2 DEF Loose, Catalog!Present
    <3> QED BY <3>1, <3>2
  <2>6. L.tracks \in Entries /\ L.current \in TrackIds \cup {Nowhere} /\ Ranked(O) BY GoneAreEmpty
  <2> HIDE DEF O
  <2>7. Catalog!Range2Set(L.order) \subseteq Catalog!Range2Set(O) BY DEF O
  <2> QED BY <2>1, <2>3, <2>4, <2>5, <2>6, <2>7, Shelves
<1> QED BY <1>1, <1>2

(* An entry of the same source hands its places to the new one; what has no *)
(* place lands.                                                             *)
LEMMA AddTidies ==
  ASSUME Catalog!LibraryAssumption, NEW L, Catalog!Whole(L), Catalog!InOrder(L), NEW id \in TrackIds,
         NEW status \in Catalog!Statuses, NEW R \in Catalog!addTrackToLibrary(L, id, status)
  PROVE Tidies(L, R, {})
<1> DEFINE kept(o) == IF o = Nowhere \/ o \in L.items[TrashId] THEN L ELSE Catalog!replaceTrackId(L, o, id)
           added(o) == [kept(o) EXCEPT !.tracks[id] = status]
<1>1. PICK o \in Catalog!findTrackBySource(L, id) :
        R = IF id \in Catalog!Placed(added(o)) THEN added(o) ELSE Catalog!Land(added(o), id)
  <2>1. R \in {IF id \in Catalog!Placed(added(o)) THEN added(o) ELSE Catalog!Land(added(o), id) :
                o \in Catalog!findTrackBySource(L, id)}
    BY Zenon DEF Catalog!addTrackToLibrary
  <2> HIDE DEF added
  <2> QED BY <2>1
<1>2. Tidies(L, kept(o), {id}) /\ Catalog!Whole(kept(o))
  <2>1. CASE o = Nowhere \/ o \in L.items[TrashId] BY <2>1 DEF Tidies
  <2>2. CASE ~(o = Nowhere \/ o \in L.items[TrashId])
    <3>1. o \in Catalog!Present(L) /\ o # id BY <1>1, <2>2 DEF Catalog!findTrackBySource
    <3> DEFINE T == [L.tracks EXCEPT ![o] = "absent", ![id] = IF @ = "absent" THEN L.tracks[o] ELSE @]
               I == [f \in FolderIds |-> IF o \in L.items[f] THEN (L.items[f] \ {o}) \cup {id} ELSE L.items[f]]
               c == IF L.current = o THEN id ELSE L.current
               O == L.order
               K == [tracks |-> T, order |-> O, parent |-> L.parent, items |-> I, current |-> c]
    <3>2. kept(o) = K BY <2>2 DEF Catalog!replaceTrackId, Catalog!Whole
    <3>3. L.items \in Holdings /\ L.tracks \in Entries /\ L.current \in TrackIds \cup {Nowhere} /\ Ranked(O)
          /\ Catalog!Range2Set(O) \subseteq FolderIds /\ \A f \in FolderIds \ Catalog!Range2Set(O) : L.items[f] = {}
      BY GoneAreEmpty
    <3>4. T \in Entries /\ T[o] = "absent" /\ \A i \in TrackIds \ {o, id} : T[i] = L.tracks[i]
      BY <3>1, <3>3 DEF Catalog!Present, Entries
    <3>5. I \in Holdings /\ c \in TrackIds \cup {Nowhere} BY <3>3 DEF Holdings
    <3>6. \A f \in FolderIds \ Catalog!Range2Set(O) : I[f] = {} BY <3>3
    <3>7. \A f \in FolderIds : L.items[f] \ {o} \subseteq I[f] OBVIOUS
    <3> HIDE DEF T, I, c, O
    <3>8. ASSUME NEW i \in TrackIds, T[i] # "absent"
          PROVE i \in {id} \/ i \in Loose(L) \/ \E g \in Catalog!Range2Set(O) : i \in I[g]
      <4> SUFFICES ASSUME i # id PROVE i \in Loose(L) \/ \E g \in Catalog!Range2Set(O) : i \in I[g] OBVIOUS
      <4>1. i # o /\ L.tracks[i] # "absent" BY <3>4, <3>8
      <4>2. CASE i \in Catalog!Placed(L)
        <5>1. PICK g \in Catalog!Range2Set(O) : i \in L.items[g] BY <4>2, PlacedIs DEF O
        <5> QED BY <3>3, <3>7, <4>1, <5>1
      <4>3. CASE i \notin Catalog!Placed(L) BY <4>1, <4>3 DEF Loose, Catalog!Present
      <4> QED BY <4>2, <4>3
    <3>9. Catalog!Range2Set(L.order) \subseteq Catalog!Range2Set(O) BY DEF O
    <3>10. Tidies(L, K, {id})
      <4> DEFINE A == {id}
      <4>1. \A i \in TrackIds : T[i] # "absent" => i \in A \/ i \in Loose(L) \/ \E g \in Catalog!Range2Set(O) : i \in I[g]
        BY <3>8
      <4> HIDE DEF A
      <4>2. Tidies(L, K, A) BY <3>3, <3>4, <3>5, <3>6, <3>9, <4>1, Shelves
      <4> QED BY <4>2 DEF A
    <3>11. Catalog!Whole(K) BY <3>4, <3>5 DEF Catalog!Whole, Holdings, Entries
    <3> HIDE DEF K
    <3> QED BY <3>2, <3>10, <3>11
  <2> QED BY <2>1, <2>2
<1> DEFINE k == kept(o)
           a == added(o)
<1>3. k = kept(o) /\ a = [k EXCEPT !.tracks[id] = status] OBVIOUS
<1>4. R = IF id \in Catalog!Placed(a) THEN a ELSE Catalog!Land(a, id) BY <1>1
<1> HIDE DEF kept, added, k, a
<1>5. Tidies(L, k, {id}) /\ Catalog!Whole(k) BY <1>2, <1>3
<1>6. Tidies(k, a, {id}) /\ Catalog!Whole(a)
  <2> DEFINE T == [k.tracks EXCEPT ![id] = status]
             O == k.order
             I == k.items
             c == k.current
             K == [tracks |-> T, order |-> O, parent |-> k.parent, items |-> I, current |-> c]
  <2>0. Catalog!InOrder(k) BY <1>5 DEF Tidies
  <2>1. a = K BY <1>3, <1>5 DEF Catalog!Whole
  <2>2. I \in Holdings /\ k.tracks \in Entries /\ c \in TrackIds \cup {Nowhere} /\ Ranked(O)
        /\ \A f \in FolderIds \ Catalog!Range2Set(O) : I[f] = {}
    BY <2>0, GoneAreEmpty
  <2>3. T \in Entries /\ \A i \in TrackIds \ {id} : T[i] = k.tracks[i] BY <2>2 DEF Entries
  <2>4. Catalog!Range2Set(k.order) \subseteq Catalog!Range2Set(O) OBVIOUS
  <2> HIDE DEF T
  <2> DEFINE A == {id}
  <2>5. \A i \in TrackIds : T[i] # "absent" => i \in A \/ i \in Loose(k) \/ \E g \in Catalog!Range2Set(O) : i \in I[g]
    <3> SUFFICES ASSUME NEW i \in TrackIds, T[i] # "absent", i # id
                 PROVE i \in Loose(k) \/ \E g \in Catalog!Range2Set(O) : i \in I[g] OBVIOUS
    <3>1. i \in Catalog!Present(k) BY <2>3 DEF Catalog!Present
    <3> QED BY <3>1, PlacedIs DEF Loose
  <2> HIDE DEF O, I, c, A
  <2>6. Tidies(k, K, A) BY <2>0, <2>2, <2>3, <2>4, <2>5, Shelves
  <2>7. Catalog!Whole(K) BY <2>2, <2>3 DEF Catalog!Whole, Holdings, Entries
  <2> HIDE DEF K
  <2> QED BY <2>1, <2>6, <2>7 DEF A
<1>7. Tidies(L, a, {id} \cup {id}) BY <1>5, <1>6, TidiesOn, Zenon
<1>8. CASE id \in Catalog!Placed(a)
  <2>1. R = a BY <1>4, <1>8
  <2>2. id \notin Loose(a) BY <1>8 DEF Loose
  <2> QED BY <1>7, <2>1, <2>2 DEF Tidies
<1>9. CASE id \notin Catalog!Placed(a)
  <2>1. R = Catalog!Land(a, id) BY <1>4, <1>9
  <2>2. Catalog!InOrder(a) BY <1>6 DEF Tidies
  <2>3. Tidies(a, R, {}) /\ id \in Catalog!Placed(R) BY <1>6, <2>1, <2>2, LandTidies
  <2>4. Tidies(L, R, ({id} \cup {id}) \cup {}) BY <1>7, <2>3, TidiesOn, Zenon
  <2>5. id \notin Loose(R) BY <2>3 DEF Loose
  <2> QED BY <2>4, <2>5 DEF Tidies
<1> QED BY <1>8, <1>9

LEMMA EachTidies ==
  ASSUME Catalog!LibraryAssumption, NEW L, Catalog!Whole(L), Catalog!InOrder(L), NEW ids \in Seq(TrackIds),
         NEW status \in Catalog!Statuses, NEW folder \in Catalog!Range2Set(L.order) \cup {Nowhere},
         NEW R \in Catalog!addEach(L, ids, status, folder)
  PROVE Tidies(L, R, {})
<1>0. Len(ids) \in Nat OBVIOUS
<1>a. folder \in FolderIds \cup {Nowhere} BY GoneAreEmpty
<1>1. PICK g : TakesTurns(g, L, ids, status, folder) BY <1>0, EachDefined
<1> DEFINE T == {n \in Nat : \A l \in g[n] : Catalog!Whole(l) /\ Tidies(L, l, {})}
<1>2. 0 \in T
  <2>1. g[0] = {L} BY <1>1 DEF TakesTurns
  <2>2. Tidies(L, L, {}) BY DEF Tidies
  <2> QED BY <2>1, <2>2
<1>3. ASSUME NEW n \in 1..Len(ids), n - 1 \in T PROVE n \in T
  <2> SUFFICES ASSUME NEW l \in g[n] PROVE Catalog!Whole(l) /\ Tidies(L, l, {}) BY <1>0
  <2>1. g[n] = Turn(g[n - 1], ids[n], status, folder) BY <1>1 DEF TakesTurns
  <2>2. PICK q \in g[n - 1] : l \in Catalog!addTrackToLibrary(Catalog!claimed(q, ids[n], folder), ids[n], status)
    BY <2>1 DEF Turn
  <2>3. Catalog!Whole(q) /\ Tidies(L, q, {}) BY <1>3
  <2> HIDE DEF T
  <2>4. ids[n] \in TrackIds OBVIOUS
  <2> DEFINE p == Catalog!claimed(q, ids[n], folder)
  <2>5. Grows(q, p, {ids[n]}) BY <1>a, <2>3, <2>4, ClaimGrows
  <2>6. Catalog!InOrder(q) /\ folder \in Catalog!Range2Set(q.order) \cup {Nowhere} BY <2>3 DEF Tidies
  <2>7. Tidies(q, p, {}) BY <2>3, <2>4, <2>6, ClaimTidies
  <2> HIDE DEF p
  <2>8. Catalog!Whole(p) /\ Catalog!InOrder(p) BY <2>5, <2>7 DEF Grows, Tidies
  <2>9. l \in Catalog!addTrackToLibrary(p, ids[n], status) BY <2>2 DEF p
  <2>10. Grows(p, l, {ids[n]}) BY <2>4, <2>8, <2>9, AddGrows
  <2>11. Tidies(p, l, {}) BY <2>4, <2>8, <2>9, AddTidies
  <2>12. Tidies(L, l, ({} \cup {}) \cup {}) BY <2>3, <2>7, <2>11, TidiesOn, Zenon
  <2>13. ({} \cup {}) \cup {} = {} OBVIOUS
  <2> QED BY <2>10, <2>12, <2>13 DEF Grows
<1> HIDE DEF T
<1>4. \A n \in 0..Len(ids) : n \in T BY <1>0, <1>2, <1>3, Upto
<1>5. Len(ids) \in T BY <1>0, <1>4
<1> QED BY <1>1, <1>5 DEF T, TakesTurns

(* A step that moves or removes folders leaves the lists in order.          *)
Ordered(A) == Catalog!InOrder(st') /\ Loose(st') \subseteq Loose(st) \cup A

LEMMA TidiesOrders == ASSUME NEW A, Tidies(st, st', A) PROVE Ordered(A) BY DEF Tidies, Ordered

LEMMA Reshelved ==
  ASSUME Catalog!InOrder(st), NEW T \in Entries, NEW O, NEW P, NEW I \in Holdings, Shelved(O, P, I),
         NEW c \in TrackIds \cup {Nowhere},
         st' = [tracks |-> T, order |-> O, parent |-> P, items |-> I, current |-> c], NEW A,
         \A i \in TrackIds : T[i] # "absent" =>
           i \in A \/ i \in Loose(st) \/ \E f \in Catalog!Range2Set(O) : i \in I[f]
  PROVE Ordered(A)
<1> DEFINE R == st'
<1>1. R.tracks = T /\ R.order = O /\ R.parent = P /\ R.items = I /\ R.current = c OBVIOUS
<1> HIDE DEF R
<1>2. Catalog!InOrder(R) BY <1>1, InOrderIs
<1>3. Loose(R) \subseteq Loose(st) \cup A
  <2> SUFFICES ASSUME NEW i \in Loose(R) PROVE i \in A \/ i \in Loose(st) OBVIOUS
  <2>1. i \in TrackIds /\ T[i] # "absent" BY <1>1 DEF Loose, Catalog!Present
  <2>2. ~ \E f \in Catalog!Range2Set(O) : i \in I[f] BY <1>1, PlacedIs DEF Loose
  <2> QED BY <2>1, <2>2
<1> QED BY <1>2, <1>3 DEF Ordered, R

(* A track that is in the library lies in a folder that exists, or in none. *)
LEMMA LiesSomewhere ==
  ASSUME NEW L, NEW i \in TrackIds, L.tracks[i] # "absent"
  PROVE i \in Loose(L) \/ \E f \in Catalog!Range2Set(L.order) : i \in L.items[f]
BY PlacedIs DEF Loose, Catalog!Present

LEMMA CreateOrders ==
  ASSUME Catalog!LibraryAssumption, Catalog!Whole(st), Catalog!InOrder(st), NEW f \in FolderIds, NEW p \in FolderIds,
         Catalog!createFolder(f) \/ Catalog!createSubfolder(f, p)
  PROVE Ordered({})
<1> DEFINE O == Append(st.order, f)
           P == IF Catalog!createFolder(f) THEN st.parent ELSE [st.parent EXCEPT ![f] = p]
<1>1. st' = [tracks |-> st.tracks, order |-> O, parent |-> P, items |-> st.items, current |-> st.current]
  <2>1. CASE Catalog!createFolder(f) BY <2>1 DEF Catalog!createFolder, Catalog!Whole
  <2>2. CASE ~Catalog!createFolder(f)
    <3>1. Catalog!createSubfolder(f, p) BY <2>2
    <3>2. P = [st.parent EXCEPT ![f] = p] BY <2>2
    <3>3. st' = [st EXCEPT !.order = O, !.parent = P] BY <3>1, <3>2 DEF Catalog!createSubfolder
    <3> HIDE DEF O, P
    <3> QED BY <3>3 DEF Catalog!Whole
  <2> QED BY <2>1, <2>2
<1>2. Shelved(st.order, st.parent, st.items) /\ st.items \in Holdings /\ st.tracks \in Entries
      /\ st.current \in TrackIds \cup {Nowhere}
  BY InOrderIs
<1>3. f \notin Catalog!Range2Set(st.order) /\ \A g \in FolderIds : st.parent[g] # f
  BY DEF Catalog!createFolder, Catalog!createSubfolder, Catalog!Fresh, Catalog!Existing
<1>4. P = st.parent \/ (P = [st.parent EXCEPT ![f] = p] /\ p \in Catalog!Range2Set(st.order))
  BY DEF Catalog!createSubfolder, Catalog!Shown, Catalog!Ordinary, Catalog!Existing
<1>5. Ranked(O) /\ Catalog!Range2Set(O) = Catalog!Range2Set(st.order) \cup {f}
  BY <1>2, <1>3, Appended DEF Shelved
<1> HIDE DEF O, P
<1>6. Nowhere \notin FolderIds BY DEF Catalog!LibraryAssumption
<1>7. P \in Parents /\ Forest(P) /\ P[f] \in Catalog!Range2Set(st.order) \cup {Nowhere}
      /\ \A h \in FolderIds \ {f} : P[h] = st.parent[h]
  <2>0. st.parent \in Parents /\ Forest(st.parent) BY <1>2 DEF Shelved
  <2>1. CASE P = st.parent
    <3>1. P[f] = Nowhere BY <1>2, <1>3, <2>1 DEF Shelved
    <3> QED BY <2>0, <2>1, <3>1
  <2>2. CASE P = [st.parent EXCEPT ![f] = p] /\ p \in Catalog!Range2Set(st.order)
    <3>1. f # p BY <1>3, <2>2
    <3> DEFINE S == FolderIds \ {f}
    <3>2. S \in SUBSET FolderIds /\ f \notin S OBVIOUS
    <3>3. \A g \in FolderIds : st.parent[g] \in S \cup {Nowhere} BY <1>3, <2>0 DEF Parents
    <3>4. Upward(st.parent, S) BY <3>3 DEF Upward
    <3>5. st.parent[p] \in S \cup {Nowhere} BY <3>3
    <3> HIDE DEF S
    <3>6. Above(st.parent, p) \subseteq S BY <2>0, <3>2, <3>4, <3>5, AboveWithin
    <3>7. f \notin Above(st.parent, p) BY <3>2, <3>6
    <3>8. P = [st.parent EXCEPT ![f] = p] BY <2>2
    <3>9. P \in Parents /\ Forest(P) BY <2>0, <3>1, <3>7, <3>8, Grafted
    <3>10. P[f] = p /\ \A h \in FolderIds \ {f} : P[h] = st.parent[h] BY <2>0, <3>8 DEF Parents
    <3> QED BY <2>2, <3>9, <3>10
  <2> QED BY <1>4, <2>1, <2>2
<1>8. Shelved(O, P, st.items)
  <2>1. {TrashId, UnsortedId} \subseteq Catalog!Range2Set(st.order) BY <1>2 DEF Shelved
  <2>2. TrashId \in FolderIds BY DEF Catalog!LibraryAssumption
  <2>3. P[TrashId] = Nowhere BY <1>2, <1>3, <1>7, <2>1, <2>2 DEF Shelved
  <2>4. \A h \in FolderIds \ Catalog!Range2Set(O) : st.items[h] = {} /\ P[h] = Nowhere
    BY <1>2, <1>5, <1>7 DEF Shelved
  <2>5. \A h \in Catalog!Range2Set(O) \ {UnsortedId} : P[h] \in Catalog!Range2Set(O) \cup {Nowhere}
    <3> SUFFICES ASSUME NEW h \in Catalog!Range2Set(O) \ {UnsortedId} PROVE P[h] \in Catalog!Range2Set(O) \cup {Nowhere}
      OBVIOUS
    <3>1. CASE h = f BY <1>5, <1>7, <3>1
    <3>2. CASE h # f
      <4>1. h \in FolderIds BY <1>5 DEF Ranked, Catalog!Range2Set
      <4>2. h \in Catalog!Range2Set(st.order) \ {UnsortedId} BY <1>5, <3>2
      <4>3. st.parent[h] \in Catalog!Range2Set(st.order) \cup {Nowhere} BY <1>2, <4>2 DEF Shelved
      <4> QED BY <1>5, <1>7, <3>2, <4>1, <4>3
    <3> QED BY <3>1, <3>2
  <2>6. {TrashId, UnsortedId} \subseteq Catalog!Range2Set(O) BY <1>5, <2>1
  <2> QED BY <1>5, <1>7, <2>3, <2>4, <2>5, <2>6 DEF Shelved
<1>9. \A i \in TrackIds : st.tracks[i] # "absent" =>
        i \in {} \/ i \in Loose(st) \/ \E g \in Catalog!Range2Set(O) : i \in st.items[g]
  BY <1>5, LiesSomewhere
<1> QED BY <1>1, <1>2, <1>8, <1>9, Reshelved

(* What is deleted are the folder and all that hangs on it, never the Trash *)
(* nor Unsorted.                                                            *)
LEMMA DoomedIs ==
  ASSUME Catalog!LibraryAssumption, Catalog!InOrder(st), NEW f \in FolderIds, f \in Catalog!Range2Set(st.order),
         f \notin {TrashId, UnsortedId}, NEW gone, gone = Catalog!Doomed(f)
  PROVE /\ gone \subseteq Catalog!Range2Set(st.order) \ {TrashId, UnsortedId}
        /\ \A h \in Catalog!Range2Set(st.order) \ {TrashId, UnsortedId} : st.parent[h] \in gone => h \in gone
<1> DEFINE U == [g \in FolderIds |-> {h \in Catalog!Ordinary \ {UnsortedId} : st.parent[h] = g}]
           S == Catalog!Range2Set(st.order) \ {TrashId, UnsortedId}
<1>1. Catalog!Ordinary \ {UnsortedId} = S BY DEF Catalog!Ordinary, Catalog!Existing
<1>2. Catalog!Range2Set(st.order) \subseteq FolderIds BY GoneAreEmpty
<1>3. U \in [FolderIds -> SUBSET FolderIds] /\ \A g \in FolderIds : U[g] = {h \in S : st.parent[h] = g}
  BY <1>1, <1>2
<1>4. gone = Catalog!Reach({f}, U) BY DEF Catalog!Doomed
<1>5. S \in SUBSET FolderIds /\ f \in S BY <1>2
<1> HIDE DEF U, S
<1>6. IsFiniteSet(FolderIds) BY CatalogCounts DEF Catalog!LibraryAssumption
<1>7. {f} \in SUBSET FolderIds OBVIOUS
<1>8. gone \subseteq FolderIds /\ {f} \subseteq gone /\ ClosedUnder(gone, U)
  BY <1>3, <1>4, <1>6, <1>7, ReachIsLeast
<1>9. gone \subseteq S
  <2>1. ClosedUnder(S, U) BY <1>3, <1>5 DEF ClosedUnder
  <2>2. \A Z \in SUBSET FolderIds : {f} \subseteq Z /\ ClosedUnder(Z, U) => gone \subseteq Z
    BY <1>3, <1>4, <1>6, <1>7, ReachIsLeast
  <2> QED BY <1>5, <2>1, <2>2
<1>10. \A h \in S : st.parent[h] \in gone => h \in gone BY <1>3, <1>8 DEF ClosedUnder
<1> QED BY <1>9, <1>10 DEF S

LEMMA DeleteOrders ==
  ASSUME Catalog!LibraryAssumption, Catalog!Whole(st), Catalog!InOrder(st), NEW f \in FolderIds,
         Catalog!deleteFolder(f)
  PROVE Ordered({})
<1> DEFINE gone == Catalog!Doomed(f)
           dropped == (UNION {st.items[g] : g \in gone}) \cap Catalog!Present(st)
           O == Catalog!Kept(st.order, gone)
           P == [g \in FolderIds |-> IF g \in gone THEN Nowhere ELSE st.parent[g]]
           I == [g \in FolderIds |-> IF g \in gone THEN {}
                                     ELSE IF g = TrashId THEN st.items[g] \cup dropped ELSE st.items[g]]
<1>1. st' = [st EXCEPT !.order = O, !.parent = P, !.items = I]
  BY DEF Catalog!deleteFolder, Catalog!RemoveFolders
<1>2. f \in Catalog!Range2Set(st.order) /\ f \notin {TrashId, UnsortedId}
  BY DEF Catalog!deleteFolder, Catalog!Shown, Catalog!Ordinary, Catalog!Existing
<1>3. gone \subseteq Catalog!Range2Set(st.order) \ {TrashId, UnsortedId}
      /\ \A h \in Catalog!Range2Set(st.order) \ {TrashId, UnsortedId} : st.parent[h] \in gone => h \in gone
  BY <1>2, DoomedIs
<1> HIDE DEF gone
<1>4. Shelved(st.order, st.parent, st.items) /\ st.items \in Holdings /\ st.tracks \in Entries
      /\ st.current \in TrackIds \cup {Nowhere}
  BY InOrderIs
<1>5. TrashId \in FolderIds /\ TrashId \notin gone BY <1>3 DEF Catalog!LibraryAssumption
<1>6. dropped \in SUBSET TrackIds
  <2>1. dropped \subseteq Catalog!Present(st) BY Zenon
  <2> HIDE DEF dropped
  <2> QED BY <2>1 DEF Catalog!Present
<1>7. \A g \in gone : \A i \in st.items[g] : i \in Catalog!Present(st) => i \in dropped OBVIOUS
<1> HIDE DEF dropped
<1>8. I \in Holdings /\ (\A g \in gone : I[g] = {})
      /\ (\A g \in FolderIds \ gone : st.items[g] \subseteq I[g]) /\ dropped \subseteq I[TrashId]
      /\ \A g \in FolderIds \ {TrashId} : g \notin gone => I[g] = st.items[g]
  <2>1. gone \subseteq FolderIds BY <1>3, GoneAreEmpty
  <2> QED BY <1>4, <1>5, <1>6, <2>1 DEF Holdings
<1>9. P \in Parents /\ (\A h \in FolderIds : P[h] = IF h \in gone THEN Nowhere ELSE st.parent[h])
  BY <1>4 DEF Shelved, Parents
<1>10. Ranked(O) /\ Catalog!Range2Set(O) = Catalog!Range2Set(st.order) \ gone
  BY <1>4, KeptRanked DEF Shelved
<1> HIDE DEF I, P, O
<1>11. st' = [tracks |-> st.tracks, order |-> O, parent |-> P, items |-> I, current |-> st.current]
  BY <1>1 DEF Catalog!Whole
<1>12. Catalog!Range2Set(st.order) \subseteq FolderIds BY GoneAreEmpty
<1>13. Shelved(O, P, I)
  <2>1. {TrashId, UnsortedId} \subseteq Catalog!Range2Set(O) BY <1>3, <1>4, <1>10 DEF Shelved
  <2>2. P[TrashId] = Nowhere BY <1>4, <1>5, <1>9 DEF Shelved
  <2>3. Forest(P)
    <3>1. st.parent \in Parents /\ Forest(st.parent) BY <1>4 DEF Shelved
    <3>2. \A h \in FolderIds : P[h] \in {st.parent[h], Nowhere} BY <1>9
    <3>3. P \in Parents BY <1>9
    <3> QED BY <3>1, <3>2, <3>3, Pruned
  <2>4. \A h \in FolderIds \ Catalog!Range2Set(O) : I[h] = {} /\ P[h] = Nowhere
    <3> SUFFICES ASSUME NEW h \in FolderIds \ Catalog!Range2Set(O) PROVE I[h] = {} /\ P[h] = Nowhere OBVIOUS
    <3>1. CASE h \in gone BY <1>8, <1>9, <3>1
    <3>2. CASE h \notin gone
      <4>1. h \notin Catalog!Range2Set(st.order) BY <1>10, <3>2
      <4>2. st.items[h] = {} /\ st.parent[h] = Nowhere BY <1>4, <4>1 DEF Shelved
      <4>3. h # TrashId BY <1>4, <4>1 DEF Shelved
      <4> QED BY <1>8, <1>9, <3>2, <4>2, <4>3
    <3> QED BY <3>1, <3>2
  <2>5. \A h \in Catalog!Range2Set(O) \ {UnsortedId} : P[h] \in Catalog!Range2Set(O) \cup {Nowhere}
    <3> SUFFICES ASSUME NEW h \in Catalog!Range2Set(O) \ {UnsortedId} PROVE P[h] \in Catalog!Range2Set(O) \cup {Nowhere}
      OBVIOUS
    <3>1. CASE h = TrashId BY <2>2, <3>1
    <3>2. CASE h # TrashId
      <4>1. h \in Catalog!Range2Set(st.order) \ {TrashId, UnsortedId} /\ h \notin gone /\ h \in FolderIds
        BY <1>10, <1>12, <3>2
      <4>2. st.parent[h] \in Catalog!Range2Set(st.order) \cup {Nowhere} BY <1>4, <4>1 DEF Shelved
      <4>3. st.parent[h] \notin gone BY <1>3, <4>1
      <4> QED BY <1>9, <1>10, <4>1, <4>2, <4>3
    <3> QED BY <3>1, <3>2
  <2>6. P \in Parents BY <1>9
  <2> QED BY <1>10, <2>1, <2>2, <2>3, <2>4, <2>5, <2>6 DEF Shelved
<1>14. ASSUME NEW i \in TrackIds, st.tracks[i] # "absent"
       PROVE i \in {} \/ i \in Loose(st) \/ \E g \in Catalog!Range2Set(O) : i \in I[g]
  <2> SUFFICES ASSUME NEW g \in Catalog!Range2Set(st.order), i \in st.items[g]
               PROVE \E h \in Catalog!Range2Set(O) : i \in I[h]
    BY <1>14, LiesSomewhere
  <2>1. CASE g \in gone
    <3>1. i \in dropped BY <1>7, <1>14, <2>1 DEF Catalog!Present
    <3>2. TrashId \in Catalog!Range2Set(O) BY <1>3, <1>4, <1>10 DEF Shelved
    <3> QED BY <1>8, <3>1, <3>2
  <2>2. CASE g \notin gone BY <1>8, <1>10, <1>12, <2>2
  <2> QED BY <2>1, <2>2
<1> QED BY <1>4, <1>8, <1>11, <1>13, <1>14, Reshelved

LEMMA ReorderOrders ==
  ASSUME Catalog!LibraryAssumption, Catalog!Whole(st), Catalog!InOrder(st), NEW f \in FolderIds, NEW g \in FolderIds,
         NEW before \in BOOLEAN, Catalog!reorderFolder(f, g, before)
  PROVE Ordered({})
<1> DEFINE rest == Catalog!Kept(st.order, {f})
           at == CHOOSE i \in 1..Len(rest) : rest[i] = g
           to == IF before THEN at ELSE at + 1
           O == Catalog!InsertAt(rest, to, f)
<1>1. st' = [st EXCEPT !.order = O] BY DEF Catalog!reorderFolder
<1>2. f \in Catalog!Range2Set(st.order) /\ g \in Catalog!Range2Set(st.order) /\ f # g
  BY DEF Catalog!reorderFolder, Catalog!Shown, Catalog!Ordinary, Catalog!Existing
<1>3. Shelved(st.order, st.parent, st.items) /\ st.items \in Holdings /\ st.tracks \in Entries
      /\ st.current \in TrackIds \cup {Nowhere}
  BY InOrderIs
<1>4. Ranked(rest) /\ Catalog!Range2Set(rest) = Catalog!Range2Set(st.order) \ {f}
  BY <1>3, KeptRanked DEF Shelved
<1> HIDE DEF rest
<1>5. at \in 1..Len(rest)
  <2>1. \E i \in 1..Len(rest) : rest[i] = g BY <1>2, <1>4 DEF Catalog!Range2Set
  <2> QED BY <2>1
<1> HIDE DEF at
<1>6. to \in 1..(Len(rest) + 1)
  <2>1. Len(rest) \in Nat BY <1>4 DEF Ranked
  <2> QED BY <1>5, <2>1
<1> HIDE DEF to
<1>7. f \notin Catalog!Range2Set(rest) BY <1>4
<1>8. Ranked(O) /\ Catalog!Range2Set(O) = Catalog!Range2Set(rest) \cup {f} BY <1>4, <1>6, <1>7, InsertRanked
<1> HIDE DEF O
<1>9. st' = [tracks |-> st.tracks, order |-> O, parent |-> st.parent, items |-> st.items, current |-> st.current]
  BY <1>1 DEF Catalog!Whole
<1>10. Catalog!Range2Set(O) = Catalog!Range2Set(st.order) BY <1>2, <1>4, <1>8
<1>11. Shelved(O, st.parent, st.items) BY <1>3, <1>8, <1>10 DEF Shelved
<1>12. \A i \in TrackIds : st.tracks[i] # "absent" =>
         i \in {} \/ i \in Loose(st) \/ \E h \in Catalog!Range2Set(O) : i \in st.items[h]
  BY <1>10, LiesSomewhere
<1> QED BY <1>3, <1>9, <1>11, <1>12, Reshelved

LEMMA ReparentOrders ==
  ASSUME Catalog!LibraryAssumption, Catalog!Whole(st), Catalog!InOrder(st), NEW f \in FolderIds, NEW g \in FolderIds,
         Catalog!reparentFolder(f, g)
  PROVE Ordered({})
<1> DEFINE P == [st.parent EXCEPT ![f] = g]
<1>1. st' = [tracks |-> st.tracks, order |-> st.order, parent |-> P, items |-> st.items, current |-> st.current]
  BY DEF Catalog!reparentFolder, Catalog!Whole
<1>2. {f, g} \subseteq Catalog!Range2Set(st.order) /\ f # g /\ TrashId \notin {f, g}
  BY DEF Catalog!reparentFolder, Catalog!Shown, Catalog!Ordinary, Catalog!Existing
<1>3. f \notin Above(st.parent, g) BY AncestorsAre DEF Catalog!reparentFolder, Catalog!isFolderDescendant
<1>4. Shelved(st.order, st.parent, st.items) /\ st.items \in Holdings /\ st.tracks \in Entries
      /\ st.current \in TrackIds \cup {Nowhere}
  BY InOrderIs
<1>5. P \in Parents /\ Forest(P)
  <2>1. st.parent \in Parents /\ Forest(st.parent) BY <1>4 DEF Shelved
  <2> QED BY <1>2, <1>3, <2>1, Grafted
<1>6. P[f] = g /\ \A h \in FolderIds \ {f} : P[h] = st.parent[h] BY <1>4 DEF Shelved, Parents
<1> HIDE DEF P
<1>7. Shelved(st.order, P, st.items)
  <2>1. TrashId \in FolderIds BY DEF Catalog!LibraryAssumption
  <2>2. P[TrashId] = Nowhere BY <1>2, <1>4, <1>6, <2>1 DEF Shelved
  <2>3. \A h \in FolderIds \ Catalog!Range2Set(st.order) : st.items[h] = {} /\ P[h] = Nowhere
    BY <1>2, <1>4, <1>6 DEF Shelved
  <2>4. \A h \in Catalog!Range2Set(st.order) \ {UnsortedId} : P[h] \in Catalog!Range2Set(st.order) \cup {Nowhere}
    <3>1. Catalog!Range2Set(st.order) \subseteq FolderIds BY GoneAreEmpty
    <3> QED BY <1>2, <1>4, <1>6, <3>1 DEF Shelved
  <2> QED BY <1>4, <1>5, <2>2, <2>3, <2>4 DEF Shelved
<1>8. \A i \in TrackIds : st.tracks[i] # "absent" =>
        i \in {} \/ i \in Loose(st) \/ \E h \in Catalog!Range2Set(st.order) : i \in st.items[h]
  BY LiesSomewhere
<1> QED BY <1>1, <1>4, <1>7, <1>8, Reshelved

LEMMA Refilled ==
  ASSUME Catalog!LibraryAssumption, NEW L, Catalog!InOrder(L), NEW T \in Entries, NEW I \in Holdings,
         \A f \in FolderIds \ Catalog!Range2Set(L.order) : I[f] = {}, NEW c \in TrackIds \cup {Nowhere}, NEW R,
         R = [tracks |-> T, order |-> L.order, parent |-> L.parent, items |-> I, current |-> c], NEW A,
         \A i \in TrackIds : T[i] # "absent" =>
           i \in A \/ i \in Loose(L) \/ \E f \in Catalog!Range2Set(L.order) : i \in I[f]
  PROVE Tidies(L, R, A)
<1> DEFINE O == L.order
<1>1. Ranked(O) BY GoneAreEmpty
<1>2. R = [tracks |-> T, order |-> O, parent |-> L.parent, items |-> I, current |-> c] OBVIOUS
<1>3. \A f \in FolderIds \ Catalog!Range2Set(O) : I[f] = {} OBVIOUS
<1>4. \A i \in TrackIds : T[i] # "absent" => i \in A \/ i \in Loose(L) \/ \E f \in Catalog!Range2Set(O) : i \in I[f]
  OBVIOUS
<1>5. Catalog!Range2Set(L.order) \subseteq Catalog!Range2Set(O) OBVIOUS
<1> HIDE DEF O
<1> QED BY <1>1, <1>2, <1>3, <1>4, <1>5, Shelves

LEMMA TrashOrders ==
  ASSUME Catalog!LibraryAssumption, Catalog!Whole(st), Catalog!InOrder(st), NEW id \in TrackIds,
         Catalog!MoveToTrash(id)
  PROVE Ordered({})
<1> DEFINE I0 == [g \in FolderIds |-> st.items[g] \ {id}]
           I == [I0 EXCEPT ![TrashId] = @ \cup {id}]
           c == IF st.current = id THEN Nowhere ELSE st.current
           W == Catalog!Without(st, {id})
<1>1. st' = [tracks |-> st.tracks, order |-> st.order, parent |-> st.parent, items |-> I, current |-> c]
  <2>1. W = [st EXCEPT !.items = I0] BY DEF Catalog!Without
  <2>2. st' = [W EXCEPT !.items[TrashId] = @ \cup {id}, !.current = IF @ = id THEN Nowhere ELSE @]
    BY DEF Catalog!MoveToTrash, Catalog!moveTrackToTrash
  <2> HIDE DEF I0, W
  <2>3. W = [tracks |-> st.tracks, order |-> st.order, parent |-> st.parent, items |-> I0, current |-> st.current]
    BY <2>1 DEF Catalog!Whole
  <2>4. W.items = I0 /\ W.current = st.current BY <2>3
  <2>5. st' = [W EXCEPT !.items = I, !.current = c] BY <2>2, <2>4
  <2> HIDE DEF I, c
  <2> QED BY <2>3, <2>5
<1>2. TrashId \in FolderIds /\ TrashId \in Catalog!Range2Set(st.order)
  BY InOrderIs DEF Catalog!LibraryAssumption, Shelved
<1>3. st.items \in Holdings /\ st.tracks \in Entries /\ st.current \in TrackIds \cup {Nowhere}
      /\ \A g \in FolderIds \ Catalog!Range2Set(st.order) : st.items[g] = {}
  BY GoneAreEmpty
<1>4. I \in Holdings /\ id \in I[TrashId] /\ (\A g \in FolderIds : st.items[g] \ {id} \subseteq I[g])
      /\ \A g \in FolderIds \ {TrashId} : I[g] \subseteq st.items[g]
  BY <1>2, <1>3 DEF Holdings
<1>5. c \in TrackIds \cup {Nowhere} BY <1>3
<1> HIDE DEF I, c
<1>6. \A g \in FolderIds \ Catalog!Range2Set(st.order) : I[g] = {} BY <1>2, <1>3, <1>4
<1>7. ASSUME NEW i \in TrackIds, st.tracks[i] # "absent"
      PROVE i \in {} \/ i \in Loose(st) \/ \E g \in Catalog!Range2Set(st.order) : i \in I[g]
  <2>1. CASE i = id BY <1>2, <1>4, <2>1
  <2>2. CASE i # id
    <3>1. Catalog!Range2Set(st.order) \subseteq FolderIds BY GoneAreEmpty
    <3>2. i \in Loose(st) \/ \E g \in Catalog!Range2Set(st.order) : i \in st.items[g] BY <1>7, LiesSomewhere
    <3> QED BY <1>4, <2>2, <3>1, <3>2
  <2> QED BY <2>1, <2>2
<1>8. Tidies(st, st', {}) BY <1>1, <1>3, <1>4, <1>5, <1>6, <1>7, Refilled
<1> QED BY <1>8, TidiesOrders

LEMMA RestoreOrders ==
  ASSUME Catalog!LibraryAssumption, Catalog!Whole(st), Catalog!InOrder(st), NEW id \in TrackIds,
         Catalog!restoreTrackFromTrash(id)
  PROVE Ordered({})
<1> DEFINE I == [st.items EXCEPT ![TrashId] = @ \ {id}]
           L == [tracks |-> st.tracks, order |-> st.order, parent |-> st.parent, items |-> I, current |-> st.current]
<1>1. st' = Catalog!Land(L, id)
  <2>1. [st EXCEPT !.items[TrashId] = @ \ {id}] = L BY DEF Catalog!Whole
  <2> QED BY <2>1 DEF Catalog!restoreTrackFromTrash
<1>2. st.items \in Holdings /\ st.tracks \in Entries /\ st.current \in TrackIds \cup {Nowhere}
      /\ \A g \in FolderIds \ Catalog!Range2Set(st.order) : st.items[g] = {}
  BY GoneAreEmpty
<1>3. I \in Holdings /\ (\A g \in FolderIds : I[g] \subseteq st.items[g])
      /\ \A g \in FolderIds : st.items[g] \ {id} \subseteq I[g]
  BY <1>2 DEF Holdings
<1> HIDE DEF I
<1>4. \A g \in FolderIds \ Catalog!Range2Set(st.order) : I[g] = {} BY <1>2, <1>3
<1> DEFINE A == {id}
<1>5. ASSUME NEW i \in TrackIds, st.tracks[i] # "absent"
      PROVE i \in A \/ i \in Loose(st) \/ \E g \in Catalog!Range2Set(st.order) : i \in I[g]
  <2>1. CASE i = id BY <2>1
  <2>2. CASE i # id
    <3>1. Catalog!Range2Set(st.order) \subseteq FolderIds BY GoneAreEmpty
    <3>2. i \in Loose(st) \/ \E g \in Catalog!Range2Set(st.order) : i \in st.items[g] BY <1>5, LiesSomewhere
    <3> QED BY <1>3, <2>2, <3>1, <3>2
  <2> QED BY <2>1, <2>2
<1>6. Catalog!Whole(L) BY <1>2, <1>3 DEF Catalog!Whole, Holdings
<1>7. L = [tracks |-> st.tracks, order |-> st.order, parent |-> st.parent, items |-> I, current |-> st.current]
  OBVIOUS
<1> HIDE DEF A, L
<1>8. Tidies(st, L, A) BY <1>2, <1>3, <1>4, <1>5, <1>7, Refilled
<1>9. Catalog!InOrder(L) BY <1>8 DEF Tidies
<1>10. Tidies(L, st', {}) /\ id \in Catalog!Placed(st') BY <1>1, <1>6, <1>9, LandTidies
<1>11. Tidies(st, st', A \cup {}) BY <1>8, <1>10, TidiesOn, Zenon
<1>12. id \notin Loose(st') BY <1>10 DEF Loose
<1>13. Tidies(st, st', {}) BY <1>11, <1>12 DEF Tidies, A
<1> QED BY <1>13, TidiesOrders

LEMMA DropOrders ==
  ASSUME Catalog!LibraryAssumption, Catalog!Whole(st), Catalog!InOrder(st), NEW id \in TrackIds, NEW f \in FolderIds,
         Catalog!dropOnFolder(id, f)
  PROVE Ordered({})
<1> DEFINE holding == Catalog!Kept(st.order, {g \in FolderIds : id \notin st.items[g]})
           I0 == IF holding = <<>> THEN st.items ELSE [st.items EXCEPT ![holding[1]] = @ \ {id}]
           I == [I0 EXCEPT ![f] = @ \cup {id}]
<1>1. st' = [tracks |-> st.tracks, order |-> st.order, parent |-> st.parent, items |-> I, current |-> st.current]
  <2> DEFINE left == IF holding = <<>> THEN st ELSE [st EXCEPT !.items[holding[1]] = @ \ {id}]
  <2>1. st' = [left EXCEPT !.items[f] = @ \cup {id}] BY DEF Catalog!dropOnFolder
  <2> HIDE DEF holding
  <2>2. left = [tracks |-> st.tracks, order |-> st.order, parent |-> st.parent, items |-> I0, current |-> st.current]
    BY DEF Catalog!Whole
  <2> HIDE DEF I0, left
  <2> QED BY <2>1, <2>2
<1> HIDE DEF holding
<1>2. st.items \in Holdings /\ st.tracks \in Entries /\ st.current \in TrackIds \cup {Nowhere}
      /\ \A g \in FolderIds \ Catalog!Range2Set(st.order) : st.items[g] = {}
  BY GoneAreEmpty
<1>3. I0 \in Holdings /\ (\A g \in FolderIds : I0[g] \subseteq st.items[g])
      /\ \A g \in FolderIds : st.items[g] \ {id} \subseteq I0[g]
  BY <1>2 DEF Holdings
<1> HIDE DEF I0
<1>4. f \in Catalog!Range2Set(st.order)
  BY DEF Catalog!dropOnFolder, Catalog!Shown, Catalog!Ordinary, Catalog!Existing
<1>5. I \in Holdings /\ id \in I[f] /\ (\A g \in FolderIds : st.items[g] \ {id} \subseteq I[g])
      /\ \A g \in FolderIds \ {f} : I[g] \subseteq st.items[g]
  BY <1>3 DEF Holdings
<1> HIDE DEF I
<1>6. \A g \in FolderIds \ Catalog!Range2Set(st.order) : I[g] = {} BY <1>2, <1>4, <1>5
<1>7. ASSUME NEW i \in TrackIds, st.tracks[i] # "absent"
      PROVE i \in {} \/ i \in Loose(st) \/ \E g \in Catalog!Range2Set(st.order) : i \in I[g]
  <2>1. CASE i = id BY <1>4, <1>5, <2>1
  <2>2. CASE i # id
    <3>1. Catalog!Range2Set(st.order) \subseteq FolderIds BY GoneAreEmpty
    <3>2. i \in Loose(st) \/ \E g \in Catalog!Range2Set(st.order) : i \in st.items[g] BY <1>7, LiesSomewhere
    <3> QED BY <1>5, <2>2, <3>1, <3>2
  <2> QED BY <2>1, <2>2
<1>8. Tidies(st, st', {}) BY <1>1, <1>2, <1>5, <1>6, <1>7, Refilled
<1> QED BY <1>8, TidiesOrders

LEMMA PlaylistOrders ==
  ASSUME Catalog!LibraryAssumption, Catalog!Whole(st), Catalog!InOrder(st), Catalog!ImportPlaylist
  PROVE Ordered({})
<1> DEFINE O == IF PlaylistId \in Catalog!Range2Set(st.order) THEN st.order ELSE <<PlaylistId>> \o st.order
           L == [tracks |-> st.tracks, order |-> O, parent |-> st.parent, items |-> st.items,
                 current |-> st.current]
<1>1. PlaylistIds \in Seq(TrackIds) /\ PlaylistId \in FolderIds /\ "processing" \in Catalog!Statuses
  BY DEF Catalog!LibraryAssumption, Catalog!Statuses
<1>2. st' \in Catalog!addEach(L, PlaylistIds, "processing", PlaylistId)
  <2>1. (IF PlaylistId \in Catalog!Range2Set(st.order) THEN st ELSE [st EXCEPT !.order = <<PlaylistId>> \o @]) = L
    BY DEF Catalog!Whole
  <2> HIDE DEF L
  <2> QED BY <2>1 DEF Catalog!ImportPlaylist, Catalog!addPlaylistToLibrary
<1>3. st.items \in Holdings /\ st.tracks \in Entries /\ st.current \in TrackIds \cup {Nowhere}
      /\ (\A g \in FolderIds \ Catalog!Range2Set(st.order) : st.items[g] = {}) /\ Ranked(st.order)
  BY GoneAreEmpty
<1>4. Ranked(O) /\ Catalog!Range2Set(O) = Catalog!Range2Set(st.order) \cup {PlaylistId}
  <2>1. CASE PlaylistId \in Catalog!Range2Set(st.order) BY <1>3, <2>1
  <2>2. CASE PlaylistId \notin Catalog!Range2Set(st.order)
    <3>1. O \in {Append(st.order, PlaylistId), <<PlaylistId>> \o st.order} BY <2>2
    <3> HIDE DEF O
    <3> QED BY <1>1, <1>3, <2>2, <3>1, Appended
  <2> QED BY <2>1, <2>2
<1>5. L = [tracks |-> st.tracks, order |-> O, parent |-> st.parent, items |-> st.items, current |-> st.current]
      /\ L.order = O
  OBVIOUS
<1> HIDE DEF O
<1>6. Catalog!Whole(L) BY <1>3 DEF Catalog!Whole, Holdings, Entries
<1> HIDE DEF L
<1>7. Catalog!Range2Set(st.order) \subseteq Catalog!Range2Set(O) BY <1>4
<1>8. \A g \in FolderIds \ Catalog!Range2Set(O) : st.items[g] = {} BY <1>3, <1>7
<1>9. \A i \in TrackIds : st.tracks[i] # "absent" =>
        i \in {} \/ i \in Loose(st) \/ \E g \in Catalog!Range2Set(O) : i \in st.items[g]
  BY <1>7, LiesSomewhere
<1>10. Tidies(st, L, {}) BY <1>3, <1>4, <1>5, <1>7, <1>8, <1>9, Shelves
<1>11. Catalog!InOrder(L) BY <1>10 DEF Tidies
<1>12. PlaylistId \in Catalog!Range2Set(L.order) \cup {Nowhere} BY <1>4, <1>5
<1>13. Tidies(L, st', {}) BY <1>1, <1>2, <1>6, <1>11, <1>12, EachTidies
<1>14. Tidies(st, st', {} \cup {}) BY <1>10, <1>13, TidiesOn, Zenon
<1>15. Tidies(st, st', {}) BY <1>14
<1> QED BY <1>15, TidiesOrders

(* An entry is written: where it was missing, it may be in no folder.       *)
LEMMA WrittenTidies ==
  ASSUME Catalog!LibraryAssumption, Catalog!Whole(st), Catalog!InOrder(st), NEW id \in TrackIds,
         NEW s \in Catalog!Statuses, NEW c \in TrackIds \cup {Nowhere},
         st' = [st EXCEPT !.tracks[id] = s, !.current = c]
  PROVE Ordered({id} \ Catalog!Present(st))
<1> DEFINE T == [st.tracks EXCEPT ![id] = s]
           A == {id} \ Catalog!Present(st)
<1>1. st' = [tracks |-> T, order |-> st.order, parent |-> st.parent, items |-> st.items, current |-> c]
  BY DEF Catalog!Whole
<1>2. st.items \in Holdings /\ st.tracks \in Entries /\ st.current \in TrackIds \cup {Nowhere}
      /\ \A g \in FolderIds \ Catalog!Range2Set(st.order) : st.items[g] = {}
  BY GoneAreEmpty
<1>3. T \in Entries /\ \A i \in TrackIds \ {id} : T[i] = st.tracks[i] BY <1>2 DEF Entries
<1> HIDE DEF T
<1>4. ASSUME NEW i \in TrackIds, T[i] # "absent"
      PROVE i \in A \/ i \in Loose(st) \/ \E g \in Catalog!Range2Set(st.order) : i \in st.items[g]
  <2>1. CASE i \in A BY <2>1
  <2>2. CASE i \notin A
    <3>1. st.tracks[i] # "absent" BY <1>3, <1>4, <2>2 DEF Catalog!Present
    <3> QED BY <3>1, LiesSomewhere
  <2> QED BY <2>1, <2>2
<1> HIDE DEF A
<1>5. Tidies(st, st', A) BY <1>1, <1>2, <1>3, <1>4, Refilled
<1> QED BY <1>5, TidiesOrders DEF A

LEMMA CancelOrders ==
  ASSUME Catalog!LibraryAssumption, Catalog!Whole(st), Catalog!InOrder(st), NEW id \in TrackIds,
         st' = [Catalog!Without(st, {id}) EXCEPT !.tracks[id] = "absent"]
  PROVE Ordered({})
<1> DEFINE I == [g \in FolderIds |-> st.items[g] \ {id}]
           W == Catalog!Without(st, {id})
           T == [st.tracks EXCEPT ![id] = "absent"]
<1>1. st' = [tracks |-> T, order |-> st.order, parent |-> st.parent, items |-> I, current |-> st.current]
  <2>1. W = [st EXCEPT !.items = I] BY DEF Catalog!Without
  <2> HIDE DEF I, W
  <2>2. W = [tracks |-> st.tracks, order |-> st.order, parent |-> st.parent, items |-> I, current |-> st.current]
    BY <2>1 DEF Catalog!Whole
  <2>3. st' = [W EXCEPT !.tracks[id] = "absent"] BY DEF W
  <2> QED BY <2>2, <2>3
<1>2. st.items \in Holdings /\ st.tracks \in Entries /\ st.current \in TrackIds \cup {Nowhere}
      /\ \A g \in FolderIds \ Catalog!Range2Set(st.order) : st.items[g] = {}
  BY GoneAreEmpty
<1>3. T \in Entries /\ T[id] = "absent" /\ \A i \in TrackIds \ {id} : T[i] = st.tracks[i] BY <1>2 DEF Entries
<1>4. I \in Holdings BY <1>2 DEF Holdings
<1>5. \A g \in FolderIds : st.items[g] \ {id} \subseteq I[g] /\ I[g] \subseteq st.items[g] OBVIOUS
<1> HIDE DEF T, I
<1>6. \A g \in FolderIds \ Catalog!Range2Set(st.order) : I[g] = {} BY <1>2, <1>5
<1>7. ASSUME NEW i \in TrackIds, T[i] # "absent"
      PROVE i \in {} \/ i \in Loose(st) \/ \E g \in Catalog!Range2Set(st.order) : i \in I[g]
  <2>1. i # id /\ st.tracks[i] # "absent" BY <1>3, <1>7
  <2>2. Catalog!Range2Set(st.order) \subseteq FolderIds BY GoneAreEmpty
  <2>3. i \in Loose(st) \/ \E g \in Catalog!Range2Set(st.order) : i \in st.items[g] BY <2>1, LiesSomewhere
  <2> QED BY <1>5, <2>1, <2>2, <2>3
<1>8. T \in Entries /\ st.current \in TrackIds \cup {Nowhere} BY <1>2, <1>3
<1>9. Tidies(st, st', {}) BY <1>1, <1>4, <1>6, <1>7, <1>8, Refilled
<1> QED BY <1>9, TidiesOrders

LEMMA AddOrders ==
  ASSUME Catalog!LibraryAssumption, Catalog!Whole(st), Catalog!InOrder(st), NEW id \in TrackIds,
         NEW status \in Catalog!Statuses, st' \in Catalog!addTrackToLibrary(st, id, status)
  PROVE Ordered({})
BY AddTidies, TidiesOrders

LEMMA SameOrders == ASSUME Catalog!InOrder(st), st' = st PROVE Ordered({}) BY DEF Ordered

LEMMA OrderedMore == ASSUME NEW A, NEW B, A \subseteq B, Ordered(A) PROVE Ordered(B) BY DEF Ordered

LEMMA CompleteOrders ==
  ASSUME Catalog!LibraryAssumption, Catalog!Whole(st), Catalog!InOrder(st), NEW c, c.id \in TrackIds,
         Catalog!completeSettledJob(c)
  PROVE Ordered({})
<1> DEFINE i == c.id
<1>1. CASE st' = IF i \in Catalog!Present(st) THEN [st EXCEPT !.tracks[i] = "unavailable"] ELSE st
  <2>1. CASE i \notin Catalog!Present(st) BY <1>1, <2>1, SameOrders
  <2>2. CASE i \in Catalog!Present(st)
    <3>1. st' = [st EXCEPT !.tracks[i] = "unavailable"] BY <1>1, <2>2
    <3> DEFINE k == st.current
    <3>2. st' = [st EXCEPT !.tracks[i] = "unavailable", !.current = k] BY <3>1 DEF Catalog!Whole
    <3>3. k \in TrackIds \cup {Nowhere} /\ "unavailable" \in Catalog!Statuses BY GoneAreEmpty DEF Catalog!Statuses
    <3> HIDE DEF k, i
    <3>4. i \in TrackIds BY DEF i
    <3>5. Ordered({i} \ Catalog!Present(st)) BY <3>2, <3>3, <3>4, WrittenTidies
    <3>6. {i} \ Catalog!Present(st) = {} BY <2>2
    <3> QED BY <3>5, <3>6
  <2> QED BY <2>1, <2>2
<1>2. CASE st' = [Catalog!Without(st, {i}) EXCEPT !.tracks[i] = "absent"] BY <1>2, CancelOrders
<1>3. CASE c.status \in {"done", "error"} /\ st' \in Catalog!addTrackToLibrary(st, i, c.status)
  <2>1. c.status \in Catalog!Statuses BY <1>3 DEF Catalog!Statuses
  <2> QED BY <1>3, <2>1, AddOrders
<1> QED BY <1>1, <1>2, <1>3 DEF Catalog!completeSettledJob

LEMMA OpenedOrders ==
  ASSUME Catalog!LibraryAssumption, Catalog!Whole(st), Catalog!InOrder(st), loading.id \in TrackIds,
         Catalog!TrackOpened
  PROVE Ordered(late')
<1> DEFINE i == loading.id
           s == CASE loading.status = "running" -> "processing"
                  [] loading.status \in {"done", "error"} -> loading.status
                  [] OTHER -> "unavailable"
           c == IF loading.status = "done" THEN i ELSE st.current
<1>1. st' = [st EXCEPT !.tracks[i] = s, !.current = c] BY DEF Catalog!TrackOpened
<1>2. s \in Catalog!Statuses BY DEF Catalog!Statuses
<1>3. c \in TrackIds \cup {Nowhere} BY GoneAreEmpty
<1>4. {i} \ Catalog!Present(st) \subseteq late' BY DEF Catalog!TrackOpened, Catalog!WrittenLate
<1> HIDE DEF s, c, i
<1>5. i \in TrackIds BY DEF i
<1>6. Ordered({i} \ Catalog!Present(st)) BY <1>1, <1>2, <1>3, <1>5, WrittenTidies
<1> QED BY <1>4, <1>6, OrderedMore

LEMMA PurgeOrders ==
  ASSUME Catalog!LibraryAssumption, Catalog!Whole(st), Catalog!InOrder(st), Catalog!TombstonesWritten
  PROVE Ordered({})
<1> DEFINE X == st.items[TrashId]
           I == [g \in FolderIds |-> st.items[g] \ X]
           W == Catalog!Without(st, X)
           T == [j \in TrackIds |-> IF j \in X THEN "absent" ELSE st.tracks[j]]
<1>1. st' = [tracks |-> T, order |-> st.order, parent |-> st.parent, items |-> I, current |-> st.current]
  <2>1. W = [st EXCEPT !.items = I] BY DEF Catalog!Without
  <2>2. st' = [W EXCEPT !.tracks = [j \in TrackIds |-> IF j \in X THEN "absent" ELSE @[j]]]
    BY DEF Catalog!TombstonesWritten, Catalog!purgeTrash
  <2> HIDE DEF X, I, W
  <2>3. W = [tracks |-> st.tracks, order |-> st.order, parent |-> st.parent, items |-> I, current |-> st.current]
    BY <2>1 DEF Catalog!Whole
  <2>4. W.tracks = st.tracks BY <2>3
  <2>5. st' = [W EXCEPT !.tracks = T] BY <2>2, <2>4
  <2> HIDE DEF T
  <2> QED BY <2>3, <2>5
<1>2. st.items \in Holdings /\ st.tracks \in Entries /\ st.current \in TrackIds \cup {Nowhere}
      /\ \A g \in FolderIds \ Catalog!Range2Set(st.order) : st.items[g] = {}
  BY GoneAreEmpty
<1>3. T \in Entries /\ I \in Holdings BY <1>2 DEF Entries, Holdings
<1>4. \A g \in FolderIds : st.items[g] \ X \subseteq I[g] /\ I[g] \subseteq st.items[g] OBVIOUS
<1>5. \A j \in TrackIds : T[j] # "absent" => j \notin X /\ st.tracks[j] # "absent" OBVIOUS
<1> HIDE DEF T, I, X
<1>6. \A g \in FolderIds \ Catalog!Range2Set(st.order) : I[g] = {} BY <1>2, <1>4
<1>7. ASSUME NEW i \in TrackIds, T[i] # "absent"
      PROVE i \in {} \/ i \in Loose(st) \/ \E g \in Catalog!Range2Set(st.order) : i \in I[g]
  <2>1. i \notin X /\ st.tracks[i] # "absent" BY <1>5, <1>7
  <2>2. Catalog!Range2Set(st.order) \subseteq FolderIds BY GoneAreEmpty
  <2>3. i \in Loose(st) \/ \E g \in Catalog!Range2Set(st.order) : i \in st.items[g] BY <2>1, LiesSomewhere
  <2> QED BY <1>4, <2>1, <2>2, <2>3
<1>8. Tidies(st, st', {}) BY <1>1, <1>2, <1>3, <1>6, <1>7, Refilled
<1> QED BY <1>8, TidiesOrders

LEMMA SyncOrders ==
  ASSUME Catalog!LibraryAssumption, Catalog!Whole(st), Catalog!InOrder(st), Catalog!Adopted(st) \subseteq TrackIds,
         Catalog!SyncAnswered
  PROVE Ordered({})
<1>1. PICK ids \in Catalog!SetToSeqs(Catalog!Adopted(st)) :
        \E added \in Catalog!addEach(st, ids, "done", Nowhere) : st' = Catalog!reconcileAvailability(added)
  BY DEF Catalog!SyncAnswered
<1>2. PICK added \in Catalog!addEach(st, ids, "done", Nowhere) : st' = Catalog!reconcileAvailability(added) BY <1>1
<1>3. ids \in Seq(TrackIds)
  <2>1. IsFiniteSet(TrackIds) BY CatalogCounts DEF Catalog!LibraryAssumption
  <2>2. Cardinality(Catalog!Adopted(st)) \in Nat BY <2>1, FS_Subset, FS_CardinalityType
  <2>3. ids \in [1..Catalog!Cardinality(Catalog!Adopted(st)) -> Catalog!Adopted(st)] BY <1>1 DEF Catalog!SetToSeqs
  <2>4. ids \in [1..Cardinality(Catalog!Adopted(st)) -> Catalog!Adopted(st)] BY <2>3, CatalogCounts
  <2> QED BY <2>2, <2>4
<1>4. "done" \in Catalog!Statuses BY DEF Catalog!Statuses
<1>5. Tidies(st, added, {})
  <2>1. Nowhere \in Catalog!Range2Set(st.order) \cup {Nowhere} OBVIOUS
  <2> QED BY <1>2, <1>3, <1>4, <2>1, EachTidies
<1>6. Catalog!Whole(added)
  <2>1. Nowhere \in FolderIds \cup {Nowhere} OBVIOUS
  <2>2. Grows(st, added, {ids[n] : n \in 1..Len(ids)}) BY <1>2, <1>3, <1>4, <2>1, EachGrows
  <2> QED BY <2>2 DEF Grows
<1> DEFINE T == [i \in TrackIds |->
             IF added.tracks[i] \notin {"done", "unavailable"} \/ i \in added.items[TrashId] THEN added.tracks[i]
             ELSE IF i \in sync.lost THEN "unavailable"
             ELSE IF i \in sync.done THEN "done"
             ELSE "unavailable"]
<1>7. st' = [tracks |-> T, order |-> added.order, parent |-> added.parent, items |-> added.items,
              current |-> added.current]
  <2>1. st' = [added EXCEPT !.tracks = T] BY <1>2 DEF Catalog!reconcileAvailability
  <2> HIDE DEF T
  <2> QED BY <1>6, <2>1 DEF Catalog!Whole
<1>8. Catalog!InOrder(added) BY <1>5 DEF Tidies
<1>9. added.items \in Holdings /\ added.tracks \in Entries /\ added.current \in TrackIds \cup {Nowhere}
      /\ \A g \in FolderIds \ Catalog!Range2Set(added.order) : added.items[g] = {}
  BY <1>8, GoneAreEmpty
<1>10. T \in Entries /\ \A i \in TrackIds : T[i] # "absent" => added.tracks[i] # "absent"
  BY <1>9 DEF Entries, Catalog!Statuses
<1> HIDE DEF T
<1>11. \A i \in TrackIds : T[i] # "absent" =>
         i \in {} \/ i \in Loose(added) \/ \E g \in Catalog!Range2Set(added.order) : i \in added.items[g]
  BY <1>10, LiesSomewhere
<1>12. Tidies(added, st', {}) BY <1>7, <1>8, <1>9, <1>10, <1>11, Refilled
<1>13. Tidies(st, st', {} \cup {}) BY <1>5, <1>12, TidiesOn, Zenon
<1>14. Tidies(st, st', {}) BY <1>13
<1> QED BY <1>14, TidiesOrders

LEMMA ReloadOrders ==
  ASSUME Catalog!LibraryAssumption, Catalog!Whole(st), Catalog!InOrder(st), Catalog!Reload
  PROVE Ordered({})
<1> DEFINE I == [st.items EXCEPT ![TrashId] = @ \cap Catalog!Present(st)]
<1>1. st' = [tracks |-> st.tracks, order |-> st.order, parent |-> st.parent, items |-> I, current |-> Nowhere]
  <2>1. st' = [st EXCEPT !.items = I, !.current = Nowhere] BY DEF Catalog!Reload
  <2> HIDE DEF I
  <2> QED BY <2>1 DEF Catalog!Whole
<1>2. st.items \in Holdings /\ st.tracks \in Entries
      /\ \A g \in FolderIds \ Catalog!Range2Set(st.order) : st.items[g] = {}
  BY GoneAreEmpty
<1>3. I \in Holdings
      /\ \A g \in FolderIds : I[g] \subseteq st.items[g] /\ st.items[g] \cap Catalog!Present(st) \subseteq I[g]
  BY <1>2 DEF Holdings
<1> HIDE DEF I
<1>4. \A g \in FolderIds \ Catalog!Range2Set(st.order) : I[g] = {} BY <1>2, <1>3
<1>5. ASSUME NEW i \in TrackIds, st.tracks[i] # "absent"
      PROVE i \in {} \/ i \in Loose(st) \/ \E g \in Catalog!Range2Set(st.order) : i \in I[g]
  <2>1. i \in Catalog!Present(st) BY <1>5 DEF Catalog!Present
  <2>2. Catalog!Range2Set(st.order) \subseteq FolderIds BY GoneAreEmpty
  <2>3. i \in Loose(st) \/ \E g \in Catalog!Range2Set(st.order) : i \in st.items[g] BY <1>5, LiesSomewhere
  <2> QED BY <1>3, <2>1, <2>2, <2>3
<1>6. Nowhere \in TrackIds \cup {Nowhere} OBVIOUS
<1>7. Tidies(st, st', {}) BY <1>1, <1>2, <1>3, <1>4, <1>5, <1>6, Refilled
<1> QED BY <1>7, TidiesOrders

(* ------------------------------- the rest ------------------------------- *)
(* What the invariants of the library leave of its types.                   *)
Typed ==
  /\ deleted \subseteq TrackIds /\ (bin.pc = "idle" => bin.list = {})
  /\ loading \in {Nowhere} \cup [id : TrackIds, status : Catalog!ServerStatuses]
  /\ sync \in {Nowhere} \cup [done : SUBSET TrackIds, lost : SUBSET TrackIds, again : BOOLEAN]
  /\ restore \subseteq TrackIds /\ late \subseteq TrackIds /\ acts \in 0..LibraryActs

LEMMA CatalogInvIs ==
  Catalog!ListsIInv <=> Catalog!LibraryIInv /\ Typed /\ Catalog!InOrder(st) /\ Loose(st) \subseteq late
<1>1. Catalog!NothingStranded <=> Loose(st) \subseteq late
  <2> DEFINE X == Catalog!Present(st)
             Y == Catalog!Placed(st)
  <2>1. (Catalog!NothingStranded <=> X \subseteq Y \cup late) /\ Loose(st) = X \ Y BY DEF Catalog!NothingStranded, Loose
  <2> HIDE DEF X, Y
  <2> QED BY <2>1
<1>2. ASSUME Catalog!LibraryIInv, Typed, Catalog!InOrder(st) PROVE Catalog!TypeOK
  <2>1. Catalog!LibTypeOK(st) BY <1>2 DEF Catalog!InOrder
  <2>2. server \in [TrackIds -> Catalog!ServerStatuses] /\ purged \subseteq TrackIds
        /\ completions \subseteq [id : TrackIds, status : Catalog!ServerStatuses]
    BY <1>2 DEF Catalog!LibraryIInv, Catalog!OnlyHeardOf, Catalog!Heard
  <2>3. savedDeleted \subseteq deleted /\ bin \in Catalog!Binning
    BY <1>2 DEF Catalog!LibraryIInv, Catalog!TombstonesStand
  <2> QED BY <1>2, <2>1, <2>2, <2>3 DEF Catalog!TypeOK, Typed
<1>3. Catalog!TypeOK => Typed BY DEF Catalog!TypeOK, Typed
<1> QED BY <1>1, <1>2, <1>3 DEF Catalog!ListsIInv

LEMMA ActTyped == ASSUME Typed, Catalog!Act PROVE acts' \in 0..LibraryActs
<1>1. acts \in Nat /\ acts < LibraryActs /\ acts' = acts + 1 BY DEF Typed, Catalog!Act
<1>2. acts' \in Nat /\ acts' <= LibraryActs
  <2>1. LibraryActs \in Nat BY PanelConstants DEF Catalog!LibraryAssumption
  <2> QED BY <1>1, <2>1
<1>3. LibraryActs \in Nat BY PanelConstants DEF Catalog!LibraryAssumption
<1> QED BY <1>2, <1>3

LEMMA TypedStays ==
  ASSUME Typed, UNCHANGED <<deleted, bin, loading, sync, restore, late>>, acts' \in 0..LibraryActs
  PROVE Typed' /\ late \subseteq late'
BY DEF Typed

LEMMA FoldersTyped ==
  ASSUME Typed, Catalog!Act, Catalog!OnlyLibrary PROVE Typed' /\ late \subseteq late'
BY ActTyped, TypedStays DEF Catalog!OnlyLibrary, Catalog!answers

LEMMA ServerTyped ==
  ASSUME Typed, NEW id \in TrackIds,
         Catalog!Import(id) \/ Catalog!ImportPlaylist \/ Catalog!ServerEnds(id) \/ Catalog!ServerLosesFiles(id)
  PROVE Typed' /\ late \subseteq late'
<1>1. UNCHANGED <<deleted, bin, loading, sync, restore, late>>
  BY DEF Catalog!Import, Catalog!ImportPlaylist, Catalog!ServerEnds, Catalog!ServerLosesFiles, Catalog!answers
<1>2. acts' \in 0..LibraryActs
  <2>1. CASE Catalog!Act BY <2>1, ActTyped
  <2>2. CASE acts' = acts BY <2>2 DEF Typed
  <2>3. Catalog!Act \/ acts' = acts
    BY DEF Catalog!Import, Catalog!ImportPlaylist, Catalog!ServerEnds, Catalog!ServerLosesFiles, Catalog!Act
  <2> QED BY <2>1, <2>2, <2>3
<1> QED BY <1>1, <1>2, TypedStays

LEMMA LateTyped ==
  ASSUME Typed, NEW id \in TrackIds, late' = late \/ Catalog!WrittenLate(id), loading' \in {loading, Nowhere},
         UNCHANGED <<deleted, bin, sync, restore, acts>>
  PROVE Typed' /\ late \subseteq late'
<1>1. late' \subseteq TrackIds /\ late \subseteq late' BY DEF Typed, Catalog!WrittenLate
<1>2. loading' \in {Nowhere} \cup [id : TrackIds, status : Catalog!ServerStatuses] BY DEF Typed
<1> QED BY <1>1, <1>2 DEF Typed

LEMMA OpenTyped ==
  ASSUME Typed, Catalog!OnlyHeardOf, NEW id \in TrackIds, Catalog!OpenTrack(id) PROVE Typed' /\ late \subseteq late'
<1>1. UNCHANGED <<deleted, bin, sync, restore, late>> /\ Catalog!Act BY DEF Catalog!OpenTrack
<1>2. loading' \in [id : TrackIds, status : Catalog!ServerStatuses]
  BY DEF Catalog!OpenTrack, Catalog!OnlyHeardOf
<1>3. acts' \in 0..LibraryActs BY <1>1, ActTyped
<1> QED BY <1>1, <1>2, <1>3 DEF Typed

LEMMA ListedTyped ==
  ASSUME NEW again \in BOOLEAN
  PROVE Catalog!Listed(again) \in [done : SUBSET TrackIds, lost : SUBSET TrackIds, again : BOOLEAN]
BY DEF Catalog!Listed

LEMMA BinTyped ==
  ASSUME Typed, Catalog!LibraryIInv, Catalog!LibraryAssumption,
         Catalog!ClearBin \/ Catalog!TombstonesWritten \/ (\E id \in TrackIds : Catalog!DeleteAnswered(id)) \/ Catalog!BinCleared
  PROVE Typed' /\ late \subseteq late'
<1>1. UNCHANGED <<loading, sync, restore, late>>
  BY DEF Catalog!ClearBin, Catalog!TombstonesWritten, Catalog!DeleteAnswered, Catalog!BinCleared, Catalog!answers
<1>2. bin \in Catalog!Binning /\ st.items[TrashId] \subseteq TrackIds
  BY DEF Catalog!LibraryIInv, Catalog!Whole, Catalog!LibraryAssumption
<1>3. deleted' \subseteq TrackIds
  BY <1>2 DEF Typed, Catalog!ClearBin, Catalog!TombstonesWritten, Catalog!DeleteAnswered, Catalog!BinCleared
<1>4. bin'.pc = "idle" => bin'.list = {}
  <2>1. CASE Catalog!ClearBin BY <2>1 DEF Catalog!ClearBin
  <2>2. CASE Catalog!TombstonesWritten BY <1>2, <2>2 DEF Catalog!TombstonesWritten, Catalog!Binning
  <2>3. CASE \E id \in TrackIds : Catalog!DeleteAnswered(id) BY <1>2, <2>3 DEF Catalog!DeleteAnswered, Catalog!Binning
  <2>4. CASE Catalog!BinCleared BY <1>2, <2>4 DEF Catalog!BinCleared, Catalog!Binning
  <2> QED BY <2>1, <2>2, <2>3, <2>4
<1>5. acts' \in 0..LibraryActs
  <2>1. CASE Catalog!Act BY <2>1, ActTyped
  <2>2. CASE acts' = acts BY <2>2 DEF Typed
  <2>3. Catalog!Act \/ acts' = acts
    BY DEF Catalog!ClearBin, Catalog!TombstonesWritten, Catalog!DeleteAnswered, Catalog!BinCleared
  <2> QED BY <2>1, <2>2, <2>3
<1> QED BY <1>1, <1>3, <1>4, <1>5 DEF Typed

LEMMA SyncTyped ==
  ASSUME Typed, Catalog!LibraryIInv,
         Catalog!Resync \/ Catalog!SyncAnswered \/ Catalog!Reload \/ \E id \in TrackIds : Catalog!RestoreNext(id)
  PROVE Typed' /\ late \subseteq late'
<1>1. CASE Catalog!Resync
  <2>1. UNCHANGED <<deleted, bin, loading, restore, late>> /\ Catalog!Act /\ sync' = Catalog!Listed(TRUE)
    BY <1>1 DEF Catalog!Resync
  <2>2. TRUE \in BOOLEAN OBVIOUS
  <2>3. sync' \in [done : SUBSET TrackIds, lost : SUBSET TrackIds, again : BOOLEAN] BY <2>1, <2>2, ListedTyped
  <2> QED BY <2>1, <2>3, ActTyped DEF Typed
<1>2. CASE Catalog!SyncAnswered
  <2>1. UNCHANGED <<deleted, bin, loading, late, acts>> /\ sync' = Nowhere BY <1>2 DEF Catalog!SyncAnswered
  <2>2. restore' \subseteq TrackIds
    <3>1. restore' = restore \/ restore' \subseteq Catalog!Present(st') BY <1>2 DEF Catalog!SyncAnswered
    <3>2. Catalog!Present(st') \subseteq TrackIds BY DEF Catalog!Present
    <3> QED BY <3>1, <3>2 DEF Typed
  <2> QED BY <2>1, <2>2 DEF Typed
<1>3. CASE Catalog!Reload
  <2>1. UNCHANGED late /\ deleted' = savedDeleted /\ bin' = [pc |-> "idle", list |-> {}] /\ loading' = Nowhere
        /\ restore' = {} /\ sync' = Catalog!Listed(FALSE) /\ Catalog!Act
    BY <1>3 DEF Catalog!Reload
  <2>2. FALSE \in BOOLEAN OBVIOUS
  <2>3. sync' \in [done : SUBSET TrackIds, lost : SUBSET TrackIds, again : BOOLEAN] BY <2>1, <2>2, ListedTyped
  <2>4. savedDeleted \subseteq TrackIds BY DEF Typed, Catalog!LibraryIInv, Catalog!TombstonesStand
  <2> QED BY <2>1, <2>3, <2>4, ActTyped DEF Typed
<1>4. CASE \E id \in TrackIds : Catalog!RestoreNext(id)
  <2>1. UNCHANGED <<deleted, bin, loading, sync, late, acts>> /\ restore' \subseteq restore
    BY <1>4 DEF Catalog!RestoreNext
  <2> QED BY <2>1 DEF Typed
<1> QED BY <1>1, <1>2, <1>3, <1>4

(* Whatever happens, the lists are in order, and what is in none is one of  *)
(* those written late.                                                      *)
ListsGoOn == Ordered(late') /\ Typed' /\ late \subseteq late'

LEMMA NothingLoose == ASSUME Ordered({}) PROVE Ordered(late') BY OrderedMore

LEMMA FoldersGoOn ==
  ASSUME Catalog!LibraryAssumption, Catalog!ListsIInv, NEW f \in FolderIds, NEW g \in FolderIds, NEW before \in BOOLEAN,
         \/ Catalog!createFolder(f) \/ Catalog!deleteFolder(f) \/ Catalog!createSubfolder(f, g)
         \/ Catalog!reparentFolder(f, g) \/ Catalog!reorderFolder(f, g, before)
  PROVE ListsGoOn
<1>1. Catalog!Whole(st) /\ Catalog!InOrder(st) /\ Typed BY CatalogInvIs DEF Catalog!LibraryIInv
<1>2. Catalog!Act /\ Catalog!OnlyLibrary
  BY DEF Catalog!createFolder, Catalog!deleteFolder, Catalog!createSubfolder, Catalog!reparentFolder, Catalog!reorderFolder
<1>3. Ordered({})
  <2>1. CASE Catalog!createFolder(f) \/ Catalog!createSubfolder(f, g) BY <1>1, <2>1, CreateOrders
  <2>2. CASE Catalog!deleteFolder(f) BY <1>1, <2>2, DeleteOrders
  <2>3. CASE Catalog!reparentFolder(f, g) BY <1>1, <2>3, ReparentOrders
  <2>4. CASE Catalog!reorderFolder(f, g, before) BY <1>1, <2>4, ReorderOrders
  <2> QED BY <2>1, <2>2, <2>3, <2>4
<1> QED BY <1>1, <1>2, <1>3, FoldersTyped, NothingLoose DEF ListsGoOn

LEMMA TracksGoOn ==
  ASSUME Catalog!LibraryAssumption, Catalog!ListsIInv, NEW id \in TrackIds, NEW f \in FolderIds,
         Catalog!MoveToTrash(id) \/ Catalog!restoreTrackFromTrash(id) \/ Catalog!dropOnFolder(id, f)
  PROVE ListsGoOn
<1>1. Catalog!Whole(st) /\ Catalog!InOrder(st) /\ Typed BY CatalogInvIs DEF Catalog!LibraryIInv
<1>2. Catalog!Act /\ Catalog!OnlyLibrary
  BY DEF Catalog!MoveToTrash, Catalog!restoreTrackFromTrash, Catalog!dropOnFolder
<1>3. Ordered({})
  <2>1. CASE Catalog!MoveToTrash(id) BY <1>1, <2>1, TrashOrders
  <2>2. CASE Catalog!restoreTrackFromTrash(id) BY <1>1, <2>2, RestoreOrders
  <2>3. CASE Catalog!dropOnFolder(id, f) BY <1>1, <2>3, DropOrders
  <2> QED BY <2>1, <2>2, <2>3
<1> QED BY <1>1, <1>2, <1>3, FoldersTyped, NothingLoose DEF ListsGoOn

LEMMA ServerGoesOn ==
  ASSUME Catalog!LibraryAssumption, Catalog!ListsIInv, NEW id \in TrackIds,
         Catalog!Import(id) \/ Catalog!ImportPlaylist \/ Catalog!ServerEnds(id) \/ Catalog!ServerLosesFiles(id)
  PROVE ListsGoOn
<1>1. Catalog!Whole(st) /\ Catalog!InOrder(st) /\ Typed BY CatalogInvIs DEF Catalog!LibraryIInv
<1>2. Ordered({})
  <2>1. CASE Catalog!Import(id)
    <3>1. st' \in Catalog!addTrackToLibrary(st, id, "processing") /\ "processing" \in Catalog!Statuses
      BY <2>1 DEF Catalog!Import, Catalog!Statuses
    <3> QED BY <1>1, <3>1, AddOrders
  <2>2. CASE Catalog!ImportPlaylist BY <1>1, <2>2, PlaylistOrders
  <2>3. CASE Catalog!ServerEnds(id) \/ Catalog!ServerLosesFiles(id)
    <3>1. st' = st BY <2>3 DEF Catalog!ServerEnds, Catalog!ServerLosesFiles
    <3> QED BY <1>1, <3>1, SameOrders
  <2> QED BY <2>1, <2>2, <2>3
<1> QED BY <1>1, <1>2, ServerTyped, NothingLoose DEF ListsGoOn

LEMMA AnswersGoOn ==
  ASSUME Catalog!LibraryAssumption, Catalog!ListsIInv,
         (\E c \in completions : Catalog!completeSettledJob(c)) \/ Catalog!TrackOpened
         \/ \E id \in TrackIds : Catalog!OpenTrack(id)
  PROVE ListsGoOn
<1>1. Catalog!Whole(st) /\ Catalog!InOrder(st) /\ Typed /\ Catalog!OnlyHeardOf BY CatalogInvIs DEF Catalog!LibraryIInv
<1>2. CASE \E c \in completions : Catalog!completeSettledJob(c)
  <2>1. PICK c \in completions : Catalog!completeSettledJob(c) BY <1>2
  <2>2. c.id \in TrackIds BY <1>1 DEF Catalog!OnlyHeardOf, Catalog!Heard
  <2>3. Ordered({}) BY <1>1, <2>1, <2>2, CompleteOrders
  <2>4. UNCHANGED <<deleted, bin, sync, restore, acts, loading>> /\ (late' = late \/ Catalog!WrittenLate(c.id))
    BY <2>1 DEF Catalog!completeSettledJob
  <2> QED BY <1>1, <2>2, <2>3, <2>4, LateTyped, NothingLoose DEF ListsGoOn
<1>3. CASE Catalog!TrackOpened
  <2>1. loading # Nowhere /\ loading' = Nowhere BY <1>3 DEF Catalog!TrackOpened
  <2>2. loading.id \in TrackIds BY <1>1, <2>1 DEF Typed
  <2>3. Ordered(late') BY <1>1, <1>3, <2>2, OpenedOrders
  <2>4. UNCHANGED <<deleted, bin, sync, restore, acts>> /\ Catalog!WrittenLate(loading.id)
    BY <1>3 DEF Catalog!TrackOpened
  <2> QED BY <1>1, <2>1, <2>2, <2>3, <2>4, LateTyped DEF ListsGoOn
<1>4. CASE \E id \in TrackIds : Catalog!OpenTrack(id)
  <2>1. PICK id \in TrackIds : Catalog!OpenTrack(id) BY <1>4
  <2>2. st' = st BY <2>1 DEF Catalog!OpenTrack
  <2> QED BY <1>1, <2>1, <2>2, OpenTyped, SameOrders, NothingLoose DEF ListsGoOn
<1> QED BY <1>2, <1>3, <1>4

LEMMA BinGoesOn ==
  ASSUME Catalog!LibraryAssumption, Catalog!ListsIInv,
         Catalog!ClearBin \/ Catalog!TombstonesWritten \/ (\E id \in TrackIds : Catalog!DeleteAnswered(id)) \/ Catalog!BinCleared
  PROVE ListsGoOn
<1>1. Catalog!Whole(st) /\ Catalog!InOrder(st) /\ Typed /\ Catalog!LibraryIInv BY CatalogInvIs DEF Catalog!LibraryIInv
<1>2. Ordered({})
  <2>1. CASE Catalog!TombstonesWritten BY <1>1, <2>1, PurgeOrders
  <2>2. CASE st' = st BY <1>1, <2>2, SameOrders
  <2> QED BY <2>1, <2>2 DEF Catalog!ClearBin, Catalog!DeleteAnswered, Catalog!BinCleared
<1> QED BY <1>1, <1>2, BinTyped, NothingLoose DEF ListsGoOn

LEMMA SyncGoesOn ==
  ASSUME Catalog!LibraryAssumption, Catalog!ListsIInv,
         Catalog!Resync \/ Catalog!SyncAnswered \/ Catalog!Reload \/ \E id \in TrackIds : Catalog!RestoreNext(id)
  PROVE ListsGoOn
<1>1. Catalog!Whole(st) /\ Catalog!InOrder(st) /\ Typed /\ Catalog!LibraryIInv BY CatalogInvIs DEF Catalog!LibraryIInv
<1>2. Ordered({})
  <2>1. CASE Catalog!Resync
    <3>1. st' = st BY <2>1 DEF Catalog!Resync
    <3> QED BY <1>1, <3>1, SameOrders
  <2>2. CASE Catalog!SyncAnswered
    <3>1. sync # Nowhere BY <2>2 DEF Catalog!SyncAnswered
    <3>2. Catalog!Adopted(st) \subseteq TrackIds BY <1>1, <3>1 DEF Typed, Catalog!Adopted
    <3> QED BY <1>1, <2>2, <3>2, SyncOrders
  <2>3. CASE Catalog!Reload BY <1>1, <2>3, ReloadOrders
  <2>4. CASE \E id \in TrackIds : Catalog!RestoreNext(id)
    <3>1. CASE st' = st BY <1>1, <3>1, SameOrders
    <3>2. CASE st' # st
      <4>1. PICK id \in TrackIds : st' \in Catalog!addTrackToLibrary(st, id, "processing")
        BY <2>4, <3>2 DEF Catalog!RestoreNext
      <4>2. "processing" \in Catalog!Statuses BY DEF Catalog!Statuses
      <4> QED BY <1>1, <4>1, <4>2, AddOrders
    <3> QED BY <3>1, <3>2
  <2> QED BY <2>1, <2>2, <2>3, <2>4
<1> QED BY <1>1, <1>2, SyncTyped, NothingLoose DEF ListsGoOn

LEMMA AllGoesOn ==
  ASSUME Catalog!LibraryAssumption, Catalog!ListsIInv, Catalog!Next PROVE ListsGoOn
<1> DEFINE Nest(f, g) == \/ Catalog!createSubfolder(f, g) \/ Catalog!reparentFolder(f, g)
                         \/ \E before \in BOOLEAN : Catalog!reorderFolder(f, g, before)
           On(id) == \/ Catalog!MoveToTrash(id) \/ Catalog!restoreTrackFromTrash(id)
                     \/ \E f \in FolderIds : Catalog!dropOnFolder(id, f)
                     \/ Catalog!Import(id) \/ Catalog!ServerEnds(id) \/ Catalog!ServerLosesFiles(id)
                     \/ Catalog!OpenTrack(id) \/ Catalog!DeleteAnswered(id) \/ Catalog!RestoreNext(id)
<1>0. TRUE \in BOOLEAN /\ TrashId \in FolderIds BY DEF Catalog!LibraryAssumption
<1>1. CASE \E f \in FolderIds : Catalog!createFolder(f) \/ Catalog!deleteFolder(f) BY <1>0, <1>1, FoldersGoOn
<1>2. CASE \E f, g \in FolderIds : Nest(f, g)
  <2>1. PICK f \in FolderIds, g \in FolderIds : Nest(f, g) BY <1>2
  <2>2. CASE Catalog!createSubfolder(f, g) \/ Catalog!reparentFolder(f, g) BY <1>0, <2>2, FoldersGoOn
  <2>3. CASE \E before \in BOOLEAN : Catalog!reorderFolder(f, g, before) BY <2>3, FoldersGoOn
  <2> QED BY <2>1, <2>2, <2>3
<1>3. CASE \E id \in TrackIds : On(id)
  <2>1. PICK id \in TrackIds : On(id) BY <1>3
  <2>2. CASE Catalog!MoveToTrash(id) \/ Catalog!restoreTrackFromTrash(id) BY <1>0, <2>2, TracksGoOn
  <2>3. CASE \E f \in FolderIds : Catalog!dropOnFolder(id, f) BY <2>3, TracksGoOn
  <2>4. CASE Catalog!Import(id) \/ Catalog!ServerEnds(id) \/ Catalog!ServerLosesFiles(id) BY <2>4, ServerGoesOn
  <2>5. CASE Catalog!OpenTrack(id) BY <2>5, AnswersGoOn
  <2>6. CASE Catalog!DeleteAnswered(id) BY <2>6, BinGoesOn
  <2>7. CASE Catalog!RestoreNext(id) BY <2>7, SyncGoesOn
  <2> QED BY <2>1, <2>2, <2>3, <2>4, <2>5, <2>6, <2>7
<1>4. CASE (\E c \in completions : Catalog!completeSettledJob(c)) \/ Catalog!TrackOpened BY <1>4, AnswersGoOn
<1>5. CASE Catalog!ImportPlaylist
  <2>1. CASE TrackIds # {}
    <3>1. PICK id \in TrackIds : TRUE BY <2>1
    <3> QED BY <1>5, <3>1, ServerGoesOn
  <2>2. CASE TrackIds = {}
    <3>1. Catalog!Whole(st) /\ Catalog!InOrder(st) /\ Typed BY CatalogInvIs DEF Catalog!LibraryIInv
    <3>2. Ordered({}) BY <1>5, <3>1, PlaylistOrders
    <3>3. UNCHANGED <<deleted, bin, loading, sync, restore, late>> /\ Catalog!Act
      BY <1>5 DEF Catalog!ImportPlaylist, Catalog!answers
    <3> QED BY <3>1, <3>2, <3>3, ActTyped, TypedStays, NothingLoose DEF ListsGoOn
  <2> QED BY <2>1, <2>2
<1>6. CASE Catalog!ClearBin \/ Catalog!TombstonesWritten \/ Catalog!BinCleared BY <1>6, BinGoesOn
<1>7. CASE Catalog!Resync \/ Catalog!SyncAnswered \/ Catalog!Reload BY <1>7, SyncGoesOn
<1>8. \/ \E f \in FolderIds : Catalog!createFolder(f) \/ Catalog!deleteFolder(f)
      \/ \E f, g \in FolderIds : Nest(f, g)
      \/ \E id \in TrackIds : On(id)
      \/ \E c \in completions : Catalog!completeSettledJob(c)
      \/ Catalog!ImportPlaylist \/ Catalog!TrackOpened \/ Catalog!ClearBin \/ Catalog!TombstonesWritten
      \/ Catalog!BinCleared \/ Catalog!Resync \/ Catalog!SyncAnswered \/ Catalog!Reload
  BY Zenon DEF Catalog!Next
<1> HIDE DEF Nest, On
<1> QED BY <1>1, <1>2, <1>3, <1>4, <1>5, <1>6, <1>7, <1>8, Zenon

LEMMA ListsStep ==
  ASSUME Catalog!LibraryAssumption, Catalog!ListsIInv, Catalog!Next PROVE Catalog!ListsIInv'
<1>1. ListsGoOn BY AllGoesOn
<1>2. Catalog!LibraryIInv /\ Loose(st) \subseteq late BY CatalogInvIs
<1>3. Catalog!LibraryIInv' BY <1>2, LibraryStep
<1>4. Typed' /\ Catalog!InOrder(st') /\ Loose(st') \subseteq late' BY <1>1, <1>2 DEF ListsGoOn, Ordered
<1>5. (Catalog!ListsIInv <=> Catalog!LibraryIInv /\ Typed /\ Catalog!InOrder(st) /\ Loose(st) \subseteq late)'
  BY CatalogInvIs, PTL
<1> QED BY <1>3, <1>4, <1>5

LEMMA ListsStutter == ASSUME Catalog!ListsIInv, UNCHANGED Catalog!vars PROVE Catalog!ListsIInv'
<1>1. UNCHANGED <<st, deleted, savedDeleted, server, bin, loading, completions, sync, restore, purged, late, acts>>
  BY DEF Catalog!vars, Catalog!answers
<1>2. Catalog!LibraryIInv /\ Typed /\ Catalog!InOrder(st) /\ Loose(st) \subseteq late BY CatalogInvIs
<1>3. Catalog!LibraryIInv' BY <1>2, LibraryStutters
<1>4. Typed' /\ Catalog!InOrder(st') /\ Loose(st') \subseteq late' BY <1>1, <1>2 DEF Typed
<1>5. (Catalog!ListsIInv <=> Catalog!LibraryIInv /\ Typed /\ Catalog!InOrder(st) /\ Loose(st) \subseteq late)'
  BY CatalogInvIs, PTL
<1> QED BY <1>3, <1>4, <1>5

LEMMA ListsStart == ASSUME Catalog!LibraryAssumption, Catalog!Init PROVE Catalog!ListsIInv
<1> DEFINE T == [i \in TrackIds |-> IF i \in KnownIds THEN "done" ELSE "absent"]
           O == <<UnsortedId, TrashId>>
           P == [f \in FolderIds |-> Nowhere]
           I == [f \in FolderIds |-> IF f = UnsortedId THEN KnownIds ELSE {}]
<1>1. st = [tracks |-> T, order |-> O, parent |-> P, items |-> I, current |-> Nowhere] BY DEF Catalog!Init
<1>2. KnownIds \subseteq TrackIds /\ {TrashId, UnsortedId} \subseteq FolderIds BY DEF Catalog!LibraryAssumption
<1>3. TrashId # UnsortedId
  <2> SUFFICES ASSUME TrashId = UnsortedId PROVE FALSE OBVIOUS
  <2> DEFINE S == {TrashId}
  <2>1. {TrashId, UnsortedId, PlaylistId} = S \cup {PlaylistId} OBVIOUS
  <2>2. IsFiniteSet(S) /\ Cardinality(S) = 1 BY FS_Singleton
  <2> HIDE DEF S
  <2>3. Cardinality(S \cup {PlaylistId}) = IF PlaylistId \in S THEN Cardinality(S) ELSE Cardinality(S) + 1
    BY <2>2, FS_AddElement
  <2>4. Cardinality({TrashId, UnsortedId, PlaylistId}) = 3 BY CatalogCounts DEF Catalog!LibraryAssumption
  <2> QED BY <2>1, <2>2, <2>3, <2>4
<1>4. T \in Entries /\ (\A i \in TrackIds : T[i] # "absent" => i \in KnownIds) BY DEF Entries, Catalog!Statuses
<1>5. I \in Holdings /\ I[UnsortedId] = KnownIds /\ \A f \in FolderIds \ {UnsortedId} : I[f] = {}
  BY <1>2 DEF Holdings
<1>6. Ranked(O) /\ Catalog!Range2Set(O) = {UnsortedId, TrashId}
  <2>1. O \in Seq(FolderIds) /\ Len(O) = 2 /\ O[1] = UnsortedId /\ O[2] = TrashId BY <1>2
  <2> HIDE DEF O
  <2>2. \A i \in 1..Len(O) : i = 1 \/ i = 2 BY <2>1
  <2>3. 1 \in 1..Len(O) /\ 2 \in 1..Len(O) BY <2>1
  <2>4. Catalog!Range2Set(O) = {UnsortedId, TrashId} BY <2>1, <2>2, <2>3 DEF Catalog!Range2Set
  <2>5. Catalog!NoneTwice(O) BY <1>3, <2>1, <2>2 DEF Catalog!NoneTwice
  <2> QED BY <2>1, <2>4, <2>5 DEF Ranked
<1>7. P \in Parents /\ \A f \in FolderIds : P[f] = Nowhere BY DEF Parents
<1> HIDE DEF T, O, P, I
<1>8. Forest(P)
  <2> SUFFICES ASSUME NEW f \in FolderIds PROVE f \notin Above(P, f) BY DEF Forest
  <2> DEFINE S == {}
  <2>1. S \in SUBSET FolderIds /\ P[f] \in S \cup {Nowhere} /\ Upward(P, S) BY <1>7 DEF Upward
  <2>2. f \notin S OBVIOUS
  <2> HIDE DEF S
  <2>3. Above(P, f) \subseteq S BY <1>7, <2>1, AboveWithin
  <2> QED BY <2>2, <2>3
<1>9. Shelved(O, P, I)
  <2>1. \A f \in FolderIds \ Catalog!Range2Set(O) : I[f] = {} /\ P[f] = Nowhere BY <1>5, <1>6, <1>7
  <2>2. \A f \in Catalog!Range2Set(O) \ {UnsortedId} : P[f] \in Catalog!Range2Set(O) \cup {Nowhere}
    BY <1>2, <1>6, <1>7
  <2>3. {TrashId, UnsortedId} \subseteq Catalog!Range2Set(O) /\ P[TrashId] = Nowhere BY <1>2, <1>6, <1>7
  <2> QED BY <1>6, <1>7, <1>8, <2>1, <2>2, <2>3 DEF Shelved
<1>10. st.tracks = T /\ st.order = O /\ st.parent = P /\ st.items = I /\ st.current = Nowhere BY <1>1
<1>11. Nowhere \in TrackIds \cup {Nowhere} OBVIOUS
<1>12. Catalog!InOrder(st) BY <1>4, <1>5, <1>9, <1>10, <1>11, InOrderIs
<1>13. Loose(st) \subseteq late
  <2> SUFFICES ASSUME NEW i \in Loose(st) PROVE FALSE OBVIOUS
  <2>1. i \in KnownIds BY <1>4, <1>10 DEF Loose, Catalog!Present
  <2>2. UnsortedId \in Catalog!Range2Set(st.order) /\ i \in st.items[UnsortedId] BY <1>5, <1>6, <1>10, <2>1
  <2> QED BY <2>2, PlacedIs DEF Loose
<1>14. Typed
  <2>1. LibraryActs \in Nat BY DEF Catalog!LibraryAssumption
  <2>2. deleted = {} /\ bin.list = {} /\ loading = Nowhere /\ sync = Nowhere /\ restore = {} /\ late = {} /\ acts = 0
    BY DEF Catalog!Init
  <2> QED BY <2>1, <2>2 DEF Typed
<1> QED BY <1>12, <1>13, <1>14, LibraryStarts, CatalogInvIs

(* Folders in order form a forest, and of every track that lies in one the  *)
(* user can see where, save what hangs on an Unsorted that lost its parent. *)
LEMMA OrderShows ==
  ASSUME Catalog!LibraryAssumption, Catalog!InOrder(st)
  PROVE Catalog!FoldersFormAForest /\ Catalog!EveryTrackIsDrawn
<1>1. Shelved(st.order, st.parent, st.items) BY InOrderIs
<1>2. Catalog!Existing = Catalog!Range2Set(st.order) /\ Catalog!Existing \subseteq FolderIds
  BY GoneAreEmpty DEF Catalog!Existing
<1>3. st.parent \in Parents /\ Forest(st.parent) BY <1>1 DEF Shelved
<1>4. \A f \in Catalog!Existing \ {UnsortedId} : st.parent[f] \in Catalog!Existing \cup {Nowhere}
  BY <1>1, <1>2 DEF Shelved
<1>5. Catalog!FoldersFormAForest
  <2>1. \A f \in FolderIds : f \notin Catalog!Ancestors(st, f) BY <1>3, AncestorsAre DEF Forest
  <2> QED BY <1>2, <1>4, <2>1 DEF Catalog!FoldersFormAForest
<1>6. ASSUME NEW f \in Catalog!Existing, UnsortedId \notin {f} \cup Catalog!Ancestors(st, f)
      PROVE Catalog!Ancestors(st, f) \subseteq Catalog!Existing
  <2> DEFINE A == Above(st.parent, f)
             S == A \cap Catalog!Existing
  <2>1. Catalog!Ancestors(st, f) = A BY AncestorsAre
  <2>2. f \in FolderIds BY <1>2
  <2>3. A \subseteq FolderIds /\ st.parent[f] \in A \cup {Nowhere} /\ Upward(st.parent, A)
    BY <1>3, <2>2, AboveIsLeast
  <2>4. UnsortedId \notin A /\ f # UnsortedId BY <1>6, <2>1
  <2> HIDE DEF A
  <2>5. S \in SUBSET FolderIds BY <1>2
  <2>6. st.parent[f] \in S \cup {Nowhere} BY <1>4, <2>3, <2>4
  <2>7. Upward(st.parent, S) BY <1>4, <2>3, <2>4 DEF Upward
  <2> HIDE DEF S
  <2>8. Above(st.parent, f) \subseteq S BY <1>3, <2>2, <2>5, <2>6, <2>7, AboveWithin
  <2> QED BY <2>1, <2>8 DEF A, S
<1>7. Catalog!EveryTrackIsDrawn
  <2> SUFFICES ASSUME NEW i \in Catalog!Present(st) \ Catalog!Drawn
               PROVE \E f \in Catalog!Ordinary : i \in st.items[f] /\ UnsortedId \in {f} \cup Catalog!Ancestors(st, f)
    BY Zenon DEF Catalog!EveryTrackIsDrawn
  <2> DEFINE X == Catalog!Present(st)
             Y == Catalog!Placed(st)
             Z == Catalog!Shown
  <2>0. i \in X /\ i \notin st.items[TrashId] \cup (UNION {st.items[f] : f \in Z}) \cup (X \ Y) BY DEF Catalog!Drawn
  <2> HIDE DEF X, Y, Z
  <2>1. i \in Y /\ i \notin st.items[TrashId] /\ \A f \in Z : i \notin st.items[f]
    <3> DEFINE N == UNION {st.items[f] : f \in Z}
    <3>1. i \in Y /\ i \notin st.items[TrashId] /\ i \notin N
      <4> HIDE DEF N
      <4>1. i \in X /\ i \notin st.items[TrashId] \cup N \cup (X \ Y) BY <2>0 DEF N
      <4> QED BY <4>1
    <3>2. \A f \in Z : st.items[f] \subseteq N OBVIOUS
    <3> HIDE DEF N
    <3> QED BY <3>1, <3>2
  <2> USE DEF Y, Z
  <2>2. PICK f \in Catalog!Range2Set(st.order) : i \in st.items[f] BY <2>1, PlacedIs
  <2>3. f \in Catalog!Ordinary BY <1>2, <2>1, <2>2 DEF Catalog!Ordinary
  <2>4. f \notin Catalog!Shown BY <2>1, <2>2
  <2>5. ~(Catalog!Ancestors(st, f) \subseteq Catalog!Existing) BY <2>3, <2>4 DEF Catalog!Shown
  <2>6. UnsortedId \in {f} \cup Catalog!Ancestors(st, f) BY <1>2, <1>6, <2>2, <2>5
  <2> QED BY <2>2, <2>3, <2>6
<1> QED BY <1>5, <1>7

ListsHold == part = "library" => Catalog!ListsIInv

LEMMA ListsHoldOn == ASSUME ListsHold, [Next]_vars PROVE ListsHold'
<1>0. part' = part BY DEF Next, vars, Still
<1> SUFFICES ASSUME part = "library" PROVE Catalog!ListsIInv' BY <1>0 DEF ListsHold
<1>1. Catalog!ListsIInv BY DEF ListsHold
<1>2. Catalog!LibraryAssumption BY PanelConstants
<1>3. CASE Next
  <2>1. Catalog!Next BY <1>3 DEF Next
  <2> QED BY <1>1, <1>2, <2>1, ListsStep
<1>4. CASE UNCHANGED vars
  <2>1. UNCHANGED Catalog!vars BY <1>4 DEF vars, catalog, Catalog!vars, Catalog!answers
  <2> QED BY <1>1, <2>1, ListsStutter
<1> QED BY <1>3, <1>4

(* Whatever is nested, dragged, deleted, trashed, imported and synced, the  *)
(* folders form a forest, every track lies in one and is drawn, with the    *)
(* exceptions stated, and each failure has one card.                        *)
THEOREM ListsAlwaysInOrder == Spec => []ListsInOrder
<1>1. Init => ListsHold BY PanelConstants, ListsStart DEF Init, ListsHold
<1>2. ListsHold /\ [Next]_vars => ListsHold' BY ListsHoldOn
<1>3. ListsHold => (part = "library" => /\ Catalog!TypeOK /\ Catalog!FoldersFormAForest /\ Catalog!NothingStranded
                                        /\ Catalog!EveryTrackIsDrawn)
  BY PanelConstants, OrderShows DEF ListsHold, Catalog!ListsIInv
<1> DEFINE Notes == part = "notifications" => Cards!NotifTypeOK /\ Cards!OneCardPerFailure /\ Cards!StoreKeepsTheList
<1>4. Spec => []Notes BY CardsAlwaysInOrder
<1>5. ListsHold /\ Notes => ListsInOrder BY <1>3 DEF ListsInOrder
<1> HIDE DEF Notes
<1> QED BY <1>1, <1>2, <1>4, <1>5, PTL DEF Spec
=============================================================================
