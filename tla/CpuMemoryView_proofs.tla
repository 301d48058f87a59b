----------------------- MODULE CpuMemoryView_proofs -----------------------
(***************************************************************************)
(* Theorems about CpuMemoryView, for any number of views, ids, addresses   *)
(* and values.                                                             *)
(***************************************************************************)
EXTENDS CpuMemoryView, FiniteSetTheorems, SequenceTheorems,
        WellFoundedInduction, TLAPS

\* A set of places in a list has a last one: Newest is well defined.
LEMMA NewestIsMember ==
  ASSUME NEW n \in Nat, NEW I, I \subseteq 1 .. n, I # {}
  PROVE  Newest(I) \in I /\ \A j \in I : j <= Newest(I)
<1> DEFINE T == {m \in Nat : n - m \in I}
<1> DEFINE R == {ss \in Nat \X Nat : ss[1] < ss[2]}
<1>1. IsWellFoundedOn(R, Nat)
  BY NatLessThanWellFounded DEF OpToRel
<1>2. T # {}
  <2>1. PICK i \in I : TRUE
    OBVIOUS
  <2>2. n - i \in Nat /\ n - (n - i) = i
    BY SMT
  <2> QED BY <2>1, <2>2
<1>3. PICK m \in T : \A k \in T : ~(<<k, m>> \in R)
  <2> HIDE DEF R
  <2>1. T \subseteq Nat
    OBVIOUS
  <2> HIDE DEF T
  <2> QED BY <1>1, <1>2, <2>1, WFMin
<1>4. ASSUME NEW j \in I PROVE j <= n - m
  <2>1. n - j \in Nat /\ n - (n - j) = j /\ m \in Nat
    BY SMT
  <2>2. n - j \in T
    BY <2>1
  <2>3. ~(n - j < m)
    BY <1>3, <2>1, <2>2
  <2> QED BY <2>1, <2>3, SMT
<1>5. n - m \in I
  BY <1>3
<1> QED BY <1>4, <1>5 DEF Newest

-----------------------------------------------------------------------------
(***************************************************************************)
(* Type correctness.                                                       *)
(***************************************************************************)

LEMMA StoreListType ==
  ASSUME NEW v \in Views, WalkEnds(v)
  PROVE  /\ Len(StoreList(v)) \in Nat
         /\ StoreList(v) \in [1 .. Len(StoreList(v)) -> StoreIds]
         /\ IsWalk(v, StoreList(v))
<1>1. StoreList(v) \in StoreSeqs /\ IsWalk(v, StoreList(v))
  BY DEF WalkEnds, StoreList
<1>2. Cardinality(StoreIds) \in Nat
  BY IdsAssumption, FS_CardinalityType
<1>3. PICK n \in 0 .. Cardinality(StoreIds) : StoreList(v) \in [1 .. n -> StoreIds]
  BY <1>1 DEF StoreSeqs
<1>4. n \in Nat /\ Len(StoreList(v)) = n
  BY <1>2, <1>3
<1> QED BY <1>1, <1>3, <1>4

\* What a load observes along a list of n stores is data.
LEMMA ObservedType ==
  ASSUME TypeOK, NEW v \in Views, NEW fp \in Footprints, Fits(fp),
         NEW n \in Nat, NEW q \in [1 .. n -> StoreIds]
  PROVE  Observed(v, q, fp) \in [fp -> Byte]
<1>1. Len(q) = n
  OBVIOUS
<1> SUFFICES ASSUME NEW a \in fp
             PROVE  LET hits == Covering(v, q, a)
                    IN  (IF hits = {} THEN memory[a]
                         ELSE stores[v][q[Newest(hits)]].bytes[a]) \in Byte
  BY DEF Observed
<1>2. a \in Addr
  BY DataAssumption
<1>3. CASE Covering(v, q, a) = {}
  BY <1>2, <1>3 DEF TypeOK
<1>4. CASE Covering(v, q, a) # {}
  <2> DEFINE m == Newest(Covering(v, q, a))
  <2>1. Covering(v, q, a) \subseteq 1 .. n
    BY <1>1 DEF Covering
  <2>2. m \in Covering(v, q, a)
    BY <1>4, <2>1, NewestIsMember
  <2>3. m \in 1 .. n /\ a \in DOMAIN stores[v][q[m]].bytes
    BY <2>1, <2>2 DEF Covering
  <2>4. stores[v][q[m]].bytes \in Data
    BY <2>3 DEF TypeOK, Store
  <2>5. stores[v][q[m]].bytes[a] \in Byte
    BY <2>3, <2>4 DEF Data
  <2> QED BY <1>4, <2>5
<1> QED BY <1>3, <1>4

LEMMA DataOf ==
  ASSUME NEW fp \in Footprints, Fits(fp)
  PROVE  [fp -> Byte] \subseteq Data
BY DEF Data, Fits

LEMMA OverwriteType ==
  ASSUME NEW new \in Data, NEW old \in Data
  PROVE  Overwrite(new, old) \in Data
<1>1. PICK f \in {g \in Footprints : Cardinality(g) <= MaxLen} \cup {{}} : old \in [f -> Byte]
  BY DEF Data
<1>2. \A a \in DOMAIN new : new[a] \in Byte
  BY DEF Data
<1>3. Overwrite(new, old) \in [f -> Byte]
  BY <1>1, <1>2 DEF Overwrite
<1> QED BY <1>3 DEF Data

LEMMA NoBytesType == NoBytes \in Data
<1>1. NoBytes \in [{} -> Byte]
  BY DEF NoBytes
<1> QED BY <1>1 DEF Data

LEMMA InitTypeOK == Init => TypeOK
BY NoBytesType DEF Init, TypeOK, Status, Load, Store

-----------------------------------------------------------------------------
\* The load queue's part of the invariant; status is not in it.
LoadQueuesWellFormed == \A v \in Views : LoadQueueWellFormed(v)

\* Only the bound on loadsInflightCount is needed of it for the types.
LEMMA InflightInRange ==
  ASSUME TypeOK, NEW v \in Views, LoadQueueWellFormed(v)
  PROVE  /\ Cardinality(LoadIds) \in Nat
         /\ loadsInflightCount[v] \in Nat
         /\ \A i \in 0 .. (loadsInflightCount[v] - 1) :
              i \in Indices /\ loadsInflight[v][i] \in LoadIds
         /\ Inflight(v) \subseteq LoadIds
<1>1. Cardinality(LoadIds) \in Nat
  BY IdsAssumption, FS_CardinalityType
<1>2. loadsInflightCount[v] \in Nat
  BY DEF TypeOK
<1> QED BY <1>1, <1>2 DEF LoadQueueWellFormed, Indices, Inflight

LEMMA LoadExecuteType ==
  ASSUME TypeOK, NEW v \in Views, NEW id \in LoadIds, NEW fp \in Footprints,
         LoadExecute(v, id, fp)
  PROVE  TypeOK'
<1> DEFINE new == [valid  |-> TRUE,
                   bytes  |-> Observed(v, StoreList(v), fp),
                   userId |-> IF loads[v][id].valid THEN loads[v][id].userId
                              ELSE loadsInflightCount[v]]
<1>1. Observed(v, StoreList(v), fp) \in Data
  BY StoreListType, ObservedType, DataOf DEF LoadExecute
<1>2. loads' \in [Views -> [LoadIds -> Load]]
  <2>1. loads[v][id] \in Load /\ loadsInflightCount[v] \in Nat
    BY DEF TypeOK
  <2>2. new \in Load
    BY <1>1, <2>1 DEF Load
  <2>3. loads' = [loads EXCEPT ![v][id] = new]
    BY DEF LoadExecute
  <2> QED BY <2>2, <2>3 DEF TypeOK
<1>3. /\ loadsInflight' \in [Views -> [Indices -> LoadIds \cup {Null}]]
      /\ loadsInflightCount' \in [Views -> Nat]
  <2>1. CASE loads[v][id].valid
    BY <2>1 DEF LoadExecute, TypeOK
  <2>2. CASE ~loads[v][id].valid
    <3>1. /\ loadsInflight' = [loadsInflight EXCEPT ![v][loadsInflightCount[v]] = id]
          /\ loadsInflightCount' = [loadsInflightCount EXCEPT ![v] = @ + 1]
      BY <2>2 DEF LoadExecute
    <3>2. /\ loadsInflight \in [Views -> [Indices -> LoadIds \cup {Null}]]
          /\ loadsInflightCount \in [Views -> Nat]
      BY DEF TypeOK
    <3>3. loadsInflight' \in [Views -> [Indices -> LoadIds \cup {Null}]]
      BY <3>1, <3>2
    <3> QED BY <3>1, <3>2, <3>3
  <2> QED BY <2>1, <2>2
<1> QED BY <1>2, <1>3 DEF LoadExecute, TypeOK, storeVars

LEMMA LoadExecuteMeetsInvalidType ==
  ASSUME TypeOK, NEW v \in Views, NEW id \in LoadIds, NEW fp \in Footprints,
         LoadExecuteMeetsInvalid(v, id, fp)
  PROVE  TypeOK'
<1>1. PICK q \in StoreSeqs :
        /\ StopsAt(v, q)
        /\ loads' = [loads EXCEPT ![v][id].bytes = Observed(v, SubSeq(q, 1, Len(q) - 1), fp)]
  BY DEF LoadExecuteMeetsInvalid
<1> DEFINE n == Len(q)
<1>2. PICK m \in 0 .. Cardinality(StoreIds) : q \in [1 .. m -> StoreIds]
  BY DEF StoreSeqs
<1>3. n - 1 \in Nat /\ n \in Nat /\ q \in [1 .. n -> StoreIds]
  <2>1. m \in Nat
    BY <1>2, IdsAssumption, FS_CardinalityType
  <2>2. q \in Seq(StoreIds) /\ Len(q) = m
    BY <1>2, <2>1
  <2> QED BY <1>1, <1>2, <2>1, <2>2 DEF StopsAt
<1>4. SubSeq(q, 1, n - 1) \in [1 .. (n - 1) -> StoreIds]
  <2>1. \A i \in 1 .. (n - 1) : q[i] \in StoreIds
    BY <1>3
  <2> HIDE DEF n
  <2>2. /\ SubSeq(q, 1, n - 1) \in Seq(StoreIds)
        /\ Len(SubSeq(q, 1, n - 1)) = n - 1
    BY <1>3, <2>1, SubSeqProperties
  <2> QED BY <2>2, LenProperties
<1> DEFINE new == [loads[v][id] EXCEPT !.bytes = Observed(v, SubSeq(q, 1, n - 1), fp)]
<1>5. Observed(v, SubSeq(q, 1, n - 1), fp) \in Data
  BY <1>3, <1>4, ObservedType, DataOf DEF LoadExecuteMeetsInvalid
<1>6. new \in Load
  <2>1. loads[v][id] \in Load
    BY DEF TypeOK
  <2> QED BY <1>5, <2>1 DEF Load
<1>7. loads' \in [Views -> [LoadIds -> Load]]
  <2>1. loads' = [loads EXCEPT ![v][id] = new]
    BY <1>1
  <2>2. loads \in [Views -> [LoadIds -> Load]]
    BY DEF TypeOK
  <2> QED BY <1>6, <2>1, <2>2
<1> QED BY <1>7 DEF LoadExecuteMeetsInvalid, TypeOK, Status, storeVars

LEMMA LoadCommitType ==
  ASSUME TypeOK, NEW v \in Views, NEW id \in LoadIds, LoadQueueWellFormed(v),
         LoadCommit(v, id)
  PROVE  TypeOK'
<1> DEFINE slot  == loads[v][id].userId
           last  == loadsInflight[v][loadsInflightCount[v] - 1]
           moved == [loads[v][last] EXCEPT !.userId = slot]
<1>1. loadsInflightCount[v] - 1 \in Nat /\ last \in LoadIds
  BY InflightInRange DEF LoadCommit
<1>2. moved \in Load
  <2>1. loads[v][last] \in Load /\ loads[v][id] \in Load
    BY <1>1 DEF TypeOK
  <2> QED BY <2>1 DEF Load
<1>3. /\ loads' = [loads EXCEPT ![v][last] = moved]
      /\ loadsInflight' = [loadsInflight EXCEPT ![v][slot] = last]
      /\ loadsInflightCount' = [loadsInflightCount EXCEPT ![v] = @ - 1]
  BY DEF LoadCommit, RemoveInflight
<1>4. /\ loads \in [Views -> [LoadIds -> Load]]
      /\ loadsInflight \in [Views -> [Indices -> LoadIds \cup {Null}]]
      /\ loadsInflightCount \in [Views -> Nat]
      /\ loadFresh \in [Views -> LoadIds \cup {Null}]
  BY DEF TypeOK
<1> HIDE DEF slot, last, moved
<1>5. loads' \in [Views -> [LoadIds -> Load]]
  BY <1>2, <1>3, <1>4
<1>6. loadsInflight' \in [Views -> [Indices -> LoadIds \cup {Null}]]
  BY <1>1, <1>3, <1>4
<1>7. loadsInflightCount' \in [Views -> Nat]
  BY <1>1, <1>3, <1>4
<1>8. loadFresh' \in [Views -> LoadIds \cup {Null}] /\ status' \in Status
  BY <1>4 DEF LoadCommit, TypeOK, Status
<1> QED BY <1>5, <1>6, <1>7, <1>8 DEF LoadCommit, TypeOK, storeVars

LEMMA LoadFlushType ==
  ASSUME TypeOK, NEW v \in Views, LoadFlush(v)
  PROVE  TypeOK'
<1> DEFINE new == [l \in LoadIds |-> IF l \in Inflight(v)
                     THEN [loads[v][l] EXCEPT !.valid = FALSE] ELSE loads[v][l]]
<1>1. /\ loads \in [Views -> [LoadIds -> Load]]
      /\ loadsInflightCount \in [Views -> Nat]
  BY DEF TypeOK
<1>2. new \in [LoadIds -> Load]
  <2>1. \A l \in LoadIds : loads[v][l] \in Load
    BY <1>1
  <2> QED BY <2>1 DEF Load
<1>3. /\ loads' = [loads EXCEPT ![v] = new]
      /\ loadsInflightCount' = [loadsInflightCount EXCEPT ![v] = 0]
  BY DEF LoadFlush
<1> HIDE DEF new
<1>4. /\ loads' \in [Views -> [LoadIds -> Load]]
      /\ loadsInflightCount' \in [Views -> Nat]
  BY <1>1, <1>2, <1>3
<1> QED BY <1>4 DEF LoadFlush, TypeOK, storeVars

\* The view's slots after a store was linked or unlinked are stores.
LEMMA StoresType ==
  ASSUME TypeOK, NEW v \in Views, NEW slots \in [StoreIds -> Store],
         stores' = [stores EXCEPT ![v] = slots]
  PROVE  stores' \in [Views -> [StoreIds -> Store]]
<1>1. stores \in [Views -> [StoreIds -> Store]]
  BY DEF TypeOK
<1> QED BY <1>1

LEMMA StoreCommitType ==
  ASSUME TypeOK, NEW v \in Views, NEW id \in StoreIds, NEW fp \in Footprints,
         NEW bytes \in [fp -> Byte], StoreCommit(v, id, bytes)
  PROVE  TypeOK'
<1> DEFINE filled(s) == IF s = id
                        THEN [valid |-> TRUE, bytes |-> bytes,
                              previous |-> storeLast[v], next |-> Null]
                        ELSE stores[v][s]
           slots == [s \in StoreIds |->
                       IF s = storeLast[v] THEN [filled(s) EXCEPT !.next = id]
                       ELSE filled(s)]
<1>1. bytes \in Data
  <2>1. DOMAIN bytes = fp
    OBVIOUS
  <2> QED BY <2>1, DataOf DEF StoreCommit
<1>2. /\ storeHead \in [Views -> StoreIds \cup {Null}]
      /\ storeLast \in [Views -> StoreIds \cup {Null}]
      /\ storeFresh \in [Views -> StoreIds \cup {Null}]
      /\ \A s \in StoreIds : stores[v][s] \in Store
  BY DEF TypeOK
<1>3. \A s \in StoreIds : filled(s) \in Store
  BY <1>1, <1>2 DEF Store
<1>4. slots \in [StoreIds -> Store]
  <2> HIDE DEF filled
  <2> QED BY <1>3 DEF Store
<1>5. stores' = [stores EXCEPT ![v] = slots]
  BY DEF StoreCommit
<1>6. stores' \in [Views -> [StoreIds -> Store]]
  BY <1>4, <1>5, StoresType
<1>7. /\ storeHead' \in [Views -> StoreIds \cup {Null}]
      /\ storeLast' \in [Views -> StoreIds \cup {Null}]
      /\ storeFresh' \in [Views -> StoreIds \cup {Null}]
  BY <1>2 DEF StoreCommit
<1> QED BY <1>6, <1>7 DEF StoreCommit, TypeOK, loadVars

LEMMA StoreCommitRejectedType ==
  ASSUME TypeOK, NEW v \in Views, NEW id \in StoreIds, NEW fp \in Footprints,
         NEW bytes \in [fp -> Byte], StoreCommitRejected(v, id, bytes)
  PROVE  TypeOK'
<1> DEFINE new == [stores[v][id] EXCEPT !.valid = TRUE, !.bytes = bytes]
<1>1. stores \in [Views -> [StoreIds -> Store]]
  BY DEF TypeOK
<1>2. CASE UNCHANGED stores
  BY <1>2 DEF StoreCommitRejected, TypeOK, Status, loadVars
<1>3. CASE Fits(DOMAIN bytes) /\ stores' = [stores EXCEPT ![v][id] = new]
  <2>1. DOMAIN bytes = fp
    OBVIOUS
  <2>2. bytes \in Data
    BY <1>3, <2>1, DataOf
  <2>3. new \in Store
    <3>1. stores[v][id] \in Store
      BY <1>1
    <3> QED BY <2>2, <3>1 DEF Store
  <2> HIDE DEF new
  <2>4. stores' \in [Views -> [StoreIds -> Store]]
    BY <1>1, <1>3, <2>3
  <2> QED BY <2>4 DEF StoreCommitRejected, TypeOK, Status, loadVars
<1> QED BY <1>2, <1>3 DEF StoreCommitRejected

LEMMA StoreBroadcastType ==
  ASSUME TypeOK, NEW v \in Views, NEW id \in StoreIds, StoreBroadcast(v, id)
  PROVE  TypeOK'
<1> DEFINE st == stores[v][id]
<1>1. /\ \A s \in StoreIds : stores[v][s] \in Store
      /\ storeHead \in [Views -> StoreIds \cup {Null}]
      /\ storeLast \in [Views -> StoreIds \cup {Null}]
  BY DEF TypeOK
<1>2. st.bytes \in Data /\ st.previous \in StoreIds \cup {Null}
      /\ st.next \in StoreIds \cup {Null}
  BY <1>1 DEF Store
<1>3. memory' \in [Addr -> Byte]
  <2>1. \A a \in DOMAIN st.bytes : st.bytes[a] \in Byte
    BY <1>2 DEF Data
  <2>2. memory \in [Addr -> Byte] /\ memory' = Overwrite(st.bytes, memory)
    BY DEF TypeOK, StoreBroadcast
  <2> QED BY <2>1, <2>2 DEF Overwrite
<1>4. Unlinked(v, id) \in [StoreIds -> Store]
  BY <1>1, <1>2 DEF Unlinked, Store
<1>5. stores' \in [Views -> [StoreIds -> Store]]
  BY <1>4, StoresType DEF StoreBroadcast
<1>6. /\ storeHead' \in [Views -> StoreIds \cup {Null}]
      /\ storeLast' \in [Views -> StoreIds \cup {Null}]
  BY <1>1, <1>2 DEF StoreBroadcast
<1> QED BY <1>3, <1>5, <1>6 DEF StoreBroadcast, TypeOK, loadVars

LEMMA LoadsAfterType ==
  ASSUME TypeOK, NEW v \in Views, NEW consumed, NEW bytes \in Data
  PROVE  LoadsAfter(v, consumed, bytes) \in [LoadIds -> Load]
<1> SUFFICES ASSUME NEW l \in LoadIds
             PROVE  LoadsAfter(v, consumed, bytes)[l] \in Load
  BY DEF LoadsAfter
<1>1. loads[v][l] \in Load
  BY DEF TypeOK
<1>2. Overwrite(bytes, loads[v][l].bytes) \in Data
  BY <1>1, OverwriteType DEF Load
<1> QED BY <1>1, <1>2 DEF LoadsAfter, Load

LEMMA LoadsAfterOf ==
  ASSUME TypeOK, NEW v \in Views, NEW consumed, NEW bytes, NEW l \in LoadIds
  PROVE  /\ LoadsAfter(v, consumed, bytes)[l].valid <=> (loads[v][l].valid /\ l # consumed)
         /\ LoadsAfter(v, consumed, bytes)[l].bytes
              = IF l \in Inflight(v) THEN Overwrite(bytes, loads[v][l].bytes)
                ELSE loads[v][l].bytes
<1>1. loads[v][l] \in Load
  BY DEF TypeOK
<1>2. PICK b : b = IF l \in Inflight(v) THEN Overwrite(bytes, loads[v][l].bytes)
                   ELSE loads[v][l].bytes
  OBVIOUS
<1>3. LoadsAfter(v, consumed, bytes)[l] = [loads[v][l] EXCEPT
        !.valid = IF l = consumed THEN FALSE ELSE @, !.bytes = b]
  BY <1>2 DEF LoadsAfter
<1>4. LoadsAfter(v, consumed, bytes)[l].bytes = b
  BY <1>1, <1>3 DEF Load
<1>5. LoadsAfter(v, consumed, bytes)[l].valid <=> (loads[v][l].valid /\ l # consumed)
  BY <1>1, <1>3 DEF Load
<1> QED BY <1>2, <1>4, <1>5

\* The steps that let Spike execute an instruction touch the load queue by
\* LoadsAfter or not at all.
LEMMA SpikeLoadsType ==
  ASSUME TypeOK, NEW v \in Views, NEW consumed, NEW bytes,
         bytes = NoBytes \/ StoreAgrees(v, bytes),
         loads' = [loads EXCEPT ![v] = LoadsAfter(v, consumed, bytes)]
  PROVE  loads' \in [Views -> [LoadIds -> Load]]
<1>1. bytes \in Data
  <2>1. CASE bytes = NoBytes
    BY <2>1, NoBytesType
  <2>2. CASE StoreAgrees(v, bytes)
    <3>1. storeFresh[v] \in StoreIds
      BY <2>2 DEF StoreAgrees, FreshStoreValid, TypeOK
    <3>2. stores[v][storeFresh[v]] \in Store
      BY <3>1 DEF TypeOK
    <3> QED BY <2>2, <3>2 DEF StoreAgrees, Store
  <2> QED BY <2>1, <2>2
<1>2. LoadsAfter(v, consumed, bytes) \in [LoadIds -> Load]
  BY <1>1, LoadsAfterType
<1>3. loads \in [Views -> [LoadIds -> Load]]
  BY DEF TypeOK
<1> QED BY <1>2, <1>3

LEMMA SpikeStepType ==
  ASSUME TypeOK, NEW v \in Views, SpikeStep(v)
  PROVE  TypeOK'
<1>1. /\ loadFresh \in [Views -> LoadIds \cup {Null}]
      /\ storeFresh \in [Views -> StoreIds \cup {Null}]
  BY DEF TypeOK
<1>2. ASSUME NEW fp \in Footprints, CommitLoad(v, fp)
      PROVE  TypeOK'
  <2>1. loads' \in [Views -> [LoadIds -> Load]]
    BY <1>2, SpikeLoadsType DEF CommitLoad
  <2>2. loadFresh' \in [Views -> LoadIds \cup {Null}]
    BY <1>1, <1>2 DEF CommitLoad
  <2> QED BY <1>2, <2>1, <2>2 DEF CommitLoad, TypeOK, storeVars
<1>3. ASSUME NEW fp \in Footprints, CommitLoadRejected(v, fp)
      PROVE  TypeOK'
  <2>1. loads' \in [Views -> [LoadIds -> Load]]
    BY <1>3, SpikeLoadsType DEF CommitLoadRejected, TypeOK
  <2>2. loadFresh' \in [Views -> LoadIds \cup {Null}]
    BY <1>1, <1>3 DEF CommitLoadRejected, DropFreshLoad
  <2> QED BY <1>3, <2>1, <2>2 DEF CommitLoadRejected, TypeOK, Status, storeVars
<1>4. ASSUME NEW bytes, CommitStore(v, bytes)
      PROVE  TypeOK'
  <2>1. loads' \in [Views -> [LoadIds -> Load]]
    BY <1>4, SpikeLoadsType DEF CommitStore
  <2>2. storeFresh' \in [Views -> StoreIds \cup {Null}]
    BY <1>1, <1>4 DEF CommitStore
  <2> QED BY <1>4, <2>1, <2>2 DEF CommitStore, TypeOK
<1>5. ASSUME NEW bytes, CommitStoreRejected(v, bytes)
      PROVE  TypeOK'
  <2>1. loads' \in [Views -> [LoadIds -> Load]]
    BY <1>5, SpikeLoadsType DEF CommitStoreRejected, TypeOK
  <2>2. storeFresh' \in [Views -> StoreIds \cup {Null}]
    BY <1>1, <1>5 DEF CommitStoreRejected, DropFreshStore
  <2> QED BY <1>5, <2>1, <2>2 DEF CommitStoreRejected, TypeOK, Status
<1>6. ASSUME NEW fp \in Footprints, NEW bytes, CommitAmo(v, fp, bytes)
      PROVE  TypeOK'
  <2>1. loads' \in [Views -> [LoadIds -> Load]]
    BY <1>6, SpikeLoadsType DEF CommitAmo
  <2>2. /\ loadFresh' \in [Views -> LoadIds \cup {Null}]
        /\ storeFresh' \in [Views -> StoreIds \cup {Null}]
    BY <1>1, <1>6 DEF CommitAmo
  <2> QED BY <1>6, <2>1, <2>2 DEF CommitAmo, TypeOK
<1>7. ASSUME NEW fp \in Footprints, NEW bytes, CommitAmoRejected(v, fp, bytes)
      PROVE  TypeOK'
  <2>1. loads' \in [Views -> [LoadIds -> Load]]
    BY <1>7, SpikeLoadsType DEF CommitAmoRejected, TypeOK
  <2>2. loadFresh' \in [Views -> LoadIds \cup {Null}]
    BY <1>1, <1>7 DEF CommitAmoRejected, DropFreshLoad
  <2>3. storeFresh' \in [Views -> StoreIds \cup {Null}]
    BY <1>1, <1>7 DEF CommitAmoRejected, DropFreshStore
  <2> QED BY <1>7, <2>1, <2>2, <2>3 DEF CommitAmoRejected, TypeOK, Status
<1>8. CASE CommitOther(v)
  BY <1>8 DEF CommitOther, TypeOK, vars, loadVars, storeVars
<1>9. CASE CommitOtherRejected(v)
  BY <1>9 DEF CommitOtherRejected, TypeOK, Status, loadVars, storeVars
<1> QED BY <1>2, <1>3, <1>4, <1>5, <1>6, <1>7, <1>8, <1>9 DEF SpikeStep

-----------------------------------------------------------------------------
(***************************************************************************)
(* The load queue.                                                         *)
(***************************************************************************)

\* A view whose load queue does not change keeps its part of the invariant.
LEMMA LoadQueueFrame ==
  ASSUME NEW u \in Views, LoadQueueWellFormed(u),
         loads'[u] = loads[u], loadsInflight'[u] = loadsInflight[u],
         loadsInflightCount'[u] = loadsInflightCount[u], loadFresh'[u] = loadFresh[u]
  PROVE  LoadQueueWellFormed(u)'
BY DEF LoadQueueWellFormed, Inflight

\* There is room in loadsInflight for a load that is not valid: the loads in it
\* are distinct, each being at its own place.
LEMMA RoomForInvalidLoad ==
  ASSUME TypeOK, NEW v \in Views, LoadQueueWellFormed(v),
         NEW id \in LoadIds, ~loads[v][id].valid
  PROVE  loadsInflightCount[v] < Cardinality(LoadIds)
<1> DEFINE n == loadsInflightCount[v]
           f == [i \in 0 .. n |-> IF i = n THEN id ELSE loadsInflight[v][i]]
<1>1. n \in Nat /\ Cardinality(LoadIds) \in Nat
  BY InflightInRange
<1>2. \A i \in 0 .. (n - 1) :
        /\ loadsInflight[v][i] \in LoadIds /\ loadsInflight[v][i] # id
        /\ loads[v][loadsInflight[v][i]].userId = i
  BY InflightInRange DEF LoadQueueWellFormed, Inflight
<1>3. f \in [0 .. n -> LoadIds]
  BY <1>1, <1>2
<1>4. \A i, j \in 0 .. n : f[i] = f[j] => i = j
  BY <1>1, <1>2
<1> HIDE DEF f, n
<1>5. f \in Injection(0 .. n, LoadIds)
  BY <1>3, <1>4 DEF Injection, IsInjective
<1>6. Cardinality(0 .. n) = n + 1
  BY <1>1, FS_Interval
<1>7. Cardinality(0 .. n) <= Cardinality(LoadIds)
  BY <1>5, FS_Injection, IdsAssumption
<1> QED BY <1>1, <1>6, <1>7 DEF n

LEMMA LoadExecuteQueue ==
  ASSUME TypeOK, NEW v \in Views, LoadQueueWellFormed(v), NEW id \in LoadIds,
         NEW fp \in Footprints, LoadExecute(v, id, fp)
  PROVE  LoadQueueWellFormed(v)'
<1> DEFINE n == loadsInflightCount[v]
<1>1. n \in Nat /\ Cardinality(LoadIds) \in Nat /\ Inflight(v) \subseteq LoadIds
  BY InflightInRange
<1>2. /\ loads'[v] = [loads[v] EXCEPT ![id] =
             [valid |-> TRUE, bytes |-> Observed(v, StoreList(v), fp),
              userId |-> IF loads[v][id].valid THEN loads[v][id].userId ELSE n]]
      /\ loadFresh' = loadFresh
  BY DEF LoadExecute, TypeOK
<1>3. loads[v] \in [LoadIds -> Load]
  BY DEF TypeOK
<1>4. \A l \in LoadIds :
        /\ loads'[v][l].userId = IF l = id /\ ~loads[v][id].valid THEN n
                                 ELSE loads[v][l].userId
        /\ loads'[v][l].valid <=> (loads[v][l].valid \/ l = id)
  BY <1>2, <1>3
<1>5. CASE loads[v][id].valid
  <2>1. loadsInflight' = loadsInflight /\ loadsInflightCount' = loadsInflightCount
    BY <1>5 DEF LoadExecute
  <2>2. Inflight(v)' = Inflight(v)
    BY <2>1 DEF Inflight
  <2> QED BY <1>2, <1>4, <1>5, <2>1, <2>2 DEF LoadQueueWellFormed
<1>6. CASE ~loads[v][id].valid
  <2>1. n < Cardinality(LoadIds)
    BY <1>6, RoomForInvalidLoad
  <2>2. n \in Indices
    BY <1>1, <2>1 DEF Indices
  <2>3. /\ loadsInflight[v] \in [Indices -> LoadIds \cup {Null}]
        /\ loadsInflight'[v] = [loadsInflight[v] EXCEPT ![n] = id]
        /\ loadsInflightCount'[v] = n + 1
    BY <1>6 DEF LoadExecute, TypeOK
  <2>4. \A i \in 0 .. n : loadsInflight'[v][i] = IF i = n THEN id ELSE loadsInflight[v][i]
    BY <1>1, <2>1, <2>2, <2>3 DEF Indices
  <2>5. Inflight(v)' = Inflight(v) \cup {id}
    BY <1>1, <2>3, <2>4 DEF Inflight
  <2>6. id \notin Inflight(v) /\ id # loadFresh[v]
    BY <1>6 DEF LoadQueueWellFormed
  <2>7. \A i \in 0 .. n : /\ loadsInflight'[v][i] \in LoadIds
                          /\ loads'[v][loadsInflight'[v][i]].userId = i
    <3> SUFFICES ASSUME NEW i \in 0 .. n
                 PROVE  /\ loadsInflight'[v][i] \in LoadIds
                        /\ loads'[v][loadsInflight'[v][i]].userId = i
      OBVIOUS
    <3>1. CASE i = n
      BY <1>4, <1>6, <2>4, <3>1
    <3>2. CASE i # n
      <4>1. i \in 0 .. (n - 1)
        BY <1>1, <3>2
      <4>2. loadsInflight[v][i] \in Inflight(v)
        BY <4>1 DEF Inflight
      <4>3. loadsInflight[v][i] \in LoadIds /\ loadsInflight[v][i] # id
        BY <1>1, <2>6, <4>2
      <4>4. loads[v][loadsInflight[v][i]].userId = i
        BY <4>1 DEF LoadQueueWellFormed
      <4> QED BY <1>4, <2>4, <3>2, <4>3, <4>4
    <3> QED BY <3>1, <3>2
  <2>8. n + 1 - 1 = n /\ n + 1 <= Cardinality(LoadIds)
    BY <1>1, <2>1
  <2>9. \A l \in LoadIds :
          loads'[v][l].valid <=> (l \in Inflight(v)' \/ l = loadFresh'[v])
    BY <1>2, <1>4, <2>5 DEF LoadQueueWellFormed
  <2>10. loadFresh'[v] \notin Inflight(v)'
    BY <1>2, <2>5, <2>6 DEF LoadQueueWellFormed
  <2>11. 0 .. (loadsInflightCount'[v] - 1) = 0 .. n
    BY <1>1, <2>3
  <2>12. loadsInflightCount'[v] <= Cardinality(LoadIds)
    BY <2>3, <2>8
  <2> QED BY <2>7, <2>9, <2>10, <2>11, <2>12, Zenon DEF LoadQueueWellFormed
<1> QED BY <1>5, <1>6

\* Only a load in flight can be committed while no committed load waits.
LEMMA LoadCommitQueue ==
  ASSUME TypeOK, NEW v \in Views, LoadQueueWellFormed(v), NEW id \in LoadIds,
         LoadCommit(v, id), Running'
  PROVE  LoadQueueWellFormed(v)'
<1> DEFINE n    == loadsInflightCount[v]
           slot == loads[v][id].userId
           last == loadsInflight[v][n - 1]
<1>1. n \in Nat /\ n - 1 \in Nat /\ Cardinality(LoadIds) \in Nat
      /\ n <= Cardinality(LoadIds) /\ last \in LoadIds
  BY InflightInRange DEF LoadCommit, LoadQueueWellFormed
<1>2. loadFresh[v] = Null /\ loadFresh' = [loadFresh EXCEPT ![v] = id]
  BY DEF LoadCommit, Running
<1>3. id \in Inflight(v)
  <2>1. loads[v][id].valid /\ id # Null
    BY IdsAssumption DEF LoadCommit
  <2> QED BY <1>2, <2>1 DEF LoadQueueWellFormed
<1>4. PICK k \in 0 .. (n - 1) : loadsInflight[v][k] = id
  BY <1>3 DEF Inflight
<1>5. slot = k /\ slot \in 0 .. (n - 1) /\ loadsInflight[v][slot] = id
  BY <1>4 DEF LoadQueueWellFormed
<1>6. loads[v][last].userId = n - 1
  BY <1>1 DEF LoadQueueWellFormed
<1>7. /\ loads[v] \in [LoadIds -> Load]
      /\ loadsInflight[v] \in [Indices -> LoadIds \cup {Null}]
      /\ loads'[v] = [loads[v] EXCEPT ![last].userId = slot]
      /\ loadsInflight'[v] = [loadsInflight[v] EXCEPT ![slot] = last]
      /\ loadsInflightCount'[v] = n - 1
      /\ loadFresh'[v] = id
  BY <1>2 DEF LoadCommit, RemoveInflight, TypeOK
<1>8. slot \in Indices
  BY <1>1, <1>5 DEF Indices
<1>9. /\ \A l \in LoadIds : /\ loads'[v][l].valid = loads[v][l].valid
                            /\ loads'[v][l].userId = IF l = last THEN slot ELSE loads[v][l].userId
      /\ \A i \in Indices : loadsInflight'[v][i] = IF i = slot THEN last ELSE loadsInflight[v][i]
  BY <1>1, <1>7, <1>8 DEF Load
<1> HIDE DEF n, slot, last
<1>10. ASSUME NEW i \in 0 .. (n - 2)
       PROVE  /\ i \in 0 .. (n - 1) /\ i \in Indices
              /\ loadsInflight[v][i] \in LoadIds
              /\ loads[v][loadsInflight[v][i]].userId = i
              /\ loadsInflight[v][i] # last
  <2>1. i \in 0 .. (n - 1) /\ i \in Indices /\ i # n - 1
    BY <1>1 DEF Indices
  <2>2. loadsInflight[v][i] \in LoadIds /\ loads[v][loadsInflight[v][i]].userId = i
    BY <2>1 DEF LoadQueueWellFormed, n
  <2> QED BY <1>6, <2>1, <2>2
<1>11. \A i \in 0 .. (n - 2) :
         /\ loadsInflight'[v][i] \in LoadIds
         /\ loads'[v][loadsInflight'[v][i]].userId = i
  <2> SUFFICES ASSUME NEW i \in 0 .. (n - 2)
               PROVE  /\ loadsInflight'[v][i] \in LoadIds
                      /\ loads'[v][loadsInflight'[v][i]].userId = i
    OBVIOUS
  <2>1. CASE i = slot
    BY <1>1, <1>9, <1>10, <2>1
  <2>2. CASE i # slot
    BY <1>9, <1>10, <2>2
  <2> QED BY <2>1, <2>2
<1>12. Inflight(v)' = Inflight(v) \ {id}
  <2>1. Inflight(v)' = {loadsInflight'[v][i] : i \in 0 .. (n - 2)}
    <3>1. 0 .. (loadsInflightCount'[v] - 1) = 0 .. (n - 2)
      BY <1>1, <1>7
    <3> QED BY <3>1 DEF Inflight
  <2>2. Inflight(v) = {loadsInflight[v][i] : i \in 0 .. (n - 1)}
    BY DEF Inflight, n
  <2>3. ASSUME NEW i \in 0 .. (n - 2)
        PROVE  loadsInflight'[v][i] \in Inflight(v) \ {id}
    <3>1. CASE i = slot
      <4>1. loadsInflight'[v][i] = last /\ last # id
        BY <1>5, <1>9, <1>10, <3>1
      <4>2. last \in Inflight(v)
        BY <1>1, <2>2 DEF last
      <4> QED BY <4>1, <4>2
    <3>2. CASE i # slot
      <4>1. loadsInflight'[v][i] = loadsInflight[v][i]
        BY <1>9, <1>10, <3>2
      <4>2. loadsInflight[v][i] # id
        BY <1>10, <3>2 DEF slot
      <4> QED BY <1>10, <2>2, <4>1, <4>2
    <3> QED BY <3>1, <3>2
  <2>4. ASSUME NEW i \in 0 .. (n - 1), loadsInflight[v][i] # id
        PROVE  \E j \in 0 .. (n - 2) : loadsInflight'[v][j] = loadsInflight[v][i]
    <3>1. i # slot
      BY <1>5, <2>4
    <3>2. CASE i = n - 1
      <4>1. slot \in 0 .. (n - 2)
        BY <1>1, <1>5, <3>1, <3>2
      <4>2. loadsInflight'[v][slot] = last
        BY <1>8, <1>9
      <4> QED BY <3>2, <4>1, <4>2 DEF last
    <3>3. CASE i # n - 1
      <4>1. i \in 0 .. (n - 2) /\ i \in Indices
        BY <1>1, <3>3 DEF Indices
      <4> QED BY <1>9, <3>1, <4>1
    <3> QED BY <3>2, <3>3
  <2> QED BY <2>1, <2>2, <2>3, <2>4
<1>13. \A l \in LoadIds :
         loads'[v][l].valid <=> (l \in Inflight(v)' \/ l = loadFresh'[v])
  <2>1. \A l \in LoadIds : loads[v][l].valid <=> l \in Inflight(v)
    BY <1>2, IdsAssumption DEF LoadQueueWellFormed
  <2> QED BY <1>3, <1>7, <1>9, <1>12, <2>1
<1>14. 0 .. (loadsInflightCount'[v] - 1) = 0 .. (n - 2)
       /\ loadsInflightCount'[v] <= Cardinality(LoadIds)
  BY <1>1, <1>7
<1>15. loadFresh'[v] \notin Inflight(v)'
  BY <1>7, <1>12
<1> QED BY <1>11, <1>13, <1>14, <1>15, Zenon DEF LoadQueueWellFormed

LEMMA LoadFlushQueue ==
  ASSUME TypeOK, NEW v \in Views, LoadQueueWellFormed(v), LoadFlush(v)
  PROVE  LoadQueueWellFormed(v)'
<1>1. Cardinality(LoadIds) \in Nat
  BY InflightInRange
<1>2. /\ loads[v] \in [LoadIds -> Load]
      /\ loads'[v] = [l \in LoadIds |-> IF l \in Inflight(v)
                        THEN [loads[v][l] EXCEPT !.valid = FALSE] ELSE loads[v][l]]
      /\ loadsInflightCount'[v] = 0
      /\ loadFresh' = loadFresh
  BY DEF LoadFlush, TypeOK
<1>3. \A l \in LoadIds : loads'[v][l].valid <=> (loads[v][l].valid /\ l \notin Inflight(v))
  BY <1>2 DEF Load
<1>4. 0 .. (loadsInflightCount'[v] - 1) = {}
  BY <1>2
<1>5. Inflight(v)' = {}
  BY <1>4 DEF Inflight
<1>6. loadsInflightCount'[v] <= Cardinality(LoadIds)
  BY <1>1, <1>2
<1> QED BY <1>2, <1>3, <1>4, <1>5, <1>6 DEF LoadQueueWellFormed

\* An instruction of Spike that is accepted takes the committed load, if it
\* takes one, and changes no other validity and no place.
LEMMA SpikeQueue ==
  ASSUME TypeOK, NEW v \in Views, LoadQueueWellFormed(v), NEW bytes,
         NEW consumed \in {Null, loadFresh[v]},
         consumed = Null \/ loadFresh'[v] = Null,
         consumed = Null => loadFresh'[v] = loadFresh[v],
         loads' = [loads EXCEPT ![v] = LoadsAfter(v, consumed, bytes)],
         UNCHANGED <<loadsInflight, loadsInflightCount>>
  PROVE  LoadQueueWellFormed(v)'
<1>1. loads'[v] = LoadsAfter(v, consumed, bytes) /\ loads[v] \in [LoadIds -> Load]
  BY DEF TypeOK
<1>2. \A l \in LoadIds :
        /\ loads'[v][l].userId = loads[v][l].userId
        /\ loads'[v][l].valid <=> (loads[v][l].valid /\ l # consumed)
  <2> SUFFICES ASSUME NEW l \in LoadIds
               PROVE  /\ loads'[v][l].userId = loads[v][l].userId
                      /\ loads'[v][l].valid <=> (loads[v][l].valid /\ l # consumed)
    OBVIOUS
  <2>1. loads[v][l] \in Load
    BY <1>1
  <2> DEFINE new == [loads[v][l] EXCEPT
                       !.valid = IF l = consumed THEN FALSE ELSE @,
                       !.bytes = IF l \in Inflight(v) THEN Overwrite(bytes, @) ELSE @]
  <2>2. loads'[v][l] = new
    BY <1>1 DEF LoadsAfter
  <2>3. new.userId = loads[v][l].userId /\ new.valid = (loads[v][l].valid /\ l # consumed)
    BY <2>1 DEF Load
  <2> QED BY <2>2, <2>3
<1>3. Inflight(v)' = Inflight(v)
  BY DEF Inflight
<1>4. \A l \in LoadIds : l # Null
  BY IdsAssumption
<1>5. \A l \in LoadIds :
        loads'[v][l].valid <=> (l \in Inflight(v)' \/ l = loadFresh'[v])
  BY <1>2, <1>3, <1>4 DEF LoadQueueWellFormed
<1>6. Inflight(v) \subseteq LoadIds
  BY InflightInRange
<1>7. loadFresh'[v] \notin Inflight(v)'
  BY <1>3, <1>4, <1>6 DEF LoadQueueWellFormed
<1> QED BY <1>2, <1>5, <1>7 DEF LoadQueueWellFormed

-----------------------------------------------------------------------------
(***************************************************************************)
(* Both hold for every trace: for AnySpec, hence for Spec and OrderedSpec. *)
(***************************************************************************)

LEMMA LoadQueueStepKeeps ==
  ASSUME TypeOK, InflightWellFormed, NEW v \in Views, LoadQueueStep(v)
  PROVE  TypeOK' /\ InflightWellFormed'
<1>1. Running /\ \A u \in Views : LoadQueueWellFormed(u)
  BY DEF InflightWellFormed, LoadQueueStep, LoadExecute, LoadExecuteTooBig,
         LoadExecuteMeetsInvalid, LoadExecuteHangs, LoadCommit, LoadCommitInvalid,
         LoadCommitCrashes, LoadFlush
<1>2. ASSUME NEW id \in LoadIds, NEW fp \in Footprints, LoadExecute(v, id, fp)
      PROVE  TypeOK' /\ InflightWellFormed'
  <2>1. TypeOK'
    BY <1>2, LoadExecuteType
  <2>2. LoadQueueWellFormed(v)'
    BY <1>1, <1>2, LoadExecuteQueue
  <2>3. ASSUME NEW u \in Views, u # v
        PROVE  LoadQueueWellFormed(u)'
    BY <1>1, <1>2, <2>3, LoadQueueFrame DEF LoadExecute, TypeOK
  <2> QED BY <2>1, <2>2, <2>3 DEF InflightWellFormed
<1>3. ASSUME NEW id \in LoadIds, NEW fp \in Footprints,
             \/ LoadExecuteTooBig(v, id, fp)
             \/ LoadExecuteHangs(v, id, fp)
      PROVE  TypeOK' /\ InflightWellFormed'
  BY <1>3 DEF LoadExecuteTooBig, LoadExecuteHangs, TypeOK, InflightWellFormed,
              Running, Status, loadVars, storeVars
<1>4. ASSUME NEW id \in LoadIds, NEW fp \in Footprints,
             LoadExecuteMeetsInvalid(v, id, fp)
      PROVE  TypeOK' /\ InflightWellFormed'
  BY <1>4, LoadExecuteMeetsInvalidType
     DEF LoadExecuteMeetsInvalid, InflightWellFormed, Running
<1>5. ASSUME NEW id \in LoadIds, LoadCommit(v, id)
      PROVE  TypeOK' /\ InflightWellFormed'
  <2>1. TypeOK'
    BY <1>1, <1>5, LoadCommitType
  <2>2. SUFFICES ASSUME Running' PROVE \A u \in Views : LoadQueueWellFormed(u)'
    BY <2>1 DEF InflightWellFormed
  <2>3. LoadQueueWellFormed(v)'
    BY <1>1, <1>5, <2>2, LoadCommitQueue
  <2>4. ASSUME NEW u \in Views, u # v
        PROVE  LoadQueueWellFormed(u)'
    <3>1. /\ loads'[u] = loads[u] /\ loadsInflight'[u] = loadsInflight[u]
          /\ loadsInflightCount'[u] = loadsInflightCount[u]
      BY <1>5, <2>4 DEF LoadCommit, RemoveInflight, TypeOK
    <3>2. loadFresh'[u] = loadFresh[u]
      BY <1>5, <2>4 DEF LoadCommit, TypeOK
    <3> QED BY <1>1, <3>1, <3>2, LoadQueueFrame
  <2> QED BY <2>3, <2>4
<1>6. ASSUME NEW id \in LoadIds,
             LoadCommitInvalid(v, id) \/ LoadCommitCrashes(v, id)
      PROVE  TypeOK' /\ InflightWellFormed'
  BY <1>6 DEF LoadCommitInvalid, LoadCommitCrashes, TypeOK, InflightWellFormed,
              Running, Status, loadVars, storeVars
<1>7. CASE LoadFlush(v)
  <2>1. TypeOK'
    BY <1>7, LoadFlushType
  <2>2. LoadQueueWellFormed(v)'
    BY <1>1, <1>7, LoadFlushQueue
  <2>3. ASSUME NEW u \in Views, u # v
        PROVE  LoadQueueWellFormed(u)'
    BY <1>1, <1>7, <2>3, LoadQueueFrame DEF LoadFlush, TypeOK
  <2> QED BY <2>1, <2>2, <2>3 DEF InflightWellFormed
<1> QED BY <1>2, <1>3, <1>4, <1>5, <1>6, <1>7 DEF LoadQueueStep

LEMMA StoreQueueStepKeeps ==
  ASSUME TypeOK, InflightWellFormed, NEW v \in Views,
         StoreQueueStep(v, StoreIds, StoreIds)
  PROVE  TypeOK' /\ InflightWellFormed'
<1>1. UNCHANGED loadVars /\ Running
  BY DEF StoreQueueStep, StoreCommit, StoreCommitRejected, StoreBroadcast,
         StoreBroadcastInvalid
<1>2. InflightWellFormed'
  BY <1>1, LoadQueueFrame DEF InflightWellFormed, loadVars
<1>3. ASSUME NEW id \in StoreIds, NEW fp \in Footprints, NEW bytes \in [fp -> Byte],
             StoreCommit(v, id, bytes) \/ StoreCommitRejected(v, id, bytes)
      PROVE  TypeOK'
  BY <1>3, StoreCommitType, StoreCommitRejectedType
<1>4. ASSUME NEW id \in StoreIds,
             StoreBroadcast(v, id) \/ StoreBroadcastInvalid(v, id)
      PROVE  TypeOK'
  <2>1. CASE StoreBroadcast(v, id)
    BY <2>1, StoreBroadcastType
  <2>2. CASE StoreBroadcastInvalid(v, id)
    BY <2>2 DEF StoreBroadcastInvalid, TypeOK, Status, loadVars, storeVars
  <2> QED BY <1>4, <2>1, <2>2
<1> QED BY <1>2, <1>3, <1>4 DEF StoreQueueStep

LEMMA SpikeStepKeeps ==
  ASSUME TypeOK, InflightWellFormed, NEW v \in Views, SpikeStep(v)
  PROVE  TypeOK' /\ InflightWellFormed'
<1>1. TypeOK'
  BY SpikeStepType
<1>2. Running
  BY DEF SpikeStep, CommitLoad, CommitLoadRejected, CommitStore, CommitStoreRejected,
         CommitAmo, CommitAmoRejected, CommitOther, CommitOtherRejected
<1>3. SUFFICES ASSUME Running' PROVE \A u \in Views : LoadQueueWellFormed(u)'
  BY <1>1 DEF InflightWellFormed
<1>4. \A u \in Views : LoadQueueWellFormed(u)
  BY <1>2 DEF InflightWellFormed
<1>5. loadFresh \in [Views -> LoadIds \cup {Null}]
      /\ loads \in [Views -> [LoadIds -> Load]]
  BY DEF TypeOK
<1>6. ASSUME NEW u \in Views, u # v,
             NEW S, loads' = [loads EXCEPT ![v] = S],
             UNCHANGED <<loadsInflight, loadsInflightCount>>,
             \/ loadFresh' = [loadFresh EXCEPT ![v] = Null]
             \/ UNCHANGED loadFresh
      PROVE  LoadQueueWellFormed(u)'
  BY <1>4, <1>5, <1>6, LoadQueueFrame
<1>7. ASSUME NEW fp \in Footprints, CommitLoad(v, fp)
      PROVE  \A u \in Views : LoadQueueWellFormed(u)'
  <2>1. loadFresh'[v] = Null
    BY <1>5, <1>7 DEF CommitLoad
  <2>2. LoadQueueWellFormed(v)'
    BY <1>4, <1>7, <2>1, SpikeQueue DEF CommitLoad, LoadAnswers, FreshLoadValid
  <2> QED BY <1>6, <1>7, <2>2 DEF CommitLoad
<1>8. ASSUME NEW bytes, CommitStore(v, bytes)
      PROVE  \A u \in Views : LoadQueueWellFormed(u)'
  <2>1. LoadQueueWellFormed(v)'
    BY <1>4, <1>8, SpikeQueue DEF CommitStore
  <2> QED BY <1>6, <1>8, <2>1 DEF CommitStore
<1>9. ASSUME NEW fp \in Footprints, NEW bytes, CommitAmo(v, fp, bytes)
      PROVE  \A u \in Views : LoadQueueWellFormed(u)'
  <2>1. loadFresh'[v] = Null
    BY <1>5, <1>9 DEF CommitAmo
  <2>2. LoadQueueWellFormed(v)'
    BY <1>4, <1>9, <2>1, SpikeQueue DEF CommitAmo, LoadAnswers, FreshLoadValid
  <2> QED BY <1>6, <1>9, <2>2 DEF CommitAmo
<1>10. CASE CommitOther(v)
  BY <1>4, <1>10, LoadQueueFrame DEF CommitOther, vars, loadVars
<1> QED BY <1>3, <1>7, <1>8, <1>9, <1>10
        DEF SpikeStep, CommitLoadRejected, CommitStoreRejected, CommitAmoRejected,
            CommitOtherRejected, Running

LEMMA InitLoadQueue == Init => InflightWellFormed
<1> SUFFICES ASSUME Init, NEW v \in Views PROVE LoadQueueWellFormed(v)
  BY DEF InflightWellFormed
<1>1. Cardinality(LoadIds) \in Nat
  BY IdsAssumption, FS_CardinalityType
<1>2. loadsInflightCount[v] = 0 /\ 0 .. (loadsInflightCount[v] - 1) = {}
  BY DEF Init
<1>3. \A l \in LoadIds : ~loads[v][l].valid /\ l # loadFresh[v]
  BY IdsAssumption DEF Init
<1> QED BY <1>1, <1>2, <1>3 DEF LoadQueueWellFormed, Inflight

LEMMA AnyTraceInvariant == AnySpec => [](TypeOK /\ InflightWellFormed)
<1>1. Init => TypeOK /\ InflightWellFormed
  BY InitTypeOK, InitLoadQueue
<1>2. TypeOK /\ InflightWellFormed /\ [AnyNext]_vars => (TypeOK /\ InflightWellFormed)'
  <2> SUFFICES ASSUME TypeOK, InflightWellFormed, [AnyNext]_vars
               PROVE  (TypeOK /\ InflightWellFormed)'
    OBVIOUS
  <2>1. CASE UNCHANGED vars
    BY <2>1 DEF vars, loadVars, storeVars, TypeOK, InflightWellFormed, Running,
                LoadQueueWellFormed, Inflight
  <2>2. ASSUME NEW v \in Views, Step(v, StoreIds, StoreIds)
        PROVE  (TypeOK /\ InflightWellFormed)'
    BY <2>2, LoadQueueStepKeeps, StoreQueueStepKeeps, SpikeStepKeeps DEF Step
  <2> QED BY <2>1, <2>2 DEF AnyNext
<1> QED BY <1>1, <1>2, PTL DEF AnySpec

\* For every trace, disciplined or not, every variable keeps its type, and no
\* slot of a queue ever holds more bytes than its buffer.
THEOREM TypeCorrect == AnySpec => []TypeOK
BY AnyTraceInvariant, PTL

\* For every trace, the load queue is well formed while the checker runs: the
\* vector accesses of loadExecute, loadCommit, loadFlush and store are in bounds,
\* and store meets valid loads only.
THEOREM LoadQueueCorrect == AnySpec => []InflightWellFormed
BY AnyTraceInvariant, PTL

-----------------------------------------------------------------------------
(***************************************************************************)
(* The store queue.                                                        *)
(***************************************************************************)

LEMMA StoreListFacts ==
  ASSUME NEW q \in StoreSeqs
  PROVE  Len(q) \in Nat /\ q \in [1 .. Len(q) -> StoreIds]
<1>1. Cardinality(StoreIds) \in Nat
  BY IdsAssumption, FS_CardinalityType
<1>2. PICK n \in 0 .. Cardinality(StoreIds) : q \in [1 .. n -> StoreIds]
  BY DEF StoreSeqs
<1> QED BY <1>1, <1>2

\* A list that holds no slot twice is short enough for StoreSeqs.
LEMMA InjectiveIsStoreSeq ==
  ASSUME NEW n \in Nat, NEW q \in [1 .. n -> StoreIds],
         \A i, j \in 1 .. n : q[i] = q[j] => i = j
  PROVE  q \in StoreSeqs
<1>1. q \in Injection(1 .. n, StoreIds)
  BY DEF Injection, IsInjective
<1>2. Cardinality(1 .. n) = n
  BY FS_Interval
<1>3. n <= Cardinality(StoreIds) /\ Cardinality(StoreIds) \in Nat
  BY <1>1, <1>2, FS_Injection, FS_CardinalityType, IdsAssumption
<1>4. n \in 0 .. Cardinality(StoreIds)
  BY <1>3
<1> QED BY <1>4 DEF StoreSeqs

\* IsWalk for a list whose head and slots are given.
IsPath(head, slots, q) ==
  /\ head = IF Len(q) = 0 THEN Null ELSE q[1]
  /\ \A i \in 1 .. Len(q) :
       slots[q[i]].next = IF i = Len(q) THEN Null ELSE q[i + 1]

\* There is one path only: two of them cannot part, since a slot has one `next`,
\* and they end at the same NULL.
LEMMA PathIsUnique ==
  ASSUME NEW head, NEW slots, NEW q \in StoreSeqs, NEW r \in StoreSeqs,
         IsPath(head, slots, q), IsPath(head, slots, r)
  PROVE  q = r
<1> DEFINE n == Len(q)
           m == Len(r)
           P(i) == i <= m /\ r[i] = q[i]
           D == {i \in Nat : i \in 1 .. n /\ ~P(i)}
           R == {ss \in Nat \X Nat : ss[1] < ss[2]}
<1>1. /\ n \in Nat /\ q \in [1 .. n -> StoreIds] /\ Null \notin StoreIds
      /\ m \in Nat /\ r \in [1 .. m -> StoreIds]
  BY StoreListFacts, IdsAssumption
<1>2. /\ head = IF n = 0 THEN Null ELSE q[1]
      /\ \A i \in 1 .. n : slots[q[i]].next = IF i = n THEN Null ELSE q[i + 1]
      /\ head = IF m = 0 THEN Null ELSE r[1]
      /\ \A i \in 1 .. m : slots[r[i]].next = IF i = m THEN Null ELSE r[i + 1]
  BY DEF IsPath
<1> HIDE DEF n, m
<1>3. D = {}
  <2> SUFFICES ASSUME D # {} PROVE FALSE
    OBVIOUS
  <2>1. IsWellFoundedOn(R, Nat)
    BY NatLessThanWellFounded DEF OpToRel
  <2>2. D \subseteq Nat
    OBVIOUS
  <2> HIDE DEF R, D
  <2>3. PICK k \in D : \A j \in D : ~(<<j, k>> \in R)
    BY <2>1, <2>2, WFMin
  <2> USE DEF R, D
  <2>4. k \in 1 .. n /\ ~P(k) /\ \A j \in 1 .. n : j < k => P(j)
    <3>1. k \in Nat /\ k \in 1 .. n /\ ~P(k)
      OBVIOUS
    <3>2. ASSUME NEW j \in 1 .. n, j < k, ~P(j)
          PROVE  FALSE
      <4>1. j \in Nat
        BY <1>1
      <4> HIDE DEF P
      <4>2. j \in D /\ <<j, k>> \in R
        BY <3>1, <3>2, <4>1
      <4> QED BY <2>3, <4>2
    <3> QED BY <3>1, <3>2
  <2> HIDE DEF R, D
  <2>5. CASE k = 1
    BY <1>2, <1>1, <2>4, <2>5
  <2>6. CASE k # 1
    <3>1. k - 1 \in 1 .. n /\ k - 1 < k /\ (k - 1) + 1 = k /\ k - 1 # n
      BY <1>1, <2>4, <2>6
    <3>2. P(k - 1)
      BY <2>4, <3>1
    <3>3. slots[q[k - 1]].next = q[k]
      BY <1>2, <3>1
    <3>4. k - 1 \in 1 .. m
      BY <1>1, <3>1, <3>2
    <3>5. slots[r[k - 1]].next = IF k - 1 = m THEN Null ELSE r[k]
      BY <1>2, <3>1, <3>4
    <3>6. q[k] \in StoreIds
      BY <1>1, <2>4
    <3>7. k - 1 # m /\ r[k] = q[k]
      BY <1>1, <3>2, <3>3, <3>5, <3>6
    <3> QED BY <1>1, <2>4, <3>4, <3>7
  <2> QED BY <2>5, <2>6
<1>4. \A i \in 1 .. n : P(i)
  BY <1>1, <1>3
<1> HIDE DEF D, R
<1>5. m = n
  <2>1. n <= m
    <3>1. n # 0 => n \in 1 .. n
      BY <1>1
    <3> QED BY <1>1, <1>4, <3>1
  <2> SUFFICES ASSUME n < m PROVE FALSE
    BY <1>1, <2>1
  <2>2. n + 1 \in 1 .. m /\ r[n + 1] \in StoreIds
    BY <1>1
  <2>3. CASE n = 0
    BY <1>2, <1>1, <2>2, <2>3
  <2>4. CASE n # 0
    <3>1. n \in 1 .. n /\ n \in 1 .. m /\ n # m
      BY <1>1, <2>4
    <3>2. slots[q[n]].next = Null /\ slots[r[n]].next = r[n + 1]
      BY <1>2, <3>1
    <3> QED BY <1>1, <1>4, <2>2, <3>1, <3>2
  <2> QED BY <2>3, <2>4
<1> QED BY <1>1, <1>4, <1>5 DEF n

LEMMA StoreListIs ==
  ASSUME NEW v \in Views, NEW q \in StoreSeqs, IsWalk(v, q)
  PROVE  StoreList(v) = q
<1>1. StoreList(v) \in StoreSeqs /\ IsWalk(v, StoreList(v))
  BY DEF StoreList
<1>2. IsPath(storeHead[v], stores[v], q) /\ IsPath(storeHead[v], stores[v], StoreList(v))
  BY <1>1 DEF IsPath, IsWalk
<1> QED BY <1>1, <1>2, PathIsUnique

LEMMA NextStoreListIs ==
  ASSUME NEW v \in Views, NEW q \in StoreSeqs, IsWalk(v, q)'
  PROVE  StoreList(v)' = q
<1> DEFINE w == CHOOSE r \in StoreSeqs : IsPath(storeHead'[v], stores'[v], r)
<1>1. IsPath(storeHead'[v], stores'[v], q)
  BY DEF IsPath, IsWalk
<1>2. w \in StoreSeqs /\ IsPath(storeHead'[v], stores'[v], w)
  BY <1>1
<1>3. w = q
  BY <1>1, <1>2, PathIsUnique
<1>4. StoreList(v)' = w
  BY DEF StoreList, IsWalk, IsPath
<1> QED BY <1>3, <1>4

\* r is q with s at its end; r is q without its k-th place.
Extends(r, q, s) ==
  Len(r) = Len(q) + 1 /\ r[Len(r)] = s /\ \A i \in 1 .. Len(q) : r[i] = q[i]
Without(r, q, k) ==
  Len(r) = Len(q) - 1 /\ \A i \in 1 .. Len(r) : r[i] = IF i < k THEN q[i] ELSE q[i + 1]

\* storeCommit of a free slot appends it to the list.
LEMMA StoreCommitList ==
  ASSUME TypeOK, NEW v \in Views, NEW id \in StoreIds, ~stores[v][id].valid,
         NEW bytes, StoreCommit(v, id, bytes),
         NEW q \in StoreSeqs, IsStoreList(v, q)
  PROVE  /\ \E r \in StoreSeqs : IsStoreList(v, r)' /\ Extends(r, q, id)
         /\ \A s \in StoreIds :
              stores'[v][s].bytes = IF s = id THEN bytes ELSE stores[v][s].bytes
<1> DEFINE n == Len(q)
           r == [i \in 1 .. (n + 1) |-> IF i = n + 1 THEN id ELSE q[i]]
<1>1. n \in Nat /\ q \in [1 .. n -> StoreIds] /\ Null \notin StoreIds
  BY StoreListFacts, IdsAssumption
<1>2. r \in [1 .. (n + 1) -> StoreIds] /\ Len(r) = n + 1
  BY <1>1
<1>3. \A i \in 1 .. n : q[i] \in StoreIds /\ q[i] # id /\ r[i] = q[i]
  BY <1>1 DEF IsStoreList
<1>4. r[n + 1] = id /\ n + 1 \in 1 .. (n + 1)
  BY <1>1
<1>5. \A i \in 1 .. (n + 1) : i = n + 1 \/ i \in 1 .. n
  BY <1>1
<1>6. storeLast[v] = IF n = 0 THEN Null ELSE q[n]
  BY DEF IsStoreList
<1>7. storeLast[v] # id /\ (storeLast[v] = Null <=> n = 0)
  <2>1. n # 0 => n \in 1 .. n
    BY <1>1
  <2> QED BY <1>1, <1>3, <1>6, <2>1
<1>8. \A s \in StoreIds :
        /\ stores'[v][s].valid <=> (s = id \/ stores[v][s].valid)
        /\ stores'[v][s].next = IF s = storeLast[v] THEN id
                                ELSE IF s = id THEN Null ELSE stores[v][s].next
        /\ stores'[v][s].previous = IF s = id THEN storeLast[v] ELSE stores[v][s].previous
        /\ stores'[v][s].bytes = IF s = id THEN bytes ELSE stores[v][s].bytes
  <2> SUFFICES ASSUME NEW s \in StoreIds
               PROVE  /\ stores'[v][s].valid <=> (s = id \/ stores[v][s].valid)
                      /\ stores'[v][s].next = IF s = storeLast[v] THEN id
                                ELSE IF s = id THEN Null ELSE stores[v][s].next
                      /\ stores'[v][s].previous = IF s = id THEN storeLast[v]
                                                  ELSE stores[v][s].previous
                      /\ stores'[v][s].bytes = IF s = id THEN bytes ELSE stores[v][s].bytes
    OBVIOUS
  <2> DEFINE filled == IF s = id
                       THEN [valid |-> TRUE, bytes |-> bytes,
                             previous |-> storeLast[v], next |-> Null]
                       ELSE stores[v][s]
  <2>1. stores[v][s] \in Store
    BY DEF TypeOK
  <2>2. stores'[v][s] = IF s = storeLast[v] THEN [filled EXCEPT !.next = id] ELSE filled
    BY DEF StoreCommit, TypeOK
  <2> QED BY <1>7, <2>1, <2>2 DEF Store
<1>9. storeLast'[v] = id /\ storeHead'[v] = IF storeLast[v] = Null THEN id ELSE storeHead[v]
  BY DEF StoreCommit, TypeOK
<1> HIDE DEF r, n
<1>10. \A i, j \in 1 .. (n + 1) : r[i] = r[j] => i = j
  BY <1>3, <1>4, <1>5 DEF IsStoreList, n
<1>11. r \in StoreSeqs
  BY <1>1, <1>2, <1>10, InjectiveIsStoreSeq
<1>12. storeHead'[v] = r[1]
  <2>1. CASE n = 0
    BY <1>4, <1>7, <1>9, <2>1
  <2>2. CASE n # 0
    <3>1. 1 \in 1 .. n
      BY <1>1, <2>2
    <3>2. storeHead[v] = q[1]
      BY <2>2 DEF IsStoreList, IsWalk, n
    <3> QED BY <1>3, <1>7, <1>9, <2>2, <3>1, <3>2
  <2> QED BY <2>1, <2>2
<1>13. \A i \in 1 .. (n + 1) :
         stores'[v][r[i]].next = IF i = n + 1 THEN Null ELSE r[i + 1]
  <2> SUFFICES ASSUME NEW i \in 1 .. (n + 1)
               PROVE  stores'[v][r[i]].next = IF i = n + 1 THEN Null ELSE r[i + 1]
    OBVIOUS
  <2>1. CASE i = n + 1
    BY <1>4, <1>7, <1>8, <2>1
  <2>2. CASE i \in 1 .. n /\ i = n
    BY <1>1, <1>3, <1>4, <1>6, <1>8, <2>2
  <2>3. CASE i \in 1 .. n /\ i # n
    <3>1. i + 1 \in 1 .. n /\ n \in 1 .. n /\ n # 0
      BY <1>1, <2>3
    <3>2. q[i] # storeLast[v]
      BY <1>6, <2>3, <3>1 DEF IsStoreList, n
    <3>3. stores[v][q[i]].next = q[i + 1]
      BY <2>3 DEF IsStoreList, IsWalk, n
    <3> QED BY <1>1, <1>3, <1>8, <2>3, <3>1, <3>2, <3>3
  <2> QED BY <1>5, <2>1, <2>2, <2>3
<1>14. \A s \in StoreIds :
         stores'[v][s].valid <=> \E i \in 1 .. (n + 1) : r[i] = s
  BY <1>1, <1>3, <1>4, <1>5, <1>8 DEF IsStoreList, n
<1>15. \A i \in 1 .. (n + 1) :
         stores'[v][r[i]].previous = IF i = 1 THEN Null ELSE r[i - 1]
  <2> SUFFICES ASSUME NEW i \in 1 .. (n + 1)
               PROVE  stores'[v][r[i]].previous = IF i = 1 THEN Null ELSE r[i - 1]
    OBVIOUS
  <2>1. CASE i = n + 1
    BY <1>1, <1>3, <1>4, <1>6, <1>8, <2>1
  <2>2. CASE i \in 1 .. n
    <3>1. i # 1 => i - 1 \in 1 .. n
      BY <1>1, <2>2
    <3> QED BY <1>3, <1>8, <2>2, <3>1 DEF IsStoreList, n
  <2> QED BY <1>5, <2>1, <2>2
<1>16. n + 1 # 0
  BY <1>1
<1>17. IsWalk(v, r)'
  BY <1>2, <1>12, <1>13, <1>16 DEF IsWalk
<1>18. storeLast'[v] = IF Len(r) = 0 THEN Null ELSE r[Len(r)]
  BY <1>2, <1>4, <1>9, <1>16
<1>19. IsStoreList(v, r)'
  BY <1>2, <1>10, <1>14, <1>15, <1>17, <1>18 DEF IsStoreList
<1>20. Extends(r, q, id)
  BY <1>2, <1>3, <1>4 DEF Extends, n
<1> QED BY <1>8, <1>11, <1>19, <1>20

\* A place of a list that is not its last one has a successor.
LEMMA PlaceBeforeLast ==
  ASSUME NEW n \in Nat, NEW k \in 1 .. n, k # n
  PROVE  k \in 1 .. (n - 1) /\ k + 1 \in 1 .. n
OBVIOUS

\* storeBroadcast takes its store out of the list, wherever it is.
LEMMA StoreBroadcastList ==
  ASSUME TypeOK, NEW v \in Views, NEW id \in StoreIds, StoreBroadcast(v, id),
         NEW q \in StoreSeqs, IsStoreList(v, q)
  PROVE  /\ \E r \in StoreSeqs, k \in 1 .. Len(q) :
              q[k] = id /\ IsStoreList(v, r)' /\ Without(r, q, k)
         /\ id # storeLast[v] => storeLast'[v] = storeLast[v]
         /\ \A s \in StoreIds :
              /\ stores'[v][s].valid <=> (s # id /\ stores[v][s].valid)
              /\ stores'[v][s].bytes = stores[v][s].bytes
<1> DEFINE n == Len(q)
<1>1. n \in Nat /\ q \in [1 .. n -> StoreIds] /\ Null \notin StoreIds
  BY StoreListFacts, IdsAssumption
<1>2. PICK k \in 1 .. n : q[k] = id
  BY DEF StoreBroadcast, IsStoreList
<1>3. n # 0 /\ n \in 1 .. n /\ n - 1 \in Nat /\ k \in Nat
  BY <1>1, <1>2
<1> DEFINE r == [i \in 1 .. (n - 1) |-> IF i < k THEN q[i] ELSE q[i + 1]]
           next == IF k = n THEN Null ELSE q[k + 1]
           previous == IF k = 1 THEN Null ELSE q[k - 1]
<1>4. \A i, j \in 1 .. n : q[i] = q[j] => i = j
  BY DEF IsStoreList
<1>5. stores[v][id].next = next /\ stores[v][id].previous = previous
  BY <1>2 DEF IsStoreList, IsWalk
<1>6. /\ k # n => k + 1 \in 1 .. n /\ next \in StoreIds
      /\ k # 1 => k - 1 \in 1 .. n /\ previous \in StoreIds
  <2>1. k # n => k + 1 \in 1 .. n
    BY <1>1, <1>2, PlaceBeforeLast
  <2>2. k # 1 => k - 1 \in 1 .. n
    BY <1>1, <1>2
  <2> QED BY <1>1, <2>1, <2>2
<1>7. /\ next = Null <=> k = n
      /\ previous = Null <=> k = 1
  BY <1>1, <1>6
<1>8. storeLast[v] = q[n] /\ storeHead[v] = q[1]
  BY <1>3 DEF IsStoreList, IsWalk
<1>9. /\ storeLast'[v] = IF k = n THEN previous ELSE q[n]
      /\ storeHead'[v] = IF k = 1 THEN next ELSE q[1]
  BY <1>5, <1>7, <1>8 DEF StoreBroadcast, TypeOK
<1>10. \A s \in StoreIds :
         /\ stores'[v][s].valid <=> (s # id /\ stores[v][s].valid)
         /\ stores'[v][s].next = IF s = previous THEN next ELSE stores[v][s].next
         /\ stores'[v][s].previous = IF s = next THEN previous ELSE stores[v][s].previous
         /\ stores'[v][s].bytes = stores[v][s].bytes
  <2> SUFFICES ASSUME NEW s \in StoreIds
               PROVE  /\ stores'[v][s].valid <=> (s # id /\ stores[v][s].valid)
                      /\ stores'[v][s].next = IF s = previous THEN next
                                              ELSE stores[v][s].next
                      /\ stores'[v][s].previous = IF s = next THEN previous
                                                  ELSE stores[v][s].previous
                      /\ stores'[v][s].bytes = stores[v][s].bytes
    OBVIOUS
  <2> HIDE DEF next, previous
  <2>1. stores[v][s] \in Store
    BY DEF TypeOK
  <2>2. stores'[v][s] = [stores[v][s] EXCEPT
            !.previous = IF s = next THEN previous ELSE @,
            !.next     = IF s = previous THEN next ELSE @,
            !.valid    = IF s = id THEN FALSE ELSE @]
    BY <1>5 DEF StoreBroadcast, Unlinked, TypeOK
  <2> QED BY <2>1, <2>2 DEF Store
<1>11. r \in [1 .. (n - 1) -> StoreIds] /\ Len(r) = n - 1
  BY <1>1, <1>2, <1>3
<1> DEFINE place(i) == IF i < k THEN i ELSE i + 1
<1>12. \A i \in 1 .. (n - 1) :
         /\ place(i) \in 1 .. n /\ place(i) # k
         /\ r[i] = q[place(i)] /\ r[i] \in StoreIds /\ r[i] # id
  BY <1>1, <1>2, <1>3, <1>4
<1>13. \A i, j \in 1 .. (n - 1) : r[i] = r[j] => i = j
  <2> SUFFICES ASSUME NEW i \in 1 .. (n - 1), NEW j \in 1 .. (n - 1), r[i] = r[j]
               PROVE  i = j
    OBVIOUS
  <2>1. place(i) = place(j)
    BY <1>4, <1>12
  <2> QED BY <1>3, <2>1
<1>14. r \in StoreSeqs
  BY <1>3, <1>11, <1>13, InjectiveIsStoreSeq
<1>15. \A s \in StoreIds :
         stores'[v][s].valid <=> \E i \in 1 .. (n - 1) : r[i] = s
  <2> SUFFICES ASSUME NEW s \in StoreIds
               PROVE  stores'[v][s].valid <=> \E i \in 1 .. (n - 1) : r[i] = s
    OBVIOUS
  <2>1. stores[v][s].valid <=> \E j \in 1 .. n : q[j] = s
    BY DEF IsStoreList
  <2>2. ASSUME NEW j \in 1 .. n, q[j] = s, s # id
        PROVE  \E i \in 1 .. (n - 1) : r[i] = s
    <3>1. j # k
      BY <1>2, <2>2
    <3>2. CASE j < k
      <4>1. j \in 1 .. (n - 1) /\ place(j) = j
        BY <1>1, <1>2, <3>2
      <4> QED BY <1>12, <2>2, <4>1
    <3>3. CASE j > k
      <4>1. j - 1 \in 1 .. (n - 1) /\ place(j - 1) = j
        BY <1>1, <1>2, <3>3
      <4> QED BY <1>12, <2>2, <4>1
    <3> QED BY <1>2, <1>3, <3>1, <3>2, <3>3
  <2>3. ASSUME NEW i \in 1 .. (n - 1), r[i] = s
        PROVE  s # id /\ \E j \in 1 .. n : q[j] = s
    BY <1>12, <2>3
  <2> QED BY <1>10, <2>1, <2>2, <2>3
<1>16. ASSUME NEW i \in 1 .. (n - 1)
       PROVE  stores'[v][r[i]].next = IF i = n - 1 THEN Null ELSE r[i + 1]
  <2>1. stores[v][q[place(i)]].next = IF place(i) = n THEN Null ELSE q[place(i) + 1]
    BY <1>12 DEF IsStoreList, IsWalk
  <2>2. CASE i = k - 1
    <3>1. k # 1 /\ q[place(i)] = previous /\ r[i] = previous
      BY <1>2, <1>3, <1>12, <2>2
    <3>2. stores'[v][r[i]].next = next
      BY <1>10, <1>12, <3>1
    <3>3. k = n <=> i = n - 1
      BY <1>3, <2>2
    <3>4. k # n => i + 1 \in 1 .. (n - 1) /\ place(i + 1) = k + 1
      <4>1. i + 1 = k
        BY <1>3, <2>2
      <4>2. k # n => k \in 1 .. (n - 1)
        BY <1>1, <1>2, PlaceBeforeLast
      <4> QED BY <4>1, <4>2
    <3>5. k # n => r[i + 1] = q[k + 1]
      BY <1>12, <3>4
    <3> QED BY <3>2, <3>3, <3>5
  <2>3. CASE i # k - 1
    <3>1. r[i] # previous
      <4>1. k # 1 => place(i) # k - 1
        BY <1>2, <1>3, <2>3
      <4>2. k # 1 => q[place(i)] # q[k - 1]
        BY <1>4, <1>6, <1>12, <4>1
      <4> QED BY <1>1, <1>12, <4>2
    <3>2. stores'[v][r[i]].next = stores[v][q[place(i)]].next
      BY <1>10, <1>12, <3>1
    <3>3. place(i) = n <=> i = n - 1
      BY <1>2, <1>3, <2>3
    <3>4. i # n - 1 => i + 1 \in 1 .. (n - 1) /\ place(i + 1) = place(i) + 1
      BY <1>2, <1>3, <2>3
    <3>5. i # n - 1 => r[i + 1] = q[place(i) + 1]
      BY <1>12, <3>4
    <3> QED BY <2>1, <3>2, <3>3, <3>5
  <2> QED BY <2>2, <2>3
<1>17. ASSUME NEW i \in 1 .. (n - 1)
       PROVE  stores'[v][r[i]].previous = IF i = 1 THEN Null ELSE r[i - 1]
  <2>1. stores[v][q[place(i)]].previous = IF place(i) = 1 THEN Null ELSE q[place(i) - 1]
    BY <1>12 DEF IsStoreList
  <2>2. CASE i = k
    <3>1. k # n /\ q[place(i)] = next /\ r[i] = next
      BY <1>2, <1>3, <1>12, <2>2
    <3>2. stores'[v][r[i]].previous = previous
      BY <1>10, <1>12, <3>1
    <3>3. k # 1 => i - 1 \in 1 .. (n - 1) /\ place(i - 1) = k - 1
      BY <1>1, <1>2, <1>3, <2>2
    <3>4. k # 1 => r[i - 1] = q[k - 1]
      BY <1>12, <3>3
    <3> QED BY <2>2, <3>2, <3>4
  <2>3. CASE i # k
    <3>1. r[i] # next
      <4>1. k # n => place(i) # k + 1
        BY <1>2, <1>3, <2>3
      <4>2. k # n => q[place(i)] # q[k + 1]
        BY <1>4, <1>6, <1>12, <4>1
      <4> QED BY <1>1, <1>12, <4>2
    <3>2. stores'[v][r[i]].previous = stores[v][q[place(i)]].previous
      BY <1>10, <1>12, <3>1
    <3>3. place(i) = 1 <=> i = 1
      BY <1>2, <1>3, <2>3
    <3>4. i # 1 => i - 1 \in 1 .. (n - 1) /\ place(i - 1) = place(i) - 1
      BY <1>2, <1>3, <2>3
    <3>5. i # 1 => r[i - 1] = q[place(i) - 1]
      BY <1>12, <3>4
    <3> QED BY <2>1, <3>2, <3>3, <3>5
  <2> QED BY <2>2, <2>3
<1>18. storeHead'[v] = IF n - 1 = 0 THEN Null ELSE r[1]
  <2>1. CASE n = 1
    BY <1>2, <1>9, <2>1
  <2>2. CASE n # 1
    <3>1. 1 \in 1 .. (n - 1) /\ n - 1 # 0
      BY <1>1, <1>3, <2>2
    <3>2. place(1) = IF k = 1 THEN 2 ELSE 1
      BY <1>2, <1>3
    <3>3. r[1] = IF k = 1 THEN q[2] ELSE q[1]
      BY <1>12, <3>1, <3>2
    <3>4. k = 1 => k # n /\ next = q[2]
      BY <1>1, <2>2
    <3> QED BY <1>9, <3>1, <3>3, <3>4
  <2> QED BY <2>1, <2>2, <1>3
<1>19. storeLast'[v] = IF n - 1 = 0 THEN Null ELSE r[n - 1]
  <2>1. CASE n = 1
    BY <1>2, <1>9, <2>1
  <2>2. CASE n # 1
    <3>1. n - 1 \in 1 .. (n - 1) /\ n - 1 # 0
      BY <1>1, <1>3, <2>2
    <3>2. place(n - 1) = IF k = n THEN n - 1 ELSE n
      BY <1>2, <1>3
    <3>3. r[n - 1] = IF k = n THEN q[n - 1] ELSE q[n]
      BY <1>12, <3>1, <3>2
    <3>4. k = n => k # 1 /\ previous = q[n - 1]
      BY <1>1, <2>2
    <3> QED BY <1>9, <3>1, <3>3, <3>4
  <2> QED BY <2>1, <2>2, <1>3
<1>20. Without(r, q, k)
  BY <1>11 DEF Without
<1> HIDE DEF r, n, next, previous, place
<1>21. IsStoreList(v, r)'
  BY <1>11, <1>13, <1>15, <1>16, <1>17, <1>18, <1>19 DEF IsStoreList, IsWalk
<1>22. id # storeLast[v] => storeLast'[v] = storeLast[v]
  BY <1>2, <1>8, <1>9
<1> QED BY <1>2, <1>10, <1>14, <1>20, <1>21, <1>22 DEF n

\* A step that leaves the store slots of a view alone, and takes the committed
\* store at most, keeps its part of the invariant.
LEMMA StoreQueueFrame ==
  ASSUME NEW u \in Views, StoreQueueWellFormed(u),
         stores'[u] = stores[u], storeHead'[u] = storeHead[u],
         storeLast'[u] = storeLast[u], storeFresh'[u] \in {Null, storeFresh[u]}
  PROVE  StoreQueueWellFormed(u)'
<1>1. ASSUME NEW q, IsStoreList(u, q)
      PROVE  IsStoreList(u, q)'
  BY <1>1 DEF IsStoreList, IsWalk
<1>2. FreshStoreValid(u)' => FreshStoreValid(u) /\ storeFresh'[u] = storeFresh[u]
  BY DEF FreshStoreValid
<1> QED BY <1>1, <1>2 DEF StoreQueueWellFormed

LEMMA LoadQueueStepKeepsStores ==
  ASSUME StoreListWellFormed, NEW v \in Views, LoadQueueStep(v)
  PROVE  StoreListWellFormed'
<1>1. UNCHANGED storeVars /\ Running
  BY DEF LoadQueueStep, LoadExecute, LoadExecuteTooBig, LoadExecuteMeetsInvalid,
         LoadExecuteHangs, LoadCommit, LoadCommitInvalid, LoadCommitCrashes, LoadFlush
<1> QED BY <1>1, StoreQueueFrame DEF StoreListWellFormed, storeVars

LEMMA StoreQueueStepKeepsStores ==
  ASSUME TypeOK, StoreListWellFormed, NEW v \in Views,
         StoreQueueStep(v, FreeSlots(v), StoreIds)
  PROVE  StoreListWellFormed'
<1>1. Running
  BY DEF StoreQueueStep, StoreCommit, StoreCommitRejected, StoreBroadcast,
         StoreBroadcastInvalid
<1>2. \A u \in Views : StoreQueueWellFormed(u)
  BY <1>1 DEF StoreListWellFormed
<1>3. PICK q \in StoreSeqs : IsStoreList(v, q)
  BY <1>2 DEF StoreQueueWellFormed
<1>4. FreshStoreValid(v) => storeFresh[v] = storeLast[v]
  BY <1>2 DEF StoreQueueWellFormed
<1>5. ASSUME NEW id \in FreeSlots(v), NEW fp \in Footprints,
             NEW bytes \in [fp -> Byte], StoreCommit(v, id, bytes)
      PROVE  StoreListWellFormed'
  <2>1. id \in StoreIds /\ ~stores[v][id].valid
    BY DEF FreeSlots
  <2>2. \E r \in StoreSeqs : IsStoreList(v, r)'
    BY <1>3, <1>5, <2>1, StoreCommitList
  <2>3. storeFresh'[v] = id /\ storeLast'[v] = id
    BY <1>5 DEF StoreCommit, TypeOK
  <2>4. StoreQueueWellFormed(v)'
    BY <2>2, <2>3 DEF StoreQueueWellFormed
  <2>5. ASSUME NEW u \in Views, u # v
        PROVE  StoreQueueWellFormed(u)'
    BY <1>2, <1>5, <2>5, StoreQueueFrame DEF StoreCommit, TypeOK
  <2> QED BY <2>4, <2>5 DEF StoreListWellFormed
<1>6. ASSUME NEW id \in StoreIds, StoreBroadcast(v, id)
      PROVE  StoreListWellFormed'
  <2>1. /\ \E r \in StoreSeqs : IsStoreList(v, r)'
        /\ id # storeLast[v] => storeLast'[v] = storeLast[v]
        /\ \A s \in StoreIds : stores'[v][s].valid <=> (s # id /\ stores[v][s].valid)
    BY <1>3, <1>6, StoreBroadcastList
  <2>2. storeFresh'[v] = storeFresh[v] /\ storeFresh[v] \in StoreIds \cup {Null}
    BY <1>6 DEF StoreBroadcast, TypeOK
  <2>3. FreshStoreValid(v)' => storeFresh'[v] = storeLast'[v]
    BY <1>4, <2>1, <2>2 DEF FreshStoreValid
  <2>4. StoreQueueWellFormed(v)'
    BY <2>1, <2>3 DEF StoreQueueWellFormed
  <2>5. ASSUME NEW u \in Views, u # v
        PROVE  StoreQueueWellFormed(u)'
    BY <1>2, <1>6, <2>5, StoreQueueFrame DEF StoreBroadcast, TypeOK
  <2> QED BY <2>4, <2>5 DEF StoreListWellFormed
<1> QED BY <1>5, <1>6 DEF StoreQueueStep, StoreCommitRejected, StoreBroadcastInvalid,
           StoreListWellFormed, Running

LEMMA SpikeStepKeepsStores ==
  ASSUME TypeOK, StoreListWellFormed, NEW v \in Views, SpikeStep(v)
  PROVE  StoreListWellFormed'
<1>1. Running
  BY DEF SpikeStep, CommitLoad, CommitLoadRejected, CommitStore, CommitStoreRejected,
         CommitAmo, CommitAmoRejected, CommitOther, CommitOtherRejected
<1>2. \A u \in Views : StoreQueueWellFormed(u)
  BY <1>1 DEF StoreListWellFormed
<1>3. ASSUME UNCHANGED <<stores, storeHead, storeLast>>,
             storeFresh' = [storeFresh EXCEPT ![v] = Null] \/ UNCHANGED storeFresh
      PROVE  StoreListWellFormed'
  BY <1>2, <1>3, StoreQueueFrame DEF StoreListWellFormed, TypeOK
<1> QED BY <1>3 DEF SpikeStep, CommitLoad, CommitLoadRejected, CommitStore,
           CommitStoreRejected, CommitAmo, CommitAmoRejected, CommitOther,
           CommitOtherRejected, vars, storeVars, StoreListWellFormed, Running

LEMMA InitStoreList == Init => StoreListWellFormed
<1> SUFFICES ASSUME Init, NEW v \in Views PROVE StoreQueueWellFormed(v)
  BY DEF StoreListWellFormed
<1> DEFINE q == [i \in 1 .. 0 |-> Null]
<1>1. Cardinality(StoreIds) \in Nat
  BY IdsAssumption, FS_CardinalityType
<1>2. q \in [1 .. 0 -> StoreIds] /\ Len(q) = 0 /\ 1 .. 0 = {}
  OBVIOUS
<1>3. q \in StoreSeqs
  BY <1>1, <1>2 DEF StoreSeqs
<1>4. /\ storeHead[v] = Null /\ storeLast[v] = Null /\ storeFresh[v] = Null
      /\ \A s \in StoreIds : ~stores[v][s].valid
  BY DEF Init
<1> HIDE DEF q
<1>5. IsStoreList(v, q)
  BY <1>2, <1>4 DEF IsStoreList, IsWalk
<1> QED BY <1>3, <1>4, <1>5 DEF StoreQueueWellFormed, FreshStoreValid

\* What a DUT that reuses free slots only does, any DUT may do.
LEMMA NextIsAnyNext == Next => AnyNext
BY DEF Next, AnyNext, Step, StoreQueueStep, FreeSlots

LEMMA DisciplinedInvariant == Spec => [](TypeOK /\ InflightWellFormed /\ StoreListWellFormed)
<1>1. Init => StoreListWellFormed
  BY InitStoreList
<1>2. TypeOK /\ StoreListWellFormed /\ [Next]_vars => StoreListWellFormed'
  <2> SUFFICES ASSUME TypeOK, StoreListWellFormed, [Next]_vars
               PROVE  StoreListWellFormed'
    OBVIOUS
  <2>1. CASE UNCHANGED vars
    <3>1. UNCHANGED storeVars /\ status' = status
      BY <2>1 DEF vars
    <3> QED BY <3>1, StoreQueueFrame DEF StoreListWellFormed, storeVars, Running
  <2>2. ASSUME NEW v \in Views, Step(v, FreeSlots(v), StoreIds)
        PROVE  StoreListWellFormed'
    BY <2>2, LoadQueueStepKeepsStores, StoreQueueStepKeepsStores,
       SpikeStepKeepsStores DEF Step
  <2> QED BY <2>1, <2>2 DEF Next
<1>3. Spec => AnySpec
  BY NextIsAnyNext, PTL DEF Spec, AnySpec
<1> QED BY <1>1, <1>2, <1>3, AnyTraceInvariant, PTL DEF Spec

\* For every trace of a DUT that reuses a store slot only after its broadcast,
\* the stores form one doubly linked list of exactly the valid slots.
THEOREM StoreQueueCorrect == Spec => []StoreListWellFormed
BY DisciplinedInvariant, PTL

-----------------------------------------------------------------------------
\* A step that is not Spike's drops neither of the accesses of a view that wait
\* for Spike to check them.
LEMMA QueueStepsKeepFresh ==
  ASSUME TypeOK, NEW u \in Views, NEW v \in Views,
         LoadQueueStep(v) \/ StoreQueueStep(v, StoreIds, StoreIds)
  PROVE  /\ loadFresh[u] # Null => loadFresh'[u] = loadFresh[u] \/ ~Running'
         /\ storeFresh[u] # Null => storeFresh'[u] = storeFresh[u] \/ ~Running'
<1>1. ASSUME LoadQueueStep(v)
      PROVE  UNCHANGED storeFresh /\ (UNCHANGED loadFresh \/
               (loadFresh[v] = Null /\ \E l : loadFresh' = [loadFresh EXCEPT ![v] = l]))
  BY <1>1 DEF LoadQueueStep, LoadExecute, LoadExecuteTooBig, LoadExecuteMeetsInvalid,
         LoadExecuteHangs, LoadCommit, LoadCommitInvalid, LoadCommitCrashes, LoadFlush,
         storeVars, loadVars
<1>2. ASSUME StoreQueueStep(v, StoreIds, StoreIds)
      PROVE  UNCHANGED loadFresh /\ (UNCHANGED storeFresh \/
               (storeFresh[v] = Null /\ \E s : storeFresh' = [storeFresh EXCEPT ![v] = s]))
  BY <1>2 DEF StoreQueueStep, StoreCommit, StoreCommitRejected, StoreBroadcast,
         StoreBroadcastInvalid, storeVars, loadVars
<1>3. ASSUME LoadQueueStep(v), loadFresh[u] # Null
      PROVE  loadFresh'[u] = loadFresh[u]
  BY <1>1, <1>3 DEF TypeOK
<1>4. ASSUME StoreQueueStep(v, StoreIds, StoreIds), storeFresh[u] # Null
      PROVE  storeFresh'[u] = storeFresh[u]
  BY <1>2, <1>4 DEF TypeOK
<1> QED BY <1>1, <1>2, <1>3, <1>4

\* An instruction that retires takes both accesses of its view, and no other
\* view's; the store it takes still waits for its broadcast.
LEMMA SpikeStepTakesBoth ==
  ASSUME TypeOK, NEW u \in Views, NEW v \in Views, SpikeStep(v), Running'
  PROVE  /\ u # v => loadFresh'[u] = loadFresh[u] /\ storeFresh'[u] = storeFresh[u]
         /\ loadFresh'[v] = Null /\ storeFresh'[v] = Null
         /\ storeFresh[v] # Null => FreshStoreValid(v)
<1>1. ASSUME NEW fp \in Footprints, CommitLoad(v, fp)
      PROVE  /\ loadFresh' = [loadFresh EXCEPT ![v] = Null]
             /\ UNCHANGED storeFresh /\ storeFresh[v] = Null
  BY <1>1 DEF CommitLoad, StepClean, storeVars
<1>2. ASSUME NEW bytes, CommitStore(v, bytes)
      PROVE  /\ storeFresh' = [storeFresh EXCEPT ![v] = Null] /\ FreshStoreValid(v)
             /\ UNCHANGED loadFresh /\ loadFresh[v] = Null
  BY <1>2 DEF CommitStore, StepClean, StoreAgrees
<1>3. ASSUME NEW fp \in Footprints, NEW bytes, CommitAmo(v, fp, bytes)
      PROVE  /\ storeFresh' = [storeFresh EXCEPT ![v] = Null] /\ FreshStoreValid(v)
             /\ loadFresh' = [loadFresh EXCEPT ![v] = Null]
  BY <1>3 DEF CommitAmo, StoreAgrees
<1>4. ASSUME CommitOther(v)
      PROVE  /\ UNCHANGED <<loadFresh, storeFresh>>
             /\ loadFresh[v] = Null /\ storeFresh[v] = Null
  BY <1>4 DEF CommitOther, StepClean, vars, loadVars, storeVars
<1>5. \/ \E fp \in Footprints : CommitLoad(v, fp)
      \/ \E fp \in Footprints : \E bytes \in [fp -> Byte] :
           CommitStore(v, bytes) \/ CommitAmo(v, fp, bytes)
      \/ CommitOther(v)
  BY DEF SpikeStep, CommitLoadRejected, CommitStoreRejected, CommitAmoRejected,
         CommitOtherRejected, Running
<1> QED BY <1>1, <1>2, <1>3, <1>4, <1>5 DEF TypeOK

\* For every trace, a store that was broadcast before Spike executed it is not
\* accepted as the store of an instruction.
THEOREM UncheckedStoreIsRejected == AnySpec => UncheckedStoreNeverAccepted
<1>1. TypeOK /\ [AnyNext]_vars =>
        [\A v \in Views :
           (storeFresh[v] # Null /\ ~stores[v][storeFresh[v]].valid /\ Running')
             => storeFresh'[v] = storeFresh[v]]_vars
  <2> SUFFICES ASSUME TypeOK, AnyNext, NEW u \in Views,
                      storeFresh[u] # Null, ~stores[u][storeFresh[u]].valid, Running'
               PROVE  storeFresh'[u] = storeFresh[u]
    OBVIOUS
  <2> ~FreshStoreValid(u)
    BY DEF FreshStoreValid
  <2>1. PICK v \in Views : Step(v, StoreIds, StoreIds)
    BY DEF AnyNext
  <2>2. CASE SpikeStep(v)
    BY <2>2, SpikeStepTakesBoth
  <2>3. CASE ~SpikeStep(v)
    BY <2>1, <2>3, QueueStepsKeepFresh DEF Step
  <2> QED BY <2>2, <2>3
<1> QED BY <1>1, TypeCorrect, PTL DEF AnySpec, UncheckedStoreNeverAccepted

\* For every trace, Spike takes the committed load and the committed store of a
\* view in one step, or the run fails.
THEOREM AccessesLeaveTogether == AnySpec => FreshAccessesLeaveTogether
<1>1. TypeOK /\ [AnyNext]_vars =>
        [\A v \in Views :
           (loadFresh[v] # Null /\ storeFresh[v] # Null /\ Running')
             => (loadFresh'[v] = Null <=> storeFresh'[v] = Null)]_vars
  <2> SUFFICES ASSUME TypeOK, AnyNext, NEW u \in Views,
                      loadFresh[u] # Null, storeFresh[u] # Null, Running'
               PROVE  loadFresh'[u] = Null <=> storeFresh'[u] = Null
    OBVIOUS
  <2>1. PICK v \in Views : Step(v, StoreIds, StoreIds)
    BY DEF AnyNext
  <2>2. CASE SpikeStep(v)
    BY <2>2, SpikeStepTakesBoth
  <2>3. CASE ~SpikeStep(v)
    BY <2>1, <2>3, QueueStepsKeepFresh DEF Step
  <2> QED BY <2>2, <2>3
<1> QED BY <1>1, TypeCorrect, PTL DEF AnySpec, FreshAccessesLeaveTogether
-----------------------------------------------------------------------------
(***************************************************************************)
(* Store to load forwarding: a load that waits to be checked holds what    *)
(* its own hart has stored, wherever the DUT lets it execute.              *)
(***************************************************************************)

\* Place j of the list q holds the newest retired store of v to byte a.
IsNewest(v, q, a, j) ==
  /\ j \in 1 .. Len(q) /\ q[j] # storeFresh[v] /\ a \in DOMAIN stores[v][q[j]].bytes
  /\ \A i \in 1 .. Len(q) :
       (q[i] # storeFresh[v] /\ a \in DOMAIN stores[v][q[i]].bytes) => i <= j

\* x is the byte a of that store, or of the store Spike has yet to check.
IsForwarded(v, q, a, j, x) ==
  \/ x = stores[v][q[j]].bytes[a]
  \/ /\ FreshStoreValid(v)
     /\ a \in DOMAIN stores[v][storeFresh[v]].bytes
     /\ x = stores[v][storeFresh[v]].bytes[a]

LoadsForwarded(v, q) ==
  \A l \in LoadIds : loads[v][l].valid =>
    \A a \in DOMAIN loads[v][l].bytes, j \in 1 .. Len(q) :
      IsNewest(v, q, a, j) => IsForwarded(v, q, a, j, loads[v][l].bytes[a])

\* ForwardingSound with the list of the view given by what makes it one.
ViewForwards(v) == \E q \in StoreSeqs : IsStoreList(v, q) /\ LoadsForwarded(v, q)
Forwards == Running => \A v \in Views : ViewForwards(v)

QueuesWellFormed == TypeOK /\ InflightWellFormed /\ StoreListWellFormed

-----------------------------------------------------------------------------
LEMMA ForwardsIsSound == QueuesWellFormed /\ Forwards => ForwardingSound
<1> SUFFICES ASSUME QueuesWellFormed, Forwards, Running, NEW v \in Views,
                    NEW l \in LoadIds, loads[v][l].valid,
                    NEW a \in DOMAIN loads[v][l].bytes,
                    {i \in Covering(v, StoreList(v), a) : StoreList(v)[i] # storeFresh[v]} # {}
             PROVE  IsForwarded(v, StoreList(v), a,
                      Newest({i \in Covering(v, StoreList(v), a) :
                                StoreList(v)[i] # storeFresh[v]}), loads[v][l].bytes[a])
  BY DEF ForwardingSound, IsForwarded
<1>1. PICK q \in StoreSeqs : IsStoreList(v, q) /\ LoadsForwarded(v, q)
  BY DEF Forwards, ViewForwards
<1>2. StoreList(v) = q
  BY <1>1, StoreListIs DEF IsStoreList
<1> DEFINE hits == {i \in Covering(v, q, a) : q[i] # storeFresh[v]}
<1>3. hits # {} /\ hits \subseteq 1 .. Len(q) /\ Len(q) \in Nat
  BY <1>2, StoreListFacts DEF Covering
<1>4. Newest(hits) \in hits /\ \A j \in hits : j <= Newest(hits)
  <2> HIDE DEF hits
  <2> QED BY <1>3, NewestIsMember
<1>5. IsNewest(v, q, a, Newest(hits))
  BY <1>4 DEF IsNewest, Covering
<1>6. Newest(hits) \in 1 .. Len(q)
  BY <1>3, <1>4
<1> HIDE DEF hits
<1>7. IsForwarded(v, q, a, Newest(hits), loads[v][l].bytes[a])
  BY <1>1, <1>5, <1>6 DEF LoadsForwarded
<1> QED BY <1>2, <1>7 DEF hits

\* Steps that change no store, and no byte of a load that stays valid.
LEMMA LoadsStayForwarded ==
  ASSUME NEW u \in Views, ViewForwards(u),
         stores'[u] = stores[u], storeHead'[u] = storeHead[u],
         storeLast'[u] = storeLast[u], storeFresh'[u] = storeFresh[u],
         \A l \in LoadIds : loads'[u][l].valid =>
           loads[u][l].valid /\ loads'[u][l].bytes = loads[u][l].bytes
  PROVE  ViewForwards(u)'
<1>1. PICK q \in StoreSeqs : IsStoreList(u, q) /\ LoadsForwarded(u, q)
  BY DEF ViewForwards
<1>2. IsStoreList(u, q)'
  BY <1>1 DEF IsStoreList, IsWalk
<1>3. LoadsForwarded(u, q)'
  <2> SUFFICES ASSUME NEW l \in LoadIds, loads'[u][l].valid,
                      NEW a \in DOMAIN loads'[u][l].bytes, NEW j \in 1 .. Len(q),
                      IsNewest(u, q, a, j)'
               PROVE  IsForwarded(u, q, a, j, loads[u][l].bytes[a])'
    BY DEF LoadsForwarded
  <2>1. IsNewest(u, q, a, j)
    BY DEF IsNewest
  <2>2. IsForwarded(u, q, a, j, loads[u][l].bytes[a])
    BY <1>1, <2>1 DEF LoadsForwarded
  <2> QED BY <2>2 DEF IsForwarded, FreshStoreValid
<1> QED BY <1>2, <1>3 DEF ViewForwards

\* loadExecute walks the list and meets the newest store of each byte last.
LEMMA LoadExecuteForwards ==
  ASSUME QueuesWellFormed, NEW v \in Views, NEW id \in LoadIds, NEW fp \in Footprints,
         LoadExecute(v, id, fp), ViewForwards(v)
  PROVE  ViewForwards(v)'
<1>1. PICK q \in StoreSeqs : IsStoreList(v, q) /\ LoadsForwarded(v, q)
  BY DEF ViewForwards
<1>2. StoreList(v) = q /\ Len(q) \in Nat
  BY <1>1, StoreListIs, StoreListFacts DEF IsStoreList
<1>3. /\ stores' = stores /\ storeHead' = storeHead /\ storeLast' = storeLast
      /\ storeFresh' = storeFresh
      /\ loads'[v][id].bytes = Observed(v, q, fp)
      /\ \A l \in LoadIds : l # id => loads'[v][l] = loads[v][l]
  BY <1>2 DEF LoadExecute, QueuesWellFormed, TypeOK, storeVars
<1>4. FreshStoreValid(v) => storeFresh[v] = storeLast[v]
  BY DEF QueuesWellFormed, StoreListWellFormed, StoreQueueWellFormed, LoadExecute
<1>5. IsStoreList(v, q)'
  BY <1>1, <1>3 DEF IsStoreList, IsWalk
<1>6. ASSUME NEW a \in fp, NEW j \in 1 .. Len(q), IsNewest(v, q, a, j)
      PROVE  IsForwarded(v, q, a, j, Observed(v, q, fp)[a])
  <2> DEFINE hits == Covering(v, q, a)
             m == Newest(hits)
  <2>1. j \in hits /\ hits \subseteq 1 .. Len(q)
    BY <1>6 DEF IsNewest, Covering
  <2>2. m \in hits /\ \A i \in hits : i <= m
    <3> HIDE DEF hits
    <3> QED BY <1>2, <2>1, NewestIsMember
  <2>3. Observed(v, q, fp)[a] = stores[v][q[m]].bytes[a]
    BY <2>1 DEF Observed
  <2>4. m \in 1 .. Len(q) /\ a \in DOMAIN stores[v][q[m]].bytes /\ j <= m
    BY <2>1, <2>2 DEF Covering
  <2> HIDE DEF m, hits
  <2>5. CASE q[m] # storeFresh[v]
    <3>1. m <= j
      BY <1>6, <2>4, <2>5 DEF IsNewest
    <3>2. m = j
      BY <1>2, <2>4, <3>1
    <3> QED BY <2>3, <3>2 DEF IsForwarded
  <2>6. CASE q[m] = storeFresh[v]
    <3>1. q[m] \in StoreIds /\ stores[v][q[m]].valid
      BY <1>1, <2>4, StoreListFacts DEF IsStoreList
    <3>2. FreshStoreValid(v)
      BY <2>6, <3>1, IdsAssumption DEF FreshStoreValid
    <3> QED BY <2>3, <2>4, <2>6, <3>2 DEF IsForwarded
  <2> QED BY <2>5, <2>6
<1>7. LoadsForwarded(v, q)'
  <2> SUFFICES ASSUME NEW l \in LoadIds, loads'[v][l].valid,
                      NEW a \in DOMAIN loads'[v][l].bytes, NEW j \in 1 .. Len(q),
                      IsNewest(v, q, a, j)'
               PROVE  IsForwarded(v, q, a, j, loads[v][l].bytes[a])'
    BY DEF LoadsForwarded
  <2>1. IsNewest(v, q, a, j)
    BY <1>3 DEF IsNewest
  <2>2. IsForwarded(v, q, a, j, loads'[v][l].bytes[a])
    <3>1. CASE l = id
      <4>1. a \in fp
        BY <1>3, <3>1 DEF Observed
      <4> QED BY <1>3, <1>6, <2>1, <3>1, <4>1
    <3>2. CASE l # id
      BY <1>1, <1>3, <2>1, <3>2 DEF LoadsForwarded
    <3> QED BY <3>1, <3>2
  <2> QED BY <1>3, <2>2 DEF IsForwarded, FreshStoreValid
<1> QED BY <1>5, <1>7 DEF ViewForwards

\* A store that Spike has yet to check concerns no load so far.
LEMMA StoreCommitForwards ==
  ASSUME QueuesWellFormed, NEW v \in Views, NEW id \in StoreIds, ~stores[v][id].valid,
         NEW bytes, StoreCommit(v, id, bytes), ViewForwards(v)
  PROVE  ViewForwards(v)'
<1>1. PICK q \in StoreSeqs : IsStoreList(v, q) /\ LoadsForwarded(v, q)
  BY DEF ViewForwards
<1>2. /\ Len(q) \in Nat /\ q \in [1 .. Len(q) -> StoreIds]
      /\ \A i \in 1 .. Len(q) : stores[v][q[i]].valid /\ q[i] # id
  BY <1>1, StoreListFacts DEF IsStoreList
<1>3. PICK r \in StoreSeqs : IsStoreList(v, r)' /\ Extends(r, q, id)
  BY <1>1, StoreCommitList DEF QueuesWellFormed
<1>4. \A s \in StoreIds : s # id => stores'[v][s].bytes = stores[v][s].bytes
  BY <1>1, StoreCommitList DEF QueuesWellFormed
<1>5. /\ loads' = loads /\ storeFresh'[v] = id /\ storeFresh[v] = Null
      /\ Null \notin StoreIds
  BY IdsAssumption DEF StoreCommit, QueuesWellFormed, TypeOK, loadVars
<1>6. \A i \in 1 .. Len(q) : i \in 1 .. Len(r) /\ r[i] = q[i]
  BY <1>2, <1>3 DEF Extends
<1>7. \A i \in 1 .. Len(r) : r[i] # id => i \in 1 .. Len(q)
  BY <1>2, <1>3 DEF Extends
<1>8. LoadsForwarded(v, r)'
  <2> SUFFICES ASSUME NEW l \in LoadIds, loads[v][l].valid,
                      NEW a \in DOMAIN loads[v][l].bytes, NEW j \in 1 .. Len(r),
                      IsNewest(v, r, a, j)'
               PROVE  loads[v][l].bytes[a] = stores'[v][r[j]].bytes[a]
    BY <1>5 DEF LoadsForwarded, IsForwarded
  <2>1. /\ r[j] # id /\ a \in DOMAIN stores'[v][r[j]].bytes
        /\ \A i \in 1 .. Len(r) :
             (r[i] # id /\ a \in DOMAIN stores'[v][r[i]].bytes) => i <= j
    BY <1>5 DEF IsNewest
  <2>2. j \in 1 .. Len(q) /\ q[j] = r[j] /\ q[j] \in StoreIds
    BY <1>2, <1>6, <1>7, <2>1
  <2>3. IsNewest(v, q, a, j)
    <3>1. ASSUME NEW i \in 1 .. Len(q), a \in DOMAIN stores[v][q[i]].bytes
          PROVE  i <= j
      BY <1>2, <1>4, <1>6, <2>1, <3>1
    <3>2. a \in DOMAIN stores[v][q[j]].bytes
      BY <1>4, <2>1, <2>2
    <3> QED BY <1>5, <2>2, <3>1, <3>2 DEF IsNewest
  <2>4. IsForwarded(v, q, a, j, loads[v][l].bytes[a])
    BY <1>1, <2>2, <2>3 DEF LoadsForwarded
  <2> QED BY <1>4, <1>5, <2>1, <2>2, <2>4 DEF IsForwarded, FreshStoreValid
<1> QED BY <1>3, <1>8 DEF ViewForwards

\* The store that leaves covers no byte of an older one.  So what a load holds of
\* it is of no younger store, and what a load holds of a store that Spike has not
\* checked is of no byte that another store of the list covers.
LEMMA StoreBroadcastForwards ==
  ASSUME QueuesWellFormed, NEW v \in Views, NEW id \in Leaving(v),
         StoreBroadcast(v, id), ViewForwards(v)
  PROVE  ViewForwards(v)'
<1>1. PICK q \in StoreSeqs : IsStoreList(v, q) /\ LoadsForwarded(v, q)
  BY DEF ViewForwards
<1>2. /\ Len(q) \in Nat /\ q \in [1 .. Len(q) -> StoreIds] /\ id \in StoreIds
      /\ \A i, j \in 1 .. Len(q) : q[i] = q[j] => i = j
      /\ storeLast[v] = IF Len(q) = 0 THEN Null ELSE q[Len(q)]
  BY <1>1, StoreListFacts DEF IsStoreList, Leaving
<1>3. PICK r \in StoreSeqs, k \in 1 .. Len(q) :
        q[k] = id /\ IsStoreList(v, r)' /\ Without(r, q, k)
  BY <1>1, <1>2, StoreBroadcastList DEF QueuesWellFormed
<1>4. \A s \in StoreIds :
        /\ stores'[v][s].valid <=> (s # id /\ stores[v][s].valid)
        /\ stores'[v][s].bytes = stores[v][s].bytes
  BY <1>1, <1>2, StoreBroadcastList DEF QueuesWellFormed
<1>5. /\ loads' = loads /\ storeFresh' = storeFresh
      /\ storeFresh[v] \in StoreIds \cup {Null} /\ Null \notin StoreIds
  BY IdsAssumption DEF StoreBroadcast, QueuesWellFormed, TypeOK, loadVars
<1>6. FreshStoreValid(v) => storeFresh[v] = storeLast[v]
  BY DEF QueuesWellFormed, StoreListWellFormed, StoreQueueWellFormed, StoreBroadcast
<1>7. \A i \in 1 .. (k - 1) :
        DOMAIN stores[v][q[i]].bytes \cap DOMAIN stores[v][id].bytes = {}
  <2>1. StoreList(v) = q
    BY <1>1, StoreListIs DEF IsStoreList
  <2> QED BY <1>3, <2>1 DEF Leaving
<1> DEFINE old(i) == IF i < k THEN i ELSE i + 1
<1>8. \A i \in 1 .. Len(r) : old(i) \in 1 .. Len(q) /\ old(i) # k /\ r[i] = q[old(i)]
  BY <1>2, <1>3 DEF Without
<1>9. \A i \in 1 .. Len(q) : i # k => \E h \in 1 .. Len(r) : old(h) = i
  <2> SUFFICES ASSUME NEW i \in 1 .. Len(q), i # k
               PROVE  \E h \in 1 .. Len(r) : old(h) = i
    OBVIOUS
  <2>1. CASE i < k
    <3>1. i \in 1 .. Len(r)
      BY <1>2, <1>3, <2>1 DEF Without
    <3> QED BY <2>1, <3>1
  <2>2. CASE i > k
    <3>1. i - 1 \in 1 .. Len(r) /\ ~(i - 1 < k) /\ (i - 1) + 1 = i
      BY <1>2, <1>3, <2>2 DEF Without
    <3> QED BY <3>1
  <2> QED BY <1>2, <1>3, <2>1, <2>2
<1>10. \A i, j \in 1 .. Len(r) : old(i) <= old(j) => i <= j
  BY <1>2, <1>3 DEF Without
<1>11. \A i \in 1 .. Len(q) : q[i] \in StoreIds
  BY <1>2
<1> HIDE DEF old
<1>12. LoadsForwarded(v, r)'
  <2> SUFFICES ASSUME NEW l \in LoadIds, loads[v][l].valid,
                      NEW a \in DOMAIN loads[v][l].bytes, NEW j \in 1 .. Len(r),
                      IsNewest(v, r, a, j)'
               PROVE  IsForwarded(v, r, a, j, loads[v][l].bytes[a])'
    BY <1>5 DEF LoadsForwarded
  <2> DEFINE m == old(j)
  <2>1. /\ m \in 1 .. Len(q) /\ m # k /\ q[m] = r[j]
        /\ q[m] # storeFresh[v] /\ a \in DOMAIN stores[v][q[m]].bytes
    BY <1>4, <1>5, <1>8, <1>11 DEF IsNewest
  <2>2. ASSUME NEW i \in 1 .. Len(q), i # k, q[i] # storeFresh[v],
               a \in DOMAIN stores[v][q[i]].bytes
        PROVE  i <= m
    <3>1. PICK h \in 1 .. Len(r) : old(h) = i
      BY <1>9, <2>2
    <3>2. r[h] = q[i]
      BY <1>8, <3>1
    <3>3. h <= j
      BY <1>4, <1>5, <1>11, <2>2, <3>2 DEF IsNewest
    <3>4. h <= j => old(h) <= old(j)
      BY <1>2, <1>3 DEF old, Without
    <3> QED BY <3>1, <3>3, <3>4
  <2>3. ASSUME a \in DOMAIN stores[v][id].bytes
        PROVE  k < m
    BY <1>2, <1>3, <1>7, <2>1, <2>3
  <2> HIDE DEF m
  <2>4. IsNewest(v, q, a, m)
    <3>1. ASSUME a \in DOMAIN stores[v][q[k]].bytes
          PROVE  k <= m
      BY <1>2, <1>3, <2>1, <2>3, <3>1
    <3> QED BY <2>1, <2>2, <3>1 DEF IsNewest
  <2>5. IsForwarded(v, q, a, m, loads[v][l].bytes[a])
    BY <1>1, <2>1, <2>4 DEF LoadsForwarded
  <2>6. CASE loads[v][l].bytes[a] = stores[v][q[m]].bytes[a]
    BY <1>4, <1>5, <1>11, <2>1, <2>6 DEF IsForwarded
  <2>7. CASE /\ FreshStoreValid(v)
             /\ a \in DOMAIN stores[v][storeFresh[v]].bytes
             /\ loads[v][l].bytes[a] = stores[v][storeFresh[v]].bytes[a]
    <3>1. storeFresh[v] \in StoreIds /\ stores[v][storeFresh[v]].valid
      BY <1>5, <2>7 DEF FreshStoreValid
    <3>2. storeFresh[v] # id
      <4> SUFFICES ASSUME storeFresh[v] = id
                   PROVE  FALSE
        OBVIOUS
      <4>1. q[k] = q[Len(q)] /\ Len(q) \in 1 .. Len(q)
        BY <1>2, <1>3, <1>6, <2>7
      <4>2. k = Len(q)
        BY <1>2, <4>1
      <4> QED BY <1>2, <2>1, <2>3, <2>7, <4>2
    <3>3. FreshStoreValid(v)'
      BY <1>4, <1>5, <3>1, <3>2 DEF FreshStoreValid
    <3> QED BY <1>4, <1>5, <2>7, <3>1, <3>3 DEF IsForwarded
  <2> QED BY <2>5, <2>6, <2>7 DEF IsForwarded
<1> QED BY <1>3, <1>12 DEF ViewForwards

\* store() has written bytes over the loads in flight; `consumed` is the load of the
\* instruction, or Null if it has none.
TakesStore(v, consumed, bytes) ==
  /\ Running /\ StoreAgrees(v, bytes) /\ consumed \in {Null, loadFresh[v]}
  /\ consumed = Null => loadFresh[v] = Null
  /\ loads' = [loads EXCEPT ![v] = LoadsAfter(v, consumed, bytes)]
  /\ UNCHANGED <<stores, storeHead, storeLast>>

\* Every load that stays valid beside the instruction's own is in flight, and has
\* the store written over it.
LEMMA SpikeStoreBypasses ==
  ASSUME QueuesWellFormed, NEW v \in Views, NEW bytes, NEW consumed,
         TakesStore(v, consumed, bytes), NEW l \in LoadIds, loads'[v][l].valid
  PROVE  loads[v][l].valid /\ loads'[v][l].bytes = Overwrite(bytes, loads[v][l].bytes)
<1>1. loads'[v] = LoadsAfter(v, consumed, bytes) /\ TypeOK
  BY DEF TakesStore, QueuesWellFormed, TypeOK
<1>2. loads[v][l].valid /\ l # consumed
  BY <1>1, LoadsAfterOf
<1>3. loads'[v][l].bytes = IF l \in Inflight(v) THEN Overwrite(bytes, loads[v][l].bytes)
                           ELSE loads[v][l].bytes
  BY <1>1, LoadsAfterOf
<1>4. l \in Inflight(v) \/ l = loadFresh[v]
  BY <1>2 DEF TakesStore, QueuesWellFormed, InflightWellFormed, LoadQueueWellFormed
<1>5. l # loadFresh[v]
  BY <1>2, IdsAssumption DEF TakesStore
<1> QED BY <1>2, <1>3, <1>4, <1>5

\* CpuMemoryView::store writes the store it has checked, the newest of the list,
\* over every load in flight; the load of the instruction itself, if there is one,
\* is gone by then.
LEMMA SpikeStoreForwards ==
  ASSUME QueuesWellFormed, NEW v \in Views, NEW bytes, NEW consumed,
         TakesStore(v, consumed, bytes), storeFresh'[v] = Null, ViewForwards(v)
  PROVE  ViewForwards(v)'
<1> UNCHANGED <<stores, storeHead, storeLast>>
  BY DEF TakesStore
<1>1. PICK q \in StoreSeqs : IsStoreList(v, q) /\ LoadsForwarded(v, q)
  BY DEF ViewForwards
<1> DEFINE n == Len(q)
           fresh == storeFresh[v]
<1>2. /\ n \in Nat /\ q \in [1 .. n -> StoreIds] /\ Null \notin StoreIds
      /\ \A i, j \in 1 .. n : q[i] = q[j] => i = j
      /\ storeLast[v] = IF n = 0 THEN Null ELSE q[n]
  BY <1>1, StoreListFacts, IdsAssumption DEF IsStoreList
<1>3. IsStoreList(v, q)'
  BY <1>1 DEF IsStoreList, IsWalk
<1>4. FreshStoreValid(v) /\ stores[v][fresh].bytes = bytes /\ fresh = storeLast[v]
  BY DEF TakesStore, StoreAgrees, QueuesWellFormed, StoreListWellFormed,
         StoreQueueWellFormed
<1>5. n \in 1 .. n /\ q[n] = fresh /\ fresh # Null
  BY <1>2, <1>4 DEF FreshStoreValid
<1>6. ASSUME NEW l \in LoadIds, loads'[v][l].valid
      PROVE  loads[v][l].valid /\ loads'[v][l].bytes = Overwrite(bytes, loads[v][l].bytes)
  BY <1>6, SpikeStoreBypasses
<1> HIDE DEF n, fresh
<1>7. LoadsForwarded(v, q)'
  <2> SUFFICES ASSUME NEW l \in LoadIds, loads'[v][l].valid,
                      NEW a \in DOMAIN loads'[v][l].bytes, NEW j \in 1 .. n,
                      IsNewest(v, q, a, j)'
               PROVE  loads'[v][l].bytes[a] = stores[v][q[j]].bytes[a]
    BY DEF LoadsForwarded, IsForwarded, n
  <2>1. /\ a \in DOMAIN stores[v][q[j]].bytes
        /\ \A i \in 1 .. n : (q[i] # Null /\ a \in DOMAIN stores[v][q[i]].bytes) => i <= j
    BY DEF IsNewest, n
  <2>2. /\ loads[v][l].valid /\ a \in DOMAIN loads[v][l].bytes
        /\ loads'[v][l].bytes[a]
             = IF a \in DOMAIN bytes THEN bytes[a] ELSE loads[v][l].bytes[a]
    <3> DEFINE old == loads[v][l].bytes
    <3>1. loads[v][l].valid /\ loads'[v][l].bytes = Overwrite(bytes, old)
      BY <1>6
    <3>2. a \in DOMAIN Overwrite(bytes, old)
      BY <3>1
    <3> HIDE DEF old
    <3>3. /\ a \in DOMAIN old
          /\ Overwrite(bytes, old)[a] = IF a \in DOMAIN bytes THEN bytes[a] ELSE old[a]
      BY <3>2 DEF Overwrite
    <3> QED BY <3>1, <3>3 DEF old
  <2>3. CASE a \in DOMAIN bytes
    <3>1. n <= j
      BY <1>4, <1>5, <2>1, <2>3
    <3>2. j = n
      BY <1>2, <3>1
    <3> QED BY <1>4, <1>5, <2>2, <2>3, <3>2
  <2>4. CASE a \notin DOMAIN bytes
    <3>1. q[j] # fresh
      BY <1>4, <2>1, <2>4
    <3>2. \A i \in 1 .. n : q[i] # Null
      BY <1>2
    <3>3. IsNewest(v, q, a, j)
      BY <2>1, <3>1, <3>2 DEF IsNewest, fresh, n
    <3>4. IsForwarded(v, q, a, j, loads[v][l].bytes[a])
      BY <1>1, <2>2, <3>3 DEF LoadsForwarded, n
    <3> QED BY <1>4, <2>2, <2>4, <3>4 DEF IsForwarded, fresh
  <2> QED BY <2>3, <2>4
<1> QED BY <1>3, <1>7 DEF ViewForwards

\* A load without a store changes no byte.
LEMMA OverwriteByNothing ==
  ASSUME NEW old \in Data
  PROVE  Overwrite(NoBytes, old) = old
<1>1. PICK fp : old \in [fp -> Byte]
  BY DEF Data
<1> QED BY <1>1 DEF Overwrite, NoBytes

-----------------------------------------------------------------------------
(***************************************************************************)
(* Every command and every instruction.                                    *)
(***************************************************************************)

\* The views that a step does not concern.
LEMMA OtherViewsForward ==
  ASSUME NEW u \in Views, ViewForwards(u),
         loads'[u] = loads[u], stores'[u] = stores[u], storeHead'[u] = storeHead[u],
         storeLast'[u] = storeLast[u], storeFresh'[u] = storeFresh[u]
  PROVE  ViewForwards(u)'
BY LoadsStayForwarded

\* Of the load queue's commands, only loadExecute changes what a load has read.
LEMMA LoadQueueStepKeepsBytes ==
  ASSUME QueuesWellFormed, NEW v \in Views, LoadQueueStep(v), Running'
  PROVE  /\ \A u \in Views : u # v => loads'[u] = loads[u]
         /\ \/ \E id \in LoadIds, fp \in Footprints : LoadExecute(v, id, fp)
            \/ \A l \in LoadIds : loads'[v][l].valid =>
                 loads[v][l].valid /\ loads'[v][l].bytes = loads[v][l].bytes
<1>1. TypeOK
  BY DEF QueuesWellFormed
<1>2. \/ \E id \in LoadIds, fp \in Footprints : LoadExecute(v, id, fp)
      \/ \E id \in LoadIds : LoadCommit(v, id)
      \/ LoadFlush(v)
  BY DEF LoadQueueStep, LoadExecuteTooBig, LoadExecuteMeetsInvalid, LoadExecuteHangs,
         LoadCommitInvalid, LoadCommitCrashes, Running
<1>3. \A u \in Views : u # v => loads'[u] = loads[u]
  BY <1>1, <1>2 DEF LoadExecute, LoadCommit, RemoveInflight, LoadFlush, TypeOK
<1>4. ASSUME NEW id \in LoadIds, LoadCommit(v, id)
      PROVE  \A l \in LoadIds : loads'[v][l].valid = loads[v][l].valid
                                /\ loads'[v][l].bytes = loads[v][l].bytes
  <2> DEFINE slot == loads[v][id].userId
             last == loadsInflight[v][loadsInflightCount[v] - 1]
  <2>1. PICK place : place = slot
    OBVIOUS
  <2>2. loads' = [loads EXCEPT ![v][last].userId = place]
    BY <1>4, <2>1 DEF LoadCommit, RemoveInflight
  <2> HIDE DEF last, slot
  <2>3. \A l \in LoadIds : loads[v][l] \in Load
    BY <1>1 DEF TypeOK
  <2> SUFFICES ASSUME NEW l \in LoadIds
               PROVE  loads'[v][l].valid = loads[v][l].valid
                      /\ loads'[v][l].bytes = loads[v][l].bytes
    OBVIOUS
  <2>4. loads'[v][l] = IF l = last THEN [loads[v][l] EXCEPT !.userId = place]
                       ELSE loads[v][l]
    BY <1>1, <2>2 DEF TypeOK
  <2> QED BY <2>3, <2>4 DEF Load
<1>5. ASSUME LoadFlush(v)
      PROVE  \A l \in LoadIds : loads'[v][l].valid =>
               loads[v][l].valid /\ loads'[v][l].bytes = loads[v][l].bytes
  BY <1>1, <1>5 DEF LoadFlush, TypeOK, Load
<1> QED BY <1>2, <1>3, <1>4, <1>5

LEMMA LoadQueueStepForwards ==
  ASSUME QueuesWellFormed, Forwards, NEW v \in Views, LoadQueueStep(v)
  PROVE  Forwards'
<1> SUFFICES ASSUME Running' PROVE \A u \in Views : ViewForwards(u)'
  BY DEF Forwards
<1>1. Running /\ UNCHANGED storeVars
  BY DEF LoadQueueStep, LoadExecute, LoadExecuteTooBig, LoadExecuteMeetsInvalid,
         LoadExecuteHangs, LoadCommit, LoadCommitInvalid, LoadCommitCrashes, LoadFlush
<1>2. \A u \in Views : ViewForwards(u)
  BY <1>1 DEF Forwards
<1>3. /\ \A u \in Views : u # v => loads'[u] = loads[u]
      /\ \/ \E id \in LoadIds, fp \in Footprints : LoadExecute(v, id, fp)
         \/ \A l \in LoadIds : loads'[v][l].valid =>
              loads[v][l].valid /\ loads'[v][l].bytes = loads[v][l].bytes
  BY LoadQueueStepKeepsBytes
<1>4. CASE \E id \in LoadIds, fp \in Footprints : LoadExecute(v, id, fp)
  <2>1. ViewForwards(v)'
    BY <1>2, <1>4, LoadExecuteForwards
  <2> QED BY <1>1, <1>2, <1>3, <2>1, OtherViewsForward DEF storeVars
<1>5. CASE \A l \in LoadIds : loads'[v][l].valid =>
             loads[v][l].valid /\ loads'[v][l].bytes = loads[v][l].bytes
  <2>1. ViewForwards(v)'
    BY <1>1, <1>2, <1>5, LoadsStayForwarded DEF storeVars
  <2> QED BY <1>1, <1>2, <1>3, <2>1, OtherViewsForward DEF storeVars
<1> QED BY <1>3, <1>4, <1>5

LEMMA StoreQueueStepForwards ==
  ASSUME QueuesWellFormed, Forwards, NEW v \in Views,
         StoreQueueStep(v, FreeSlots(v), Leaving(v))
  PROVE  Forwards'
<1> SUFFICES ASSUME Running' PROVE \A u \in Views : ViewForwards(u)'
  BY DEF Forwards
<1>1. Running
  BY DEF StoreQueueStep, StoreCommit, StoreCommitRejected, StoreBroadcast,
         StoreBroadcastInvalid
<1>2. \A u \in Views : ViewForwards(u)
  BY <1>1 DEF Forwards
<1>3. \/ \E id \in FreeSlots(v), fp \in Footprints : \E bytes \in [fp -> Byte] :
           StoreCommit(v, id, bytes)
      \/ \E id \in Leaving(v) : StoreBroadcast(v, id)
  BY DEF StoreQueueStep, StoreCommitRejected, StoreBroadcastInvalid, Running
<1>4. UNCHANGED loads
  BY <1>3 DEF StoreCommit, StoreBroadcast, loadVars
<1>5. \A u \in Views : u # v =>
        /\ stores'[u] = stores[u] /\ storeHead'[u] = storeHead[u]
        /\ storeLast'[u] = storeLast[u] /\ storeFresh'[u] = storeFresh[u]
  BY <1>3 DEF StoreCommit, StoreBroadcast, QueuesWellFormed, TypeOK
<1>6. ViewForwards(v)'
  BY <1>2, <1>3, StoreCommitForwards, StoreBroadcastForwards DEF FreeSlots
<1> QED BY <1>2, <1>4, <1>5, <1>6, OtherViewsForward

LEMMA SpikeStepForwards ==
  ASSUME QueuesWellFormed, Forwards, NEW v \in Views, SpikeStep(v)
  PROVE  Forwards'
<1> SUFFICES ASSUME Running' PROVE \A u \in Views : ViewForwards(u)'
  BY DEF Forwards
<1>1. \/ \E fp \in Footprints : CommitLoad(v, fp)
      \/ \E fp \in Footprints : \E bytes \in [fp -> Byte] :
           CommitStore(v, bytes) \/ CommitAmo(v, fp, bytes)
      \/ CommitOther(v)
  BY DEF SpikeStep, CommitLoadRejected, CommitStoreRejected, CommitAmoRejected,
         CommitOtherRejected, Running
<1>2. Running /\ UNCHANGED <<stores, storeHead, storeLast>>
  BY <1>1 DEF CommitLoad, CommitStore, CommitAmo, CommitOther, vars, storeVars
<1>3. (\A u \in Views : ViewForwards(u)) /\ TypeOK
  BY <1>2 DEF Forwards, QueuesWellFormed
<1>4. \A u \in Views : u # v => loads'[u] = loads[u] /\ storeFresh'[u] = storeFresh[u]
  BY <1>1, <1>3 DEF CommitLoad, CommitStore, CommitAmo, CommitOther, vars, storeVars,
                    loadVars, TypeOK
<1>5. ViewForwards(v)'
  <2>1. ASSUME NEW fp \in Footprints, CommitLoad(v, fp)
        PROVE  ViewForwards(v)'
    <3>1. loads'[v] = LoadsAfter(v, loadFresh[v], NoBytes) /\ UNCHANGED storeVars
      BY <1>3, <2>1 DEF CommitLoad, TypeOK
    <3>2. \A l \in LoadIds : loads[v][l].bytes \in Data
      BY <1>3 DEF TypeOK, Load
    <3>3. \A l \in LoadIds : loads'[v][l].valid =>
            loads[v][l].valid /\ loads'[v][l].bytes = loads[v][l].bytes
      BY <1>3, <3>1, <3>2, LoadsAfterOf, OverwriteByNothing
    <3> QED BY <1>3, <3>1, <3>3, LoadsStayForwarded DEF storeVars
  <2>2. ASSUME NEW bytes, CommitStore(v, bytes)
        PROVE  ViewForwards(v)'
    <3>1. /\ StoreAgrees(v, bytes) /\ loadFresh[v] = Null /\ storeFresh'[v] = Null
          /\ loads' = [loads EXCEPT ![v] = LoadsAfter(v, Null, bytes)]
      BY <1>3, <2>2 DEF CommitStore, StepClean, TypeOK
    <3> QED BY <1>2, <1>3, <3>1, SpikeStoreForwards DEF TakesStore
  <2>3. ASSUME NEW fp, NEW bytes, CommitAmo(v, fp, bytes)
        PROVE  ViewForwards(v)'
    <3>1. /\ StoreAgrees(v, bytes) /\ storeFresh'[v] = Null
          /\ loads' = [loads EXCEPT ![v] = LoadsAfter(v, loadFresh[v], bytes)]
      BY <1>3, <2>3 DEF CommitAmo, TypeOK
    <3> QED BY <1>2, <1>3, <3>1, SpikeStoreForwards DEF TakesStore
  <2>4. CASE CommitOther(v)
    BY <1>3, <2>4, LoadsStayForwarded DEF CommitOther, vars, loadVars, storeVars
  <2> QED BY <1>1, <2>1, <2>2, <2>3, <2>4
<1> QED BY <1>2, <1>3, <1>4, <1>5, OtherViewsForward

LEMMA InitForwards == Init => Forwards
<1> SUFFICES ASSUME Init, NEW v \in Views PROVE ViewForwards(v)
  BY DEF Forwards
<1>1. Running /\ \A l \in LoadIds : ~loads[v][l].valid
  BY DEF Init, Running
<1>2. PICK q \in StoreSeqs : IsStoreList(v, q)
  BY <1>1, InitStoreList DEF StoreListWellFormed, StoreQueueWellFormed
<1> QED BY <1>1, <1>2 DEF ViewForwards, LoadsForwarded

\* A DUT that keeps the order of overlapping stores is one that reuses free slots only.
LEMMA OrderedNextIsNext == OrderedNext => Next
BY DEF OrderedNext, Next, Step, StoreQueueStep, Leaving

LEMMA OrderedInvariant == OrderedSpec => [](QueuesWellFormed /\ Forwards)
<1>1. QueuesWellFormed /\ Forwards /\ [OrderedNext]_vars => Forwards'
  <2> SUFFICES ASSUME QueuesWellFormed, Forwards, [OrderedNext]_vars
               PROVE  Forwards'
    OBVIOUS
  <2>1. CASE UNCHANGED vars
    <3>1. UNCHANGED <<loads, stores, storeHead, storeLast, storeFresh, status>>
      BY <2>1 DEF vars, loadVars, storeVars
    <3> QED BY <3>1, OtherViewsForward DEF Forwards, Running
  <2>2. ASSUME NEW v \in Views, Step(v, FreeSlots(v), Leaving(v))
        PROVE  Forwards'
    BY <2>2, LoadQueueStepForwards, StoreQueueStepForwards, SpikeStepForwards DEF Step
  <2> QED BY <2>1, <2>2 DEF OrderedNext
<1>2. OrderedSpec => Spec
  BY OrderedNextIsNext, PTL DEF OrderedSpec, Spec
<1> QED BY <1>1, <1>2, InitForwards, DisciplinedInvariant, PTL
        DEF OrderedSpec, QueuesWellFormed

\* If the DUT broadcasts the overlapping stores of a hart in order, then whenever a
\* load executes, each byte it holds until it is checked is that of the newest store
\* of its hart that has retired and waits for its broadcast, or of the one that
\* Spike checks next.
THEOREM ForwardingIsSound == OrderedSpec => []ForwardingSound
BY OrderedInvariant, ForwardsIsSound, PTL
=============================================================================
