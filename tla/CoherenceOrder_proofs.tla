----------------------- MODULE CoherenceOrder_proofs -----------------------
(***************************************************************************)
(* Coherence of a hart with itself across the harts, for any number of     *)
(* views, ids, addresses and versions.                                     *)
(***************************************************************************)
EXTENDS CoherenceOrder, CpuMemoryView_proofs

\* Place i of the list q of view v covers byte a, with that version.
Holds(v, q, i, a)   == i \in 1 .. Len(q) /\ a \in DOMAIN stores[v][q[i]].bytes
VersionAt(v, q, i, a) == stores[v][q[i]].bytes[a]

\* Memory has taken w of byte a, and then x or nothing but w.
InOrder(a, w) == \E k \in 1 .. Len(order[a]) : order[a][k] = w
Follows(a, w, x) ==
  \E k, j \in 1 .. Len(order[a]) : k <= j /\ order[a][k] = w /\ order[a][j] = x

\* The stores of a view reach memory oldest first, byte by byte.
VersionsAscend(v, q) ==
  \A a \in Addr, i, j \in 1 .. Len(q) :
    Holds(v, q, i, a) =>
      /\ VersionAt(v, q, i, a) <= version
      /\ (i < j /\ Holds(v, q, j, a)) => VersionAt(v, q, i, a) < VersionAt(v, q, j, a)

\* What v retired last for a waits for its broadcast, or memory has taken it and
\* v waits with nothing older.
OwnStoreIsKept(v, q, a, w) ==
  /\ w \in 0 .. version
  /\ \/ \E i \in 1 .. Len(q) : Holds(v, q, i, a) /\ VersionAt(v, q, i, a) = w
     \/ /\ InOrder(a, w)
        /\ \A i \in 1 .. Len(q) : Holds(v, q, i, a) => w <= VersionAt(v, q, i, a)
OwnIsKept(v, q) ==
  \A a \in Addr : own[v][a] # Null => OwnStoreIsKept(v, q, a, own[v][a])

\* x is no older than w, for view v.
NotOlder(v, q, a, w, x) ==
  \/ Follows(a, w, x)
  \/ \E i \in 1 .. Len(q) : Holds(v, q, i, a) /\ VersionAt(v, q, i, a) = x /\ w <= x

LoadsNotOlder(v, q) ==
  \A l \in LoadIds : loads[v][l].valid =>
    \A a \in DOMAIN loads[v][l].bytes :
      own[v][a] # Null => NotOlder(v, q, a, own[v][a], loads[v][l].bytes[a])

ViewIsCoherent(v) ==
  \E q \in StoreSeqs :
    IsStoreList(v, q) /\ VersionsAscend(v, q) /\ OwnIsKept(v, q) /\ LoadsNotOlder(v, q)
Coherent == Running => \A v \in Views : ViewIsCoherent(v)

\* The history, and memory as its last version.
HistoryTyped ==
  /\ version \in Nat
  /\ order \in [Addr -> Seq(Byte)]
  /\ own \in [Views -> [Addr -> Byte \cup {Null}]]
MemoryIsLast ==
  \A a \in Addr : Len(order[a]) > 0 /\ memory[a] = order[a][Len(order[a])]

HistoryWellFormed == HistoryTyped /\ MemoryIsLast

-----------------------------------------------------------------------------
\* The addresses of an access, and its versions.
LEMMA BytesAreVersions ==
  ASSUME TypeOK, NEW v \in Views
  PROVE  /\ \A s \in StoreIds : \A a \in DOMAIN stores[v][s].bytes :
              a \in Addr /\ stores[v][s].bytes[a] \in Nat
         /\ \A l \in LoadIds : DOMAIN loads[v][l].bytes \subseteq Addr
<1>1. \A b \in Data : \A a \in DOMAIN b : a \in Addr /\ b[a] \in Nat
  <2> SUFFICES ASSUME NEW b \in Data, NEW a \in DOMAIN b
               PROVE  a \in Addr /\ b[a] \in Nat
    OBVIOUS
  <2>1. PICK fp : b \in [fp -> Byte] /\ (fp \in Footprints \/ fp = {})
    BY DEF Data
  <2> QED BY <2>1, DataAssumption, VersionAssumption
<1>2. /\ \A s \in StoreIds : stores[v][s].bytes \in Data
      /\ \A l \in LoadIds : loads[v][l].bytes \in Data
  BY DEF TypeOK, Store, Load
<1> QED BY <1>1, <1>2

LEMMA CoherentIsSound == QueuesWellFormed /\ HistoryWellFormed /\ Coherent => ReadsOwnWrites
<1> SUFFICES ASSUME QueuesWellFormed, HistoryWellFormed, Coherent, Running, NEW v \in Views,
                    NEW l \in LoadIds, loads[v][l].valid,
                    NEW a \in DOMAIN loads[v][l].bytes, own[v][a] # Null
             PROVE  loads[v][l].bytes[a] \in From(a, own[v][a]) \cup Buffered(v, a, own[v][a])
  BY DEF ReadsOwnWrites
<1> PICK w : w = own[v][a]
  OBVIOUS
<1> PICK x : x = loads[v][l].bytes[a]
  OBVIOUS
<1>1. PICK q \in StoreSeqs : /\ IsStoreList(v, q) /\ LoadsNotOlder(v, q)
  BY DEF Coherent, ViewIsCoherent
<1>2. NotOlder(v, q, a, w, x)
  BY <1>1 DEF LoadsNotOlder
<1>3. CASE Follows(a, w, x)
  <2>1. PICK k, j \in 1 .. Len(order[a]) : k <= j /\ order[a][k] = w /\ order[a][j] = x
    BY <1>3 DEF Follows
  <2>2. k \in 1 .. j
    <3>1. a \in Addr
      BY BytesAreVersions DEF QueuesWellFormed
    <3>2. Len(order[a]) \in Nat
      BY <3>1 DEF HistoryWellFormed, HistoryTyped
    <3> QED BY <2>1, <3>2
  <2> QED BY <2>1, <2>2 DEF From
<1>4. ASSUME NEW i \in 1 .. Len(q), Holds(v, q, i, a), VersionAt(v, q, i, a) = x, w <= x
      PROVE  x \in Buffered(v, a, w)
  <2>1. a \in Addr /\ w \in Nat /\ x \in Nat
    <3>1. a \in Addr /\ q[i] \in StoreIds
      BY <1>1, BytesAreVersions, StoreListFacts DEF QueuesWellFormed
    <3>2. x \in Nat
      BY <1>4, <3>1, BytesAreVersions DEF QueuesWellFormed, Holds, VersionAt
    <3> QED BY <3>1, <3>2, VersionAssumption DEF HistoryWellFormed, HistoryTyped
  <2>2. q[i] \in StoreIds /\ stores[v][q[i]].valid
    BY <1>1, StoreListFacts DEF IsStoreList
  <2>3. x >= w
    BY <1>4, <2>1
  <2> QED BY <1>4, <2>2, <2>3 DEF Buffered, Holds, VersionAt
<1> QED BY <1>2, <1>3, <1>4 DEF NotOlder

-----------------------------------------------------------------------------
(***************************************************************************)
(* Steps.                                                                  *)
(***************************************************************************)

\* Memory forgets no version it took.
OrderGrows ==
  \A a \in Addr : /\ Len(order[a]) <= Len(order'[a])
                  /\ \A k \in 1 .. Len(order[a]) : order'[a][k] = order[a][k]

LEMMA OrderIsKept ==
  ASSUME HistoryTyped, HistoryTyped', OrderGrows, NEW a \in Addr, NEW w
  PROVE  /\ InOrder(a, w) => InOrder(a, w)'
         /\ \A x : Follows(a, w, x) => Follows(a, w, x)'
<1>1. Len(order[a]) \in Nat /\ Len(order'[a]) \in Nat
  BY DEF HistoryTyped
<1>2. \A k \in 1 .. Len(order[a]) : k \in 1 .. Len(order'[a]) /\ order'[a][k] = order[a][k]
  BY <1>1 DEF OrderGrows
<1> QED BY <1>2 DEF InOrder, Follows

\* Steps that change no store of u and no byte of a load of u that stays valid.
LEMMA ViewStaysCoherent ==
  ASSUME QueuesWellFormed, HistoryTyped, HistoryTyped', OrderGrows, version <= version',
         NEW u \in Views, ViewIsCoherent(u), own'[u] = own[u],
         stores'[u] = stores[u], storeHead'[u] = storeHead[u], storeLast'[u] = storeLast[u],
         \A l \in LoadIds : loads'[u][l].valid =>
           loads[u][l].valid /\ loads'[u][l].bytes = loads[u][l].bytes
  PROVE  ViewIsCoherent(u)'
<1>1. PICK q \in StoreSeqs :
        IsStoreList(u, q) /\ VersionsAscend(u, q) /\ OwnIsKept(u, q) /\ LoadsNotOlder(u, q)
  BY DEF ViewIsCoherent
<1>2. IsStoreList(u, q)'
  BY <1>1 DEF IsStoreList, IsWalk
<1>3. /\ \A i, a : Holds(u, q, i, a)' <=> Holds(u, q, i, a)
      /\ \A i, a : VersionAt(u, q, i, a)' = VersionAt(u, q, i, a)
  BY DEF Holds, VersionAt
<1>4. /\ version \in Nat /\ version' \in Nat
      /\ \A i, a : Holds(u, q, i, a) => VersionAt(u, q, i, a) \in Nat
  BY StoreListFacts, BytesAreVersions
     DEF HistoryTyped, QueuesWellFormed, Holds, VersionAt
<1>5. VersionsAscend(u, q)'
  <2> SUFFICES ASSUME NEW a \in Addr, NEW i \in 1 .. Len(q), NEW j \in 1 .. Len(q),
                      Holds(u, q, i, a)
               PROVE  /\ VersionAt(u, q, i, a) <= version'
                      /\ (i < j /\ Holds(u, q, j, a))
                           => VersionAt(u, q, i, a) < VersionAt(u, q, j, a)
    BY <1>3 DEF VersionsAscend
  <2>1. /\ VersionAt(u, q, i, a) <= version
        /\ (i < j /\ Holds(u, q, j, a)) => VersionAt(u, q, i, a) < VersionAt(u, q, j, a)
    BY <1>1 DEF VersionsAscend
  <2> QED BY <1>4, <2>1
<1>6. OwnIsKept(u, q)'
  <2> SUFFICES ASSUME NEW a \in Addr, NEW w, w = own[u][a], w # Null
               PROVE  OwnStoreIsKept(u, q, a, w)'
    BY DEF OwnIsKept
  <2>1. OwnStoreIsKept(u, q, a, w)
    BY <1>1 DEF OwnIsKept
  <2>2. InOrder(a, w) => InOrder(a, w)'
    BY OrderIsKept
  <2>3. w \in 0 .. version'
    BY <1>4, <2>1 DEF OwnStoreIsKept
  <2> QED BY <1>3, <2>1, <2>2, <2>3 DEF OwnStoreIsKept
<1>7. LoadsNotOlder(u, q)'
  <2> SUFFICES ASSUME NEW l \in LoadIds, loads'[u][l].valid,
                      NEW a \in DOMAIN loads'[u][l].bytes,
                      NEW w, w = own[u][a], w # Null, NEW x, x = loads'[u][l].bytes[a]
               PROVE  NotOlder(u, q, a, w, x)'
    BY DEF LoadsNotOlder
  <2>1. a \in Addr
    BY BytesAreVersions DEF QueuesWellFormed
  <2>2. NotOlder(u, q, a, w, x)
    BY <1>1 DEF LoadsNotOlder
  <2>3. Follows(a, w, x) => Follows(a, w, x)'
    BY <2>1, OrderIsKept
  <2> QED BY <1>3, <2>2, <2>3 DEF NotOlder
<1> QED BY <1>2, <1>5, <1>6, <1>7 DEF ViewIsCoherent

\* loadExecute reads the newest version: the last one its own hart waits with, and
\* else the last one of memory.
LEMMA LoadExecuteIsCoherent ==
  ASSUME QueuesWellFormed, HistoryWellFormed, NEW v \in Views, NEW id \in LoadIds,
         NEW fp \in Footprints, LoadExecute(v, id, fp), UNCHANGED historyVars,
         ViewIsCoherent(v)
  PROVE  ViewIsCoherent(v)'
<1>1. PICK q \in StoreSeqs :
        IsStoreList(v, q) /\ VersionsAscend(v, q) /\ OwnIsKept(v, q) /\ LoadsNotOlder(v, q)
  BY DEF ViewIsCoherent
<1>2. StoreList(v) = q /\ Len(q) \in Nat
  BY <1>1, StoreListIs, StoreListFacts DEF IsStoreList
<1>3. /\ stores' = stores /\ storeHead' = storeHead /\ storeLast' = storeLast
      /\ version' = version /\ order' = order /\ own' = own
      /\ loads'[v][id].bytes = Observed(v, q, fp)
      /\ \A l \in LoadIds : l # id => loads'[v][l] = loads[v][l]
  BY <1>2 DEF LoadExecute, QueuesWellFormed, TypeOK, storeVars, historyVars
<1>4. IsStoreList(v, q)' /\ VersionsAscend(v, q)' /\ OwnIsKept(v, q)'
  <2>1. IsStoreList(v, q)'
    BY <1>1, <1>3 DEF IsStoreList, IsWalk
  <2>2. VersionsAscend(v, q)'
    BY <1>1, <1>3 DEF VersionsAscend, Holds, VersionAt
  <2>3. OwnIsKept(v, q)'
    BY <1>1, <1>3 DEF OwnIsKept, OwnStoreIsKept, InOrder, Holds, VersionAt
  <2> QED BY <2>1, <2>2, <2>3
<1>5. ASSUME NEW a \in fp, NEW w, w = own[v][a], w # Null
      PROVE  NotOlder(v, q, a, w, Observed(v, q, fp)[a])
  <2> DEFINE hits == Covering(v, q, a)
             m == Newest(hits)
  <2>1. a \in Addr /\ OwnStoreIsKept(v, q, a, w) /\ w \in Nat
    <3>1. a \in Addr
      BY DataAssumption
    <3> QED BY <1>1, <1>5, <3>1 DEF OwnIsKept, OwnStoreIsKept, HistoryWellFormed, HistoryTyped
  <2>2. CASE hits = {}
    <3>1. Observed(v, q, fp)[a] = memory[a]
      BY <2>2 DEF Observed
    <3>2. \A i \in 1 .. Len(q) : ~Holds(v, q, i, a)
      BY <2>2 DEF Holds, Covering
    <3>3. PICK k \in 1 .. Len(order[a]) : order[a][k] = w
      BY <2>1, <3>2 DEF OwnStoreIsKept, InOrder
    <3>4. /\ Len(order[a]) \in 1 .. Len(order[a]) /\ k <= Len(order[a])
          /\ order[a][Len(order[a])] = memory[a]
      BY <2>1 DEF HistoryWellFormed, HistoryTyped, MemoryIsLast
    <3> QED BY <3>1, <3>3, <3>4 DEF NotOlder, Follows
  <2>3. CASE hits # {}
    <3>1. hits \subseteq 1 .. Len(q)
      BY DEF Covering
    <3>2. m \in hits /\ \A i \in hits : i <= m
      <4> HIDE DEF hits
      <4> QED BY <1>2, <2>3, <3>1, NewestIsMember
    <3>3. Observed(v, q, fp)[a] = VersionAt(v, q, m, a)
      BY <2>3 DEF Observed, VersionAt
    <3>4. Holds(v, q, m, a) /\ m \in 1 .. Len(q)
      BY <3>2 DEF Covering, Holds
    <3>5. \A i \in 1 .. Len(q) : Holds(v, q, i, a) => i <= m
      BY <3>2 DEF Covering, Holds
    <3> HIDE DEF m, hits
    <3>6. \A i \in 1 .. Len(q) : Holds(v, q, i, a) => VersionAt(v, q, i, a) \in Nat
      BY <1>1, StoreListFacts, BytesAreVersions DEF Holds, VersionAt, QueuesWellFormed
    <3>7. w <= VersionAt(v, q, m, a)
      <4>1. CASE \A i \in 1 .. Len(q) : Holds(v, q, i, a) => w <= VersionAt(v, q, i, a)
        BY <3>4, <4>1
      <4>2. ASSUME NEW i \in 1 .. Len(q), Holds(v, q, i, a), VersionAt(v, q, i, a) = w
            PROVE  w <= VersionAt(v, q, m, a)
        <5>1. i = m \/ i < m
          BY <1>2, <3>4, <3>5, <4>2
        <5>2. i < m => w < VersionAt(v, q, m, a)
          BY <1>1, <2>1, <3>4, <4>2 DEF VersionsAscend
        <5> QED BY <2>1, <3>4, <3>6, <4>2, <5>1, <5>2
      <4> QED BY <2>1, <4>1, <4>2 DEF OwnStoreIsKept
    <3> QED BY <3>3, <3>4, <3>7 DEF NotOlder
  <2> QED BY <2>2, <2>3
<1>6. LoadsNotOlder(v, q)'
  <2> SUFFICES ASSUME NEW l \in LoadIds, loads'[v][l].valid,
                      NEW a \in DOMAIN loads'[v][l].bytes,
                      NEW w, w = own[v][a], w # Null, NEW x, x = loads'[v][l].bytes[a]
               PROVE  NotOlder(v, q, a, w, x)'
    BY <1>3 DEF LoadsNotOlder
  <2>1. NotOlder(v, q, a, w, x)
    <3>1. CASE l = id
      <4>1. a \in fp
        BY <1>3, <3>1 DEF Observed
      <4> QED BY <1>3, <1>5, <3>1, <4>1
    <3>2. CASE l # id
      BY <1>1, <1>3, <3>2 DEF LoadsNotOlder
    <3> QED BY <3>1, <3>2
  <2> QED BY <1>3, <2>1 DEF NotOlder, Follows, Holds, VersionAt
<1> QED BY <1>4, <1>6 DEF ViewIsCoherent

\* A new store is younger than every version so far.
LEMMA StoreCommitIsCoherent ==
  ASSUME QueuesWellFormed, HistoryWellFormed, NEW v \in Views, NEW id \in StoreIds,
         ~stores[v][id].valid, NEW bytes, StoreCommit(v, id, bytes),
         \A a \in DOMAIN bytes : bytes[a] = version + 1,
         version' = version + 1, UNCHANGED <<order, own>>, ViewIsCoherent(v)
  PROVE  ViewIsCoherent(v)'
<1>1. PICK q \in StoreSeqs :
        IsStoreList(v, q) /\ VersionsAscend(v, q) /\ OwnIsKept(v, q) /\ LoadsNotOlder(v, q)
  BY DEF ViewIsCoherent
<1> DEFINE n == Len(q)
<1>2. /\ n \in Nat /\ q \in [1 .. n -> StoreIds] /\ version \in Nat
      /\ \A i \in 1 .. n : stores[v][q[i]].valid /\ q[i] # id
  <2>1. n \in Nat /\ q \in [1 .. n -> StoreIds]
    BY StoreListFacts
  <2>2. \A i \in 1 .. n : q[i] \in StoreIds
    BY <2>1
  <2>3. \A s \in StoreIds : stores[v][s].valid <=> \E i \in 1 .. n : q[i] = s
    BY <1>1 DEF IsStoreList
  <2> HIDE DEF n
  <2> QED BY <2>1, <2>2, <2>3 DEF HistoryWellFormed, HistoryTyped
<1>3. PICK r \in StoreSeqs : IsStoreList(v, r)' /\ Extends(r, q, id)
  BY <1>1, StoreCommitList DEF QueuesWellFormed
<1>4. \A s \in StoreIds : stores'[v][s].bytes = IF s = id THEN bytes ELSE stores[v][s].bytes
  BY <1>1, StoreCommitList DEF QueuesWellFormed
<1>5. Len(r) = n + 1 /\ r[n + 1] = id /\ \A i \in 1 .. n : r[i] = q[i]
  BY <1>2, <1>3 DEF Extends
<1> HIDE DEF n
<1>6. \A i \in 1 .. n : \A a :
        /\ Holds(v, r, i, a)' <=> Holds(v, q, i, a)
        /\ VersionAt(v, r, i, a)' = VersionAt(v, q, i, a)
  <2> SUFFICES ASSUME NEW i \in 1 .. n, NEW a
               PROVE  /\ Holds(v, r, i, a)' <=> Holds(v, q, i, a)
                      /\ VersionAt(v, r, i, a)' = VersionAt(v, q, i, a)
    OBVIOUS
  <2>1. stores'[v][r[i]].bytes = stores[v][q[i]].bytes /\ i \in 1 .. Len(r)
    BY <1>2, <1>4, <1>5
  <2> QED BY <2>1 DEF Holds, VersionAt, n
<1>7. \A a : Holds(v, r, n + 1, a)' => VersionAt(v, r, n + 1, a)' = version + 1
  <2>1. stores'[v][r[n + 1]].bytes = bytes
    BY <1>4, <1>5
  <2> QED BY <2>1 DEF Holds, VersionAt
<1>8. \A i \in 1 .. Len(r) : i \in 1 .. n \/ i = n + 1
  BY <1>2, <1>5
<1>9. \A i \in 1 .. n : \A a : Holds(v, q, i, a) =>
        VersionAt(v, q, i, a) \in Nat /\ a \in Addr /\ VersionAt(v, q, i, a) <= version
  <2>1. \A i \in 1 .. n : \A a : Holds(v, q, i, a) => VersionAt(v, q, i, a) \in Nat /\ a \in Addr
    BY <1>2, BytesAreVersions DEF Holds, VersionAt, QueuesWellFormed
  <2> QED BY <1>1, <2>1 DEF VersionsAscend, n
<1>10. VersionsAscend(v, r)'
  <2> SUFFICES ASSUME NEW a \in Addr, NEW i \in 1 .. Len(r), NEW j \in 1 .. Len(r),
                      Holds(v, r, i, a)'
               PROVE  /\ VersionAt(v, r, i, a)' <= version + 1
                      /\ (i < j /\ Holds(v, r, j, a)')
                           => VersionAt(v, r, i, a)' < VersionAt(v, r, j, a)'
    BY DEF VersionsAscend
  <2>1. CASE i = n + 1
    BY <1>2, <1>5, <1>7, <2>1
  <2>2. CASE i \in 1 .. n
    <3>1. Holds(v, q, i, a) /\ VersionAt(v, r, i, a)' = VersionAt(v, q, i, a)
      BY <1>6, <2>2
    <3>2. VersionAt(v, q, i, a) \in Nat /\ VersionAt(v, q, i, a) <= version
      BY <1>9, <2>2, <3>1
    <3>3. CASE j = n + 1
      BY <1>2, <1>7, <3>1, <3>2, <3>3
    <3>4. CASE j \in 1 .. n
      BY <1>1, <1>2, <1>6, <2>2, <3>1, <3>2, <3>4 DEF VersionsAscend, n
    <3> QED BY <1>8, <3>3, <3>4
  <2> QED BY <1>8, <2>1, <2>2
<1>11. OwnIsKept(v, r)'
  <2> SUFFICES ASSUME NEW a \in Addr, NEW w, w = own[v][a], w # Null
               PROVE  OwnStoreIsKept(v, r, a, w)'
    BY DEF OwnIsKept
  <2>1. OwnStoreIsKept(v, q, a, w)
    BY <1>1 DEF OwnIsKept
  <2>2. w \in Nat /\ w <= version /\ w \in 0 .. (version + 1)
    BY <1>2, <2>1 DEF OwnStoreIsKept
  <2>3. CASE \E i \in 1 .. n : Holds(v, q, i, a) /\ VersionAt(v, q, i, a) = w
    <3>1. PICK i \in 1 .. n : Holds(v, q, i, a) /\ VersionAt(v, q, i, a) = w
      BY <2>3
    <3>2. i \in 1 .. Len(r) /\ Holds(v, r, i, a)' /\ VersionAt(v, r, i, a)' = w
      BY <1>2, <1>5, <1>6, <3>1
    <3> QED BY <2>2, <3>2 DEF OwnStoreIsKept
  <2>4. CASE /\ InOrder(a, w)
             /\ \A i \in 1 .. n : Holds(v, q, i, a) => w <= VersionAt(v, q, i, a)
    <3>1. InOrder(a, w)'
      BY <2>4 DEF InOrder
    <3>2. \A i \in 1 .. Len(r) : Holds(v, r, i, a)' => w <= VersionAt(v, r, i, a)'
      BY <1>2, <1>6, <1>7, <1>8, <2>2, <2>4
    <3> QED BY <2>2, <3>1, <3>2 DEF OwnStoreIsKept
  <2> QED BY <2>1, <2>3, <2>4 DEF OwnStoreIsKept, n
<1>12. LoadsNotOlder(v, r)'
  <2>1. loads' = loads
    BY DEF StoreCommit, loadVars
  <2> SUFFICES ASSUME NEW l \in LoadIds, loads[v][l].valid,
                      NEW a \in DOMAIN loads[v][l].bytes,
                      NEW w, w = own[v][a], w # Null, NEW x, x = loads[v][l].bytes[a]
               PROVE  NotOlder(v, r, a, w, x)'
    BY <2>1 DEF LoadsNotOlder
  <2>2. NotOlder(v, q, a, w, x)
    BY <1>1 DEF LoadsNotOlder
  <2>3. CASE Follows(a, w, x)
    BY <2>3 DEF Follows, NotOlder
  <2>4. ASSUME NEW i \in 1 .. n, Holds(v, q, i, a), VersionAt(v, q, i, a) = x, w <= x
        PROVE  NotOlder(v, r, a, w, x)'
    <3>1. i \in 1 .. Len(r) /\ Holds(v, r, i, a)' /\ VersionAt(v, r, i, a)' = x
      BY <1>2, <1>5, <1>6, <2>4
    <3> QED BY <2>4, <3>1 DEF NotOlder
  <2> QED BY <2>2, <2>3, <2>4 DEF NotOlder, n
<1> QED BY <1>3, <1>10, <1>11, <1>12 DEF ViewIsCoherent

\* The oldest store of a byte leaves, and is the last version memory takes: what a
\* load holds of it is no older than what the hart retired last, in memory's order.
LEMMA StoreBroadcastIsCoherent ==
  ASSUME QueuesWellFormed, HistoryWellFormed, HistoryTyped', NEW v \in Views,
         NEW id \in Leaving(v), StoreBroadcast(v, id), UNCHANGED <<version, own>>,
         \A a \in Addr : order'[a] = IF a \in DOMAIN stores[v][id].bytes
           THEN Append(order[a], stores[v][id].bytes[a]) ELSE order[a],
         ViewIsCoherent(v)
  PROVE  ViewIsCoherent(v)'
<1>1. PICK q \in StoreSeqs :
        IsStoreList(v, q) /\ VersionsAscend(v, q) /\ OwnIsKept(v, q) /\ LoadsNotOlder(v, q)
  BY DEF ViewIsCoherent
<1> DEFINE n == Len(q)
<1>2. n \in Nat /\ q \in [1 .. n -> StoreIds] /\ id \in StoreIds
  BY StoreListFacts DEF Leaving
<1>3. PICK r \in StoreSeqs, k \in 1 .. n :
        q[k] = id /\ IsStoreList(v, r)' /\ Without(r, q, k)
  BY <1>1, <1>2, StoreBroadcastList DEF QueuesWellFormed
<1>4. \A s \in StoreIds : stores'[v][s].bytes = stores[v][s].bytes
  BY <1>1, <1>2, StoreBroadcastList DEF QueuesWellFormed
<1>5. loads' = loads /\ version' = version /\ own' = own /\ version \in Nat
  BY DEF StoreBroadcast, loadVars, HistoryWellFormed, HistoryTyped
<1>6. \A i \in 1 .. n : \A a : Holds(v, q, i, a) =>
        VersionAt(v, q, i, a) \in Nat /\ a \in Addr
  BY <1>2, BytesAreVersions DEF Holds, VersionAt, QueuesWellFormed
<1>7. \A i \in 1 .. n : \A a : (Holds(v, q, i, a) /\ Holds(v, q, k, a)) => k <= i
  <2>1. StoreList(v) = q
    BY <1>1, StoreListIs DEF IsStoreList
  <2>2. \A i \in 1 .. (k - 1) :
          DOMAIN stores[v][q[i]].bytes \cap DOMAIN stores[v][id].bytes = {}
    BY <1>3, <2>1 DEF Leaving
  <2> QED BY <1>2, <1>3, <2>2 DEF Holds
<1> DEFINE old(i) == IF i < k THEN i ELSE i + 1
<1>8. \A i \in 1 .. Len(r) : old(i) \in 1 .. n /\ old(i) # k /\ r[i] = q[old(i)]
  BY <1>2, <1>3 DEF Without
<1>9. \A i \in 1 .. n : i # k => \E h \in 1 .. Len(r) : old(h) = i
  <2> SUFFICES ASSUME NEW i \in 1 .. n, i # k
               PROVE  \E h \in 1 .. Len(r) : old(h) = i
    OBVIOUS
  <2>1. CASE i < k
    <3>1. i \in 1 .. Len(r)
      BY <1>2, <1>3, <2>1 DEF Without
    <3> QED BY <2>1, <3>1
  <2>2. CASE i > k
    <3>1. i - 1 \in 1 .. Len(r) /\ ~(i - 1 < k) /\ (i - 1) + 1 = i
      BY <1>2, <1>3, <2>2 DEF Without
    <3> QED BY <3>1
  <2> QED BY <1>2, <1>3, <2>1, <2>2
<1>10. \A i, j \in 1 .. Len(r) : i < j => old(i) < old(j)
  BY <1>2, <1>3 DEF Without
<1> HIDE DEF old, n
<1>11. \A i \in 1 .. Len(r) : \A a :
         /\ Holds(v, r, i, a)' <=> Holds(v, q, old(i), a)
         /\ VersionAt(v, r, i, a)' = VersionAt(v, q, old(i), a)
  <2> SUFFICES ASSUME NEW i \in 1 .. Len(r), NEW a
               PROVE  /\ Holds(v, r, i, a)' <=> Holds(v, q, old(i), a)
                      /\ VersionAt(v, r, i, a)' = VersionAt(v, q, old(i), a)
    OBVIOUS
  <2>1. old(i) \in 1 .. n /\ stores'[v][r[i]].bytes = stores[v][q[old(i)]].bytes
    BY <1>2, <1>4, <1>8
  <2> QED BY <2>1 DEF Holds, VersionAt, n
<1>12. OrderGrows
  <2> SUFFICES ASSUME NEW a \in Addr
               PROVE  /\ Len(order[a]) <= Len(order'[a])
                      /\ \A i \in 1 .. Len(order[a]) : order'[a][i] = order[a][i]
    BY DEF OrderGrows
  <2>1. order[a] \in Seq(Byte) /\ order'[a] \in Seq(Byte)
    BY DEF HistoryWellFormed, HistoryTyped
  <2>2. order'[a] = order[a] \/ \E x : order'[a] = Append(order[a], x)
    OBVIOUS
  <2> QED BY <2>1, <2>2
\* Memory has taken the versions of the store last.
<1>13. ASSUME NEW a \in Addr, Holds(v, q, k, a), NEW x, x = VersionAt(v, q, k, a), NEW w
       PROVE  /\ InOrder(a, x)'
              /\ (w = x \/ InOrder(a, w)) => Follows(a, w, x)'
  <2> DEFINE m == Len(order[a])
  <2>1. m \in Nat /\ order[a] \in Seq(Byte)
    BY DEF HistoryWellFormed, HistoryTyped
  <2>2. order'[a] = Append(order[a], x)
    BY <1>3, <1>13 DEF Holds, VersionAt
  <2>3. /\ Len(order'[a]) = m + 1 /\ order'[a][m + 1] = x
        /\ \A i \in 1 .. m : order'[a][i] = order[a][i]
    BY <2>1, <2>2
  <2>4. m \in Nat
    BY <2>1
  <2> HIDE DEF m
  <2>5. m + 1 \in 1 .. Len(order'[a]) /\ \A i \in 1 .. m : i \in 1 .. Len(order'[a]) /\ i <= m + 1
    BY <2>3, <2>4
  <2>6. InOrder(a, x)' /\ Follows(a, x, x)'
    BY <2>3, <2>4, <2>5 DEF InOrder, Follows
  <2>7. ASSUME InOrder(a, w)
        PROVE  Follows(a, w, x)'
    <3>1. PICK i \in 1 .. m : order[a][i] = w
      BY <2>7 DEF InOrder, m
    <3>2. i \in 1 .. Len(order'[a]) /\ i <= m + 1 /\ order'[a][i] = w
      BY <2>3, <2>5, <3>1
    <3> QED BY <2>3, <2>5, <3>2 DEF Follows
  <2> QED BY <2>6, <2>7
<1>14. VersionsAscend(v, r)'
  <2> SUFFICES ASSUME NEW a \in Addr, NEW i \in 1 .. Len(r), NEW j \in 1 .. Len(r),
                      Holds(v, r, i, a)'
               PROVE  /\ VersionAt(v, r, i, a)' <= version
                      /\ (i < j /\ Holds(v, r, j, a)')
                           => VersionAt(v, r, i, a)' < VersionAt(v, r, j, a)'
    BY <1>5 DEF VersionsAscend
  <2>1. old(i) \in 1 .. n /\ old(j) \in 1 .. n /\ (i < j => old(i) < old(j))
    BY <1>8, <1>10
  <2> QED BY <1>1, <1>11, <2>1 DEF VersionsAscend, n
<1>15. OwnIsKept(v, r)'
  <2> SUFFICES ASSUME NEW a \in Addr, NEW w, w = own[v][a], w # Null
               PROVE  OwnStoreIsKept(v, r, a, w)'
    BY <1>5 DEF OwnIsKept
  <2>1. OwnStoreIsKept(v, q, a, w)
    BY <1>1 DEF OwnIsKept
  <2>2. w \in 0 .. version'
    BY <1>5, <2>1 DEF OwnStoreIsKept
  <2>3. ASSUME NEW i \in 1 .. n, i # k, Holds(v, q, i, a), VersionAt(v, q, i, a) = w
        PROVE  OwnStoreIsKept(v, r, a, w)'
    <3>1. PICK h \in 1 .. Len(r) : old(h) = i
      BY <1>9, <2>3
    <3>2. Holds(v, r, h, a)' /\ VersionAt(v, r, h, a)' = w
      BY <1>11, <2>3, <3>1
    <3> QED BY <2>2, <3>2 DEF OwnStoreIsKept
  <2>4. ASSUME Holds(v, q, k, a), VersionAt(v, q, k, a) = w
        PROVE  OwnStoreIsKept(v, r, a, w)'
    <3>1. InOrder(a, w)'
      BY <1>13, <2>4
    <3>2. \A i \in 1 .. Len(r) : Holds(v, r, i, a)' => w <= VersionAt(v, r, i, a)'
      <4> SUFFICES ASSUME NEW i \in 1 .. Len(r), Holds(v, r, i, a)'
                   PROVE  w <= VersionAt(v, r, i, a)'
        OBVIOUS
      <4>1. old(i) \in 1 .. n /\ old(i) # k /\ Holds(v, q, old(i), a)
        BY <1>8, <1>11
      <4>2. k < old(i)
        BY <1>2, <1>3, <1>7, <2>4, <4>1
      <4>3. w < VersionAt(v, q, old(i), a)
        BY <1>1, <2>4, <4>1, <4>2 DEF VersionsAscend, n
      <4> QED BY <1>6, <1>11, <2>4, <4>1, <4>3
    <3> QED BY <2>2, <3>1, <3>2 DEF OwnStoreIsKept
  <2>5. ASSUME InOrder(a, w),
               \A i \in 1 .. n : Holds(v, q, i, a) => w <= VersionAt(v, q, i, a)
        PROVE  OwnStoreIsKept(v, r, a, w)'
    <3>1. InOrder(a, w)'
      BY <1>12, <2>5, OrderIsKept DEF HistoryWellFormed
    <3>2. \A i \in 1 .. Len(r) : Holds(v, r, i, a)' => w <= VersionAt(v, r, i, a)'
      BY <1>8, <1>11, <2>5
    <3> QED BY <2>2, <3>1, <3>2 DEF OwnStoreIsKept
  <2> QED BY <2>1, <2>3, <2>4, <2>5 DEF OwnStoreIsKept, n
<1>16. LoadsNotOlder(v, r)'
  <2> SUFFICES ASSUME NEW l \in LoadIds, loads[v][l].valid,
                      NEW a \in DOMAIN loads[v][l].bytes,
                      NEW w, w = own[v][a], w # Null, NEW x, x = loads[v][l].bytes[a]
               PROVE  NotOlder(v, r, a, w, x)'
    BY <1>5 DEF LoadsNotOlder
  <2>1. a \in Addr
    BY BytesAreVersions DEF QueuesWellFormed
  <2>2. NotOlder(v, q, a, w, x) /\ OwnStoreIsKept(v, q, a, w)
    BY <1>1, <2>1 DEF LoadsNotOlder, OwnIsKept
  <2>3. CASE Follows(a, w, x)
    BY <1>12, <2>1, <2>3, OrderIsKept DEF NotOlder, HistoryWellFormed
  <2>4. ASSUME NEW i \in 1 .. n, i # k, Holds(v, q, i, a), VersionAt(v, q, i, a) = x, w <= x
        PROVE  NotOlder(v, r, a, w, x)'
    <3>1. PICK h \in 1 .. Len(r) : old(h) = i
      BY <1>9, <2>4
    <3>2. Holds(v, r, h, a)' /\ VersionAt(v, r, h, a)' = x
      BY <1>11, <2>4, <3>1
    <3> QED BY <2>4, <3>2 DEF NotOlder
  <2>5. ASSUME Holds(v, q, k, a), VersionAt(v, q, k, a) = x, w <= x
        PROVE  NotOlder(v, r, a, w, x)'
    <3>1. w = x \/ InOrder(a, w)
      <4> SUFFICES ASSUME NEW j \in 1 .. n, Holds(v, q, j, a), VersionAt(v, q, j, a) = w
                   PROVE  w = x
        BY <2>2 DEF OwnStoreIsKept, n
      <4>1. k = j \/ k < j
        BY <1>2, <1>3, <1>7, <2>5
      <4>2. k < j => x < w
        BY <1>1, <2>1, <2>5 DEF VersionsAscend, n
      <4> QED BY <1>6, <2>5, <4>1, <4>2
    <3>2. Follows(a, w, x)'
      BY <1>13, <2>1, <2>5, <3>1
    <3> QED BY <3>2 DEF NotOlder
  <2> QED BY <2>2, <2>3, <2>4, <2>5 DEF NotOlder, n
<1> QED BY <1>3, <1>14, <1>15, <1>16 DEF ViewIsCoherent

\* What the hart retires is the youngest of its stores, and every load that stays
\* valid has it.
LEMMA SpikeStoreIsCoherent ==
  ASSUME QueuesWellFormed, HistoryWellFormed, NEW v \in Views, NEW bytes, NEW consumed,
         TakesStore(v, consumed, bytes), UNCHANGED <<version, order>>,
         \A a \in Addr :
           own'[v][a] = IF a \in DOMAIN bytes THEN bytes[a] ELSE own[v][a],
         ViewIsCoherent(v)
  PROVE  ViewIsCoherent(v)'
<1> UNCHANGED <<stores, storeHead, storeLast>>
  BY DEF TakesStore
<1>1. PICK q \in StoreSeqs :
        IsStoreList(v, q) /\ VersionsAscend(v, q) /\ OwnIsKept(v, q) /\ LoadsNotOlder(v, q)
  BY DEF ViewIsCoherent
<1> DEFINE n == Len(q)
<1>2. n \in Nat /\ q \in [1 .. n -> StoreIds]
  BY StoreListFacts
<1>3. IsStoreList(v, q)' /\ VersionsAscend(v, q)'
  <2>1. IsStoreList(v, q)'
    BY <1>1 DEF IsStoreList, IsWalk
  <2>2. VersionsAscend(v, q)'
    BY <1>1 DEF VersionsAscend, Holds, VersionAt
  <2> QED BY <2>1, <2>2
<1>4. n \in 1 .. n /\ stores[v][q[n]].bytes = bytes
  <2>1. /\ FreshStoreValid(v) /\ stores[v][storeFresh[v]].bytes = bytes
        /\ storeFresh[v] = storeLast[v]
    BY DEF TakesStore, StoreAgrees, QueuesWellFormed, StoreListWellFormed,
           StoreQueueWellFormed
  <2>2. storeLast[v] = IF n = 0 THEN Null ELSE q[n]
    BY <1>1 DEF IsStoreList
  <2> QED BY <1>2, <2>1, <2>2 DEF FreshStoreValid
<1> HIDE DEF n
<1>5. \A a \in DOMAIN bytes :
        Holds(v, q, n, a) /\ VersionAt(v, q, n, a) = bytes[a] /\ bytes[a] \in Nat
  <2>1. \A a \in DOMAIN bytes : Holds(v, q, n, a) /\ VersionAt(v, q, n, a) = bytes[a]
    BY <1>4 DEF Holds, VersionAt, n
  <2>2. \A a \in DOMAIN bytes : bytes[a] \in Nat
    BY <1>2, <1>4, BytesAreVersions DEF QueuesWellFormed
  <2> QED BY <2>1, <2>2
<1>6. /\ \A i, a : Holds(v, q, i, a)' <=> Holds(v, q, i, a)
      /\ \A i, a : VersionAt(v, q, i, a)' = VersionAt(v, q, i, a)
      /\ \A a, w : InOrder(a, w)' <=> InOrder(a, w)
      /\ \A a, w, x : Follows(a, w, x)' <=> Follows(a, w, x)
  BY DEF Holds, VersionAt, InOrder, Follows
<1>7. ASSUME NEW l \in LoadIds, loads'[v][l].valid
      PROVE  loads[v][l].valid /\ loads'[v][l].bytes = Overwrite(bytes, loads[v][l].bytes)
  BY <1>7, SpikeStoreBypasses
<1>8. OwnIsKept(v, q)'
  <2> SUFFICES ASSUME NEW a \in Addr, NEW w, w = own'[v][a], w # Null
               PROVE  OwnStoreIsKept(v, q, a, w)'
    BY DEF OwnIsKept
  <2>1. CASE a \in DOMAIN bytes
    <3>1. w = bytes[a]
      BY <2>1
    <3>2. w \in 0 .. version
      BY <1>1, <1>4, <1>5, <2>1, <3>1 DEF VersionsAscend, HistoryWellFormed, HistoryTyped, n
    <3> QED BY <1>4, <1>5, <1>6, <2>1, <3>1, <3>2 DEF OwnStoreIsKept, n
  <2>2. CASE a \notin DOMAIN bytes
    <3>1. OwnStoreIsKept(v, q, a, w)
      BY <1>1, <2>2 DEF OwnIsKept
    <3> QED BY <1>6, <3>1 DEF OwnStoreIsKept
  <2> QED BY <2>1, <2>2
<1>9. LoadsNotOlder(v, q)'
  <2> SUFFICES ASSUME NEW l \in LoadIds, loads'[v][l].valid,
                      NEW a \in DOMAIN loads'[v][l].bytes,
                      NEW w, w = own'[v][a], w # Null, NEW x, x = loads'[v][l].bytes[a]
               PROVE  NotOlder(v, q, a, w, x)'
    BY DEF LoadsNotOlder
  <2> DEFINE old == loads[v][l].bytes
  <2>1. loads[v][l].valid /\ loads'[v][l].bytes = Overwrite(bytes, old)
    BY <1>7
  <2>2. /\ a \in DOMAIN old
        /\ x = IF a \in DOMAIN bytes THEN bytes[a] ELSE old[a]
    <3>1. a \in DOMAIN Overwrite(bytes, old) /\ x = Overwrite(bytes, old)[a]
      BY <2>1
    <3> HIDE DEF old
    <3> QED BY <3>1 DEF Overwrite
  <2>3. a \in Addr
    BY <2>2, BytesAreVersions DEF QueuesWellFormed
  <2>4. CASE a \in DOMAIN bytes
    <3>1. w = x /\ Holds(v, q, n, a) /\ VersionAt(v, q, n, a) = x /\ x \in Nat
      BY <1>5, <2>2, <2>3, <2>4
    <3> QED BY <1>4, <1>6, <3>1 DEF NotOlder, n
  <2>5. CASE a \notin DOMAIN bytes
    <3>1. w = own[v][a] /\ x = old[a]
      BY <2>2, <2>3, <2>5
    <3>2. NotOlder(v, q, a, w, x)
      BY <1>1, <2>1, <2>2, <3>1 DEF LoadsNotOlder
    <3> QED BY <1>6, <3>2 DEF NotOlder
  <2> QED BY <2>4, <2>5
<1> QED BY <1>3, <1>8, <1>9 DEF ViewIsCoherent

-----------------------------------------------------------------------------
(***************************************************************************)
(* The invariant.                                                          *)
(***************************************************************************)

LEMMA HistoryStep ==
  ASSUME TypeOK, HistoryWellFormed, HNext
  PROVE  HistoryWellFormed' /\ OrderGrows /\ version <= version'
<1> USE DEF HistoryWellFormed, HistoryTyped, MemoryIsLast
<1>1. ASSUME UNCHANGED <<historyVars, memory>>
      PROVE  HistoryWellFormed' /\ OrderGrows /\ version <= version'
  <2>1. version' = version /\ order' = order /\ own' = own /\ memory' = memory
    BY <1>1 DEF historyVars
  <2> QED BY <2>1 DEF OrderGrows
<1>2. ASSUME NEW v \in Views, LoadQueueStep(v), UNCHANGED historyVars
      PROVE  HistoryWellFormed' /\ OrderGrows /\ version <= version'
  <2>1. memory' = memory
    BY <1>2 DEF LoadQueueStep, LoadExecute, LoadExecuteTooBig,
         LoadExecuteMeetsInvalid, LoadExecuteHangs, LoadCommit, LoadCommitInvalid,
         LoadCommitCrashes, LoadFlush
  <2> QED BY <1>1, <1>2, <2>1
<1>3. ASSUME NEW v \in Views, NEW id \in StoreIds, NEW fp, HStoreCommit(v, id, fp)
      PROVE  HistoryWellFormed' /\ OrderGrows /\ version <= version'
  <2>1. version' = version + 1 /\ order' = order /\ own' = own /\ memory' = memory
    BY <1>3 DEF HStoreCommit, StoreCommit, StoreCommitRejected
  <2> QED BY <2>1 DEF OrderGrows
<1>4. ASSUME NEW v \in Views, NEW id \in StoreIds, HStoreBroadcast(v, id)
      PROVE  HistoryWellFormed' /\ OrderGrows /\ version <= version'
  <2> DEFINE bytes == stores[v][id].bytes
  <2>1. /\ version' = version /\ own' = own /\ memory' = Overwrite(bytes, memory)
        /\ order' = [a \in Addr |-> IF a \in DOMAIN bytes
                       THEN Append(order[a], bytes[a]) ELSE order[a]]
    BY <1>4 DEF HStoreBroadcast, StoreBroadcast
  <2>2. \A a \in DOMAIN bytes : bytes[a] \in Byte
    <3>1. bytes \in Data
      BY DEF TypeOK, Store
    <3>2. PICK fp : bytes \in [fp -> Byte]
      BY <3>1 DEF Data
    <3> QED BY <3>2
  <2>3. memory \in [Addr -> Byte]
    BY DEF TypeOK
  <2> HIDE DEF bytes
  <2>4. ASSUME NEW a \in Addr
        PROVE  /\ order'[a] \in Seq(Byte) /\ Len(order[a]) <= Len(order'[a])
               /\ \A k \in 1 .. Len(order[a]) : order'[a][k] = order[a][k]
               /\ Len(order'[a]) > 0 /\ memory'[a] = order'[a][Len(order'[a])]
    <3>1. order[a] \in Seq(Byte) /\ Len(order[a]) > 0
          /\ memory[a] = order[a][Len(order[a])]
      OBVIOUS
    <3>2. memory'[a] = IF a \in DOMAIN bytes THEN bytes[a] ELSE memory[a]
      BY <2>1, <2>3 DEF Overwrite
    <3>3. CASE a \in DOMAIN bytes
      <4>1. order'[a] = Append(order[a], bytes[a]) /\ bytes[a] \in Byte
        BY <2>1, <2>2, <3>3
      <4> QED BY <3>1, <3>2, <3>3, <4>1
    <3>4. CASE a \notin DOMAIN bytes
      BY <2>1, <3>1, <3>2, <3>4
    <3> QED BY <3>3, <3>4
  <2>5. order' \in [Addr -> Seq(Byte)]
    BY <2>1, <2>4
  <2> QED BY <2>1, <2>4, <2>5 DEF OrderGrows
<1>5. ASSUME NEW v \in Views, HSpikeStep(v)
      PROVE  HistoryWellFormed' /\ OrderGrows /\ version <= version'
  <2>1. version' = version /\ order' = order /\ memory' = memory
    BY <1>5 DEF HSpikeStep, SpikeStep, CommitLoad, CommitLoadRejected, CommitStore,
         CommitStoreRejected, CommitAmo, CommitAmoRejected, CommitOther,
         CommitOtherRejected, vars
  <2>2. PICK x : own' = [own EXCEPT ![v] = x] /\ x \in [Addr -> Byte \cup {Null}]
    <3> DEFINE bytes == stores[v][storeFresh[v]].bytes
               new   == [a \in Addr |-> IF a \in DOMAIN bytes THEN bytes[a] ELSE own[v][a]]
    <3>1. \/ storeFresh[v] # Null /\ own' = [own EXCEPT ![v] = new]
          \/ own' = [own EXCEPT ![v] = own[v]]
      BY <1>5 DEF HSpikeStep
    <3>2. ASSUME storeFresh[v] # Null
          PROVE  new \in [Addr -> Byte \cup {Null}]
      <4>1. bytes \in Data
        BY <3>2 DEF TypeOK, Store
      <4>2. PICK fp : bytes \in [fp -> Byte]
        BY <4>1 DEF Data
      <4> HIDE DEF bytes
      <4> QED BY <4>2
    <3> HIDE DEF new
    <3> QED BY <3>1, <3>2
  <2> QED BY <2>1, <2>2 DEF OrderGrows
<1>6. ASSUME NEW v \in Views, NEW id \in StoreIds, StoreBroadcastInvalid(v, id),
             UNCHANGED historyVars
      PROVE  HistoryWellFormed' /\ OrderGrows /\ version <= version'
  BY <1>1, <1>6 DEF StoreBroadcastInvalid
<1> QED BY <1>2, <1>3, <1>4, <1>5, <1>6 DEF HNext, FreeSlots, Leaving

LEMMA OtherViewsStayCoherent ==
  ASSUME QueuesWellFormed, HistoryTyped, HistoryTyped', OrderGrows, version <= version',
         NEW u \in Views, ViewIsCoherent(u), own'[u] = own[u], loads'[u] = loads[u],
         stores'[u] = stores[u], storeHead'[u] = storeHead[u], storeLast'[u] = storeLast[u]
  PROVE  ViewIsCoherent(u)'
BY ViewStaysCoherent

LEMMA LoadQueueStepIsCoherent ==
  ASSUME QueuesWellFormed, HistoryWellFormed, HistoryWellFormed', OrderGrows,
         version <= version', Coherent, Running', NEW v \in Views, LoadQueueStep(v),
         UNCHANGED historyVars
  PROVE  \A u \in Views : ViewIsCoherent(u)'
<1>1. Running /\ UNCHANGED storeVars /\ own' = own
  BY DEF LoadQueueStep, LoadExecute, LoadExecuteTooBig, LoadExecuteMeetsInvalid,
         LoadExecuteHangs, LoadCommit, LoadCommitInvalid, LoadCommitCrashes, LoadFlush,
         historyVars
<1>2. \A u \in Views : ViewIsCoherent(u)
  BY <1>1 DEF Coherent
<1>3. TypeOK
  BY DEF QueuesWellFormed
<1>4. \/ \E id \in LoadIds, fp \in Footprints : LoadExecute(v, id, fp)
      \/ /\ \A l \in LoadIds : loads'[v][l].valid =>
              loads[v][l].valid /\ loads'[v][l].bytes = loads[v][l].bytes
         /\ \A u \in Views : u # v => loads'[u] = loads[u]
  BY LoadQueueStepKeepsBytes DEF Running, QueuesWellFormed
<1>5. CASE \E id \in LoadIds, fp \in Footprints : LoadExecute(v, id, fp)
  <2>1. \A u \in Views : u # v => loads'[u] = loads[u]
    BY <1>3, <1>5 DEF LoadExecute, TypeOK
  <2>2. ViewIsCoherent(v)'
    BY <1>2, <1>5, LoadExecuteIsCoherent
  <2> QED BY <1>1, <1>2, <2>1, <2>2, OtherViewsStayCoherent
          DEF storeVars, HistoryWellFormed
<1>6. CASE /\ \A l \in LoadIds : loads'[v][l].valid =>
                loads[v][l].valid /\ loads'[v][l].bytes = loads[v][l].bytes
           /\ \A u \in Views : u # v => loads'[u] = loads[u]
  BY <1>1, <1>2, <1>6, OtherViewsStayCoherent, ViewStaysCoherent
     DEF storeVars, HistoryWellFormed
<1> QED BY <1>4, <1>5, <1>6

LEMMA StoreQueueStepIsCoherent ==
  ASSUME QueuesWellFormed, HistoryWellFormed, HistoryWellFormed', OrderGrows,
         version <= version', Coherent, Running', NEW v \in Views,
         \/ \E id \in FreeSlots(v), fp \in Footprints : HStoreCommit(v, id, fp)
         \/ \E id \in Leaving(v) : HStoreBroadcast(v, id)
  PROVE  \A u \in Views : ViewIsCoherent(u)'
<1>1. CASE \E id \in FreeSlots(v), fp \in Footprints : HStoreCommit(v, id, fp)
  <2>1. PICK id \in FreeSlots(v), fp \in Footprints : HStoreCommit(v, id, fp)
    BY <1>1
  <2> DEFINE bytes == [a \in fp |-> version + 1]
  <2>2. /\ StoreCommit(v, id, bytes)
        /\ version' = version + 1 /\ order' = order /\ own' = own
    BY <2>1 DEF HStoreCommit, StoreCommitRejected, Running
  <2>3. \A a \in DOMAIN bytes : bytes[a] = version + 1
    OBVIOUS
  <2> HIDE DEF bytes
  <2>4. Running /\ id \in StoreIds /\ ~stores[v][id].valid
    BY <2>2 DEF StoreCommit, FreeSlots
  <2>5. \A u \in Views : ViewIsCoherent(u)
    BY <2>4 DEF Coherent
  <2>6. ViewIsCoherent(v)'
    BY <2>2, <2>3, <2>4, <2>5, StoreCommitIsCoherent
  <2>7. \A u \in Views : u # v =>
          /\ loads'[u] = loads[u] /\ stores'[u] = stores[u]
          /\ storeHead'[u] = storeHead[u] /\ storeLast'[u] = storeLast[u]
    BY <2>2 DEF StoreCommit, loadVars, QueuesWellFormed, TypeOK
  <2> QED BY <2>2, <2>5, <2>6, <2>7, OtherViewsStayCoherent DEF HistoryWellFormed
<1>2. CASE \E id \in Leaving(v) : HStoreBroadcast(v, id)
  <2>1. PICK id \in Leaving(v) : HStoreBroadcast(v, id)
    BY <1>2
  <2>2. /\ StoreBroadcast(v, id) /\ version' = version /\ own' = own
        /\ \A a \in Addr : order'[a] = IF a \in DOMAIN stores[v][id].bytes
             THEN Append(order[a], stores[v][id].bytes[a]) ELSE order[a]
    BY <2>1 DEF HStoreBroadcast
  <2>3. Running
    BY <2>2 DEF StoreBroadcast
  <2>4. \A u \in Views : ViewIsCoherent(u)
    BY <2>3 DEF Coherent
  <2>5. ViewIsCoherent(v)'
    BY <2>2, <2>4, StoreBroadcastIsCoherent DEF HistoryWellFormed
  <2>6. \A u \in Views : u # v =>
          /\ loads'[u] = loads[u] /\ stores'[u] = stores[u]
          /\ storeHead'[u] = storeHead[u] /\ storeLast'[u] = storeLast[u]
    BY <2>2 DEF StoreBroadcast, loadVars, QueuesWellFormed, TypeOK
  <2> QED BY <2>2, <2>4, <2>5, <2>6, OtherViewsStayCoherent DEF HistoryWellFormed
<1> QED BY <1>1, <1>2

LEMMA SpikeStepIsCoherent ==
  ASSUME QueuesWellFormed, HistoryWellFormed, HistoryWellFormed', OrderGrows,
         version <= version', Coherent, Running', NEW v \in Views, HSpikeStep(v)
  PROVE  \A u \in Views : ViewIsCoherent(u)'
<1> DEFINE retires == storeFresh[v] # Null /\ storeFresh'[v] = Null
           taken   == stores[v][storeFresh[v]].bytes
<1>1. SpikeStep(v) /\ version' = version /\ order' = order
  BY DEF HSpikeStep
<1>2. /\ ~retires => own' = [own EXCEPT ![v] = own[v]]
      /\ retires => own' = [own EXCEPT ![v] =
           [a \in Addr |-> IF a \in DOMAIN taken THEN taken[a] ELSE own[v][a]]]
  BY DEF HSpikeStep
<1>3. /\ \A u \in Views : u # v => own'[u] = own[u]
      /\ ~retires => own'[v] = own[v]
      /\ retires => \A a \in Addr :
           own'[v][a] = IF a \in DOMAIN taken THEN taken[a] ELSE own[v][a]
  <2> HIDE DEF retires, taken
  <2> QED BY <1>2 DEF HistoryWellFormed, HistoryTyped
<1>4. \/ \E fp \in Footprints : CommitLoad(v, fp)
      \/ \E fp \in Footprints : \E bytes \in [fp -> Byte] :
           CommitStore(v, bytes) \/ CommitAmo(v, fp, bytes)
      \/ CommitOther(v)
  BY <1>1 DEF SpikeStep, CommitLoadRejected, CommitStoreRejected, CommitAmoRejected,
         CommitOtherRejected, Running
<1>5. Running /\ UNCHANGED <<stores, storeHead, storeLast>>
  BY <1>4 DEF CommitLoad, CommitStore, CommitAmo, CommitOther, vars, storeVars
<1>6. (\A u \in Views : ViewIsCoherent(u)) /\ TypeOK
  BY <1>5 DEF Coherent, QueuesWellFormed
<1>7. \A u \in Views : u # v => loads'[u] = loads[u]
  BY <1>4, <1>6 DEF CommitLoad, CommitStore, CommitAmo, CommitOther, vars, loadVars, TypeOK
<1>8. ASSUME storeFresh[v] = Null \/ storeFresh'[v] # Null,
             \A l \in LoadIds : loads'[v][l].valid =>
               loads[v][l].valid /\ loads'[v][l].bytes = loads[v][l].bytes
      PROVE  ViewIsCoherent(v)'
  BY <1>3, <1>5, <1>6, <1>8, ViewStaysCoherent DEF HistoryWellFormed
<1>9. ASSUME NEW bytes, NEW consumed, TakesStore(v, consumed, bytes), storeFresh'[v] = Null
      PROVE  ViewIsCoherent(v)'
  <2>1. retires /\ taken = bytes
    BY <1>9 DEF TakesStore, StoreAgrees, FreshStoreValid
  <2>2. \A a \in Addr : own'[v][a] = IF a \in DOMAIN bytes THEN bytes[a] ELSE own[v][a]
    BY <1>3, <2>1
  <2> HIDE DEF retires, taken
  <2> QED BY <1>1, <1>6, <1>9, <2>2, SpikeStoreIsCoherent
<1>10. ViewIsCoherent(v)'
  <2>1. ASSUME NEW fp \in Footprints, CommitLoad(v, fp)
        PROVE  ViewIsCoherent(v)'
    <3>1. /\ loads'[v] = LoadsAfter(v, loadFresh[v], NoBytes)
          /\ storeFresh[v] = Null
      BY <1>6, <2>1 DEF CommitLoad, StepClean, TypeOK
    <3>2. \A l \in LoadIds : loads[v][l].bytes \in Data
      BY <1>6 DEF TypeOK, Load
    <3>3. \A l \in LoadIds : loads'[v][l].valid =>
            loads[v][l].valid /\ loads'[v][l].bytes = loads[v][l].bytes
      BY <1>6, <3>1, <3>2, LoadsAfterOf, OverwriteByNothing
    <3> QED BY <1>8, <3>1, <3>3
  <2>2. ASSUME NEW bytes, CommitStore(v, bytes)
        PROVE  ViewIsCoherent(v)'
    <3>1. TakesStore(v, Null, bytes) /\ storeFresh'[v] = Null
      BY <1>5, <1>6, <2>2 DEF CommitStore, StepClean, TakesStore, TypeOK
    <3> QED BY <1>9, <3>1
  <2>3. ASSUME NEW fp, NEW bytes, CommitAmo(v, fp, bytes)
        PROVE  ViewIsCoherent(v)'
    <3>1. TakesStore(v, loadFresh[v], bytes) /\ storeFresh'[v] = Null
      BY <1>5, <1>6, <2>3 DEF CommitAmo, TakesStore, TypeOK
    <3> QED BY <1>9, <3>1
  <2>4. CASE CommitOther(v)
    <3>1. storeFresh[v] = Null /\ loads' = loads
      BY <2>4 DEF CommitOther, StepClean, vars, loadVars
    <3> QED BY <1>8, <3>1
  <2> QED BY <1>4, <2>1, <2>2, <2>3, <2>4
<1> QED BY <1>3, <1>5, <1>6, <1>7, <1>10, OtherViewsStayCoherent DEF HistoryWellFormed

\* In the beginning nothing has been stored and memory holds the first version.
LEMMA InitIsCoherent == HInit => HistoryWellFormed /\ Coherent
<1> SUFFICES ASSUME HInit PROVE HistoryWellFormed /\ Coherent
  OBVIOUS
<1>1. Init /\ Running /\ 0 \in Byte
  BY VersionAssumption DEF HInit, Init, Running
<1>2. /\ memory = [a \in Addr |-> 0] /\ version = 0
      /\ order = [a \in Addr |-> <<0>>] /\ own = [v \in Views |-> [a \in Addr |-> Null]]
  BY DEF HInit
<1>3. HistoryWellFormed
  <2>1. \A a \in Addr : order[a] \in Seq(Byte) /\ Len(order[a]) = 1 /\ order[a][1] = 0
    BY <1>1, <1>2
  <2> HIDE DEF HInit
  <2> QED BY <1>2, <2>1 DEF HistoryWellFormed, HistoryTyped, MemoryIsLast
<1>4. ASSUME NEW v \in Views
      PROVE  ViewIsCoherent(v)
  <2>1. PICK q \in StoreSeqs : IsStoreList(v, q)
    BY <1>1, InitStoreList DEF StoreListWellFormed, StoreQueueWellFormed
  <2>2. \A s \in StoreIds : ~stores[v][s].valid
    BY <1>1 DEF Init
  <2>3. Len(q) \in Nat /\ \A i \in 1 .. Len(q) : stores[v][q[i]].valid /\ q[i] \in StoreIds
    <3>1. Len(q) \in Nat /\ q \in [1 .. Len(q) -> StoreIds]
      BY StoreListFacts
    <3>2. \A i \in 1 .. Len(q) : q[i] \in StoreIds
      BY <3>1
    <3> QED BY <2>1, <3>1, <3>2 DEF IsStoreList
  <2>4. \A i \in 1 .. Len(q) : FALSE
    BY <2>2, <2>3
  <2>5. \A l \in LoadIds : ~loads[v][l].valid
    BY <1>1 DEF Init
  <2>6. \A a \in Addr : own[v][a] = Null
    BY <1>2
  <2> QED BY <2>1, <2>4, <2>5, <2>6
          DEF ViewIsCoherent, VersionsAscend, OwnIsKept, LoadsNotOlder
<1> QED BY <1>1, <1>3, <1>4 DEF Coherent

LEMMA NextKeepsCoherent ==
  ASSUME QueuesWellFormed, HistoryWellFormed, Coherent, HNext
  PROVE  HistoryWellFormed' /\ Coherent'
<1>1. HistoryWellFormed' /\ OrderGrows /\ version <= version'
  BY HistoryStep DEF QueuesWellFormed
<1>2. ASSUME Running'
      PROVE  \A u \in Views : ViewIsCoherent(u)'
  <2>1. PICK v \in Views :
          \/ LoadQueueStep(v) /\ UNCHANGED historyVars
          \/ \E id \in FreeSlots(v), fp \in Footprints : HStoreCommit(v, id, fp)
          \/ \E id \in Leaving(v) : HStoreBroadcast(v, id)
          \/ \E id \in Leaving(v) : StoreBroadcastInvalid(v, id)
          \/ HSpikeStep(v)
    BY DEF HNext
  <2>2. \A id : ~StoreBroadcastInvalid(v, id)
    BY <1>2 DEF StoreBroadcastInvalid, Running
  <2> QED BY <1>1, <1>2, <2>1, <2>2, LoadQueueStepIsCoherent, StoreQueueStepIsCoherent,
             SpikeStepIsCoherent
<1> QED BY <1>1, <1>2 DEF Coherent

\* The history only watches: without it, a step is one of the DUT or of Spike.
LEMMA HistoryOnlyWatches == version \in Nat /\ HNext => OrderedNext
<1> SUFFICES ASSUME version \in Nat, HNext, NEW v \in Views,
                    \/ LoadQueueStep(v)
                    \/ \E id \in FreeSlots(v), fp \in Footprints : HStoreCommit(v, id, fp)
                    \/ \E id \in Leaving(v) : HStoreBroadcast(v, id)
                    \/ \E id \in Leaving(v) : StoreBroadcastInvalid(v, id)
                    \/ HSpikeStep(v)
             PROVE  Step(v, FreeSlots(v), Leaving(v))
  BY DEF HNext, OrderedNext
<1>1. ASSUME NEW id \in FreeSlots(v), NEW fp \in Footprints, HStoreCommit(v, id, fp)
      PROVE  StoreQueueStep(v, FreeSlots(v), Leaving(v))
  <2> DEFINE bytes == [a \in fp |-> version + 1]
  <2>1. version < MaxVersion
    BY <1>1 DEF HStoreCommit
  <2>2. bytes \in [fp -> Byte]
    BY <1>1, <2>1, VersionAssumption
  <2>3. StoreCommit(v, id, bytes) \/ StoreCommitRejected(v, id, bytes)
    BY <1>1 DEF HStoreCommit
  <2> HIDE DEF bytes
  <2> QED BY <2>2, <2>3 DEF StoreQueueStep
<1> QED BY <1>1 DEF Step, StoreQueueStep, HStoreBroadcast, HSpikeStep

\* OrderedSpec's invariant does not hold of HSpec for free: that a version is a byte
\* is part of the history.
LEMMA HistoryInvariant ==
  HSpec => [](QueuesWellFormed /\ Forwards /\ HistoryWellFormed /\ Coherent)
<1>1. HInit => Init
  BY DEF HInit
<1>2. version \in Nat /\ [HNext]_<<vars, historyVars>>
        => (version \in Nat)' /\ [OrderedNext]_vars
  <2> SUFFICES ASSUME version \in Nat, [HNext]_<<vars, historyVars>>
               PROVE  version' \in Nat /\ [OrderedNext]_vars
    OBVIOUS
  <2>1. CASE UNCHANGED <<vars, historyVars>>
    BY <2>1 DEF historyVars
  <2>2. CASE HNext
    <3>1. version' = version \/ version' = version + 1
      BY <2>2, Zenon DEF HNext, HStoreCommit, HStoreBroadcast, HSpikeStep, historyVars
    <3> QED BY <2>2, <3>1, HistoryOnlyWatches
  <2> QED BY <2>1, <2>2
<1>3. HInit => version \in Nat
  BY DEF HInit
<1>4. HSpec => OrderedSpec
  BY <1>1, <1>2, <1>3, PTL DEF HSpec, OrderedSpec
<1>5. QueuesWellFormed /\ HistoryWellFormed /\ Coherent /\ [HNext]_<<vars, historyVars>>
        => HistoryWellFormed' /\ Coherent'
  <2> SUFFICES ASSUME QueuesWellFormed, HistoryWellFormed, Coherent,
                      [HNext]_<<vars, historyVars>>
               PROVE  HistoryWellFormed' /\ Coherent'
    OBVIOUS
  <2>1. CASE HNext
    BY <2>1, NextKeepsCoherent
  <2>2. CASE UNCHANGED <<vars, historyVars>>
    <3>1. /\ memory' = memory /\ loads' = loads /\ stores' = stores
          /\ storeHead' = storeHead /\ storeLast' = storeLast /\ status' = status
          /\ version' = version /\ order' = order /\ own' = own
      BY <2>2 DEF vars, loadVars, storeVars, historyVars
    <3>2. HistoryWellFormed' /\ OrderGrows /\ version <= version'
      BY <3>1 DEF HistoryWellFormed, HistoryTyped, MemoryIsLast, OrderGrows
    <3> QED BY <3>1, <3>2, OtherViewsStayCoherent DEF Coherent, Running, HistoryWellFormed
  <2> QED BY <2>1, <2>2
<1> QED BY <1>4, <1>5, InitIsCoherent, OrderedInvariant, PTL DEF HSpec

\* Once a hart has retired a store to a byte, none of its unretired loads holds a
\* version of the byte that is older in the order of memory, whatever the other harts
\* broadcast and wherever its own loads execute: for any number of harts, queue sizes
\* and stores, if the DUT broadcasts the overlapping stores of a hart in order.
THEOREM HartsReadTheirOwnWrites == HSpec => []ReadsOwnWrites
BY HistoryInvariant, CoherentIsSound, PTL

\* Forwarding, for the runs whose stores write versions of their own.
THEOREM VersionsAreForwarded == HSpec => []ForwardingSound
BY HistoryInvariant, ForwardsIsSound, PTL
=============================================================================
