---------------------- MODULE CpuMemoryViewImpl_proofs ----------------------
(***************************************************************************)
(* CpuMemoryView implements CoherentMemory: every step of the lists and    *)
(* arrays is a step of the store buffers and sets of reads, or a stutter.  *)
(***************************************************************************)
EXTENDS CpuMemoryViewImpl, CpuMemoryView_proofs

\* A function that differs from f at v only, where it is x.
LEMMA UpdateAt ==
  ASSUME NEW S, NEW v \in S, NEW f, NEW g, NEW x,
         f = [u \in S |-> f[u]], g = [u \in S |-> g[u]],
         g[v] = x, \A u \in S : u # v => g[u] = f[u]
  PROVE  g = [f EXCEPT ![v] = x]
OBVIOUS

-----------------------------------------------------------------------------
(***************************************************************************)
(* The abstract variables while the checker runs.                          *)
(***************************************************************************)

Invariant == TypeOK /\ InflightWellFormed /\ StoreListWellFormed

BufferOf(v, q) == [i \in 1 .. Len(q) |-> stores[v][q[i]].bytes]
ReadsOf(v)     == [l \in {m \in LoadIds : loads[v][m].valid} |-> loads[v][l].bytes]
PendingOf(v)   == IF storeFresh[v] = Null THEN "none"
                  ELSE IF FreshStoreValid(v) THEN "buffered" ELSE "drained"

LEMMA BarsAreFunctions ==
  /\ bufferBar = [v \in Views |-> bufferBar[v]]
  /\ readsBar = [v \in Views |-> readsBar[v]]
  /\ takenBar = [v \in Views |-> takenBar[v]]
  /\ pendingBar = [v \in Views |-> pendingBar[v]]
BY DEF bufferBar, readsBar, takenBar, pendingBar

LEMMA NextBarsAreFunctions ==
  /\ bufferBar' = [v \in Views |-> bufferBar'[v]]
  /\ readsBar' = [v \in Views |-> readsBar'[v]]
  /\ takenBar' = [v \in Views |-> takenBar'[v]]
  /\ pendingBar' = [v \in Views |-> pendingBar'[v]]
BY DEF bufferBar, readsBar, takenBar, pendingBar

LEMMA BarsOf ==
  ASSUME Running, NEW v \in Views
  PROVE  /\ readsBar[v] = ReadsOf(v)
         /\ takenBar[v] = loadFresh[v]
         /\ pendingBar[v] = PendingOf(v)
         /\ \A q \in StoreSeqs : IsWalk(v, q) => bufferBar[v] = BufferOf(v, q)
<1>1. readsBar[v] = ReadsOf(v)
  BY DEF readsBar, ReadsOf
<1>2. takenBar[v] = loadFresh[v] /\ pendingBar[v] = PendingOf(v)
  BY DEF takenBar, pendingBar, PendingOf
<1>3. ASSUME NEW q \in StoreSeqs, IsWalk(v, q)
      PROVE  bufferBar[v] = BufferOf(v, q)
  BY <1>3, StoreListIs DEF bufferBar, BufferOf
<1> QED BY <1>1, <1>2, <1>3

LEMMA NextBarsOf ==
  ASSUME Running', NEW v \in Views
  PROVE  /\ readsBar'[v] = ReadsOf(v)'
         /\ takenBar'[v] = loadFresh'[v]
         /\ pendingBar'[v] = PendingOf(v)'
         /\ \A q \in StoreSeqs : IsWalk(v, q)' => bufferBar'[v] = BufferOf(v, q)'
<1>1. readsBar'[v] = ReadsOf(v)'
  BY DEF readsBar, ReadsOf
<1>2. takenBar'[v] = loadFresh'[v] /\ pendingBar'[v] = PendingOf(v)'
  BY DEF takenBar, pendingBar, PendingOf
<1>3. ASSUME NEW q \in StoreSeqs, IsWalk(v, q)'
      PROVE  bufferBar'[v] = BufferOf(v, q)'
  <2>1. StoreList(v)' = q
    BY <1>3, NextStoreListIs
  <2>2. bufferBar'[v] = [i \in 1 .. Len(StoreList(v)') |-> stores'[v][StoreList(v)'[i]].bytes]
    BY DEF bufferBar
  <2> QED BY <2>1, <2>2 DEF BufferOf
<1> QED BY <1>1, <1>2, <1>3

\* What a step does not touch of a view keeps its abstract value.
LEMMA ViewFrame ==
  ASSUME Running, Running', NEW u \in Views, StoreQueueWellFormed(u)
  PROVE  /\ loads'[u] = loads[u] => readsBar'[u] = readsBar[u]
         /\ loadFresh'[u] = loadFresh[u] => takenBar'[u] = takenBar[u]
         /\ (stores'[u] = stores[u] /\ storeFresh'[u] = storeFresh[u])
              => pendingBar'[u] = pendingBar[u]
         /\ (stores'[u] = stores[u] /\ storeHead'[u] = storeHead[u])
              => bufferBar'[u] = bufferBar[u]
<1>1. ASSUME loads'[u] = loads[u]
      PROVE  readsBar'[u] = readsBar[u]
  <2>1. ReadsOf(u)' = ReadsOf(u)
    BY <1>1 DEF ReadsOf
  <2> QED BY <2>1, BarsOf, NextBarsOf
<1>2. loadFresh'[u] = loadFresh[u] => takenBar'[u] = takenBar[u]
  BY BarsOf, NextBarsOf
<1>3. (stores'[u] = stores[u] /\ storeFresh'[u] = storeFresh[u])
        => pendingBar'[u] = pendingBar[u]
  BY BarsOf, NextBarsOf DEF PendingOf, FreshStoreValid
<1>4. ASSUME stores'[u] = stores[u], storeHead'[u] = storeHead[u]
      PROVE  bufferBar'[u] = bufferBar[u]
  <2>1. PICK q \in StoreSeqs : IsWalk(u, q)
    BY DEF StoreQueueWellFormed, IsStoreList
  <2>2. IsWalk(u, q)'
    BY <1>4, <2>1 DEF IsWalk
  <2>3. BufferOf(u, q)' = BufferOf(u, q)
    BY <1>4 DEF BufferOf
  <2> QED BY <2>1, <2>2, <2>3, BarsOf, NextBarsOf
<1> QED BY <1>1, <1>2, <1>3, <1>4

\* A view whose queues a step leaves alone.
Untouched(u) ==
  /\ loads'[u] = loads[u] /\ loadFresh'[u] = loadFresh[u]
  /\ stores'[u] = stores[u] /\ storeHead'[u] = storeHead[u] /\ storeFresh'[u] = storeFresh[u]

\* The abstract variables change at v only.
LEMMA BarsUpdate ==
  ASSUME Invariant, Running, Running', NEW v \in Views,
         \A u \in Views : u # v => Untouched(u)
  PROVE  /\ \A x : bufferBar'[v] = x => bufferBar' = [bufferBar EXCEPT ![v] = x]
         /\ \A x : readsBar'[v] = x => readsBar' = [readsBar EXCEPT ![v] = x]
         /\ \A x : takenBar'[v] = x => takenBar' = [takenBar EXCEPT ![v] = x]
         /\ \A x : pendingBar'[v] = x => pendingBar' = [pendingBar EXCEPT ![v] = x]
         /\ bufferBar'[v] = bufferBar[v] => UNCHANGED bufferBar
         /\ readsBar'[v] = readsBar[v] => UNCHANGED readsBar
         /\ takenBar'[v] = takenBar[v] => UNCHANGED takenBar
         /\ pendingBar'[v] = pendingBar[v] => UNCHANGED pendingBar
<1>1. \A u \in Views : u # v =>
        /\ bufferBar'[u] = bufferBar[u] /\ readsBar'[u] = readsBar[u]
        /\ takenBar'[u] = takenBar[u] /\ pendingBar'[u] = pendingBar[u]
  BY ViewFrame DEF Untouched, Invariant, StoreListWellFormed
<1> QED BY <1>1, BarsAreFunctions, NextBarsAreFunctions, UpdateAt

\* The end of a run, by whatever exception or crash.
LEMMA EndIsReject ==
  ASSUME Running, ~Running', UNCHANGED memory
  PROVE  Abstract!Reject
<1>1. /\ bufferBar' = [v \in Views |-> <<>>]
      /\ readsBar' = [v \in Views |-> Abstract!Nothing]
      /\ takenBar' = [v \in Views |-> Null]
      /\ pendingBar' = [v \in Views |-> "none"]
  BY DEF bufferBar, readsBar, takenBar, pendingBar, Abstract!Nothing
<1> QED BY <1>1 DEF Abstract!Reject

-----------------------------------------------------------------------------
(***************************************************************************)
(* The commands of the load queue.                                         *)
(***************************************************************************)

\* The abstract reads of v after a step, from the slots it leaves.
LEMMA NextReadsAre ==
  ASSUME Running', NEW v \in Views, NEW S \in SUBSET LoadIds, NEW f,
         \A l \in LoadIds : loads'[v][l].valid <=> l \in S,
         \A l \in S : loads'[v][l].bytes = f[l]
  PROVE  readsBar'[v] = [l \in S |-> f[l]]
<1>1. {m \in LoadIds : loads'[v][m].valid} = S
  OBVIOUS
<1>2. readsBar'[v] = [l \in {m \in LoadIds : loads'[v][m].valid} |-> loads'[v][l].bytes]
  BY NextBarsOf DEF ReadsOf
<1> QED BY <1>1, <1>2

LEMMA DomainOfReads ==
  ASSUME Running, NEW v \in Views
  PROVE  /\ DOMAIN readsBar[v] = {m \in LoadIds : loads[v][m].valid}
         /\ \A l \in DOMAIN readsBar[v] : readsBar[v][l] = loads[v][l].bytes
BY BarsOf DEF ReadsOf

\* The walk of loadExecute sees what the abstract hart sees.
LEMMA ObservedIsSeen ==
  ASSUME Running, NEW v \in Views, NEW q \in StoreSeqs, IsWalk(v, q), NEW fp
  PROVE  Observed(v, q, fp) = [a \in fp |-> Abstract!Seen(v, a)]
<1>1. bufferBar[v] = BufferOf(v, q)
  BY BarsOf
<1>2. Len(q) \in Nat /\ Len(bufferBar[v]) = Len(q)
      /\ \A i \in 1 .. Len(q) : bufferBar[v][i] = stores[v][q[i]].bytes
  BY <1>1, StoreListFacts DEF BufferOf
<1> SUFFICES ASSUME NEW a \in fp
             PROVE  (LET hits == Covering(v, q, a)
                     IN  IF hits = {} THEN memory[a]
                         ELSE stores[v][q[Newest(hits)]].bytes[a])
                    = Abstract!Seen(v, a)
  BY DEF Observed
<1> DEFINE hits == {i \in 1 .. Len(bufferBar[v]) : a \in DOMAIN bufferBar[v][i]}
<1>3. hits = Covering(v, q, a)
  BY <1>2 DEF Covering
<1>4. Abstract!Seen(v, a) = IF hits = {} THEN memory[a] ELSE bufferBar[v][Newest(hits)][a]
  BY DEF Abstract!Seen, Newest
<1>5. hits # {} => Newest(hits) \in 1 .. Len(q)
  <2>1. hits \subseteq 1 .. Len(q)
    BY <1>2
  <2> HIDE DEF hits
  <2> QED BY <1>2, <2>1, NewestIsMember
<1> HIDE DEF hits
<1> QED BY <1>2, <1>3, <1>4, <1>5

LEMMA LoadExecuteIsRead ==
  ASSUME Invariant, NEW v \in Views, NEW id \in LoadIds, NEW fp \in Footprints,
         LoadExecute(v, id, fp)
  PROVE  Abstract!Read(v, id, fp)
<1> DEFINE q == StoreList(v)
           S == DOMAIN readsBar[v] \cup {id}
           f == [l \in S |-> IF l = id THEN [a \in fp |-> Abstract!Seen(v, a)]
                             ELSE readsBar[v][l]]
<1>1. Running /\ Running' /\ WalkEnds(v) /\ UNCHANGED <<memory, loadFresh, storeVars, status>>
  BY DEF LoadExecute, Running
<1>2. q \in StoreSeqs /\ IsWalk(v, q)
  BY <1>1 DEF StoreList, WalkEnds
<1>3. Observed(v, q, fp) = [a \in fp |-> Abstract!Seen(v, a)]
  BY <1>1, <1>2, ObservedIsSeen
<1>4. /\ \A u \in Views : u # v => loads'[u] = loads[u]
      /\ \A l \in LoadIds : l # id => loads'[v][l] = loads[v][l]
      /\ loads'[v][id].valid /\ loads'[v][id].bytes = Observed(v, q, fp)
  BY DEF LoadExecute, Invariant, TypeOK
<1>5. readsBar'[v] = f
  <2>1. /\ S \in SUBSET LoadIds
        /\ \A l \in LoadIds : loads'[v][l].valid <=> l \in S
    BY <1>1, <1>4, DomainOfReads
  <2>2. \A l \in S : loads'[v][l].bytes = f[l]
    BY <1>1, <1>3, <1>4, DomainOfReads
  <2> HIDE DEF S, f
  <2>3. readsBar'[v] = [l \in S |-> f[l]]
    BY <1>1, <2>1, <2>2, NextReadsAre
  <2> QED BY <2>3 DEF f
<1>6. \A u \in Views : u # v => Untouched(u)
  BY <1>1, <1>4 DEF Untouched, storeVars
<1>7. readsBar' = [readsBar EXCEPT ![v] = f]
  BY <1>1, <1>5, <1>6, BarsUpdate
<1>8. UNCHANGED <<bufferBar, takenBar, pendingBar>>
  <2>1. StoreQueueWellFormed(v)
    BY <1>1 DEF Invariant, StoreListWellFormed
  <2>2. /\ bufferBar'[v] = bufferBar[v] /\ takenBar'[v] = takenBar[v]
        /\ pendingBar'[v] = pendingBar[v]
    BY <1>1, <2>1, ViewFrame DEF storeVars
  <2> QED BY <1>1, <1>6, <2>2, BarsUpdate
<1>9. readsBar' = [readsBar EXCEPT ![v] =
        [l \in DOMAIN @ \cup {id} |->
           IF l = id THEN [a \in fp |-> Abstract!Seen(v, a)] ELSE @[l]]]
  BY <1>7, BarsAreFunctions
<1> QED BY <1>1, <1>8, <1>9 DEF Abstract!Read

LEMMA LoadCommitIsTake ==
  ASSUME Invariant, NEW v \in Views, NEW id \in LoadIds, LoadCommit(v, id), Running'
  PROVE  Abstract!Take(v, id)
<1>1. /\ Running /\ loads[v][id].valid /\ loadsInflightCount[v] > 0
      /\ RemoveInflight(v, id) /\ UNCHANGED <<memory, storeVars>>
  BY DEF LoadCommit
<1>2. loadFresh[v] = Null /\ loadFresh' = [loadFresh EXCEPT ![v] = id]
  BY DEF LoadCommit, Running
<1>3. LoadQueueWellFormed(v) /\ StoreQueueWellFormed(v) /\ TypeOK
  BY <1>1 DEF Invariant, InflightWellFormed, StoreListWellFormed
<1> DEFINE last == loadsInflight[v][loadsInflightCount[v] - 1]
<1>4. last \in LoadIds
  <2>1. loadsInflightCount[v] \in Nat
    BY <1>3 DEF TypeOK
  <2>2. loadsInflightCount[v] - 1 \in 0 .. (loadsInflightCount[v] - 1)
    BY <1>1, <2>1
  <2> QED BY <1>3, <2>2 DEF LoadQueueWellFormed
<1>5. /\ \A u \in Views : u # v => loads'[u] = loads[u]
      /\ \A l \in LoadIds : /\ loads'[v][l].valid = loads[v][l].valid
                            /\ loads'[v][l].bytes = loads[v][l].bytes
  <2>1. loads' = [loads EXCEPT ![v][last].userId = loads[v][id].userId]
    BY <1>1 DEF RemoveInflight
  <2> HIDE DEF last
  <2> QED BY <1>3, <1>4, <2>1 DEF TypeOK, Load
<1>6. \A u \in Views : u # v => Untouched(u)
  BY <1>1, <1>2, <1>3, <1>5 DEF Untouched, storeVars, TypeOK
<1>7. UNCHANGED <<bufferBar, pendingBar>>
  <2>1. bufferBar'[v] = bufferBar[v] /\ pendingBar'[v] = pendingBar[v]
    BY <1>1, <1>3, ViewFrame DEF storeVars
  <2> QED BY <1>1, <1>6, <2>1, BarsUpdate
<1>8. UNCHANGED readsBar
  <2> DEFINE S == DOMAIN readsBar[v]
  <2>1. /\ S \in SUBSET LoadIds
        /\ \A l \in LoadIds : loads'[v][l].valid <=> l \in S
        /\ \A l \in S : loads'[v][l].bytes = readsBar[v][l]
    BY <1>1, <1>5, DomainOfReads
  <2> HIDE DEF S
  <2>2. readsBar'[v] = [l \in S |-> readsBar[v][l]]
    BY <2>1, NextReadsAre
  <2>3. readsBar[v] = [l \in S |-> readsBar[v][l]]
    BY <1>1, BarsOf DEF ReadsOf, S
  <2> QED BY <1>1, <1>6, <2>2, <2>3, BarsUpdate
<1>9. takenBar[v] = Null /\ takenBar' = [takenBar EXCEPT ![v] = id]
  <2>1. takenBar'[v] = id
    BY <1>2, <1>3, NextBarsOf DEF TypeOK
  <2> QED BY <1>1, <1>2, <1>6, <2>1, BarsOf, BarsUpdate
<1>10. id \in DOMAIN readsBar[v] /\ (Running' <=> Running)
  BY <1>1, DomainOfReads
<1> QED BY <1>1, <1>7, <1>8, <1>9, <1>10 DEF Abstract!Take

LEMMA LoadFlushIsSquash ==
  ASSUME Invariant, NEW v \in Views, LoadFlush(v)
  PROVE  Abstract!Squash(v)
<1>1. Running /\ Running' /\ UNCHANGED <<memory, loadFresh, storeVars>>
  BY DEF LoadFlush, Running
<1>2. LoadQueueWellFormed(v) /\ StoreQueueWellFormed(v) /\ TypeOK
  BY <1>1 DEF Invariant, InflightWellFormed, StoreListWellFormed
<1>3. /\ \A u \in Views : u # v => loads'[u] = loads[u]
      /\ \A l \in LoadIds : /\ loads'[v][l].valid <=> (loads[v][l].valid /\ l \notin Inflight(v))
                            /\ loads'[v][l].bytes = loads[v][l].bytes
  <2>1. \A l \in LoadIds : loads[v][l] \in Load
    BY <1>2 DEF TypeOK
  <2>2. loads'[v] = [l \in LoadIds |-> IF l \in Inflight(v)
                       THEN [loads[v][l] EXCEPT !.valid = FALSE] ELSE loads[v][l]]
    BY <1>2 DEF LoadFlush, TypeOK
  <2>3. \A u \in Views : u # v => loads'[u] = loads[u]
    BY <1>2 DEF LoadFlush, TypeOK
  <2> QED BY <2>1, <2>2, <2>3 DEF Load
<1>4. \A u \in Views : u # v => Untouched(u)
  BY <1>1, <1>3 DEF Untouched, storeVars
<1> DEFINE S == DOMAIN readsBar[v] \cap {takenBar[v]}
<1>5. \A l \in LoadIds : loads'[v][l].valid <=> l \in S
  BY <1>1, <1>2, <1>3, BarsOf, DomainOfReads DEF LoadQueueWellFormed
<1>6. readsBar'[v] = [l \in S |-> readsBar[v][l]]
  <2>1. S \in SUBSET LoadIds /\ \A l \in S : loads'[v][l].bytes = readsBar[v][l]
    BY <1>1, <1>3, DomainOfReads
  <2> HIDE DEF S
  <2> QED BY <1>1, <1>5, <2>1, NextReadsAre
<1>7. readsBar' = [readsBar EXCEPT ![v] = [l \in DOMAIN @ \cap {takenBar[v]} |-> @[l]]]
  BY <1>1, <1>4, <1>6, BarsUpdate, BarsAreFunctions
<1>8. UNCHANGED <<bufferBar, takenBar, pendingBar>>
  <2>1. /\ bufferBar'[v] = bufferBar[v] /\ takenBar'[v] = takenBar[v]
        /\ pendingBar'[v] = pendingBar[v]
    BY <1>1, <1>2, ViewFrame DEF storeVars
  <2> QED BY <1>1, <1>4, <2>1, BarsUpdate
<1> QED BY <1>1, <1>7, <1>8 DEF Abstract!Squash

-----------------------------------------------------------------------------
(***************************************************************************)
(* The commands of the store queue.                                        *)
(***************************************************************************)

LEMMA StoreCommitIsPut ==
  ASSUME Invariant, NEW v \in Views, NEW id \in FreeSlots(v), NEW bytes,
         StoreCommit(v, id, bytes)
  PROVE  Abstract!Put(v, bytes)
<1>1. /\ Running /\ Running' /\ storeFresh[v] = Null
      /\ storeFresh' = [storeFresh EXCEPT ![v] = id]
      /\ UNCHANGED <<memory, loadVars, status>>
  BY DEF StoreCommit, Running
<1>2. TypeOK /\ StoreQueueWellFormed(v) /\ id \in StoreIds /\ ~stores[v][id].valid
  BY <1>1 DEF Invariant, StoreListWellFormed, FreeSlots
<1>3. PICK q \in StoreSeqs : IsStoreList(v, q)
  BY <1>2 DEF StoreQueueWellFormed
<1>4. /\ \E r \in StoreSeqs : IsStoreList(v, r)' /\ Extends(r, q, id)
      /\ \A s \in StoreIds :
           stores'[v][s].bytes = IF s = id THEN bytes ELSE stores[v][s].bytes
  BY <1>2, <1>3, StoreCommitList
<1>5. PICK r \in StoreSeqs : IsStoreList(v, r)' /\ Extends(r, q, id)
  BY <1>4
<1>6. /\ Len(q) \in Nat /\ q \in [1 .. Len(q) -> StoreIds]
      /\ Len(r) = Len(q) + 1 /\ r[Len(r)] = id /\ \A i \in 1 .. Len(q) : r[i] = q[i]
  BY <1>5, StoreListFacts DEF Extends
<1>7. bufferBar[v] = BufferOf(v, q) /\ bufferBar'[v] = BufferOf(v, r)'
  BY <1>1, <1>3, <1>5, BarsOf, NextBarsOf DEF IsStoreList
<1>8. \A i \in 1 .. Len(q) : q[i] # id
  BY <1>2, <1>3 DEF IsStoreList
<1>9. bufferBar'[v] = Append(bufferBar[v], bytes)
  <2> DEFINE n == Len(q)
             b == BufferOf(v, q)
  <2>1. b = [i \in 1 .. n |-> stores[v][q[i]].bytes]
    BY DEF BufferOf
  <2>2. BufferOf(v, r)' = [i \in 1 .. (n + 1) |-> stores'[v][r[i]].bytes]
    BY <1>6 DEF BufferOf
  <2>3. \A i \in 1 .. (n + 1) :
          stores'[v][r[i]].bytes = IF i = n + 1 THEN bytes ELSE stores[v][q[i]].bytes
    <3> SUFFICES ASSUME NEW i \in 1 .. (n + 1)
                 PROVE  stores'[v][r[i]].bytes
                          = IF i = n + 1 THEN bytes ELSE stores[v][q[i]].bytes
      OBVIOUS
    <3>1. CASE i = n + 1
      BY <1>2, <1>4, <1>6, <3>1
    <3>2. CASE i # n + 1
      <4>1. i \in 1 .. n /\ q[i] \in StoreIds /\ r[i] = q[i] /\ q[i] # id
        BY <1>6, <1>8, <3>2
      <4> QED BY <1>4, <3>2, <4>1
    <3> QED BY <3>1, <3>2
  <2> HIDE DEF b, n
  <2>4. n \in Nat
    BY <1>6 DEF n
  <2>5. Append(b, bytes)
          = [i \in 1 .. (n + 1) |-> IF i = n + 1 THEN bytes ELSE stores[v][q[i]].bytes]
    BY <2>1, <2>4
  <2> QED BY <1>7, <2>2, <2>3, <2>5 DEF b
<1>10. pendingBar[v] = "none" /\ pendingBar'[v] = "buffered"
  <2>1. pendingBar[v] = "none"
    BY <1>1, BarsOf DEF PendingOf
  <2>2. storeFresh'[v] = id /\ id # Null
    BY <1>1, <1>2, IdsAssumption DEF TypeOK
  <2>3. stores'[v][id].valid
    <3>1. Len(r) \in 1 .. Len(r)
      BY <1>6
    <3> QED BY <1>2, <1>5, <1>6, <3>1 DEF IsStoreList
  <2>4. PendingOf(v)' = "buffered"
    BY <2>2, <2>3 DEF PendingOf, FreshStoreValid
  <2> QED BY <1>1, <2>1, <2>4, NextBarsOf
<1>11. \A u \in Views : u # v => Untouched(u)
  BY <1>1, <1>2 DEF Untouched, StoreCommit, TypeOK, loadVars
<1>12. /\ bufferBar' = [bufferBar EXCEPT ![v] = Append(@, bytes)]
       /\ pendingBar' = [pendingBar EXCEPT ![v] = "buffered"]
  BY <1>1, <1>9, <1>10, <1>11, BarsUpdate, BarsAreFunctions
<1>13. UNCHANGED <<readsBar, takenBar>>
  <2>1. readsBar'[v] = readsBar[v] /\ takenBar'[v] = takenBar[v]
    BY <1>1, <1>2, ViewFrame DEF loadVars
  <2> QED BY <1>1, <1>11, <2>1, BarsUpdate
<1> QED BY <1>1, <1>10, <1>12, <1>13 DEF Abstract!Put

\* A sequence without its k-th entry.
LEMMA WithoutIsSplice ==
  ASSUME NEW n \in Nat, NEW S, NEW b \in [1 .. n -> S], NEW k \in 1 .. n
  PROVE  SubSeq(b, 1, k - 1) \o SubSeq(b, k + 1, n)
           = [i \in 1 .. (n - 1) |-> IF i < k THEN b[i] ELSE b[i + 1]]
<1> DEFINE c == SubSeq(b, 1, k - 1)
           d == SubSeq(b, k + 1, n)
<1>1. k \in Nat /\ 1 <= k /\ k <= n /\ b \in Seq(S) /\ Len(b) = n
  OBVIOUS
<1>2. /\ c \in Seq(S) /\ Len(c) = k - 1
      /\ \A i \in 1 .. (k - 1) : c[i] = b[i]
  <2>1. c = [i \in 1 .. (k - 1) |-> b[i]]
    BY <1>1
  <2>2. k - 1 \in Nat /\ \A i \in 1 .. (k - 1) : b[i] \in S
    BY <1>1
  <2> QED BY <2>1, <2>2
<1>3. /\ d \in Seq(S) /\ Len(d) = n - k
      /\ \A i \in 1 .. (n - k) : d[i] = b[k + i]
  <2>1. d = [i \in 1 .. (n - k) |-> b[k + i]]
    BY <1>1
  <2>2. n - k \in Nat /\ \A i \in 1 .. (n - k) : b[k + i] \in S
    BY <1>1
  <2> QED BY <2>1, <2>2
<1> HIDE DEF c, d
<1> DEFINE w == c \o d
<1>4. /\ w \in Seq(S) /\ Len(w) = (k - 1) + (n - k)
      /\ \A i \in 1 .. ((k - 1) + (n - k)) :
           w[i] = IF i <= k - 1 THEN c[i] ELSE d[i - (k - 1)]
  <2>1. /\ w \in Seq(S) /\ Len(w) = Len(c) + Len(d)
        /\ \A i \in 1 .. Len(c) + Len(d) :
             w[i] = IF i <= Len(c) THEN c[i] ELSE d[i - Len(c)]
    BY <1>2, <1>3, ConcatProperties
  <2> HIDE DEF w
  <2> QED BY <1>2, <1>3, <2>1
<1>5. (k - 1) + (n - k) = n - 1
  BY <1>1
<1>6. \A i \in 1 .. (n - 1) : (IF i <= k - 1 THEN c[i] ELSE d[i - (k - 1)])
                                = (IF i < k THEN b[i] ELSE b[i + 1])
  <2> SUFFICES ASSUME NEW i \in 1 .. (n - 1)
               PROVE  (IF i <= k - 1 THEN c[i] ELSE d[i - (k - 1)])
                        = (IF i < k THEN b[i] ELSE b[i + 1])
    OBVIOUS
  <2>1. CASE i < k
    BY <1>1, <1>2, <2>1
  <2>2. CASE ~(i < k)
    <3>1. i - (k - 1) \in 1 .. (n - k) /\ k + (i - (k - 1)) = i + 1 /\ ~(i <= k - 1)
      BY <1>1, <2>2
    <3> QED BY <1>3, <2>2, <3>1
  <2> QED BY <2>1, <2>2
<1> HIDE DEF w
<1>7. w = [i \in 1 .. (n - 1) |-> w[i]]
  BY <1>4, <1>5
<1>8. \A i \in 1 .. (n - 1) : w[i] = IF i < k THEN b[i] ELSE b[i + 1]
  BY <1>4, <1>5, <1>6
<1>9. w = [i \in 1 .. (n - 1) |-> IF i < k THEN b[i] ELSE b[i + 1]]
  BY <1>7, <1>8
<1> QED BY <1>9 DEF c, d, w

LEMMA StoreBroadcastIsDrain ==
  ASSUME Invariant, NEW v \in Views, NEW id \in StoreIds, StoreBroadcast(v, id)
  PROVE  \E k \in 1 .. Len(bufferBar[v]) : Abstract!Drain(v, k)
<1>1. /\ Running /\ Running' /\ stores[v][id].valid
      /\ memory' = Overwrite(stores[v][id].bytes, memory)
      /\ UNCHANGED <<loadVars, storeFresh, status>>
  BY DEF StoreBroadcast, Running
<1>2. TypeOK /\ StoreQueueWellFormed(v)
  BY <1>1 DEF Invariant, StoreListWellFormed
<1>3. PICK q \in StoreSeqs : IsStoreList(v, q)
  BY <1>2 DEF StoreQueueWellFormed
<1>4. /\ \E r \in StoreSeqs, k \in 1 .. Len(q) :
           q[k] = id /\ IsStoreList(v, r)' /\ Without(r, q, k)
      /\ \A s \in StoreIds :
           /\ stores'[v][s].valid <=> (s # id /\ stores[v][s].valid)
           /\ stores'[v][s].bytes = stores[v][s].bytes
  BY <1>2, <1>3, StoreBroadcastList
<1>5. PICK r \in StoreSeqs, k \in 1 .. Len(q) :
        q[k] = id /\ IsStoreList(v, r)' /\ Without(r, q, k)
  BY <1>4
<1> DEFINE n == Len(q)
<1>6. n \in Nat /\ q \in [1 .. n -> StoreIds] /\ Len(r) = n - 1
      /\ \A i \in 1 .. (n - 1) : r[i] = IF i < k THEN q[i] ELSE q[i + 1]
  BY <1>5, StoreListFacts DEF Without
<1>7. bufferBar[v] = BufferOf(v, q) /\ bufferBar'[v] = BufferOf(v, r)'
  BY <1>1, <1>3, <1>5, BarsOf, NextBarsOf DEF IsStoreList
<1> DEFINE b == BufferOf(v, q)
<1>8. b = [i \in 1 .. n |-> stores[v][q[i]].bytes] /\ b \in [1 .. n -> Data] /\ Len(b) = n
  <2>1. \A i \in 1 .. n : stores[v][q[i]].bytes \in Data
    BY <1>2, <1>6 DEF TypeOK, Store
  <2>2. b = [i \in 1 .. n |-> stores[v][q[i]].bytes]
    BY DEF BufferOf
  <2> HIDE DEF b
  <2> QED BY <1>6, <2>1, <2>2
<1> HIDE DEF b
<1>9. bufferBar'[v] = SubSeq(b, 1, k - 1) \o SubSeq(b, k + 1, n)
  <2>1. BufferOf(v, r)' = [i \in 1 .. (n - 1) |-> stores'[v][r[i]].bytes]
    BY <1>6 DEF BufferOf
  <2>2. \A i \in 1 .. (n - 1) :
          stores'[v][r[i]].bytes = IF i < k THEN b[i] ELSE b[i + 1]
    <3> SUFFICES ASSUME NEW i \in 1 .. (n - 1)
                 PROVE  stores'[v][r[i]].bytes = IF i < k THEN b[i] ELSE b[i + 1]
      OBVIOUS
    <3>1. i \in 1 .. n /\ i + 1 \in 1 .. n
      BY <1>6
    <3> QED BY <1>4, <1>6, <1>8, <3>1
  <2> HIDE DEF n
  <2>3. SubSeq(b, 1, k - 1) \o SubSeq(b, k + 1, n)
          = [i \in 1 .. (n - 1) |-> IF i < k THEN b[i] ELSE b[i + 1]]
    <3>1. n \in Nat /\ b \in [1 .. n -> Data] /\ k \in 1 .. n
      BY <1>6, <1>8 DEF n
    <3> QED BY <3>1, WithoutIsSplice
  <2> QED BY <1>7, <2>1, <2>2, <2>3
<1>10. \A u \in Views : u # v => Untouched(u)
  BY <1>1, <1>2 DEF Untouched, StoreBroadcast, TypeOK, loadVars
<1>11. bufferBar' = [bufferBar EXCEPT ![v] = SubSeq(@, 1, k - 1) \o SubSeq(@, k + 1, Len(@))]
  <2>1. bufferBar[v] = b /\ Len(bufferBar[v]) = n
    BY <1>7, <1>8 DEF b
  <2> HIDE DEF n
  <2>2. bufferBar' = [bufferBar EXCEPT ![v] = SubSeq(b, 1, k - 1) \o SubSeq(b, k + 1, n)]
    BY <1>1, <1>9, <1>10, BarsUpdate DEF n
  <2> QED BY <2>1, <2>2, BarsAreFunctions
<1>12. memory' = Abstract!Over(bufferBar[v][k], memory)
  <2>1. bufferBar[v][k] = stores[v][id].bytes
    BY <1>5, <1>7, <1>8 DEF b
  <2> QED BY <1>1, <2>1 DEF Abstract!Over, Overwrite
<1>13. pendingBar'[v] = IF pendingBar[v] = "buffered" /\ k = Len(bufferBar[v])
                        THEN "drained" ELSE pendingBar[v]
  <2>1. storeFresh'[v] = storeFresh[v] /\ storeFresh[v] \in StoreIds \cup {Null}
    BY <1>1, <1>2 DEF TypeOK
  <2>2. pendingBar[v] = PendingOf(v) /\ pendingBar'[v] = PendingOf(v)'
        /\ Len(bufferBar[v]) = n
    BY <1>1, <1>7, <1>8, BarsOf, NextBarsOf DEF b
  <2>3. FreshStoreValid(v)' <=> (FreshStoreValid(v) /\ storeFresh[v] # id)
    BY <1>4, <2>1 DEF FreshStoreValid
  <2>4. FreshStoreValid(v) => (storeFresh[v] = id <=> k = n)
    <3> SUFFICES ASSUME FreshStoreValid(v)
                 PROVE  storeFresh[v] = id <=> k = n
      OBVIOUS
    <3>1. storeFresh[v] = storeLast[v] /\ n # 0 /\ storeLast[v] = q[n]
      BY <1>2, <1>3, <1>6 DEF StoreQueueWellFormed, IsStoreList
    <3>2. n \in 1 .. n
      BY <1>6, <3>1
    <3> QED BY <1>3, <1>5, <3>1, <3>2 DEF IsStoreList
  <2> QED BY <2>1, <2>2, <2>3, <2>4 DEF PendingOf
<1>14. pendingBar' = [pendingBar EXCEPT ![v] =
         IF @ = "buffered" /\ k = Len(bufferBar[v]) THEN "drained" ELSE @]
  BY <1>1, <1>10, <1>13, BarsUpdate, BarsAreFunctions
<1>15. UNCHANGED <<readsBar, takenBar>>
  <2>1. readsBar'[v] = readsBar[v] /\ takenBar'[v] = takenBar[v]
    BY <1>1, <1>2, ViewFrame DEF loadVars
  <2> QED BY <1>1, <1>10, <2>1, BarsUpdate
<1>16. k \in 1 .. Len(bufferBar[v])
  BY <1>7, <1>8 DEF b
<1>17. Abstract!Drain(v, k)
  BY <1>1, <1>11, <1>12, <1>14, <1>15 DEF Abstract!Drain
<1> QED BY <1>16, <1>17

-----------------------------------------------------------------------------
(***************************************************************************)
(* The instructions Spike commits.                                         *)
(***************************************************************************)

\* A store of no byte changes no load.
LEMMA OverwriteNothing ==
  ASSUME NEW old \in Data
  PROVE  Overwrite(NoBytes, old) = old
<1>1. old = [a \in DOMAIN old |-> old[a]]
  BY DEF Data
<1> QED BY <1>1 DEF Overwrite, NoBytes

\* The store Spike has yet to check is the newest of the abstract buffer.
LEMMA FreshStoreIsNewest ==
  ASSUME Invariant, Running, NEW v \in Views, FreshStoreValid(v)
  PROVE  bufferBar[v][Len(bufferBar[v])] = stores[v][storeFresh[v]].bytes
<1>1. TypeOK /\ StoreQueueWellFormed(v)
  BY DEF Invariant, StoreListWellFormed
<1>2. PICK q \in StoreSeqs : IsStoreList(v, q)
  BY <1>1 DEF StoreQueueWellFormed
<1>3. Len(q) \in Nat /\ bufferBar[v] = BufferOf(v, q)
  BY <1>2, StoreListFacts, BarsOf DEF IsStoreList
<1>4. Len(bufferBar[v]) = Len(q)
  BY <1>3 DEF BufferOf
<1>5. storeFresh[v] = storeLast[v] /\ storeFresh[v] # Null
  BY <1>1 DEF StoreQueueWellFormed, FreshStoreValid
<1>6. Len(q) # 0 /\ q[Len(q)] = storeFresh[v]
  BY <1>2, <1>5 DEF IsStoreList
<1>7. Len(q) \in 1 .. Len(q)
  BY <1>3, <1>6
<1> QED BY <1>3, <1>4, <1>6, <1>7 DEF BufferOf

\* A step that gives back the committed load and store of v, and bypasses the
\* bytes of that store.
TakesBoth(v, bytes) ==
  /\ storeFresh[v] = Null => bytes = NoBytes
  /\ storeFresh[v] # Null =>
       FreshStoreValid(v) /\ stores[v][storeFresh[v]].bytes = bytes
  /\ loads' = [loads EXCEPT ![v] = LoadsAfter(v, loadFresh[v], bytes)]
  /\ loadFresh' = [loadFresh EXCEPT ![v] = Null]
  /\ storeFresh' = [storeFresh EXCEPT ![v] = Null]
  /\ UNCHANGED <<memory, stores, storeHead, status>>

LEMMA TakingBothIsRetire ==
  ASSUME Invariant, Running, NEW v \in Views, NEW bytes, TakesBoth(v, bytes)
  PROVE  Abstract!Retire(v)
<1>1. Running' /\ LoadQueueWellFormed(v) /\ StoreQueueWellFormed(v) /\ TypeOK
  BY DEF Invariant, InflightWellFormed, StoreListWellFormed, Running, TakesBoth
<1>2. pendingBar[v] = IF storeFresh[v] = Null THEN "none" ELSE "buffered"
  BY BarsOf DEF PendingOf, TakesBoth
<1>3. \A u \in Views : u # v => Untouched(u)
  BY <1>1 DEF Untouched, TypeOK, TakesBoth
<1> DEFINE S == DOMAIN readsBar[v] \ {takenBar[v]}
           f == [l \in DOMAIN readsBar[v] \ {takenBar[v]} |->
                   IF pendingBar[v] = "buffered"
                   THEN Abstract!Over(bufferBar[v][Len(bufferBar[v])], readsBar[v][l])
                   ELSE readsBar[v][l]]
<1>4. \A l \in LoadIds :
        /\ loads[v][l].bytes \in Data
        /\ loads'[v][l].valid <=> (loads[v][l].valid /\ l # loadFresh[v])
        /\ loads'[v][l].bytes = IF l \in Inflight(v) THEN Overwrite(bytes, loads[v][l].bytes)
                                ELSE loads[v][l].bytes
  <2> SUFFICES ASSUME NEW l \in LoadIds
               PROVE  /\ loads[v][l].bytes \in Data
                      /\ loads'[v][l].valid <=> (loads[v][l].valid /\ l # loadFresh[v])
                      /\ loads'[v][l].bytes = IF l \in Inflight(v)
                           THEN Overwrite(bytes, loads[v][l].bytes) ELSE loads[v][l].bytes
    OBVIOUS
  <2>1. loads[v][l] \in Load
    BY <1>1 DEF TypeOK
  <2>2. PICK b : b = IF l \in Inflight(v) THEN Overwrite(bytes, loads[v][l].bytes)
                     ELSE loads[v][l].bytes
    OBVIOUS
  <2>3. loads'[v][l] = [loads[v][l] EXCEPT
          !.valid = IF l = loadFresh[v] THEN FALSE ELSE @, !.bytes = b]
    BY <1>1, <2>2 DEF LoadsAfter, TypeOK, TakesBoth
  <2>4. loads'[v][l].bytes = b /\ loads[v][l].bytes \in Data
    BY <2>1, <2>3 DEF Load
  <2>5. loads'[v][l].valid <=> (loads[v][l].valid /\ l # loadFresh[v])
    BY <2>1, <2>3 DEF Load
  <2> QED BY <2>2, <2>4, <2>5
<1>5. /\ S \in SUBSET LoadIds
      /\ \A l \in LoadIds : loads'[v][l].valid <=> l \in S
  BY <1>4, BarsOf, DomainOfReads
<1>6. \A l \in S : loads'[v][l].bytes = f[l]
  <2> SUFFICES ASSUME NEW l \in S
               PROVE  loads'[v][l].bytes = f[l]
    OBVIOUS
  <2>1. l \in LoadIds /\ l \in Inflight(v) /\ readsBar[v][l] = loads[v][l].bytes
    BY <1>1, BarsOf, DomainOfReads DEF LoadQueueWellFormed
  <2>2. CASE storeFresh[v] = Null
    BY <1>2, <1>4, <2>1, <2>2, OverwriteNothing DEF TakesBoth
  <2>3. CASE storeFresh[v] # Null
    <3>1. bufferBar[v][Len(bufferBar[v])] = bytes
      BY <2>3, FreshStoreIsNewest DEF TakesBoth
    <3> QED BY <1>2, <1>4, <2>1, <2>3, <3>1 DEF Abstract!Over, Overwrite
  <2> QED BY <2>2, <2>3
<1>7. readsBar'[v] = f
  <2> HIDE DEF S, f
  <2>1. readsBar'[v] = [l \in S |-> f[l]]
    BY <1>1, <1>5, <1>6, NextReadsAre
  <2> QED BY <2>1 DEF f, S
<1> HIDE DEF S, f
<1>8. readsBar' = [readsBar EXCEPT ![v] =
        [l \in DOMAIN @ \ {takenBar[v]} |->
           IF pendingBar[v] = "buffered"
           THEN Abstract!Over(bufferBar[v][Len(bufferBar[v])], @[l]) ELSE @[l]]]
  <2>1. readsBar' = [readsBar EXCEPT ![v] = f]
    BY <1>1, <1>3, <1>7, BarsUpdate
  <2> QED BY <2>1, BarsAreFunctions DEF f, S
<1>9. UNCHANGED bufferBar
  <2>1. bufferBar'[v] = bufferBar[v]
    BY <1>1, ViewFrame DEF TakesBoth
  <2> QED BY <1>1, <1>3, <2>1, BarsUpdate
<1>10. /\ takenBar' = [takenBar EXCEPT ![v] = Null]
       /\ pendingBar' = [pendingBar EXCEPT ![v] = "none"]
  <2>1. loadFresh'[v] = Null /\ storeFresh'[v] = Null
    BY <1>1 DEF TypeOK, TakesBoth
  <2>2. takenBar'[v] = Null /\ pendingBar'[v] = "none"
    BY <1>1, <2>1, NextBarsOf DEF PendingOf
  <2> QED BY <1>1, <1>3, <2>2, BarsUpdate
<1>11. pendingBar[v] # "drained"
  BY <1>2
<1> QED BY <1>1, <1>8, <1>9, <1>10, <1>11 DEF Abstract!Retire, TakesBoth

LEMMA CommitsAreRetires ==
  ASSUME Invariant, NEW v \in Views
  PROVE  /\ \A fp : CommitLoad(v, fp) => Abstract!Retire(v)
         /\ \A bytes : CommitStore(v, bytes) => Abstract!Retire(v)
         /\ \A fp, bytes : CommitAmo(v, fp, bytes) => Abstract!Retire(v)
<1>1. ASSUME NEW fp, CommitLoad(v, fp)
      PROVE  Abstract!Retire(v)
  <2>1. Running /\ TypeOK /\ storeFresh[v] = Null
    BY <1>1 DEF CommitLoad, StepClean, Invariant
  <2>2. storeFresh' = [storeFresh EXCEPT ![v] = Null]
    BY <1>1, <2>1 DEF CommitLoad, storeVars, TypeOK
  <2> QED BY <1>1, <2>1, <2>2, TakingBothIsRetire DEF CommitLoad, storeVars, TakesBoth
<1>2. ASSUME NEW bytes, CommitStore(v, bytes)
      PROVE  Abstract!Retire(v)
  <2>1. Running /\ TypeOK /\ loadFresh[v] = Null
    BY <1>2 DEF CommitStore, StepClean, Invariant
  <2>2. /\ loadFresh' = [loadFresh EXCEPT ![v] = Null]
        /\ loads' = [loads EXCEPT ![v] = LoadsAfter(v, loadFresh[v], bytes)]
    BY <1>2, <2>1 DEF CommitStore, TypeOK
  <2>3. /\ storeFresh[v] # Null /\ FreshStoreValid(v)
        /\ stores[v][storeFresh[v]].bytes = bytes
    BY <1>2 DEF CommitStore, StoreAgrees, FreshStoreValid
  <2> QED BY <1>2, <2>1, <2>2, <2>3, TakingBothIsRetire DEF CommitStore, TakesBoth
<1>3. ASSUME NEW fp, NEW bytes, CommitAmo(v, fp, bytes)
      PROVE  Abstract!Retire(v)
  <2>1. /\ Running /\ storeFresh[v] # Null /\ FreshStoreValid(v)
        /\ stores[v][storeFresh[v]].bytes = bytes
    BY <1>3 DEF CommitAmo, StoreAgrees, FreshStoreValid
  <2> QED BY <1>3, <2>1, TakingBothIsRetire DEF CommitAmo, TakesBoth
<1> QED BY <1>1, <1>2, <1>3

-----------------------------------------------------------------------------
(***************************************************************************)
(* The refinement.                                                         *)
(***************************************************************************)

LEMMA InitIsAbstractInit ==
  ASSUME Init
  PROVE  Abstract!Init
<1>1. Running /\ memory \in [Addr -> Byte]
  BY DEF Init, Running
<1>2. ASSUME NEW v \in Views
      PROVE  /\ bufferBar[v] = <<>> /\ readsBar[v] = Abstract!Nothing
             /\ takenBar[v] = Null /\ pendingBar[v] = "none"
  <2>1. <<>> \in StoreSeqs /\ IsWalk(v, <<>>)
    <3>1. Cardinality(StoreIds) \in Nat
      BY IdsAssumption, FS_CardinalityType
    <3>2. <<>> \in [1 .. 0 -> StoreIds] /\ 0 \in 0 .. Cardinality(StoreIds)
      BY <3>1
    <3>3. <<>> \in StoreSeqs
      BY <3>2 DEF StoreSeqs
    <3>4. storeHead[v] = Null /\ Len(<<>>) = 0
      BY DEF Init
    <3> QED BY <3>3, <3>4 DEF IsWalk
  <2>2. bufferBar[v] = <<>>
    <3>1. bufferBar[v] = BufferOf(v, <<>>)
      BY <1>1, <2>1, BarsOf
    <3> QED BY <3>1 DEF BufferOf
  <2>3. {m \in LoadIds : loads[v][m].valid} = {}
    BY DEF Init
  <2>4. readsBar[v] = Abstract!Nothing
    <3>1. readsBar[v] = [l \in {m \in LoadIds : loads[v][m].valid} |-> loads[v][l].bytes]
      BY <1>1, BarsOf DEF ReadsOf
    <3> QED BY <2>3, <3>1 DEF Abstract!Nothing
  <2>5. takenBar[v] = Null /\ pendingBar[v] = "none"
    BY <1>1, BarsOf DEF Init, PendingOf
  <2> QED BY <2>2, <2>4, <2>5
<1> QED BY <1>1, <1>2, BarsAreFunctions DEF Abstract!Init

\* Every way to stop leaves memory alone.
LEMMA EndingsAreReject ==
  ASSUME NEW v \in Views, NEW id, NEW fp, NEW bytes,
         \/ LoadExecuteTooBig(v, id, fp)
         \/ LoadExecuteMeetsInvalid(v, id, fp)
         \/ LoadExecuteHangs(v, id, fp)
         \/ LoadCommitInvalid(v, id)
         \/ LoadCommitCrashes(v, id)
         \/ LoadCommit(v, id) /\ ~Running'
         \/ StoreCommitRejected(v, id, bytes)
         \/ StoreBroadcastInvalid(v, id)
         \/ CommitLoadRejected(v, fp)
         \/ CommitStoreRejected(v, bytes)
         \/ CommitAmoRejected(v, fp, bytes)
         \/ CommitOtherRejected(v)
  PROVE  Abstract!Reject
<1>1. Running /\ ~Running' /\ UNCHANGED memory
  BY DEF LoadExecuteTooBig, LoadExecuteMeetsInvalid, LoadExecuteHangs, LoadCommitInvalid,
         LoadCommitCrashes, LoadCommit, StoreCommitRejected, StoreBroadcastInvalid,
         CommitLoadRejected, CommitStoreRejected, CommitAmoRejected, CommitOtherRejected,
         Running
<1> QED BY <1>1, EndIsReject

\* A step that changes nothing changes nothing of the abstract state.
LEMMA StutterIsStutter ==
  ASSUME UNCHANGED vars
  PROVE  UNCHANGED Abstract!vars
<1>1. UNCHANGED <<memory, loads, loadFresh, stores, storeHead, storeFresh, status>>
  BY DEF vars, loadVars, storeVars
<1>2. Running' <=> Running
  BY <1>1 DEF Running
<1>3. UNCHANGED takenBar /\ UNCHANGED readsBar /\ UNCHANGED pendingBar
  BY <1>1, <1>2 DEF takenBar, readsBar, pendingBar, FreshStoreValid
<1>4. \A v \in Views : StoreList(v)' = StoreList(v)
  BY <1>1 DEF StoreList, IsWalk
<1>5. UNCHANGED bufferBar
  BY <1>1, <1>2, <1>4 DEF bufferBar
<1> QED BY <1>1, <1>2, <1>3, <1>5 DEF Abstract!vars

\* A step of the view is a step of the store buffers.
LEMMA NextIsAbstractNext ==
  ASSUME Invariant, Next
  PROVE  [Abstract!Next]_(Abstract!vars)
<1>1. PICK v \in Views : Step(v, FreeSlots(v), StoreIds)
  BY DEF Next
<1>2. CASE LoadQueueStep(v)
  <2>1. ASSUME NEW id \in LoadIds, NEW fp \in Footprints, LoadExecute(v, id, fp)
        PROVE  Abstract!Next
    BY <2>1, LoadExecuteIsRead DEF Abstract!Next
  <2>2. ASSUME NEW id \in LoadIds, LoadCommit(v, id), Running'
        PROVE  Abstract!Next
    BY <2>2, LoadCommitIsTake DEF Abstract!Next
  <2>3. LoadFlush(v) => Abstract!Next
    BY LoadFlushIsSquash DEF Abstract!Next
  <2> QED BY <1>2, <2>1, <2>2, <2>3, EndingsAreReject DEF LoadQueueStep, Abstract!Next
<1>3. CASE StoreQueueStep(v, FreeSlots(v), StoreIds)
  <2>1. ASSUME NEW id \in FreeSlots(v), NEW fp \in Footprints, NEW bytes \in [fp -> Byte],
               StoreCommit(v, id, bytes)
        PROVE  Abstract!Next
    <3>1. bytes \in Abstract!Writes
      BY DEF Abstract!Writes
    <3> QED BY <2>1, <3>1, StoreCommitIsPut DEF Abstract!Next
  <2>2. ASSUME NEW id \in StoreIds, StoreBroadcast(v, id)
        PROVE  Abstract!Next
    BY <2>2, StoreBroadcastIsDrain DEF Abstract!Next
  <2> QED BY <1>3, <2>1, <2>2, EndingsAreReject DEF StoreQueueStep, Abstract!Next
<1>4. CASE SpikeStep(v)
  <2>1. Abstract!Retire(v) => Abstract!Next
    BY DEF Abstract!Next
  <2>2. CommitOther(v) => UNCHANGED Abstract!vars
    BY StutterIsStutter DEF CommitOther
  <2> QED BY <1>4, <2>1, <2>2, CommitsAreRetires, EndingsAreReject DEF SpikeStep, Abstract!Next
<1> QED BY <1>1, <1>2, <1>3, <1>4 DEF Step

\* The refinement: for every number of harts, slots, addresses and values, what
\* the linked list and the array of CpuMemoryView do is what store buffers do,
\* so every load Spike is given has the value CoherentMemory says.
THEOREM ImplementsCoherentMemory == Spec => Implements
<1>1. Init => Abstract!Init
  BY InitIsAbstractInit
<1>2. Invariant /\ [Next]_vars => [Abstract!Next]_(Abstract!vars)
  BY NextIsAbstractNext, StutterIsStutter
<1>3. Spec => []Invariant
  BY DisciplinedInvariant, PTL DEF Invariant
<1> QED BY <1>1, <1>2, <1>3, PTL DEF Spec, Implements, Abstract!Spec
=============================================================================
