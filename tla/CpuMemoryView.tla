--------------------------- MODULE CpuMemoryView ---------------------------
(***************************************************************************)
(* The memory views of src/coherency.{hpp,cpp}.  Every hart of the design  *)
(* under test (DUT) has one view over the memory that all harts share.  A  *)
(* view replays the DUT's load queue and store queue from the trace        *)
(* ("load exe/com/flu", "store com/bro"), and hands the reference model    *)
(* Spike the value each load really observed.                              *)
(*                                                                         *)
(* The stores that wait for their broadcast are a doubly linked list       *)
(* threaded through the slots of `stores`; the loads that may still be     *)
(* bypassed are an unordered array `loadsInflight` from which an entry is  *)
(* removed by moving the last one into its place.                          *)
(*                                                                         *)
(* The data of an access is the function `bytes` from the addresses it     *)
(* covers to their values: its DOMAIN stands for the fields addr and len.  *)
(* The index arithmetic this hides is in module Access.                    *)
(***************************************************************************)
EXTENDS Naturals, Sequences, FiniteSets

CONSTANTS
  Views,        \* the memory views, one per hart
  LoadIds,      \* load queue ids of a view; Cardinality(LoadIds) is readIds
  StoreIds,     \* store queue ids of a view; Cardinality(StoreIds) is writeIds
  Addr,         \* byte addresses
  Byte,         \* values of a byte
  Footprints,   \* the sets of addresses an access may cover
  MaxLen,       \* the most bytes an access may have (8 in the code)
  Null          \* the NULL pointer

ASSUME IdsAssumption ==
  /\ IsFiniteSet(LoadIds) /\ IsFiniteSet(StoreIds)
  /\ Null \notin LoadIds /\ Null \notin StoreIds
ASSUME DataAssumption == Footprints \subseteq SUBSET Addr /\ MaxLen \in Nat

VARIABLES
  memory,               \* the content of Memory, shared by the views
  loads,                \* the slots of the load queue
  loadsInflight,        \* array: the slots of the executed, uncommitted loads
  loadsInflightCount,   \* how many entries of loadsInflight are in use
  loadFresh,            \* the committed load Spike has not asked for yet
  stores,               \* the slots of the store queue, with their list links
  storeHead, storeLast, \* the oldest and the newest store of the list
  storeFresh,           \* the committed store Spike has not produced yet
  status                \* of the checker, see Status

loadVars  == <<loads, loadsInflight, loadsInflightCount, loadFresh>>
storeVars == <<stores, storeHead, storeLast, storeFresh>>
vars      == <<memory, loadVars, storeVars, status>>

(***************************************************************************)
(* "failed": a handler threw, and the frontend stops.  "crashed": an out   *)
(* of bounds access killed the process.  "hung": a handler loops for ever. *)
(***************************************************************************)
Status  == {"running", "failed", "crashed", "hung"}
Running == status = "running"

NoBytes == [a \in {} |-> Null]
Data    == UNION {[fp -> Byte] : fp \in {f \in Footprints : Cardinality(f) <= MaxLen} \cup {{}}}
Load    == [valid : BOOLEAN, bytes : Data, userId : Nat]
Store   == [valid : BOOLEAN, bytes : Data,
            previous : StoreIds \cup {Null}, next : StoreIds \cup {Null}]
Indices == 0 .. (Cardinality(LoadIds) - 1)

TypeOK ==
  /\ memory \in [Addr -> Byte]
  /\ loads \in [Views -> [LoadIds -> Load]]
  /\ loadsInflight \in [Views -> [Indices -> LoadIds \cup {Null}]]
  /\ loadsInflightCount \in [Views -> Nat]
  /\ loadFresh \in [Views -> LoadIds \cup {Null}]
  /\ stores \in [Views -> [StoreIds -> Store]]
  /\ storeHead \in [Views -> StoreIds \cup {Null}]
  /\ storeLast \in [Views -> StoreIds \cup {Null}]
  /\ storeFresh \in [Views -> StoreIds \cup {Null}]
  /\ status \in Status

\* The constructor: vector::resize value-initialises the slots.
Init ==
  /\ memory \in [Addr -> Byte]
  /\ loads = [v \in Views |-> [l \in LoadIds |->
       [valid |-> FALSE, bytes |-> NoBytes, userId |-> 0]]]
  /\ loadsInflight = [v \in Views |-> [i \in Indices |-> Null]]
  /\ loadsInflightCount = [v \in Views |-> 0]
  /\ loadFresh = [v \in Views |-> Null]
  /\ stores = [v \in Views |-> [s \in StoreIds |->
       [valid |-> FALSE, bytes |-> NoBytes, previous |-> Null, next |-> Null]]]
  /\ storeHead = [v \in Views |-> Null]
  /\ storeLast = [v \in Views |-> Null]
  /\ storeFresh = [v \in Views |-> Null]
  /\ status = "running"

-----------------------------------------------------------------------------
(***************************************************************************)
(* The list of stores.                                                     *)
(***************************************************************************)

StoreSeqs == UNION {[1 .. n -> StoreIds] : n \in 0 .. Cardinality(StoreIds)}

\* q is what a walk from storeHead along `next` visits before it meets NULL.
IsWalk(v, q) ==
  /\ storeHead[v] = IF Len(q) = 0 THEN Null ELSE q[1]
  /\ \A i \in 1 .. Len(q) :
       stores[v][q[i]].next = IF i = Len(q) THEN Null ELSE q[i + 1]

WalkEnds(v)  == \E q \in StoreSeqs : IsWalk(v, q)
StoreList(v) == CHOOSE q \in StoreSeqs : IsWalk(v, q)

\* q is what such a walk visits up to the first store that is not valid.
StopsAt(v, q) ==
  /\ Len(q) > 0 /\ storeHead[v] = q[1] /\ ~stores[v][q[Len(q)]].valid
  /\ \A i \in 1 .. (Len(q) - 1) : stores[v][q[i]].valid /\ stores[v][q[i]].next = q[i + 1]

\* The places in q of the stores that write a, and the last of some places.
Covering(v, q, a) == {i \in 1 .. Len(q) : a \in DOMAIN stores[v][q[i]].bytes}
\* Mutant: the list is walked from its newest store to its oldest.
Newest_Reversed(I) == CHOOSE i \in I : \A j \in I : i <= j

Newest(I)         == CHOOSE i \in I : \A j \in I : j <= i

\* Mutant: the stores that wait for their broadcast are not looked at.
Observed_MemoryOnly(v, q, fp) == [a \in fp |-> memory[a]]

(***************************************************************************)
(* What a load of fp observes: memory, overwritten by the stores of q from *)
(* the oldest to the newest, so that the newest one covering a byte wins.  *)
(***************************************************************************)
Observed(v, q, fp) ==
  [a \in fp |->
     LET hits == Covering(v, q, a)
     IN  IF hits = {} THEN memory[a] ELSE stores[v][q[Newest(hits)]].bytes[a]]

\* `new` written over `old`: the bytes of `old` that `new` covers change.
\* Memory::write, and Access::bypass of a store into a load, both do this.
Overwrite(new, old) ==
  [a \in DOMAIN old |-> IF a \in DOMAIN new THEN new[a] ELSE old[a]]

\* Mutant: the length of an access is not checked against the slot's buffer.
Fits_Any(fp) == TRUE

Fits(fp) == Cardinality(fp) <= MaxLen

Inflight(v) == {loadsInflight[v][i] : i \in 0 .. (loadsInflightCount[v] - 1)}

-----------------------------------------------------------------------------
(***************************************************************************)
(* The interface of the DUT: one action per trace command.                 *)
(***************************************************************************)

\* The DUT reads the cache for load id.  The first execution enters the load
\* in loadsInflight; a later one (a replay) only refreshes its bytes.
LoadExecute(v, id, fp) ==
  /\ Running
  /\ Fits(fp)
  /\ WalkEnds(v)
  /\ \A i \in 1 .. Len(StoreList(v)) : stores[v][StoreList(v)[i]].valid
  /\ loads' = [loads EXCEPT ![v][id] =
       [valid  |-> TRUE,
        bytes  |-> Observed(v, StoreList(v), fp),
        userId |-> IF @.valid THEN @.userId ELSE loadsInflightCount[v]]]
  /\ IF loads[v][id].valid
     THEN UNCHANGED <<loadsInflight, loadsInflightCount>>
     ELSE /\ loadsInflight' = [loadsInflight EXCEPT ![v][loadsInflightCount[v]] = id]
          /\ loadsInflightCount' = [loadsInflightCount EXCEPT ![v] = @ + 1]
  /\ UNCHANGED <<memory, loadFresh, storeVars, status>>

LoadExecuteTooBig(v, id, fp) ==
  /\ Running
  /\ ~Fits(fp)
  /\ status' = "failed"
  /\ UNCHANGED <<memory, loadVars, storeVars>>

\* The walk meets a store that is not valid, having applied the ones before it.
LoadExecuteMeetsInvalid(v, id, fp) ==
  /\ Running
  /\ Fits(fp)
  /\ \E q \in StoreSeqs :
       /\ StopsAt(v, q)
       /\ loads' = [loads EXCEPT ![v][id].bytes = Observed(v, SubSeq(q, 1, Len(q) - 1), fp)]
  /\ status' = "failed"
  /\ UNCHANGED <<memory, loadsInflight, loadsInflightCount, loadFresh, storeVars>>

\* `next` leads back to a store the walk has left already, past valid ones only.
LoadExecuteHangs(v, id, fp) ==
  /\ Running
  /\ Fits(fp)
  /\ ~WalkEnds(v) /\ ~\E q \in StoreSeqs : StopsAt(v, q)
  /\ status' = "hung"
  /\ UNCHANGED <<memory, loadVars, storeVars>>

\* Mutant: the moved load is not told its new place.
RemoveInflight_StalePlace(v, id) ==
  LET slot == loads[v][id].userId
      last == loadsInflight[v][loadsInflightCount[v] - 1]
  IN  /\ loadsInflightCount' = [loadsInflightCount EXCEPT ![v] = @ - 1]
      /\ loadsInflight' = [loadsInflight EXCEPT ![v][slot] = last]
      /\ UNCHANGED loads

\* The last entry of loadsInflight takes the place of load id.
RemoveInflight(v, id) ==
  LET slot == loads[v][id].userId
      last == loadsInflight[v][loadsInflightCount[v] - 1]
  IN  /\ loadsInflightCount' = [loadsInflightCount EXCEPT ![v] = @ - 1]
      /\ loadsInflight' = [loadsInflight EXCEPT ![v][slot] = last]
      /\ loads' = [loads EXCEPT ![v][last].userId = slot]

LoadCommit(v, id) ==
  /\ Running
  /\ loads[v][id].valid
  /\ loadsInflightCount[v] > 0
  /\ RemoveInflight(v, id)
  /\ IF loadFresh[v] = Null
     THEN loadFresh' = [loadFresh EXCEPT ![v] = id] /\ UNCHANGED status
     ELSE UNCHANGED loadFresh /\ status' = "failed"
  /\ UNCHANGED <<memory, storeVars>>

LoadCommitInvalid(v, id) ==
  /\ Running
  /\ ~loads[v][id].valid
  /\ status' = "failed"
  /\ UNCHANGED <<memory, loadVars, storeVars>>

\* loadsInflightCount wraps around and indexes loadsInflight out of bounds.
LoadCommitCrashes(v, id) ==
  /\ Running
  /\ loads[v][id].valid
  /\ loadsInflightCount[v] = 0
  /\ status' = "crashed"
  /\ UNCHANGED <<memory, loadVars, storeVars>>

LoadFlush(v) ==
  /\ Running
  /\ loads' = [loads EXCEPT ![v] = [l \in LoadIds |->
       IF l \in Inflight(v) THEN [@[l] EXCEPT !.valid = FALSE] ELSE @[l]]]
  /\ loadsInflightCount' = [loadsInflightCount EXCEPT ![v] = 0]
  /\ UNCHANGED <<memory, loadsInflight, loadFresh, storeVars, status>>

\* A store is appended to the list, and becomes visible to its own loads.
StoreCommit(v, id, bytes) ==
  /\ Running
  /\ Fits(DOMAIN bytes)
  /\ storeFresh[v] = Null
  /\ stores' = [stores EXCEPT ![v] = [s \in StoreIds |->
       LET filled == IF s = id
                     THEN [valid |-> TRUE, bytes |-> bytes,
                           previous |-> storeLast[v], next |-> Null]
                     ELSE @[s]
       IN  IF s = storeLast[v] THEN [filled EXCEPT !.next = id] ELSE filled]]
  /\ storeHead' = [storeHead EXCEPT ![v] = IF storeLast[v] = Null THEN id ELSE @]
  /\ storeLast' = [storeLast EXCEPT ![v] = id]
  /\ storeFresh' = [storeFresh EXCEPT ![v] = id]
  /\ UNCHANGED <<memory, loadVars, status>>

\* The slot is overwritten before the check of storeFresh throws.
StoreCommitRejected(v, id, bytes) ==
  /\ Running
  /\ \/ ~Fits(DOMAIN bytes) /\ UNCHANGED stores
     \/ /\ Fits(DOMAIN bytes)
        /\ storeFresh[v] # Null
        /\ stores' = [stores EXCEPT ![v][id] =
                        [@ EXCEPT !.valid = TRUE, !.bytes = bytes]]
  /\ status' = "failed"
  /\ UNCHANGED <<memory, loadVars, storeHead, storeLast, storeFresh>>

\* Mutant: the next store keeps its link to the one that left.
Unlinked_OneWay(v, id) ==
  LET st == stores[v][id]
  IN  [s \in StoreIds |->
         [stores[v][s] EXCEPT
            !.next  = IF s = st.previous THEN st.next ELSE @,
            !.valid = IF s = id THEN FALSE ELSE @]]

Unlinked(v, id) ==
  LET st == stores[v][id]
  IN  [s \in StoreIds |->
         [stores[v][s] EXCEPT
            !.previous = IF s = st.next THEN st.previous ELSE @,
            !.next     = IF s = st.previous THEN st.next ELSE @,
            !.valid    = IF s = id THEN FALSE ELSE @]]

\* The store leaves the view's list and becomes visible to every view.
StoreBroadcast(v, id) ==
  LET st == stores[v][id]
  IN  /\ Running
      /\ st.valid
      /\ memory' = Overwrite(st.bytes, memory)
      /\ stores' = [stores EXCEPT ![v] = Unlinked(v, id)]
      /\ storeLast' = [storeLast EXCEPT ![v] = IF st.next = Null THEN st.previous ELSE @]
      /\ storeHead' = [storeHead EXCEPT ![v] = IF st.previous = Null THEN st.next ELSE @]
      /\ UNCHANGED <<loadVars, storeFresh, status>>

StoreBroadcastInvalid(v, id) ==
  /\ Running
  /\ ~stores[v][id].valid
  /\ status' = "failed"
  /\ UNCHANGED <<memory, loadVars, storeVars>>

-----------------------------------------------------------------------------
(***************************************************************************)
(* The interface of Spike.  Hart::commit lets Spike execute one            *)
(* instruction, whose accesses call load() and store(), and then calls     *)
(* step(); no trace command comes between.  One action per kind of         *)
(* instruction: it loads fp, it stores bytes, both (an AMO), or neither.   *)
(***************************************************************************)

\* Mutant: store() does not look whether the slot is still valid.
FreshStoreValid_AnySlot(v) == storeFresh[v] # Null

FreshLoadValid(v)  == loadFresh[v] # Null /\ loads[v][loadFresh[v]].valid
FreshStoreValid(v) == storeFresh[v] # Null /\ stores[v][storeFresh[v]].valid

\* load() returns without throwing, for an access of fp.
LoadAnswers(v, fp) ==
  FreshLoadValid(v) /\ DOMAIN loads[v][loadFresh[v]].bytes = fp

\* store() returns without throwing, for a store of bytes.
StoreAgrees(v, bytes) ==
  FreshStoreValid(v) /\ stores[v][storeFresh[v]].bytes = bytes

\* Mutant: store() does not bypass into the loads in flight.
LoadsAfter_NoBypass(v, consumed, bytes) ==
  [l \in LoadIds |->
     [loads[v][l] EXCEPT !.valid = IF l = consumed THEN FALSE ELSE @]]

\* The loads of view v once load() has given back the slot of `consumed`
\* (Null when it is not called) and store() has bypassed `bytes` into the
\* loads in flight (NoBytes when it is not called).
LoadsAfter(v, consumed, bytes) ==
  [l \in LoadIds |->
     [loads[v][l] EXCEPT
        !.valid = IF l = consumed THEN FALSE ELSE @,
        !.bytes = IF l \in Inflight(v) THEN Overwrite(bytes, @) ELSE @]]

\* Mutant: step() does not check the committed load.
StepClean_LoadIgnored(freshLoad, freshStore) == freshStore = Null

\* step() throws if a committed access was not consumed by the instruction.
StepClean(freshLoad, freshStore) == freshLoad = Null /\ freshStore = Null

CommitLoad(v, fp) ==
  /\ Running
  /\ LoadAnswers(v, fp)
  /\ StepClean(Null, storeFresh[v])
  /\ loads' = [loads EXCEPT ![v] = LoadsAfter(v, loadFresh[v], NoBytes)]
  /\ loadFresh' = [loadFresh EXCEPT ![v] = Null]
  /\ UNCHANGED <<memory, loadsInflight, loadsInflightCount, storeVars, status>>

CommitStore(v, bytes) ==
  /\ Running
  /\ StoreAgrees(v, bytes)
  /\ StepClean(loadFresh[v], Null)
  /\ loads' = [loads EXCEPT ![v] = LoadsAfter(v, Null, bytes)]
  /\ storeFresh' = [storeFresh EXCEPT ![v] = Null]
  /\ UNCHANGED <<memory, loadsInflight, loadsInflightCount, loadFresh,
                 stores, storeHead, storeLast, status>>

CommitAmo(v, fp, bytes) ==
  /\ Running
  /\ LoadAnswers(v, fp)
  /\ StoreAgrees(v, bytes)
  /\ loads' = [loads EXCEPT ![v] = LoadsAfter(v, loadFresh[v], bytes)]
  /\ loadFresh' = [loadFresh EXCEPT ![v] = Null]
  /\ storeFresh' = [storeFresh EXCEPT ![v] = Null]
  /\ UNCHANGED <<memory, loadsInflight, loadsInflightCount,
                 stores, storeHead, storeLast, status>>

\* An instruction with no access, or a trap: only step() is called.  It
\* changes nothing: step() returns.
CommitOther(v) ==
  /\ Running
  /\ StepClean(loadFresh[v], storeFresh[v])
  /\ UNCHANGED vars

(***************************************************************************)
(* The same when load(), store() or step() throws.  load() and store()     *)
(* clear loadFresh and storeFresh before they compare the access.          *)
(***************************************************************************)

DropFreshLoad(v) ==
  loadFresh' = [loadFresh EXCEPT ![v] = IF FreshLoadValid(v) THEN Null ELSE @]

DropFreshStore(v) ==
  storeFresh' = [storeFresh EXCEPT ![v] = IF FreshStoreValid(v) THEN Null ELSE @]

CommitLoadRejected(v, fp) ==
  /\ Running
  /\ DropFreshLoad(v)
  /\ \/ ~LoadAnswers(v, fp) /\ UNCHANGED loads
     \/ /\ LoadAnswers(v, fp)
        /\ ~StepClean(Null, storeFresh[v])
        /\ loads' = [loads EXCEPT ![v] = LoadsAfter(v, loadFresh[v], NoBytes)]
  /\ status' = "failed"
  /\ UNCHANGED <<memory, loadsInflight, loadsInflightCount, storeVars>>

CommitStoreRejected(v, bytes) ==
  /\ Running
  /\ DropFreshStore(v)
  /\ \/ ~StoreAgrees(v, bytes) /\ UNCHANGED loads
     \/ /\ StoreAgrees(v, bytes)
        /\ ~StepClean(loadFresh[v], Null)
        /\ loads' = [loads EXCEPT ![v] = LoadsAfter(v, Null, bytes)]
  /\ status' = "failed"
  /\ UNCHANGED <<memory, loadsInflight, loadsInflightCount, loadFresh,
                 stores, storeHead, storeLast>>

CommitAmoRejected(v, fp, bytes) ==
  /\ Running
  /\ DropFreshLoad(v)
  /\ \/ ~LoadAnswers(v, fp) /\ UNCHANGED <<loads, storeFresh>>
     \/ /\ LoadAnswers(v, fp)
        /\ ~StoreAgrees(v, bytes)
        /\ DropFreshStore(v)
        /\ loads' = [loads EXCEPT ![v] = LoadsAfter(v, loadFresh[v], NoBytes)]
  /\ status' = "failed"
  /\ UNCHANGED <<memory, loadsInflight, loadsInflightCount,
                 stores, storeHead, storeLast>>

CommitOtherRejected(v) ==
  /\ Running
  /\ ~StepClean(loadFresh[v], storeFresh[v])
  /\ status' = "failed"
  /\ UNCHANGED <<memory, loadVars, storeVars>>

-----------------------------------------------------------------------------
(***************************************************************************)
(* The environment.  A trace may hold the commands in any order and with   *)
(* any operands.  What the DUT promises about its store queue is given as  *)
(* the slots it may commit into and the slots it may broadcast.            *)
(***************************************************************************)

LoadQueueStep(v) ==
  \/ \E id \in LoadIds, fp \in Footprints :
       \/ LoadExecute(v, id, fp)
       \/ LoadExecuteTooBig(v, id, fp)
       \/ LoadExecuteMeetsInvalid(v, id, fp)
       \/ LoadExecuteHangs(v, id, fp)
  \/ \E id \in LoadIds :
       \/ LoadCommit(v, id)
       \/ LoadCommitInvalid(v, id)
       \/ LoadCommitCrashes(v, id)
  \/ LoadFlush(v)

StoreQueueStep(v, committable, broadcastable) ==
  \/ \E id \in committable, fp \in Footprints : \E bytes \in [fp -> Byte] :
       \/ StoreCommit(v, id, bytes)
       \/ StoreCommitRejected(v, id, bytes)
  \/ \E id \in broadcastable :
       \/ StoreBroadcast(v, id)
       \/ StoreBroadcastInvalid(v, id)

SpikeStep(v) ==
  \/ \E fp \in Footprints :
       \/ CommitLoad(v, fp)
       \/ CommitLoadRejected(v, fp)
       \/ \E bytes \in [fp -> Byte] :
            \/ CommitStore(v, bytes)
            \/ CommitStoreRejected(v, bytes)
            \/ CommitAmo(v, fp, bytes)
            \/ CommitAmoRejected(v, fp, bytes)
  \/ CommitOther(v)
  \/ CommitOtherRejected(v)

\* The slots a store queue may reuse: those that wait for no broadcast.
FreeSlots(v) == {s \in StoreIds : ~stores[v][s].valid}

\* A store may leave once no older store covers a byte of it.
Leaving(v) ==
  LET q == StoreList(v)
  IN  {s \in StoreIds : \A i \in 1 .. Len(q) : q[i] = s =>
         \A j \in 1 .. (i - 1) :
           DOMAIN stores[v][q[j]].bytes \cap DOMAIN stores[v][s].bytes = {}}

Step(v, committable, broadcastable) ==
  \/ LoadQueueStep(v)
  \/ StoreQueueStep(v, committable, broadcastable)
  \/ SpikeStep(v)

\* Any trace.
AnyNext == \E v \in Views : Step(v, StoreIds, StoreIds)
AnySpec == Init /\ [][AnyNext]_vars

\* The traces of a DUT that reuses a store slot only after its broadcast.
Next == \E v \in Views : Step(v, FreeSlots(v), StoreIds)
Spec == Init /\ [][Next]_vars

\* Those that also broadcast the overlapping stores of a view in order.
OrderedNext == \E v \in Views : Step(v, FreeSlots(v), Leaving(v))
OrderedSpec == Init /\ [][OrderedNext]_vars

-----------------------------------------------------------------------------
(***************************************************************************)
(* Properties.                                                             *)
(***************************************************************************)

\* The load queue.  The array of in-flight loads never overflows, has no hole
\* and no duplicate, each of its loads knows its own place in it, and a slot is
\* valid exactly while its load is in flight or committed and unchecked.  Then
\* the vector accesses of loadExecute and loadCommit stay in bounds and the
\* "load wasn't valid wuuut ???" of CpuMemoryView::store cannot be reached.
LoadQueueWellFormed(v) ==
  /\ loadsInflightCount[v] <= Cardinality(LoadIds)
  /\ \A i \in 0 .. (loadsInflightCount[v] - 1) :
       /\ loadsInflight[v][i] \in LoadIds
       /\ loads[v][loadsInflight[v][i]].userId = i
  /\ \A l \in LoadIds :
       loads[v][l].valid <=> (l \in Inflight(v) \/ l = loadFresh[v])
  /\ loadFresh[v] \notin Inflight(v)

InflightWellFormed == Running => \A v \in Views : LoadQueueWellFormed(v)

\* q is the list of view v read in both directions: it holds every valid store
\* once, oldest first.
IsStoreList(v, q) ==
  /\ IsWalk(v, q)
  /\ \A i, j \in 1 .. Len(q) : q[i] = q[j] => i = j
  /\ \A s \in StoreIds : stores[v][s].valid <=> \E i \in 1 .. Len(q) : q[i] = s
  /\ storeLast[v] = IF Len(q) = 0 THEN Null ELSE q[Len(q)]
  /\ \A i \in 1 .. Len(q) :
       stores[v][q[i]].previous = IF i = 1 THEN Null ELSE q[i - 1]

\* The store queue.  The links, storeHead and storeLast always form one doubly
\* linked list of exactly the valid slots, whatever the order of commits and
\* broadcasts, and a store that Spike has yet to check is its newest entry.
\* Then the walk of loadExecute ends and meets valid stores only.
StoreQueueWellFormed(v) ==
  /\ \E q \in StoreSeqs : IsStoreList(v, q)
  /\ FreshStoreValid(v) => storeFresh[v] = storeLast[v]

StoreListWellFormed == Running => \A v \in Views : StoreQueueWellFormed(v)

\* Store to load forwarding.  A load of the view holds, for each byte covered by
\* a store that has retired and waits for its broadcast, the value of the newest
\* such store, whether the load executed after that store was committed (the
\* walk of loadExecute) or before (the bypass in CpuMemoryView::store).  For a
\* byte of a store Spike has yet to check, the value of that store will do too.
ForwardingSound ==
  Running => \A v \in Views, l \in LoadIds :
    loads[v][l].valid =>
      LET q == StoreList(v)
          fresh(s) == s = storeFresh[v]
      IN  \A a \in DOMAIN loads[v][l].bytes :
            LET hits == {i \in Covering(v, q, a) : ~fresh(q[i])}
            IN  hits # {} =>
                  \/ loads[v][l].bytes[a] = stores[v][q[Newest(hits)]].bytes[a]
                  \/ /\ FreshStoreValid(v)
                     /\ a \in DOMAIN stores[v][storeFresh[v]].bytes
                     /\ loads[v][l].bytes[a] = stores[v][storeFresh[v]].bytes[a]

\* A store that became visible to the other harts before Spike executed it is
\* never accepted as the store of an instruction: the run fails instead.
UncheckedStoreNeverAccepted ==
  [][\A v \in Views :
       (storeFresh[v] # Null /\ ~stores[v][storeFresh[v]].valid /\ Running')
         => storeFresh'[v] = storeFresh[v]]_vars

\* A load and a store that are both committed belong to one instruction: Spike
\* takes both of them at once or the run fails.  So no store of a younger
\* instruction is bypassed while the load of an older one waits to be checked.
FreshAccessesLeaveTogether ==
  [][\A v \in Views :
       (loadFresh[v] # Null /\ storeFresh[v] # Null /\ Running')
         => (loadFresh'[v] = Null <=> storeFresh'[v] = Null)]_vars

\* A trace that keeps the load queue's protocol broken or not, the checker
\* answers with a diagnostic and never by an out of bounds access: the check
\* "loadFresh was valid ???" of loadCommit is there for that.
NeverCrashes == status # "crashed"
=============================================================================
