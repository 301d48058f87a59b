--------------------------- MODULE CoherenceOrder ---------------------------
(***************************************************************************)
(* CpuMemoryView with the history a property about coherence needs.  The   *)
(* values of a byte are versions: each store of the system writes a        *)
(* version of its own.  The order in which the versions of a byte reach    *)
(* memory is recorded, and the last version each view itself stored.       *)
(***************************************************************************)
EXTENDS CpuMemoryView

CONSTANT MaxVersion   \* bound: how many stores a behaviour has

ASSUME VersionAssumption == MaxVersion \in Nat /\ Byte = 0 .. MaxVersion

VARIABLES
  version,    \* the last version a store has written
  order,      \* of each byte: its versions, in the order memory took them
  own         \* of each view and byte: what the last store it retired has written, or Null

historyVars == <<version, order, own>>

HInit ==
  /\ Init
  /\ memory = [a \in Addr |-> 0]
  /\ version = 0
  /\ order = [a \in Addr |-> <<0>>]
  /\ own = [v \in Views |-> [a \in Addr |-> Null]]

HStoreCommit(v, id, fp) ==
  /\ version < MaxVersion
  /\ LET bytes == [a \in fp |-> version + 1]
     IN  StoreCommit(v, id, bytes) \/ StoreCommitRejected(v, id, bytes)
  /\ version' = version + 1
  /\ UNCHANGED <<order, own>>

HStoreBroadcast(v, id) ==
  /\ StoreBroadcast(v, id)
  /\ order' = [a \in Addr |->
       IF a \in DOMAIN stores[v][id].bytes
       THEN Append(order[a], stores[v][id].bytes[a]) ELSE order[a]]
  /\ UNCHANGED <<version, own>>

\* The store Spike has just executed and compared, if there is one, is retired.
HSpikeStep(v) ==
  /\ SpikeStep(v)
  /\ own' = [own EXCEPT ![v] =
       IF storeFresh[v] # Null /\ storeFresh'[v] = Null
       THEN [a \in Addr |->
               IF a \in DOMAIN stores[v][storeFresh[v]].bytes
               THEN stores[v][storeFresh[v]].bytes[a] ELSE @[a]]
       ELSE @]
  /\ UNCHANGED <<version, order>>

HNext ==
  \E v \in Views :
    \/ LoadQueueStep(v) /\ UNCHANGED historyVars
    \/ \E id \in FreeSlots(v), fp \in Footprints : HStoreCommit(v, id, fp)
    \/ \E id \in Leaving(v) :
         HStoreBroadcast(v, id) \/ (StoreBroadcastInvalid(v, id) /\ UNCHANGED historyVars)
    \/ HSpikeStep(v)

HSpec == HInit /\ [][HNext]_<<vars, historyVars>>

\* The versions of a in the order of memory from w on, w itself included.
From(a, w) ==
  {order[a][i] : i \in {j \in 1 .. Len(order[a]) :
                          \E k \in 1 .. j : order[a][k] = w}}

\* The versions of a that view v still buffers, from w on in program order.
Buffered(v, a, w) ==
  {x \in {stores[v][s].bytes[a] : s \in {t \in StoreIds :
             stores[v][t].valid /\ a \in DOMAIN stores[v][t].bytes}} : x >= w}

\* Coherence of a hart with its own stores, across harts.  Once a hart has retired a
\* store to a byte, none of its unretired loads still holds a version of this
\* byte that is older, in the order in which memory takes the versions: a load
\* that executed before its older store was committed is repaired by the bypass
\* in CpuMemoryView::store, one that executed after by the walk of loadExecute,
\* and neither repair hides what another hart broadcast later.
ReadsOwnWrites ==
  Running => \A v \in Views, l \in LoadIds :
    loads[v][l].valid =>
      \A a \in DOMAIN loads[v][l].bytes :
        own[v][a] # Null =>
          loads[v][l].bytes[a] \in From(a, own[v][a]) \cup Buffered(v, a, own[v][a])
=============================================================================
