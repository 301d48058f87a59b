------------------------- MODULE CpuMemoryViewImpl -------------------------
(***************************************************************************)
(* The linked list and the array of CpuMemoryView implement the store      *)
(* buffer and the set of reads of CoherentMemory, for every trace of a DUT *)
(* that reuses a store slot only after its broadcast.                      *)
(***************************************************************************)
EXTENDS CpuMemoryView

\* The run that failed, crashed or hung is one rejected run.
bufferBar == [v \in Views |->
  IF Running THEN [i \in 1 .. Len(StoreList(v)) |-> stores[v][StoreList(v)[i]].bytes]
  ELSE <<>>]

readsBar == [v \in Views |->
  [l \in {m \in LoadIds : Running /\ loads[v][m].valid} |-> loads[v][l].bytes]]

takenBar == [v \in Views |-> IF Running THEN loadFresh[v] ELSE Null]

pendingBar == [v \in Views |->
  IF ~Running \/ storeFresh[v] = Null THEN "none"
  ELSE IF FreshStoreValid(v) THEN "buffered" ELSE "drained"]

Abstract == INSTANCE CoherentMemory WITH
  mem <- memory, buffer <- bufferBar, reads <- readsBar,
  taken <- takenBar, pending <- pendingBar, open <- Running

\* CpuMemoryView is a correct implementation of the store buffers: every load
\* Spike is given has the value CoherentMemory says, in every interleaving of
\* the views' commands.
Implements == Abstract!Spec
=============================================================================
