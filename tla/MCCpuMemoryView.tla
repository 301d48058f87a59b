-------------------------- MODULE MCCpuMemoryView --------------------------
(***************************************************************************)
(* Instances of CpuMemoryView for TLC: one view or two, and queues of two  *)
(* or three slots.  The ids, the views and the values are symmetric.       *)
(***************************************************************************)
EXTENDS CpuMemoryView, TLC

\* Accesses of one byte and of two, so that they overlap partly.
Nested   == {{1}, {1, 2}}
OneByte  == {{1}}

Symmetry ==
  Permutations(Views) \cup Permutations(LoadIds) \cup Permutations(StoreIds)
    \cup Permutations(Byte)

\* The part of the state that the steps of Spec and the properties (TypeOK
\* apart) read: the fields of the valid slots, the entries of loadsInflight below
\* the count, and no more than memory once the run is over.
LiveLoad(v, l)  == IF loads[v][l].valid THEN loads[v][l] ELSE Null
LiveStore(v, s) == IF stores[v][s].valid THEN stores[v][s] ELSE Null
Live ==
  IF ~Running THEN <<status, memory>>
  ELSE <<memory,
         [v \in Views |-> [l \in LoadIds |-> LiveLoad(v, l)]],
         [v \in Views |-> [i \in 0 .. (loadsInflightCount[v] - 1) |-> loadsInflight[v][i]]],
         loadFresh,
         [v \in Views |-> [s \in StoreIds |-> LiveStore(v, s)]],
         storeHead, storeLast, storeFresh>>
=============================================================================
