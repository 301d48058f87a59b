-------------------------- MODULE MCCoherenceOrder --------------------------
(***************************************************************************)
(* An instance of CoherenceOrder for TLC: two harts that share one byte.   *)
(***************************************************************************)
EXTENDS CoherenceOrder, TLC

Versions == 0 .. MaxVersion
OneByte  == {{1}}

Symmetry ==
  Permutations(Views) \cup Permutations(LoadIds) \cup Permutations(StoreIds)

\* Nothing reads the state of a run that is over, nor the dead slots.
LiveHistory ==
  IF ~Running THEN <<status>>
  ELSE <<memory, loadsInflightCount, loadFresh, storeHead, storeLast, storeFresh,
         [v \in Views |-> [i \in 0 .. (loadsInflightCount[v] - 1) |-> loadsInflight[v][i]]],
         [v \in Views |-> {<<l, loads[v][l]>> : l \in {m \in LoadIds : loads[v][m].valid}}],
         [v \in Views |-> {<<s, stores[v][s]>> : s \in {t \in StoreIds : stores[v][t].valid}}],
         historyVars>>
=============================================================================
