------------------------------- MODULE MCRvls -------------------------------
(***************************************************************************)
(* An instance of Rvls for TLC: the hart and one other share one byte.     *)
(***************************************************************************)
EXTENDS Rvls, TLC

NoRf      == [k \in {} |-> Null]
Plain     == [rf |-> NoRf, csrs |-> {}, kind |-> "other", accesses |-> <<>>,
              mie |-> {}, atomic |-> "none", next |-> 1]
Writes(d) == [k \in {"integer"} |-> [rd |-> 1, data |-> d]]
At(w, a, d) == [write |-> w, addr |-> a, size |-> 1, data |-> d]

\* Loads, stores, and AMOs at address a.  The values are alike, so that AMOs which
\* store 0, in memory that held 0 or 1, are all there is.
Accessing(a) ==
  {[Plain EXCEPT !.accesses = <<At(FALSE, a, d)>>, !.rf = Writes(d)] : d \in Value}
  \cup {[Plain EXCEPT !.accesses = <<At(TRUE, a, d)>>] : d \in Value}
  \cup {[Plain EXCEPT !.accesses = <<At(FALSE, a, d), At(TRUE, a, 0)>>, !.rf = Writes(d)] :
           d \in Value}
SmallInstructions == {Plain} \cup Accessing(0)

Symmetry == Permutations(StoreIds)

SmallRegions == {[type |-> "mem", base |-> 0, size |-> 1]}
OneByte      == {{0}}

\* What the steps and the properties read.  With MaxReports = 1 the history of the
\* reports follows from the valid ones; no instruction here is atomic, accesses IO or
\* writes a float register or a CSR.
LiveLoad(l)     == IF loads[Self][l].valid THEN loads[Self][l] ELSE Null
LiveStore(v, s) == IF stores[v][s].valid THEN stores[v][s] ELSE Null
Live ==
  IF ~Running THEN <<hartStatus, viewStatus>>
  ELSE <<IF rf["integer"].valid THEN rf["integer"].data ELSE Null, rf["float"].valid,
         regions, pc, memory,
         [l \in LoadIds |-> LiveLoad(l)], loadsInflightCount[Self],
         [i \in 0 .. (loadsInflightCount[Self] - 1) |-> loadsInflight[Self][i]],
         loadFresh, [v \in Views |-> [s \in StoreIds |-> LiveStore(v, s)]],
         storeHead, storeLast, storeFresh>>
=============================================================================
