---------------------------- MODULE Rvls_proofs ----------------------------
(***************************************************************************)
(* The hart and the views put together.  The composition behaves as each   *)
(* of its parts does, so that their theorems hold in it; together they     *)
(* give what relates the two, from the reports of the DUT to its buffers.  *)
(***************************************************************************)
EXTENDS Rvls, TLAPS

\* The theorems of the parts.
HT == INSTANCE Hart_proofs WITH status <- hartStatus
VT == INSTANCE CpuMemoryView_proofs WITH status <- viewStatus, Byte <- Value

-----------------------------------------------------------------------------
(***************************************************************************)
(* The composition behaves as a hart, and as the views.                    *)
(***************************************************************************)

LEMMA AccessesOf ==
  ASSUME NEW i \in Instructions
  PROVE  /\ Len(i.accesses) \in Nat
         /\ Loads(i) => 1 \in 1 .. Len(i.accesses) /\ ~i.accesses[1].write
         /\ Loads(i) \/ Stores(i) =>
              /\ Footprint(i) \in Footprints
              /\ StoreBytes(i) \in [Footprint(i) -> Value]
<1>1. i \in H!Instruction
  BY CompositionAssumption DEF H!SpikeAssumption
<1>2. i.accesses \in Seq(H!Access)
  BY <1>1 DEF H!Instruction
<1>3. Len(i.accesses) \in Nat /\ \A k \in 1 .. Len(i.accesses) : i.accesses[k] \in H!Access
  BY <1>2
<1>4. \A k \in 1 .. Len(i.accesses) : i.accesses[k].data \in Value /\ i.accesses[k].addr \in Addr
  BY <1>3, CompositionAssumption DEF H!Access
<1>5. ASSUME Loads(i) \/ Stores(i)
      PROVE  1 \in 1 .. Len(i.accesses) /\ Len(i.accesses) \in 1 .. Len(i.accesses)
  BY <1>3, <1>5 DEF Loads, Stores
<1>6. ASSUME Loads(i) PROVE ~i.accesses[1].write
  <2>1. PICK k \in 1 .. Len(i.accesses) : ~i.accesses[k].write
    BY <1>6 DEF Loads
  <2>2. k \in {1, 2} /\ (k = 2 => i.accesses[k].write)
    BY <1>3, CompositionAssumption
  <2> QED BY <2>1, <2>2
<1>7. ASSUME Loads(i) \/ Stores(i)
      PROVE  Footprint(i) \in Footprints /\ StoreBytes(i) \in [Footprint(i) -> Value]
  BY <1>4, <1>5, <1>7, CompositionAssumption DEF Footprint, StoreBytes
<1> QED BY <1>3, <1>5, <1>6, <1>7

\* What Spike's execution of i calls in the view is a step of Spike there.
LEMMA SpikeStepsOfSelf ==
  ASSUME NEW i \in Instructions, Serves(i) \/ Unclean(i) \/ Refuses(i)
  PROVE  V!SpikeStep(Self) \/ UNCHANGED viewVars
<1>1. CASE ~Loads(i) /\ ~Stores(i)
  BY <1>1 DEF Serves, Unclean, Refuses, V!SpikeStep
<1>2. CASE Loads(i) \/ Stores(i)
  <2>1. Footprint(i) \in Footprints /\ StoreBytes(i) \in [Footprint(i) -> Value]
    BY <1>2, AccessesOf
  <2>2. \/ V!CommitLoad(Self, Footprint(i)) \/ V!CommitLoadRejected(Self, Footprint(i))
        \/ V!CommitStore(Self, StoreBytes(i)) \/ V!CommitStoreRejected(Self, StoreBytes(i))
        \/ V!CommitAmo(Self, Footprint(i), StoreBytes(i))
        \/ V!CommitAmoRejected(Self, Footprint(i), StoreBytes(i))
        \/ UNCHANGED viewVars
    BY <1>2 DEF Serves, Unclean, Refuses
  <2> QED BY <2>1, <2>2 DEF V!SpikeStep
<1> QED BY <1>1, <1>2

LEMMA ViewSteps == Next => V!OrderedNext \/ UNCHANGED viewVars
<1>1. ASSUME NEW p \in Pcs, Commit(p) PROVE V!SpikeStep(Self) \/ UNCHANGED viewVars
  <2>1. \/ \E i \in Instructions : Serves(i) \/ Unclean(i) \/ Refuses(i)
        \/ StepReturns \/ StepThrows \/ UNCHANGED viewVars
    BY <1>1 DEF Commit
  <2> QED BY <2>1, SpikeStepsOfSelf DEF StepReturns, StepThrows, V!SpikeStep
<1>2. ASSUME NEW t \in H!Trap, TakeTrap(t) PROVE V!SpikeStep(Self) \/ UNCHANGED viewVars
  <2>1. \/ \E i \in Instructions : Serves(i) \/ Unclean(i) \/ Refuses(i)
        \/ StepReturns \/ StepThrows
    BY <1>2 DEF TakeTrap
  <2> QED BY <2>1, SpikeStepsOfSelf DEF StepReturns, StepThrows, V!SpikeStep
<1>3. ViewCommand \/ OtherHart => V!OrderedNext
  BY CompositionAssumption DEF ViewCommand, OtherHart, V!OrderedNext, V!Step
<1>4. V!SpikeStep(Self) => V!OrderedNext
  BY CompositionAssumption DEF V!OrderedNext, V!Step
<1> QED BY <1>1, <1>2, <1>3, <1>4 DEF Next, HartCommand

LEMMA HartSteps == Next => H!Next \/ UNCHANGED hartVars
<1>1. ASSUME NEW p \in Pcs, Commit(p) PROVE H!Next
  <2>1. H!CommitStep(p)
    BY <1>1 DEF Commit, H!CommitStep
  <2> QED BY <2>1 DEF H!Next
<1>2. ASSUME NEW t \in H!Trap, TakeTrap(t) PROVE H!Next
  <2>1. H!TrapStep(t)
    BY <1>2 DEF TakeTrap, H!TrapStep
  <2> QED BY <2>1 DEF H!Next
<1> QED BY <1>1, <1>2 DEF Next, HartCommand, ViewCommand, OtherHart, H!Next

\* What happens between a hart's view and the others is a behaviour of the views
\* alone, whatever the hart does: all that is true of them is true here.
THEOREM BehavesAsViews == Spec => V!OrderedSpec
<1>1. Init => V!Init
  BY DEF Init
<1>2. [Next]_vars => [V!OrderedNext]_(V!vars)
  BY ViewSteps DEF vars, viewVars, V!vars, V!loadVars, V!storeVars
<1> QED BY <1>1, <1>2, PTL DEF Spec, V!OrderedSpec

\* The hart next to its view is a behaviour of the hart alone, whatever the view
\* answers: all that is true of a hart is true here.
THEOREM BehavesAsHart == Spec => H!Spec
<1>1. Init => H!Init
  BY DEF Init
<1>2. [Next]_vars => [H!Next]_(H!vars)
  BY HartSteps DEF vars, hartVars, H!vars, H!hartVars, H!sifVars, H!spikeVars
<1> QED BY <1>1, <1>2, PTL DEF Spec, H!Spec

-----------------------------------------------------------------------------
(***************************************************************************)
(* The parts and their theorems are separate instances: the definitions of *)
(* one are those of the other.                                             *)
(***************************************************************************)

LEMMA SameInit == V!Init => VT!Init
BY Zenon DEF V!Init, VT!Init, V!Cardinality, VT!Cardinality, V!NoBytes, VT!NoBytes,
       V!Indices, VT!Indices

LEMMA SameNext == V!OrderedNext => VT!OrderedNext
BY Zenon DEF V!Cardinality, VT!Cardinality, V!OrderedNext, VT!OrderedNext, V!Step,
       VT!Step, V!FreeSlots, VT!FreeSlots, V!Leaving, VT!Leaving, V!LoadQueueStep,
       VT!LoadQueueStep, V!StoreQueueStep, VT!StoreQueueStep, V!SpikeStep, VT!SpikeStep,
       V!vars, VT!vars, V!loadVars, VT!loadVars, V!storeVars, VT!storeVars, V!Running,
       VT!Running, V!NoBytes, VT!NoBytes, V!Indices, VT!Indices, V!StoreSeqs,
       VT!StoreSeqs, V!IsWalk, VT!IsWalk, V!WalkEnds, VT!WalkEnds, V!StopsAt,
       VT!StopsAt, V!StoreList,
       VT!StoreList, V!Covering, VT!Covering, V!Newest, VT!Newest, V!Observed,
       VT!Observed, V!Overwrite, VT!Overwrite, V!Fits, VT!Fits, V!Inflight, VT!Inflight,
       V!LoadExecute, VT!LoadExecute, V!LoadExecuteTooBig, VT!LoadExecuteTooBig,
       V!LoadExecuteMeetsInvalid, VT!LoadExecuteMeetsInvalid, V!LoadExecuteHangs,
       VT!LoadExecuteHangs, V!RemoveInflight, VT!RemoveInflight, V!LoadCommit,
       VT!LoadCommit, V!LoadCommitInvalid, VT!LoadCommitInvalid, V!LoadCommitCrashes,
       VT!LoadCommitCrashes, V!LoadFlush, VT!LoadFlush, V!StoreCommit, VT!StoreCommit,
       V!StoreCommitRejected, VT!StoreCommitRejected, V!Unlinked, VT!Unlinked,
       V!StoreBroadcast, VT!StoreBroadcast, V!StoreBroadcastInvalid,
       VT!StoreBroadcastInvalid, V!FreshLoadValid, VT!FreshLoadValid, V!FreshStoreValid,
       VT!FreshStoreValid, V!LoadAnswers, VT!LoadAnswers, V!StoreAgrees, VT!StoreAgrees,
       V!LoadsAfter, VT!LoadsAfter, V!StepClean, VT!StepClean, V!CommitLoad,
       VT!CommitLoad, V!CommitStore, VT!CommitStore, V!CommitAmo, VT!CommitAmo,
       V!CommitOther, VT!CommitOther, V!DropFreshLoad, VT!DropFreshLoad,
       V!DropFreshStore, VT!DropFreshStore, V!CommitLoadRejected, VT!CommitLoadRejected,
       V!CommitStoreRejected, VT!CommitStoreRejected, V!CommitAmoRejected,
       VT!CommitAmoRejected, V!CommitOtherRejected, VT!CommitOtherRejected

LEMMA SameHartInit == H!Init => HT!Init
BY Zenon DEF H!Init, HT!Init, H!RfKinds, HT!RfKinds

LEMMA SameHartNext == H!Next => HT!Next
BY Zenon DEF H!Next, HT!Next,
       H!ReportStep, HT!ReportStep, H!SetupStep, HT!SetupStep, H!CommitStep,
       HT!CommitStep, H!TrapStep, HT!TrapStep, H!hartVars, HT!hartVars, H!sifVars,
       HT!sifVars, H!spikeVars, HT!spikeVars, H!vars, HT!vars, H!Running,
       HT!Running, H!Fail, HT!Fail, H!Trap, HT!Trap, H!RfKinds, HT!RfKinds, H!LogKinds, HT!LogKinds,
       H!Pending, HT!Pending, H!Maskable, HT!Maskable, H!AllCsrs, HT!AllCsrs,
       H!Word, HT!Word, H!WritesMie, HT!WritesMie, H!RegionType, HT!RegionType,
       H!Route, HT!Route, H!InWindow, HT!InWindow, H!Matches, HT!Matches, H!Served,
       HT!Served, H!Completes, HT!Completes, H!Faults, HT!Faults, H!Throws,
       HT!Throws, H!Traps, HT!Traps, H!WriteRf, HT!WriteRf, H!OtherCsr, HT!OtherCsr,
       H!WriteCsr, HT!WriteCsr, H!ReadCsr, HT!ReadCsr, H!UnknownRf, HT!UnknownRf,
       H!ScStatus, HT!ScStatus, H!IoAccess, HT!IoAccess, H!AddRegion, HT!AddRegion,
       H!SetPc, HT!SetPc, H!PhysExtend, HT!PhysExtend, H!SyncsPending,
       HT!SyncsPending, H!Synced, HT!Synced, H!Masked, HT!Masked, H!Restored,
       HT!Restored, H!SyncedCounter, HT!SyncedCounter, H!Held, HT!Held, H!MieAfter,
       HT!MieAfter, H!HeldAfter, HT!HeldAfter, H!CounterAfter, HT!CounterAfter,
       H!SameCsr, HT!SameCsr, H!CsrAgrees, HT!CsrAgrees, H!RfAgrees, HT!RfAgrees,
       H!CommitSteps, HT!CommitSteps, H!CommitRetires, HT!CommitRetires,
       H!CommitAccepted, HT!CommitAccepted, H!CommitMismatch, HT!CommitMismatch,
       H!CommitMissedTrap, HT!CommitMissedTrap, H!CommitUnclean, HT!CommitUnclean,
       H!CommitStepThrows, HT!CommitStepThrows, H!CommitWrongPc, HT!CommitWrongPc,
       H!TrapSteps, HT!TrapSteps, H!RaisedMip, HT!RaisedMip, H!TrapAccepted,
       HT!TrapAccepted, H!TrapMismatch, HT!TrapMismatch, H!TrapNotTaken,
       HT!TrapNotTaken, H!TrapStepThrows, HT!TrapStepThrows

LEMMA SameStoreList ==
  /\ V!StoreList(Self) = VT!StoreList(Self)
  /\ \A a : V!Covering(Self, V!StoreList(Self), a) = VT!Covering(Self, VT!StoreList(Self), a)
  /\ \A I : V!Newest(I) = VT!Newest(I)
BY Zenon DEF V!StoreList, VT!StoreList, V!StoreSeqs, VT!StoreSeqs, V!IsWalk, VT!IsWalk,
             V!Covering, VT!Covering, V!Newest, VT!Newest, V!Cardinality, VT!Cardinality

LEMMA SameAssumptions ==
  /\ VT!IdsAssumption /\ VT!DataAssumption
  /\ HT!WidthAssumption /\ HT!DataAssumption /\ HT!SpikeAssumption
<1>1. V!IdsAssumption => VT!IdsAssumption
  BY Zenon DEF V!IdsAssumption, VT!IdsAssumption, V!IsFiniteSet, VT!IsFiniteSet
<1>2. V!DataAssumption => VT!DataAssumption
  BY Zenon DEF V!DataAssumption, VT!DataAssumption
<1>3. H!WidthAssumption => HT!WidthAssumption
  BY Zenon DEF H!WidthAssumption, HT!WidthAssumption
<1>4. H!DataAssumption => HT!DataAssumption
  BY Zenon DEF H!DataAssumption, HT!DataAssumption, H!Trap, HT!Trap, H!AllCsrs, HT!AllCsrs
<1>5. H!SpikeAssumption => HT!SpikeAssumption
  BY Zenon DEF H!SpikeAssumption, HT!SpikeAssumption, H!Instruction, HT!Instruction,
       H!RfKinds, HT!RfKinds, H!LogKinds, HT!LogKinds, H!AllCsrs, HT!AllCsrs, H!Access, HT!Access, H!Word, HT!Word,
       H!WritesMie, HT!WritesMie
<1> QED BY <1>1, <1>2, <1>3, <1>4, <1>5, CompositionAssumption

\* What the theorems of the parts say of the composition.
PartsAreCorrect == VT!QueuesWellFormed /\ VT!ForwardingSound /\ HT!ReportsKept

LEMMA PartsInvariant == Spec => []PartsAreCorrect
<1>1. V!OrderedSpec => VT!OrderedSpec
  <2>1. [V!OrderedNext]_(V!vars) => [VT!OrderedNext]_(VT!vars)
    BY SameNext DEF V!vars, VT!vars, V!loadVars, VT!loadVars, V!storeVars, VT!storeVars
  <2> QED BY <2>1, SameInit, PTL DEF V!OrderedSpec, VT!OrderedSpec
<1>2. H!Spec => HT!Spec
  <2>1. [H!Next]_(H!vars) => [HT!Next]_(HT!vars)
    BY SameHartNext DEF H!vars, HT!vars, H!hartVars, HT!hartVars, H!sifVars, HT!sifVars,
       H!spikeVars, HT!spikeVars
  <2> QED BY <2>1, SameHartInit, PTL DEF H!Spec, HT!Spec
<1>3. VT!OrderedSpec => [](VT!QueuesWellFormed /\ VT!Forwards)
  BY VT!OrderedInvariant, SameAssumptions
<1>4. VT!OrderedSpec => []VT!ForwardingSound
  BY VT!ForwardingIsSound, SameAssumptions
<1>5. HT!Spec => [](HT!TypeOK /\ HT!ReportsKept)
  BY HT!ReportsInvariant, SameAssumptions
<1> QED BY <1>1, <1>2, <1>3, <1>4, <1>5, BehavesAsViews, BehavesAsHart, PTL DEF PartsAreCorrect

-----------------------------------------------------------------------------
(***************************************************************************)
(* What relates the two.                                                   *)
(***************************************************************************)

LEMMA RetiringStep ==
  ASSUME Next, retired' # Null
  PROVE  \/ \E p \in Pcs, i \in Instructions : \E n \in 0 .. Len(ioQueue) :
              H!CommitAccepted(p, i, n) /\ Serves(i) /\ retired' = i
         \/ StepReturns /\ retired' \notin Instructions
<1>1. CASE \E p \in Pcs : Commit(p)
  BY <1>1 DEF Commit
<1>2. ASSUME NEW t \in H!Trap, TakeTrap(t) PROVE StepReturns /\ retired' \notin Instructions
  <2>1. StepReturns /\ retired' = t
    BY <1>2 DEF TakeTrap
  <2>2. "rf" \notin DOMAIN t
    <3>1. CASE t \in [interrupt : {TRUE}, code : Bits]
      BY <3>1
    <3>2. CASE t \in [interrupt : {FALSE}, code : Codes]
      BY <3>2
    <3> QED BY <3>1, <3>2 DEF H!Trap
  <2>3. \A i \in Instructions : "rf" \in DOMAIN i
    BY CompositionAssumption DEF H!SpikeAssumption, H!Instruction
  <2> QED BY <2>1, <2>2, <2>3
<1> QED BY <1>1, <1>2 DEF Next, HartCommand, ViewCommand, OtherHart

\* load(), store() and step() give back the accesses that the DUT committed.
LEMMA ServesUsesAccesses ==
  ASSUME VT!QueuesWellFormed, NEW i \in Instructions, Serves(i)
  PROVE  /\ loadFresh'[Self] = Null /\ storeFresh'[Self] = Null
         /\ loadFresh[Self] # Null <=> Loads(i)
         /\ storeFresh[Self] # Null <=> Stores(i)
<1>1. Self \in DOMAIN loadFresh /\ Self \in DOMAIN storeFresh
  BY CompositionAssumption DEF VT!QueuesWellFormed, VT!TypeOK
<1> USE DEF V!StepClean, V!LoadAnswers, V!StoreAgrees, V!FreshLoadValid, V!FreshStoreValid,
            V!storeVars
<1>2. CASE Loads(i) /\ ~Stores(i)
  BY <1>1, <1>2 DEF Serves, V!CommitLoad
<1>3. CASE ~Loads(i) /\ Stores(i)
  BY <1>1, <1>3 DEF Serves, V!CommitStore
<1>4. CASE Loads(i) /\ Stores(i)
  BY <1>1, <1>4 DEF Serves, V!CommitAmo
<1>5. CASE ~Loads(i) /\ ~Stores(i)
  BY <1>1, <1>5 DEF Serves, V!CommitOther, V!vars, V!loadVars
<1> QED BY <1>2, <1>3, <1>4, <1>5

\* No access is left over: each one that the DUT committed is used by the instruction
\* that retires next, and none is there when a trap is taken.
THEOREM AccessesAreUsedUp == Spec => NothingLeftOver
<1>1. PartsAreCorrect /\ [Next]_vars =>
        [retired' # Null =>
           /\ loadFresh'[Self] = Null /\ storeFresh'[Self] = Null
           /\ loadFresh[Self] # Null <=> (retired' \in Instructions /\ Loads(retired'))
           /\ storeFresh[Self] # Null <=> (retired' \in Instructions /\ Stores(retired'))]_vars
  <2> SUFFICES ASSUME PartsAreCorrect, Next, retired' # Null
               PROVE  /\ loadFresh'[Self] = Null /\ storeFresh'[Self] = Null
                      /\ loadFresh[Self] # Null <=>
                           (retired' \in Instructions /\ Loads(retired'))
                      /\ storeFresh[Self] # Null <=>
                           (retired' \in Instructions /\ Stores(retired'))
    OBVIOUS
  <2>1. CASE StepReturns /\ retired' \notin Instructions
    BY <2>1 DEF StepReturns, V!CommitOther, V!StepClean, V!vars, V!loadVars, V!storeVars
  <2>2. CASE \E i \in Instructions : Serves(i) /\ retired' = i
    <3>1. PICK i \in Instructions : Serves(i) /\ retired' = i
      BY <2>2
    <3>2. /\ loadFresh'[Self] = Null /\ storeFresh'[Self] = Null
          /\ loadFresh[Self] # Null <=> Loads(i)
          /\ storeFresh[Self] # Null <=> Stores(i)
      BY <3>1, ServesUsesAccesses DEF PartsAreCorrect
    <3> QED BY <3>1, <3>2
  <2> QED BY <2>1, <2>2, RetiringStep
<1> QED BY <1>1, PartsInvariant, PTL DEF Spec, NothingLeftOver

\* What an accepted load was reported to write is what the view has answered.
LEMMA ReportIsTheAnswer ==
  ASSUME PartsAreCorrect, NEW p \in Pcs, NEW i \in Instructions, NEW n,
         H!CommitAccepted(p, i, n), Serves(i), Loads(i), reported["integer"] # <<>>
  PROVE  /\ V!LoadAnswers(Self, Footprint(i))
         /\ loads[Self][loadFresh[Self]].bytes[i.accesses[1].addr]
              = reported["integer"][Len(reported["integer"])].data
<1>1. V!LoadAnswers(Self, Footprint(i)) /\ loads[Self][loadFresh[Self]].bytes = LoadBytes(i)
  BY DEF Serves, Given
<1>2. loads[Self][loadFresh[Self]].bytes[i.accesses[1].addr] = i.accesses[1].data
  BY <1>1 DEF LoadBytes, Footprint
<1>3. 1 \in 1 .. Len(i.accesses) /\ ~i.accesses[1].write
  BY AccessesOf
<1>4. HT!Running
  BY DEF H!CommitAccepted, H!CommitRetires, H!CommitSteps, H!Running, HT!Running
<1>5. /\ rf["integer"].valid
      /\ rf["integer"].data = reported["integer"][Len(reported["integer"])].data
  BY <1>4 DEF PartsAreCorrect, HT!ReportsKept, HT!RfKinds
<1>6. "integer" \in DOMAIN i.rf /\ rf["integer"].data = i.rf["integer"].data
  BY <1>5 DEF H!CommitAccepted, H!RfAgrees, H!RfKinds
<1>7. i.rf["integer"].data = i.accesses[1].data
  BY <1>3, <1>6, CompositionAssumption
<1> QED BY <1>1, <1>2, <1>5, <1>6, <1>7

\* The load that retires holds, for its byte, the newest store of the hart that has
\* retired and waits; or, if it belongs to an AMO, the store of that AMO.
LEMMA AnswerIsTheNewestStore ==
  ASSUME PartsAreCorrect, Running, NEW i \in Instructions, Serves(i), Loads(i),
         NEW a, a = i.accesses[1].addr, Waiting(a) # {},
         NEW x, x = loads[Self][loadFresh[Self]].bytes[a]
  PROVE  \/ x = stores[Self][V!StoreList(Self)[V!Newest(Waiting(a))]].bytes[a]
         \/ Stores(i) /\ x = StoreBytes(i)[a]
<1> DEFINE l == loadFresh[Self]
           q == VT!StoreList(Self)
           hits == {k \in VT!Covering(Self, q, a) : q[k] # storeFresh[Self]}
<1>1. /\ l \in LoadIds /\ loads[Self][l].valid
      /\ a \in DOMAIN loads[Self][l].bytes
  <2>1. V!LoadAnswers(Self, Footprint(i))
    BY DEF Serves, Given
  <2>2. loadFresh[Self] \in LoadIds \cup {Null}
    BY CompositionAssumption DEF PartsAreCorrect, VT!QueuesWellFormed, VT!TypeOK
  <2> QED BY <2>1, <2>2 DEF V!LoadAnswers, V!FreshLoadValid, Footprint
<1>2. /\ Waiting(a) = hits
      /\ V!StoreList(Self)[V!Newest(Waiting(a))] = q[VT!Newest(hits)]
  BY SameStoreList DEF Waiting
<1>3. VT!Running /\ Self \in Views
  BY CompositionAssumption DEF Running, VT!Running
<1>4. \/ x = stores[Self][q[VT!Newest(hits)]].bytes[a]
      \/ /\ VT!FreshStoreValid(Self)
         /\ x = stores[Self][storeFresh[Self]].bytes[a]
  BY <1>1, <1>2, <1>3 DEF PartsAreCorrect, VT!ForwardingSound
<1>5. ASSUME VT!FreshStoreValid(Self) PROVE Stores(i)
  BY <1>5, ServesUsesAccesses DEF PartsAreCorrect, VT!FreshStoreValid
<1>6. ASSUME Stores(i) PROVE stores[Self][storeFresh[Self]].bytes = StoreBytes(i)
  BY <1>6 DEF Serves, V!CommitAmo, V!StoreAgrees
<1> HIDE DEF l, q, hits
<1> QED BY <1>2, <1>4, <1>5, <1>6

\* The value that the DUT reports for a load is that of its hart's own newest store
\* that waits, however commands, commits and broadcasts interleave.
THEOREM ReportedLoadsAreSound == Spec => ReportedLoadsSound
<1>1. PartsAreCorrect /\ [Next]_vars =>
        [(retired' \in Instructions /\ Loads(retired') /\ reported["integer"] # <<>>) =>
           LET a    == retired'.accesses[1].addr
               data == reported["integer"][Len(reported["integer"])].data
           IN  Waiting(a) # {} =>
                 \/ data = stores[Self][V!StoreList(Self)[V!Newest(Waiting(a))]].bytes[a]
                 \/ Stores(retired') /\ data = StoreBytes(retired')[a]]_vars
  <2> SUFFICES ASSUME PartsAreCorrect, Next, NEW i, i = retired', i \in Instructions,
                      Loads(i), reported["integer"] # <<>>,
                      NEW a, a = i.accesses[1].addr, Waiting(a) # {},
                      NEW x, x = reported["integer"][Len(reported["integer"])].data
               PROVE  \/ x = stores[Self][V!StoreList(Self)[V!Newest(Waiting(a))]].bytes[a]
                      \/ Stores(i) /\ x = StoreBytes(i)[a]
    OBVIOUS
  <2>1. Running /\ retired' # Null
    BY CompositionAssumption DEF Next
  <2>2. PICK p \in Pcs, n \in 0 .. Len(ioQueue) : H!CommitAccepted(p, i, n) /\ Serves(i)
    BY <2>1, RetiringStep
  <2>3. x = loads[Self][loadFresh[Self]].bytes[a]
    BY <2>2, ReportIsTheAnswer
  <2> QED BY <2>1, <2>2, <2>3, AnswerIsTheNewestStore
<1> QED BY <1>1, PartsInvariant, PTL DEF Spec, ReportedLoadsSound
=============================================================================
