-------------------------------- MODULE Rvls --------------------------------
(***************************************************************************)
(* The checker of one hart at work: its Hart and its CpuMemoryView         *)
(* together, next to the views of the other harts.  The two meet in Spike's*)
(* step, inside Hart::commit and Hart::trap: SpikeIf::mmio_load and        *)
(* mmio_store call load() and store() of the view for an access to a memory*)
(* region, and the hart calls the view's step() afterwards.  What the view *)
(* throws there leaves Spike and ends the run.                             *)
(***************************************************************************)
EXTENDS Integers, Sequences, FiniteSets

CONSTANTS
  \* of Hart
  Value, Bits, Codes, Instructions, Csrs, Regions, IoAccesses, IoFirst, IoLast,
  U64, Xlen, Phys, Pcs, TrapVector, MaxReports, Rd, MaxRegions, MaxIo,
  \* of CpuMemoryView; a byte is a Value
  Views, LoadIds, StoreIds, Addr, Footprints, MaxLen,
  Null,
  Self      \* the view of the hart

VARIABLES
  rf, csr, sc, regions, ioQueue, pc, mip, mie, counter, reservation, trapped,
  hartStatus, reported, programMie,
  memory, loads, loadsInflight, loadsInflightCount, loadFresh,
  stores, storeHead, storeLast, storeFresh, viewStatus,
  retired   \* history: the instruction or trap that the last step retired, or Null

H == INSTANCE Hart WITH status <- hartStatus
V == INSTANCE CpuMemoryView WITH status <- viewStatus, Byte <- Value

hartVars == <<rf, csr, sc, regions, ioQueue, pc, mip, mie, counter, reservation, trapped,
              hartStatus, reported, programMie>>
viewVars == <<memory, loads, loadsInflight, loadsInflightCount, loadFresh,
              stores, storeHead, storeLast, storeFresh, viewStatus>>
vars     == <<hartVars, viewVars, retired>>

\* The assumptions of the two parts; and the accesses of an instruction have one
\* byte, of a common address.  Where it loads, a register gets what was loaded.
ASSUME CompositionAssumption ==
  /\ H!WidthAssumption /\ H!DataAssumption /\ H!SpikeAssumption
  /\ V!IdsAssumption /\ V!DataAssumption
  /\ Self \in Views /\ Addr \subseteq 0 .. (U64 - 1) /\ Footprints = {{a} : a \in Addr}
  /\ MaxLen >= 1 /\ Null \notin Instructions
  /\ \A i \in Instructions : Len(i.accesses) <= 2 /\ \A k \in 1 .. Len(i.accesses) :
       /\ i.accesses[k].size = 1 /\ i.accesses[k].addr \in Addr
       /\ k = 2 => i.accesses[k].write /\ ~i.accesses[1].write
       /\ (~i.accesses[k].write /\ "integer" \in DOMAIN i.rf) =>
            i.rf["integer"].data = i.accesses[k].data

Running == hartStatus = "running" /\ viewStatus = "running"

Init == H!Init /\ V!Init /\ retired = Null

-----------------------------------------------------------------------------
(***************************************************************************)
(* The calls of the view that Spike's execution of an instruction leads to.*)
(***************************************************************************)

InMemory(i) == H!Route(i) = "mem"
Loads(i)  == InMemory(i) /\ \E k \in 1 .. Len(i.accesses) : ~i.accesses[k].write
Stores(i) == InMemory(i) /\ \E k \in 1 .. Len(i.accesses) : i.accesses[k].write

Footprint(i) == {i.accesses[1].addr}
LoadBytes(i)  == [a \in Footprint(i) |-> i.accesses[1].data]
StoreBytes(i) == [a \in Footprint(i) |-> i.accesses[Len(i.accesses)].data]

\* load() hands i the bytes of the load that was committed.
Given(i) ==
  Loads(i) => V!LoadAnswers(Self, Footprint(i)) /\ loads[Self][loadFresh[Self]].bytes = LoadBytes(i)
Taken(i) == Stores(i) => V!StoreAgrees(Self, StoreBytes(i))

\* Mutant: the hart does not call step() after an instruction without an access.
Serves_StepForgotten(i) ==
  \/ Loads(i) /\ ~Stores(i) /\ Given(i) /\ V!CommitLoad(Self, Footprint(i))
  \/ ~Loads(i) /\ Stores(i) /\ V!CommitStore(Self, StoreBytes(i))
  \/ Loads(i) /\ Stores(i) /\ Given(i) /\ V!CommitAmo(Self, Footprint(i), StoreBytes(i))
  \/ ~Loads(i) /\ ~Stores(i) /\ UNCHANGED viewVars

\* load(), store() and step() return, as far as they are called.
Serves(i) ==
  \/ Loads(i) /\ ~Stores(i) /\ Given(i) /\ V!CommitLoad(Self, Footprint(i))
  \/ ~Loads(i) /\ Stores(i) /\ V!CommitStore(Self, StoreBytes(i))
  \/ Loads(i) /\ Stores(i) /\ Given(i) /\ V!CommitAmo(Self, Footprint(i), StoreBytes(i))
  \/ ~Loads(i) /\ ~Stores(i) /\ V!CommitOther(Self)

\* load() and store() return and step() throws.
Unclean(i) ==
  /\ Given(i) /\ Taken(i)
  /\ \/ Loads(i) /\ ~Stores(i) /\ V!CommitLoadRejected(Self, Footprint(i))
     \/ ~Loads(i) /\ Stores(i) /\ V!CommitStoreRejected(Self, StoreBytes(i))
     \/ ~Loads(i) /\ ~Stores(i) /\ V!CommitOtherRejected(Self)

\* load() or store() throws; or SpikeIf throws before the view is called.
Refuses(i) ==
  \/ Loads(i) /\ ~Stores(i) /\ ~V!LoadAnswers(Self, Footprint(i))
       /\ V!CommitLoadRejected(Self, Footprint(i))
  \/ ~Loads(i) /\ Stores(i) /\ ~Taken(i) /\ V!CommitStoreRejected(Self, StoreBytes(i))
  \/ Loads(i) /\ Stores(i) /\ (V!LoadAnswers(Self, Footprint(i)) => Given(i))
       /\ V!CommitAmoRejected(Self, Footprint(i), StoreBytes(i))
  \/ ~InMemory(i) /\ UNCHANGED viewVars

\* Only step() is called, since the instruction trapped.
StepReturns == V!CommitOther(Self)
StepThrows  == V!CommitOtherRejected(Self)

-----------------------------------------------------------------------------
(***************************************************************************)
(* Hart::commit and Hart::trap with what they call in the view.            *)
(***************************************************************************)

Commit(p) ==
  \/ \E n \in 0 .. Len(ioQueue), i \in Instructions :
       \/ H!CommitAccepted(p, i, n) /\ Serves(i) /\ retired' = i
       \/ H!CommitMismatch(p, i, n) /\ Serves(i) /\ retired' = Null
       \/ H!CommitUnclean(p, i, n) /\ Unclean(i) /\ retired' = Null
       \/ H!Throws(i, n) /\ H!CommitStepThrows(p, n) /\ Refuses(i) /\ retired' = Null
  \/ \E n \in 0 .. Len(ioQueue), t \in H!Trap :
       H!CommitMissedTrap(p, t, n) /\ (StepReturns \/ StepThrows) /\ retired' = Null
  \/ H!CommitWrongPc(p) /\ UNCHANGED viewVars /\ retired' = Null

\* trap() asks whether Spike has trapped before it calls step(); where Spike has
\* executed i instead the run is over, whatever step() would say.
TakeTrap(t) ==
  \E n \in 0 .. Len(ioQueue) :
    \/ H!TrapAccepted(t, n) /\ StepReturns /\ retired' = t
    \/ \E u \in H!Trap :
         H!TrapMismatch(t, u, n) /\ ((u # t /\ StepReturns) \/ StepThrows) /\ retired' = Null
    \/ \E i \in Instructions :
         H!TrapNotTaken(t, i, n) /\ (Serves(i) \/ Unclean(i)) /\ retired' = Null
    \/ \E i \in Instructions :
         H!Throws(i, n) /\ H!TrapStepThrows(t, n) /\ Refuses(i) /\ retired' = Null

\* The commands that only one of the two sees.  The DUT keeps the order of
\* overlapping stores, see CpuMemoryView.
HartCommand == (H!ReportStep \/ H!SetupStep) /\ UNCHANGED viewVars /\ retired' = Null
ViewCommand ==
  /\ V!LoadQueueStep(Self) \/ V!StoreQueueStep(Self, V!FreeSlots(Self), V!Leaving(Self))
  /\ UNCHANGED hartVars /\ retired' = Null

\* Another hart, whose own Hart is left out: its view commits, checks and
\* broadcasts stores.  What it loads concerns nobody else.
OtherHart ==
  /\ \E v \in Views \ {Self} :
       V!StoreQueueStep(v, V!FreeSlots(v), V!Leaving(v)) \/ V!SpikeStep(v)
  /\ UNCHANGED hartVars /\ retired' = Null

Next ==
  /\ Running
  /\ \/ \E p \in Pcs : Commit(p)
     \/ \E t \in H!Trap : TakeTrap(t)
     \/ HartCommand
     \/ ViewCommand
     \/ OtherHart

Spec == Init /\ [][Next]_vars

-----------------------------------------------------------------------------
(***************************************************************************)
(* Properties.                                                             *)
(***************************************************************************)

\* What the hart itself has stored last to a, as far as it waits for its broadcast;
\* the store of the instruction that retires is younger than its load.
Waiting(a) ==
  {k \in V!Covering(Self, V!StoreList(Self), a) : V!StoreList(Self)[k] # storeFresh[Self]}

\* From the DUT's report to the store buffer.  If a load that retires was reported
\* to write a register, then with the value of the newest store of its own hart
\* that has retired and waits for its broadcast, if there is one, whatever the
\* other harts broadcast meanwhile and whenever the load was executed.  An AMO
\* whose load executes after its own store is committed reads that store.
ReportedLoadsSound ==
  [][(retired' \in Instructions /\ Loads(retired') /\ reported["integer"] # <<>>) =>
       LET a    == retired'.accesses[1].addr
           data == reported["integer"][Len(reported["integer"])].data
       IN  Waiting(a) # {} =>
             \/ data = stores[Self][V!StoreList(Self)[V!Newest(Waiting(a))]].bytes[a]
             \/ Stores(retired') /\ data = StoreBytes(retired')[a]]_vars

\* An instruction that retires has used the load and the store that the DUT
\* committed for it, and one that traps, or that makes no access to memory, had
\* none: no access is left over that a later instruction could take for its own.
NothingLeftOver ==
  [][retired' # Null =>
       /\ loadFresh'[Self] = Null /\ storeFresh'[Self] = Null
       /\ loadFresh[Self] # Null <=> (retired' \in Instructions /\ Loads(retired'))
       /\ storeFresh[Self] # Null <=> (retired' \in Instructions /\ Stores(retired'))]_vars
=============================================================================
