---------------------------- MODULE Hart_proofs ----------------------------
(***************************************************************************)
(* Theorems about Hart, for any instruction set, values and bounds.        *)
(***************************************************************************)
EXTENDS Hart, SequenceTheorems, TLAPS

\* No step but an accepted one retires an instruction or a trap and lets the
\* checker run.
LEMMA RunningCommitIsAccepted ==
  ASSUME NEW p \in Pcs, CommitStep(p), Running'
  PROVE  \E n \in 0 .. Len(ioQueue), i \in Instructions : CommitAccepted(p, i, n)
BY DEF CommitStep, CommitMismatch, CommitUnclean, CommitMissedTrap, CommitStepThrows,
       CommitWrongPc, Running, Fail

LEMMA RunningTrapIsAccepted ==
  ASSUME NEW t \in Trap, TrapStep(t), Running'
  PROVE  \E n \in 0 .. Len(ioQueue) : TrapAccepted(t, n)
BY DEF TrapStep, TrapMismatch, TrapNotTaken, TrapStepThrows, Running, Fail

-----------------------------------------------------------------------------
(***************************************************************************)
(* Type correctness.                                                       *)
(***************************************************************************)

LEMMA InstructionFields ==
  ASSUME NEW i \in Instructions
  PROVE  /\ i.mie \in Word /\ i.next \in Pcs
         /\ i.next \in 0 .. (U64 - 1) /\ DOMAIN i.rf \subseteq LogKinds
<1>1. i \in Instruction /\ Pcs \subseteq 0 .. (U64 - 1)
  BY SpikeAssumption, WidthAssumption
<1>2. i.rf \in UNION {[K -> [rd : Rd, data : Value]] : K \in SUBSET LogKinds}
  BY <1>1 DEF Instruction
<1>3. DOMAIN i.rf \subseteq LogKinds
  BY <1>2
<1> QED BY <1>1, <1>3 DEF Instruction

\* The sign extension of Hart::physExtends stays a u64.
LEMMA PhysExtendType ==
  ASSUME NEW p \in Nat
  PROVE  PhysExtend(p) \in 0 .. (U64 - 1)
<1>1. U64 \in Nat /\ Phys \in Nat /\ Phys > 0 /\ Phys <= U64
  BY WidthAssumption
<1>2. p % Phys \in 0 .. (Phys - 1)
  BY <1>1
<1> DEFINE low == p % Phys
<1>3. low \in Nat /\ low < Phys
  BY <1>1, <1>2
<1> HIDE DEF low
<1>4. (IF 2 * low >= Phys THEN low + U64 - Phys ELSE low) \in 0 .. (U64 - 1)
  BY <1>1, <1>3
<1> QED BY <1>4 DEF PhysExtend, low

LEMMA QueueAfter ==
  ASSUME TypeOK, NEW n \in 0 .. Len(ioQueue)
  PROVE  /\ SubSeq(ioQueue, n + 1, Len(ioQueue)) \in Seq(IoAccesses)
         /\ Len(SubSeq(ioQueue, n + 1, Len(ioQueue))) = Len(ioQueue) - n
<1>1. ioQueue \in Seq(IoAccesses) /\ Len(ioQueue) \in Nat /\ n \in Nat
  BY DEF TypeOK
<1>2. \A k \in (n + 1) .. Len(ioQueue) : ioQueue[k] \in IoAccesses
  BY <1>1
<1> QED BY <1>1, <1>2

\* Every value that Hart or Spike's step may leave in Spike's registers has its type.
LEMMA SpikeValues ==
  ASSUME TypeOK, NEW ie \in Word
  PROVE  /\ Synced \in Word /\ Masked \in Word /\ Restored(ie) \in Word
         /\ SyncedCounter \in Word /\ Held \in BOOLEAN
         /\ \A i \in Instructions :
              /\ MieAfter(i, ie) \in Word
              /\ CounterAfter(i, SyncedCounter) \subseteq Word
              /\ \A held \in BOOLEAN : HeldAfter(i, held) \in BOOLEAN
<1>1. csr.readData \in Word /\ mip \in Word /\ mie \in Word /\ counter \in Word
      /\ reservation \in BOOLEAN
  BY DEF TypeOK
<1>2. Synced \in Word /\ Masked \in Word /\ Restored(ie) \in Word
  BY <1>1 DEF Synced, Masked, Restored, Word
<1>3. SyncedCounter \in Word
  BY <1>1 DEF SyncedCounter
<1>4. Held \in BOOLEAN
  BY DEF Held
<1>5. ASSUME NEW i \in Instructions
      PROVE  /\ MieAfter(i, ie) \in Word
             /\ CounterAfter(i, SyncedCounter) \subseteq Word
             /\ \A held \in BOOLEAN : HeldAfter(i, held) \in BOOLEAN
  BY <1>3, InstructionFields DEF MieAfter, CounterAfter, HeldAfter
<1> QED BY <1>2, <1>3, <1>4, <1>5

LEMMA ReportType ==
  ASSUME TypeOK, ReportStep \/ SetupStep
  PROVE  TypeOK'
<1> USE DEF hartVars, sifVars, spikeVars, Fail
<1>1. ASSUME NEW k \in RfKinds, NEW a \in Rd, NEW d \in Value, WriteRf(k, a, d)
      PROVE  TypeOK'
  <2>1. rf' \in [RfKinds -> [valid : BOOLEAN, data : Value]]
    BY <1>1 DEF WriteRf, TypeOK
  <2>2. reported' \in [RfKinds -> Seq([address : Rd, data : Value])]
    <3> DEFINE report == [address |-> a, data |-> d]
               S == [address : Rd, data : Value]
    <3>1. report \in S /\ reported \in [RfKinds -> Seq(S)]
      BY DEF TypeOK
    <3> HIDE DEF report, S
    <3>2. Append(reported[k], report) \in Seq(S)
      BY <3>1
    <3>3. reported' = [reported EXCEPT ![k] = Append(@, report)]
      BY <1>1 DEF WriteRf, report
    <3>4. reported' \in [RfKinds -> Seq(S)]
      BY <3>1, <3>2, <3>3
    <3> QED BY <3>4 DEF S
  <2> QED BY <1>1, <2>1, <2>2 DEF WriteRf, TypeOK
<1>2. ASSUME NEW c \in Csrs, WriteCsr(c)
      PROVE  TypeOK'
  <2>1. c \in AllCsrs
    BY DataAssumption
  <2>2. csr' \in [address : AllCsrs, write : BOOLEAN, read : BOOLEAN, readData : Word]
    BY <1>2, <2>1 DEF WriteCsr, TypeOK
  <2> QED BY <1>2, <2>2 DEF WriteCsr, TypeOK
<1>3. ASSUME NEW c \in Csrs, NEW d \in Word, ReadCsr(c, d)
      PROVE  TypeOK'
  <2>1. c \in AllCsrs
    BY DataAssumption
  <2>2. csr' \in [address : AllCsrs, write : BOOLEAN, read : BOOLEAN, readData : Word]
    BY <1>3, <2>1 DEF ReadCsr, TypeOK
  <2> QED BY <1>3, <2>2 DEF ReadCsr, TypeOK
<1>4. ASSUME NEW failure \in BOOLEAN, UnknownRf \/ ScStatus(failure)
      PROVE  TypeOK'
  <2>1. sc' \in [valid : BOOLEAN, failure : BOOLEAN] /\ status' \in {"running", "failed"}
    <3>1. CASE UnknownRf
      BY <3>1 DEF UnknownRf, TypeOK
    <3>2. CASE ScStatus(failure)
      BY <3>2 DEF ScStatus, TypeOK
    <3> QED BY <1>4, <3>1, <3>2
  <2>2. UNCHANGED <<rf, csr, sifVars, spikeVars, reported, programMie>>
    BY <1>4 DEF UnknownRf, ScStatus
  <2> QED BY <2>1, <2>2 DEF TypeOK
<1>5. ASSUME NEW io \in IoAccesses, IoAccess(io)
      PROVE  TypeOK'
  <2>1. ioQueue' \in Seq(IoAccesses)
    BY <1>5 DEF IoAccess, TypeOK
  <2>2. UNCHANGED <<rf, csr, sc, regions, spikeVars, status, reported, programMie>>
    BY <1>5 DEF IoAccess
  <2> QED BY <2>1, <2>2 DEF TypeOK
<1>6. ASSUME NEW r \in Regions, AddRegion(r)
      PROVE  TypeOK'
  <2>1. regions' \in Seq(Regions)
    BY <1>6 DEF AddRegion, TypeOK
  <2>2. UNCHANGED <<rf, csr, sc, ioQueue, spikeVars, status, reported, programMie>>
    BY <1>6 DEF AddRegion
  <2> QED BY <2>1, <2>2 DEF TypeOK
<1>7. ASSUME NEW p \in Pcs, SetPc(p)
      PROVE  TypeOK'
  <2>1. p \in 0 .. (U64 - 1)
    BY WidthAssumption
  <2> QED BY <1>7, <2>1 DEF SetPc, TypeOK
<1> QED BY <1>1, <1>2, <1>3, <1>4, <1>5, <1>6, <1>7 DEF ReportStep, SetupStep

LEMMA CommitStepsType ==
  ASSUME TypeOK, NEW p, NEW n \in 0 .. Len(ioQueue), CommitSteps(p, n)
  PROVE  /\ sc' \in [valid : BOOLEAN, failure : BOOLEAN]
         /\ ioQueue' \in Seq(IoAccesses)
         /\ regions' \in Seq(Regions)
BY QueueAfter DEF CommitSteps, TypeOK

LEMMA CommitType ==
  ASSUME TypeOK, NEW p \in Pcs, CommitStep(p)
  PROVE  TypeOK'
<1> USE DEF Fail
<1>1. ASSUME NEW n \in 0 .. Len(ioQueue), NEW i \in Instructions,
             CommitAccepted(p, i, n) \/ CommitMismatch(p, i, n)
      PROVE  TypeOK'
  <2>1. CommitRetires(p, i, n) /\ CommitSteps(p, n)
    BY <1>1 DEF CommitAccepted, CommitMismatch, CommitRetires
  <2>2. Masked \in Word /\ Held \in BOOLEAN /\ CounterAfter(i, SyncedCounter) \subseteq Word
    BY SpikeValues DEF TypeOK
  <2>3. MieAfter(i, Masked) \in Word
    BY <2>2, SpikeValues
  <2>4. /\ mip' \in Word /\ mie' \in Word /\ counter' \in Word /\ trapped' = Null
        /\ reservation' \in BOOLEAN /\ programMie' \in Word
    <3>1. mip' = {} /\ {} \in Word
      BY <2>1 DEF CommitRetires, Word
    <3>2. Restored(MieAfter(i, Masked)) \in Word
      BY <2>3, SpikeValues
    <3>3. HeldAfter(i, Held) \in BOOLEAN
      BY <2>2, SpikeValues
    <3>4. MieAfter(i, programMie) \in Word
      BY SpikeValues DEF TypeOK
    <3> QED BY <2>1, <2>2, <3>1, <3>2, <3>3, <3>4 DEF CommitRetires
  <2>5. pc' \in 0 .. (U64 - 1)
    <3>1. i.next \in 0 .. (U64 - 1) /\ i.next \in Nat
      BY InstructionFields, WidthAssumption
    <3>2. PhysExtend(i.next) \in 0 .. (U64 - 1)
      BY <3>1, PhysExtendType
    <3> QED BY <1>1, <3>1, <3>2 DEF CommitAccepted, CommitMismatch
  <2>6. /\ rf' \in [RfKinds -> [valid : BOOLEAN, data : Value]]
        /\ csr' \in [address : AllCsrs, write : BOOLEAN, read : BOOLEAN, readData : Word]
        /\ reported' \in [RfKinds -> Seq([address : Rd, data : Value])]
        /\ status' \in {"running", "failed"}
    <3>1. CASE CommitAccepted(p, i, n)
      <4>1. [k \in RfKinds |-> [rf[k] EXCEPT !.valid = FALSE]]
              \in [RfKinds -> [valid : BOOLEAN, data : Value]]
        BY DEF TypeOK
      <4>2. [csr EXCEPT !.read = FALSE, !.write = FALSE]
              \in [address : AllCsrs, write : BOOLEAN, read : BOOLEAN, readData : Word]
        BY DEF TypeOK
      <4> QED BY <3>1, <4>1, <4>2 DEF CommitAccepted, TypeOK
    <3>2. CASE CommitMismatch(p, i, n)
      BY <3>2 DEF CommitMismatch, TypeOK
    <3> QED BY <1>1, <3>1, <3>2
  <2> QED BY <2>1, <2>4, <2>5, <2>6, CommitStepsType DEF TypeOK
<1>2. ASSUME NEW n \in 0 .. Len(ioQueue), NEW i \in Instructions, CommitUnclean(p, i, n)
      PROVE  TypeOK'
  <2>1. Masked \in Word /\ Held \in BOOLEAN /\ CounterAfter(i, SyncedCounter) \subseteq Word
        /\ Synced \in Word
    BY SpikeValues DEF TypeOK
  <2>2. MieAfter(i, Masked) \in Word /\ HeldAfter(i, Held) \in BOOLEAN
    BY <2>1, SpikeValues
  <2>3. i.next \in 0 .. (U64 - 1)
    BY InstructionFields
  <2>4. CommitSteps(p, n)
    BY <1>2 DEF CommitUnclean
  <2>5. /\ mip' \in Word /\ mie' \in Word /\ counter' \in Word /\ trapped' = Null
        /\ reservation' \in BOOLEAN /\ pc' \in 0 .. (U64 - 1)
        /\ UNCHANGED <<rf, csr, reported, programMie>> /\ status' = "failed"
    BY <1>2, <2>1, <2>2, <2>3 DEF CommitUnclean
  <2> QED BY <2>4, <2>5, CommitStepsType DEF TypeOK
<1>3. ASSUME NEW n \in 0 .. Len(ioQueue), NEW t \in Trap, CommitMissedTrap(p, t, n)
      PROVE  TypeOK'
  <2>1. /\ Masked \in Word /\ Restored(Masked) \in Word /\ Synced \in Word
        /\ SyncedCounter \in Word /\ Held \in BOOLEAN /\ {} \in Word
    BY SpikeValues DEF TypeOK, Word
  <2>2. TrapVector \in 0 .. (U64 - 1)
    BY WidthAssumption
  <2>3. CommitSteps(p, n)
    BY <1>3 DEF CommitMissedTrap
  <2>4. /\ mip' \in Word /\ mie' \in Word /\ counter' \in Word /\ trapped' = t
        /\ reservation' \in BOOLEAN /\ pc' \in 0 .. (U64 - 1)
        /\ UNCHANGED <<rf, csr, reported, programMie>> /\ status' = "failed"
    BY <1>3, <2>1, <2>2 DEF CommitMissedTrap
  <2> QED BY <2>3, <2>4, CommitStepsType DEF TypeOK
<1>4. ASSUME NEW n \in 0 .. Len(ioQueue), CommitStepThrows(p, n)
      PROVE  TypeOK'
  <2>1. Masked \in Word /\ Synced \in Word /\ SyncedCounter \in Word /\ Held \in BOOLEAN
    BY SpikeValues DEF TypeOK
  <2>2. CommitSteps(p, n)
    BY <1>4 DEF CommitStepThrows
  <2> QED BY <1>4, <2>1, <2>2, CommitStepsType DEF CommitStepThrows, TypeOK
<1>5. ASSUME CommitWrongPc(p)
      PROVE  TypeOK'
  BY <1>5 DEF CommitWrongPc, TypeOK, hartVars, sifVars, spikeVars
<1> QED BY <1>1, <1>2, <1>3, <1>4, <1>5 DEF CommitStep

LEMMA TrapType ==
  ASSUME TypeOK, NEW t \in Trap, TrapStep(t)
  PROVE  TypeOK'
<1> USE DEF Fail
<1>1. RaisedMip(t) \in Word /\ (IF t.interrupt THEN mip \ {t.code} ELSE mip) \in Word
  BY DEF RaisedMip, Word, Trap, TypeOK
<1>2. ASSUME NEW n \in 0 .. Len(ioQueue), TrapSteps(t, n)
      PROVE  /\ rf' \in [RfKinds -> [valid : BOOLEAN, data : Value]]
             /\ csr' \in [address : AllCsrs, write : BOOLEAN, read : BOOLEAN, readData : Word]
             /\ sc' \in [valid : BOOLEAN, failure : BOOLEAN]
             /\ regions' \in Seq(Regions) /\ ioQueue' \in Seq(IoAccesses)
             /\ mip' \in Word /\ counter' \in Word
             /\ reported' \in [RfKinds -> Seq([address : Rd, data : Value])]
  BY <1>1, <1>2, QueueAfter DEF TrapSteps, hartVars, TypeOK
<1>3. ASSUME NEW n \in 0 .. Len(ioQueue), TrapAccepted(t, n)
      PROVE  TypeOK'
  <2>1. TrapSteps(t, n) /\ trapped' = t /\ UNCHANGED <<mie, reservation, status, programMie>>
    BY <1>3 DEF TrapAccepted
  <2>2. pc' \in 0 .. (U64 - 1)
    <3>1. TrapVector \in Nat
      BY WidthAssumption
    <3> QED BY <1>3, <3>1, PhysExtendType DEF TrapAccepted
  <2> QED BY <1>2, <2>1, <2>2 DEF TypeOK
<1>4. ASSUME NEW n \in 0 .. Len(ioQueue), NEW u \in Trap, TrapMismatch(t, u, n)
      PROVE  TypeOK'
  <2>1. TrapSteps(t, n) /\ trapped' = u /\ UNCHANGED <<mie, reservation, programMie>>
        /\ status' = "failed" /\ pc' \in 0 .. (U64 - 1)
    BY <1>4, WidthAssumption DEF TrapMismatch
  <2> QED BY <1>2, <2>1 DEF TypeOK
<1>5. ASSUME NEW n \in 0 .. Len(ioQueue), NEW i \in Instructions, TrapNotTaken(t, i, n)
      PROVE  TypeOK'
  <2>1. /\ MieAfter(i, mie) \in Word /\ MieAfter(i, programMie) \in Word
        /\ HeldAfter(i, reservation) \in BOOLEAN
    BY SpikeValues DEF TypeOK
  <2>2. i.next \in 0 .. (U64 - 1)
    BY InstructionFields
  <2>3. /\ TrapSteps(t, n) /\ trapped' = Null /\ mie' \in Word /\ programMie' \in Word
        /\ reservation' \in BOOLEAN /\ status' = "failed" /\ pc' \in 0 .. (U64 - 1)
    BY <1>5, <2>1, <2>2 DEF TrapNotTaken
  <2> QED BY <1>2, <2>3 DEF TypeOK
<1>6. ASSUME NEW n \in 0 .. Len(ioQueue), TrapStepThrows(t, n)
      PROVE  TypeOK'
  BY <1>1, <1>6, QueueAfter DEF TrapStepThrows, hartVars, TypeOK
<1> QED BY <1>3, <1>4, <1>5, <1>6 DEF TrapStep

\* Every variable keeps its type: what is copied between Hart and Spike around a
\* step, physExtends and the queue of IO accesses included.
THEOREM HartTypeCorrect == Spec => []TypeOK
<1>1. Init => TypeOK
  <2> SUFFICES ASSUME Init PROVE TypeOK
    OBVIOUS
  <2>1. pc \in 0 .. (U64 - 1) /\ 0 \in Value
    BY WidthAssumption, DataAssumption DEF Init
  <2>2. rf \in [RfKinds -> [valid : BOOLEAN, data : Value]]
    BY <2>1 DEF Init
  <2>3. csr \in [address : AllCsrs, write : BOOLEAN, read : BOOLEAN, readData : Word]
    BY DEF Init, AllCsrs, Word
  <2>4. reported \in [RfKinds -> Seq([address : Rd, data : Value])]
    BY DEF Init
  <2>5. mip \in Word /\ mie \in Word /\ programMie \in Word /\ counter \in Word
    BY DEF Init, Word
  <2>6. /\ sc \in [valid : BOOLEAN, failure : BOOLEAN] /\ reservation \in BOOLEAN
        /\ trapped = Null /\ status = "running"
    BY DEF Init
  <2>7. regions \in Seq(Regions)
    BY DEF Init
  <2>8. ioQueue \in Seq(IoAccesses)
    BY DEF Init
  <2> QED BY <2>1, <2>2, <2>3, <2>4, <2>5, <2>6, <2>7, <2>8 DEF TypeOK
<1>2. TypeOK /\ [Next]_vars => TypeOK'
  <2> SUFFICES ASSUME TypeOK, [Next]_vars PROVE TypeOK'
    OBVIOUS
  <2>1. CASE UNCHANGED vars
    BY <2>1 DEF vars, hartVars, sifVars, spikeVars, TypeOK
  <2>2. CASE Next
    BY <2>2, ReportType, CommitType, TrapType DEF Next
  <2> QED BY <2>1, <2>2
<1> QED BY <1>1, <1>2, PTL DEF Spec

-----------------------------------------------------------------------------
(***************************************************************************)
(* The interrupts.                                                         *)
(***************************************************************************)

\* No step but a commit or a trap that is accepted touches Spike's interrupt
\* registers and leaves the checker running.
LEMMA OtherStepsKeepInterrupts ==
  ASSUME Running', ReportStep \/ SetupStep
  PROVE  UNCHANGED <<mip, mie, programMie, trapped>> /\ Running
BY DEF ReportStep, SetupStep, WriteRf, WriteCsr, ReadCsr, UnknownRf, ScStatus, IoAccess,
       AddRegion, SetPc, Running, Fail, spikeVars

\* A commit masks mie only for an instruction that read mip or sip, and what it
\* puts back is what the program would have left there.
LEMMA CommitRestoresMie ==
  ASSUME NEW p, NEW i \in Instructions, NEW n, CommitAccepted(p, i, n), mie = programMie
  PROVE  mip' = {} /\ mie' = programMie'
<1>1. /\ mip' = {} /\ mie' = Restored(MieAfter(i, Masked))
      /\ programMie' = MieAfter(i, programMie) /\ CsrAgrees(i)
  BY DEF CommitAccepted, CommitRetires
<1>2. CASE ~SyncsPending
  BY <1>1, <1>2 DEF Restored, Masked
<1>3. CASE SyncsPending
  <2>1. ~WritesMie(i)
    <3> SUFFICES ASSUME WritesMie(i) PROVE FALSE
      OBVIOUS
    <3>1. i.kind = "csr" /\ i.csrs # {}
      BY SpikeAssumption DEF WritesMie
    <3>2. PICK c \in i.csrs : i.csrs = {c} /\ SameCsr(c, csr.address)
      BY <1>1, <3>1 DEF CsrAgrees
    <3>3. c \in {"mie", "sie"}
      BY <3>2 DEF WritesMie
    <3> QED BY <1>3, <3>2, <3>3 DEF SameCsr, SyncsPending, Pending
  <2>2. mie' = ((mie \ Maskable) \ Maskable) \cup (mie \cap Maskable)
    BY <1>1, <1>3, <2>1 DEF Restored, MieAfter, Masked
  <2>3. mie' = mie
    BY <2>2
  <2> QED BY <1>1, <2>1, <2>3 DEF MieAfter
<1> QED BY <1>2, <1>3

\* The interrupt registers of Spike belong to the program between instructions.
THEOREM InterruptsOwned == Spec => []InterruptStateOwned
<1>1. Init => InterruptStateOwned
  BY DEF Init, InterruptStateOwned
<1>2. InterruptStateOwned /\ [Next]_vars => InterruptStateOwned'
  <2> SUFFICES ASSUME InterruptStateOwned, [Next]_vars, Running'
               PROVE  mip' = {} /\ mie' = programMie'
    BY DEF InterruptStateOwned, Running
  <2>1. CASE UNCHANGED vars
    BY <2>1 DEF InterruptStateOwned, Running, vars, spikeVars
  <2>2. CASE ReportStep \/ SetupStep
    BY <2>2, OtherStepsKeepInterrupts DEF InterruptStateOwned
  <2>3. ASSUME NEW p \in Pcs, CommitStep(p)
        PROVE  mip' = {} /\ mie' = programMie'
    <3>1. PICK n \in 0 .. Len(ioQueue), i \in Instructions : CommitAccepted(p, i, n)
      BY <2>3, RunningCommitIsAccepted
    <3>2. Running
      BY <3>1 DEF CommitAccepted, CommitRetires, CommitSteps
    <3> QED BY <3>1, <3>2, CommitRestoresMie DEF InterruptStateOwned
  <2>4. ASSUME NEW t \in Trap, TrapStep(t)
        PROVE  mip' = {} /\ mie' = programMie'
    <3>1. PICK n \in 0 .. Len(ioQueue) : TrapAccepted(t, n)
      BY <2>4, RunningTrapIsAccepted
    <3>2. Running /\ UNCHANGED <<mie, programMie>>
      BY <3>1 DEF TrapAccepted, TrapSteps
    <3>3. mip' = IF t.interrupt THEN mip \ {t.code} ELSE mip
      BY <3>1 DEF TrapAccepted, TrapSteps
    <3> QED BY <3>2, <3>3 DEF InterruptStateOwned
  <2> QED BY <2>1, <2>2, <2>3, <2>4 DEF Next
<1> QED BY <1>1, <1>2, PTL DEF Spec

\* Spike takes no maskable interrupt while it executes an instruction for a
\* commit: mip is clear, or mie masks what it holds.
THEOREM NoInterruptInCommit == Spec => InterruptsComeFromTraps
<1>1. InterruptStateOwned /\ [Next]_vars =>
        [\A p \in Pcs, t \in Trap :
           CommitMissedTrap(p, t, 0) => ~(t.interrupt /\ t.code \in Maskable)]_vars
  <2> SUFFICES ASSUME InterruptStateOwned, NEW p \in Pcs, NEW t \in Trap,
                      CommitMissedTrap(p, t, 0), t.interrupt
               PROVE  t.code \notin Maskable
    OBVIOUS
  <2>1. Running /\ t.code \in Synced \cap Masked
    BY DEF CommitMissedTrap, CommitSteps, Traps
  <2>2. mip = {}
    BY <2>1 DEF InterruptStateOwned
  <2> QED BY <2>1, <2>2 DEF Synced, Masked
<1> QED BY <1>1, InterruptsOwned, PTL DEF Spec, InterruptsComeFromTraps

-----------------------------------------------------------------------------
(***************************************************************************)
(* What a commit compares.                                                 *)
(***************************************************************************)

\* What Hart keeps of the reported register writes is the last one of each kind.
ReportsKept ==
  Running => \A k \in RfKinds :
    /\ rf[k].valid <=> reported[k] # <<>>
    /\ rf[k].valid => rf[k].data = reported[k][Len(reported[k])].data

LEMMA ReportStepKeepsReports ==
  ASSUME TypeOK, ReportsKept, ReportStep \/ SetupStep, Running'
  PROVE  ReportsKept'
<1> USE DEF sifVars, spikeVars, hartVars
<1>1. ASSUME NEW k \in RfKinds, NEW a \in Rd, NEW d \in Value, WriteRf(k, a, d)
      PROVE  ReportsKept'
  <2> DEFINE report == [address |-> a, data |-> d]
             S == [address : Rd, data : Value]
  <2>1. report \in S /\ report.data = d /\ reported[k] \in Seq(S)
    BY DEF TypeOK
  <2>2. Running /\ ReportsKept
    BY <1>1 DEF WriteRf
  <2>3. /\ rf' = [rf EXCEPT ![k] = [valid |-> TRUE, data |-> d]]
        /\ reported' = [reported EXCEPT ![k] = Append(@, report)]
    BY <1>1 DEF WriteRf
  <2> HIDE DEF report, S
  <2>4. LET r == Append(reported[k], report)
        IN  r # <<>> /\ r[Len(r)] = report
    BY <2>1
  <2>5. /\ rf'[k].valid /\ rf'[k].data = d
        /\ reported'[k] = Append(reported[k], report)
        /\ \A j \in RfKinds \ {k} : rf'[j] = rf[j] /\ reported'[j] = reported[j]
    BY <2>3 DEF TypeOK
  <2> QED BY <2>1, <2>2, <2>4, <2>5 DEF ReportsKept
<1>2. CASE ~\E k \in RfKinds, a \in Rd, d \in Value : WriteRf(k, a, d)
  <2>1. Running /\ UNCHANGED <<rf, reported>>
    BY <1>2 DEF ReportStep, SetupStep, WriteCsr, ReadCsr, UnknownRf, ScStatus, IoAccess,
           AddRegion, SetPc
  <2> QED BY <2>1 DEF ReportsKept
<1> QED BY <1>1, <1>2

LEMMA ReportsInvariant == Spec => [](TypeOK /\ ReportsKept)
<1>1. Init => ReportsKept
  BY DEF Init, ReportsKept
<1>2. TypeOK /\ ReportsKept /\ [Next]_vars => ReportsKept'
  <2> SUFFICES ASSUME TypeOK, ReportsKept, [Next]_vars, Running'
               PROVE  ReportsKept'
    BY DEF ReportsKept, Running
  <2>1. CASE UNCHANGED vars
    BY <2>1 DEF vars, hartVars, ReportsKept, Running
  <2>2. CASE ReportStep \/ SetupStep
    BY <2>2, ReportStepKeepsReports
  <2>3. ASSUME NEW p \in Pcs, CommitStep(p)
        PROVE  ReportsKept'
    <3>1. PICK n \in 0 .. Len(ioQueue), i \in Instructions : CommitAccepted(p, i, n)
      BY <2>3, RunningCommitIsAccepted
    <3>2. /\ rf' = [k \in RfKinds |-> [rf[k] EXCEPT !.valid = FALSE]]
          /\ reported' = [k \in RfKinds |-> <<>>]
      BY <3>1 DEF CommitAccepted
    <3>3. \A k \in RfKinds : ~rf'[k].valid /\ reported'[k] = <<>>
      BY <3>2 DEF TypeOK
    <3> QED BY <3>3 DEF ReportsKept
  <2>4. ASSUME NEW t \in Trap, TrapStep(t)
        PROVE  ReportsKept'
    <3>1. PICK n \in 0 .. Len(ioQueue) : TrapAccepted(t, n)
      BY <2>4, RunningTrapIsAccepted
    <3>2. Running /\ UNCHANGED <<rf, reported>>
      BY <3>1 DEF TrapAccepted, TrapSteps, hartVars
    <3> QED BY <3>2 DEF ReportsKept
  <2> QED BY <2>1, <2>2, <2>3, <2>4 DEF Next
<1> QED BY <1>1, <1>2, HartTypeCorrect, PTL DEF Spec

\* An accepted instruction made exactly the register writes that were reported
\* since the one before, for any instruction set and any number of reports.
THEOREM AcceptedWritesWereReported == Spec => ReportsChecked
<1>1. TypeOK /\ ReportsKept /\ [Next]_vars =>
        [Running' => \A p \in Pcs, i \in Instructions, n \in 0 .. MaxIo :
           CommitAccepted(p, i, n) => \A k \in RfKinds :
             /\ reported[k] # <<>> <=> k \in DOMAIN i.rf
             /\ reported[k] # <<>> => reported[k][Len(reported[k])].data = i.rf[k].data]_vars
  <2> SUFFICES ASSUME ReportsKept, NEW p \in Pcs, NEW i \in Instructions, NEW n \in 0 .. MaxIo,
                      CommitAccepted(p, i, n), NEW k \in RfKinds
               PROVE  /\ reported[k] # <<>> <=> k \in DOMAIN i.rf
                      /\ reported[k] # <<>> => reported[k][Len(reported[k])].data = i.rf[k].data
    OBVIOUS
  <2>1. Running /\ RfAgrees(i)
    BY DEF CommitAccepted, CommitRetires, CommitSteps
  <2>2. /\ rf[k].valid <=> k \in DOMAIN i.rf
        /\ k \in DOMAIN i.rf => rf[k].data = i.rf[k].data
    BY <2>1 DEF RfAgrees
  <2>3. /\ rf[k].valid <=> reported[k] # <<>>
        /\ rf[k].valid => rf[k].data = reported[k][Len(reported[k])].data
    BY <2>1 DEF ReportsKept
  <2> QED BY <2>2, <2>3
<1> QED BY <1>1, ReportsInvariant, PTL DEF Spec, ReportsChecked

\* The IO accesses that a commit uses up when it is accepted had no bus error,
\* and reports and settings use up none.
THEOREM NoBusErrorIsCommitted == Spec => BusErrorsTrap
<1>1. TypeOK /\ [Next]_vars =>
        [(Running' /\ trapped' = Null) =>
           \A k \in 1 .. (Len(ioQueue) - Len(ioQueue')) : ~ioQueue[k].error]_vars
  <2> SUFFICES ASSUME TypeOK, Next, Running', trapped' = Null,
                      NEW k \in 1 .. (Len(ioQueue) - Len(ioQueue'))
               PROVE  ~ioQueue[k].error
    OBVIOUS
  <2>1. ioQueue \in Seq(IoAccesses) /\ Len(ioQueue) \in Nat
    BY DEF TypeOK
  <2>2. CASE ReportStep \/ SetupStep
    <3>1. ioQueue' = ioQueue \/ \E io : ioQueue' = Append(ioQueue, io)
      BY <2>2 DEF ReportStep, SetupStep, WriteRf, WriteCsr, ReadCsr, UnknownRf, ScStatus,
             IoAccess, AddRegion, SetPc, sifVars
    <3>2. Len(ioQueue') = Len(ioQueue) \/ Len(ioQueue') = Len(ioQueue) + 1
      BY <2>1, <3>1
    <3> QED BY <2>1, <3>2
  <2>3. ASSUME NEW p \in Pcs, CommitStep(p)
        PROVE  ~ioQueue[k].error
    <3>1. PICK n \in 0 .. Len(ioQueue), i \in Instructions : CommitAccepted(p, i, n)
      BY <2>3, RunningCommitIsAccepted
    <3>2. Completes(i, n, Held) /\ ioQueue' = SubSeq(ioQueue, n + 1, Len(ioQueue))
      BY <3>1 DEF CommitAccepted, CommitRetires, CommitSteps
    <3>3. k \in 1 .. n /\ n \in Nat
      BY <2>1, <3>2, QueueAfter
    <3>4. Served(i, k)
      BY <3>2, <3>3 DEF Completes
    <3> QED BY <3>4 DEF Served
  <2>4. ASSUME NEW t \in Trap, TrapStep(t)
        PROVE  FALSE
    BY <2>4, RunningTrapIsAccepted, DataAssumption DEF TrapAccepted
  <2> QED BY <2>2, <2>3, <2>4 DEF Next
<1> QED BY <1>1, HartTypeCorrect, PTL DEF Spec, BusErrorsTrap
=============================================================================
