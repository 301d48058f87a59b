-------------------------------- MODULE Hart --------------------------------
(***************************************************************************)
(* One hart of src/hart.{hpp,cpp}: class Hart and its class SpikeIf.  The  *)
(* trace reports what the DUT's instruction did ("rf w", "rf r", "store    *)
(* sc", "io") and then retires it ("commit" or "trap").  Retiring lets     *)
(* Spike execute one instruction and compares the two.  What the DUT has   *)
(* and Spike cannot know (the interrupt pins, the counters) is copied into *)
(* Spike before its step and taken back after it.                          *)
(*                                                                         *)
(* Spike is external: it executes one of Instructions, or it traps.  What  *)
(* an instruction writes is abstract; how Hart makes Spike execute it, and *)
(* what Hart reads back, is not.  The memory view the hart calls is module *)
(* CpuMemoryView; here its calls return or throw.                          *)
(***************************************************************************)
EXTENDS Integers, Sequences, FiniteSets

CONSTANTS
  Value,          \* the data of a register or an IO access
  Bits,           \* the interrupts: the bits of mip and mie
  Codes,          \* the codes of the exceptions Spike may raise
  Instructions,   \* what Spike may execute, see Instruction
  Csrs,           \* the CSRs a trace may name, of AllCsrs
  Regions,        \* the memory regions a trace may add
  IoAccesses,     \* the IO accesses a trace may hold
  IoFirst, IoLast,\* 0x10000000 and 0x20000000
  U64,            \* how many values a u64 has
  Xlen, Phys,     \* how many addresses xlen and physWidth bits have
  Pcs,            \* the addresses of instructions
  TrapVector,     \* the address of the trap handler
  MaxReports,     \* bound: how many register writes are reported per commit
  Rd,             \* the addresses of registers, and 32
  MaxRegions,     \* bound: how many regions a hart has
  MaxIo,          \* bound: length of the queue of IO accesses
  Null

\* MIE_MTIE | MIE_MEIE | MIE_MSIE | MIE_SEIE.  SSI and STI are not among them.
Maskable == {"MTI", "MEI", "MSI", "SEI"}

AllCsrs  == {"mip", "sip", "mie", "sie", "mcycle", "other"}
RfKinds  == {"integer", "float"}
LogKinds == RfKinds \cup {"vector"}   \* of log_reg_write, next to the CSRs
Pending  == {"mip", "sip"}
Word     == SUBSET Bits

Trap     == [interrupt : {TRUE}, code : Bits] \cup [interrupt : {FALSE}, code : Codes]

Access == [write : BOOLEAN, addr : 0 .. (U64 - 1), size : Nat, data : Value]

(***************************************************************************)
(* What an instruction does in Spike: the registers and CSRs in            *)
(* log_reg_write, whether it is a CSR instruction, an xRET or neither, the *)
(* accesses it makes (all at one address), mie after it writes it, if it   *)
(* does, whether it takes (LR) or needs (an SC that stores) a load         *)
(* reservation, and the next pc.  The data of a load is what it receives.  *)
(***************************************************************************)
Instruction ==
  [rf : UNION {[K -> [rd : Rd, data : Value]] : K \in SUBSET LogKinds},
   csrs : SUBSET AllCsrs, kind : {"csr", "xret", "other"},
   accesses : Seq(Access), mie : Word, atomic : {"none", "lr", "sc", "scFails"},
   next : Pcs]

WritesMie(i) == i.csrs \cap {"mie", "sie"} # {}

ASSUME WidthAssumption ==
  /\ U64 \in Nat \ {0} /\ Xlen \in 1 .. U64 /\ Phys \in 1 .. U64
  /\ Pcs \subseteq 0 .. (U64 - 1) /\ TrapVector \in Pcs
ASSUME DataAssumption ==
  /\ Null \notin Trap /\ 0 \in Value
  /\ MaxReports \in Nat /\ MaxIo \in Nat /\ MaxRegions \in Nat /\ Rd \subseteq Nat
  /\ Csrs \subseteq AllCsrs
  /\ IoAccesses \subseteq
       [write : BOOLEAN, addr : 0 .. (U64 - 1), size : Nat, data : Value, error : BOOLEAN]
  /\ Regions \subseteq [type : {"mem", "io"}, base : 0 .. (U64 - 1), size : 0 .. (U64 - 1)]
\* The privileged architecture: only a CSR instruction changes mie.
ASSUME SpikeAssumption ==
  /\ Instructions \subseteq Instruction
  /\ \A i \in Instructions : WritesMie(i) => i.kind = "csr"
  /\ \A i \in Instructions : \A k \in 1 .. Len(i.accesses) :
       i.accesses[k].addr = i.accesses[1].addr

VARIABLES
  rf,           \* the register writes reported for the next commit, by kind
  csr,          \* the CSR access reported for the next commit
  sc,           \* the outcome of a store conditional, likewise
  regions,      \* SpikeIf: the memory regions, searched in this order
  ioQueue,      \* SpikeIf: the IO accesses of the DUT, oldest first
  pc, mip, mie, \* Spike: its registers
  counter,      \* Spike: one of the counters, mcycle
  reservation,  \* Spike: the hart holds a load reservation
  trapped,      \* Spike: what its last step trapped on, or Null
  status,       \* "failed" once a handler has thrown
  reported,     \* history: all register writes reported since the last commit
  programMie    \* history: mie if nobody but the program had written it

hartVars  == <<rf, csr, sc>>
sifVars   == <<regions, ioQueue>>
spikeVars == <<pc, mip, mie, counter, reservation, trapped>>
vars      == <<hartVars, sifVars, spikeVars, status, reported, programMie>>

Running == status = "running"
Fail    == status' = "failed"

TypeOK ==
  /\ rf \in [RfKinds -> [valid : BOOLEAN, data : Value]]
  /\ csr \in [address : AllCsrs, write : BOOLEAN, read : BOOLEAN, readData : Word]
  /\ sc \in [valid : BOOLEAN, failure : BOOLEAN]
  /\ regions \in Seq(Regions)
  /\ ioQueue \in Seq(IoAccesses)
  /\ pc \in 0 .. (U64 - 1)
  /\ mip \in Word /\ mie \in Word /\ programMie \in Word
  /\ counter \in Word
  /\ reservation \in BOOLEAN
  /\ trapped \in {Null} \cup Trap
  /\ status \in {"running", "failed"}
  /\ reported \in [RfKinds -> Seq([address : Rd, data : Value])]

\* A new hart: the members have their initialisers, Spike its reset state.
Init ==
  /\ rf = [k \in RfKinds |-> [valid |-> FALSE, data |-> 0]]
  /\ csr = [address |-> "other", write |-> FALSE, read |-> FALSE, readData |-> {}]
  /\ sc = [valid |-> FALSE, failure |-> FALSE]
  /\ regions = <<>> /\ ioQueue = <<>>
  /\ pc \in Pcs
  /\ mip = {} /\ mie = {} /\ programMie = {}
  /\ counter = {}
  /\ reservation = FALSE
  /\ trapped = Null
  /\ status = "running"
  /\ reported = [k \in RfKinds |-> <<>>]

-----------------------------------------------------------------------------
(***************************************************************************)
(* Spike and SpikeIf: how an instruction's accesses are answered.          *)
(***************************************************************************)

\* SpikeIf::getRegion: the first region that holds the address; the end of a
\* region is a u64.
RegionType(a) ==
  LET holds == {k \in 1 .. Len(regions) :
                  regions[k].base <= a /\ a < (regions[k].base + regions[k].size) % U64}
  IN  IF holds = {} THEN "none"
      ELSE regions[CHOOSE k \in holds : \A j \in holds : k <= j].type

Route(i) == IF i.accesses = <<>> THEN "unused" ELSE RegionType(i.accesses[1].addr)

InWindow(i) == IoFirst <= i.accesses[1].addr /\ i.accesses[1].addr <= IoLast

\* The front of the queue when Spike makes its k-th access is the k-th entry:
\* every access before it has taken one.
Matches(i, k) ==
  /\ k <= Len(ioQueue)
  /\ ioQueue[k].write = i.accesses[k].write
  /\ ioQueue[k].addr = i.accesses[k].addr
  /\ ioQueue[k].size = i.accesses[k].size
  /\ i.accesses[k].write => ioQueue[k].data = i.accesses[k].data

\* Mutant: the error the DUT saw on its bus is not passed on to Spike.
Served_IgnoresError(i, k) == Matches(i, k) /\ ioQueue[k].data = i.accesses[k].data

\* The access is answered, with the data of the queue.
Served(i, k) ==
  /\ Matches(i, k)
  /\ ioQueue[k].data = i.accesses[k].data
  /\ ~ioQueue[k].error

\* All accesses of i are answered and n entries of the queue are used up.  The
\* memory view answers the accesses to memory, or it throws.
Completes(i, n, held) ==
  /\ i.atomic = "sc" => held
  /\ i.atomic = "scFails" => ~held
  /\ \/ Route(i) \in {"unused", "mem"} /\ n = 0
     \/ /\ Route(i) = "io" /\ InWindow(i)
        /\ n = Len(i.accesses) /\ \A k \in 1 .. n : Served(i, k)

\* mmio_load or mmio_store returns false at the n-th access.
Faults(i, n) ==
  \/ n = 0 /\ (Route(i) = "none" \/ (Route(i) = "io" /\ ~InWindow(i)))
  \/ /\ Route(i) = "io" /\ InWindow(i)
     /\ n \in 1 .. Len(i.accesses)
     /\ \A k \in 1 .. (n - 1) : Served(i, k)
     /\ Matches(i, n) /\ ioQueue[n].error

\* A callback throws: the memory view, or an access the DUT has not reported.
Throws(i, n) ==
  \/ n = 0 /\ Route(i) = "mem"
  \/ /\ Route(i) = "io" /\ InWindow(i)
     /\ n + 1 \in 1 .. Len(i.accesses)
     /\ \A k \in 1 .. n : Served(i, k)
     /\ ~Matches(i, n + 1)

\* Spike traps on t: on an interrupt that is pending and enabled, on a fault of
\* the instruction itself, or because an access of it is refused.
Traps(t, ip, ie, n) ==
  \/ t.interrupt /\ t.code \in ip \cap ie /\ n = 0
  \/ ~t.interrupt /\ t.code \in Codes /\ n = 0
  \/ ~t.interrupt /\ t.code = "AccessFault" /\ \E i \in Instructions : Faults(i, n)


-----------------------------------------------------------------------------
(***************************************************************************)
(* What the trace reports of the next instruction.                         *)
(***************************************************************************)

WriteRf(k, address, data) ==
  /\ Running
  /\ Len(reported["integer"]) + Len(reported["float"]) < MaxReports
  /\ rf' = [rf EXCEPT ![k] = [valid |-> TRUE, data |-> data]]
  /\ reported' = [reported EXCEPT ![k] = Append(@, [address |-> address, data |-> data])]
  /\ UNCHANGED <<csr, sc, sifVars, spikeVars, status, programMie>>

OtherCsr(address) == (csr.write \/ csr.read) /\ csr.address # address

\* The data of a CSR write is never compared: commit has that check commented out.
WriteCsr(address) ==
  /\ Running
  /\ IF OtherCsr(address) THEN Fail /\ UNCHANGED csr
     ELSE csr' = [csr EXCEPT !.address = address, !.write = TRUE] /\ UNCHANGED status
  /\ UNCHANGED <<rf, sc, sifVars, spikeVars, reported, programMie>>

ReadCsr(address, data) ==
  /\ Running
  /\ IF OtherCsr(address) THEN Fail /\ UNCHANGED csr
     ELSE /\ csr' = [csr EXCEPT !.address = address, !.read = TRUE, !.readData = data]
          /\ UNCHANGED status
  /\ UNCHANGED <<rf, sc, sifVars, spikeVars, reported, programMie>>

\* writeRf of another kind, readRf of a kind that is not CSR.
UnknownRf == Running /\ Fail /\ UNCHANGED <<hartVars, sifVars, spikeVars, reported, programMie>>

ScStatus(failure) ==
  /\ Running
  /\ sc' = [valid |-> TRUE, failure |-> failure]
  /\ UNCHANGED <<rf, csr, sifVars, spikeVars, status, reported, programMie>>

IoAccess(io) ==
  /\ Running
  /\ Len(ioQueue) < MaxIo
  /\ ioQueue' = Append(ioQueue, io)
  /\ UNCHANGED <<hartVars, regions, spikeVars, status, reported, programMie>>

AddRegion(r) ==
  /\ Running
  /\ Len(regions) < MaxRegions
  /\ regions' = Append(regions, r)
  /\ UNCHANGED <<hartVars, ioQueue, spikeVars, status, reported, programMie>>

SetPc(p) ==
  /\ Running
  /\ pc' = p
  /\ UNCHANGED <<hartVars, sifVars, mip, mie, counter, reservation, trapped,
                 status, reported, programMie>>

-----------------------------------------------------------------------------
(***************************************************************************)
(* Hart::commit and Hart::trap.                                            *)
(***************************************************************************)

\* Mutant: the width is off by one.
PhysExtend_OneBitLess(p) ==
  LET low == p % Phys IN IF 2 * low >= Phys THEN low + U64 - (Phys \div 2) ELSE low

\* Hart::physExtends: sign extension from physWidth bits.
PhysExtend(p) ==
  LET low == p % Phys IN IF 2 * low >= Phys THEN low + U64 - Phys ELSE low

SyncsPending == csr.read /\ csr.address \in Pending

\* Mutant: mie is not masked while mip shows the pins.
Masked_None == mie

\* mip and mie while Spike steps.
Synced == IF SyncsPending THEN csr.readData ELSE mip
Masked == IF SyncsPending THEN mie \ Maskable ELSE mie

\* mie after the step, where the bits that were masked are put back.
Restored(ie) == IF SyncsPending THEN (ie \ Maskable) \cup (mie \cap Maskable) ELSE ie

SyncedCounter == IF csr.read /\ csr.address = "mcycle" THEN csr.readData ELSE counter

\* A store conditional that failed in the DUT fails in Spike, too.
Held == reservation /\ ~(sc.valid /\ sc.failure)

\* What Spike's step leaves in mie, in the reservation and in the counter.
MieAfter(i, ie)   == IF WritesMie(i) THEN i.mie ELSE ie
HeldAfter(i, held) == IF i.atomic = "none" THEN held ELSE i.atomic = "lr"
CounterAfter(i, value) == IF "mcycle" \in i.csrs THEN Word ELSE {value}

\* The comparison ignores the two bits of a CSR address that tell its privilege.
SameCsr(c, d) ==
  \/ c = d
  \/ c \in Pending /\ d \in Pending
  \/ c \in {"mie", "sie"} /\ d \in {"mie", "sie"}

\* Mutant: the address of the CSR is not compared.
CsrAgrees_AnyAddress(i) ==
  IF i.kind = "csr" /\ i.csrs # {} THEN csr.write ELSE csr.write => i.csrs # {}

\* The loop over log_reg_write consumes csrWrite at its first CSR.
CsrAgrees(i) ==
  IF i.kind = "csr" /\ i.csrs # {}
  THEN csr.write /\ \E c \in i.csrs : i.csrs = {c} /\ SameCsr(c, csr.address)
  ELSE csr.write => i.csrs # {}

\* Mutant: a write that was reported and that Spike did not make is let through.
RfAgrees_Spawned(i) ==
  \A k \in DOMAIN i.rf : k \in RfKinds /\ rf[k].valid /\ rf[k].data = i.rf[k].data

\* Each write of Spike was reported with its data, and no other one was; a write of
\* another kind is an "unknown spike trace".
RfAgrees(i) ==
  /\ DOMAIN i.rf \subseteq RfKinds
  /\ \A k \in RfKinds :
       /\ rf[k].valid <=> k \in DOMAIN i.rf
       /\ k \in DOMAIN i.rf => rf[k].data = i.rf[k].data

\* commit up to Spike's step, in which n entries of ioQueue are used up.
CommitSteps(p, n) ==
  /\ Running
  /\ p = pc % Xlen
  /\ sc' = [sc EXCEPT !.valid = FALSE]
  /\ ioQueue' = SubSeq(ioQueue, n + 1, Len(ioQueue))
  /\ UNCHANGED regions

\* Spike executes i in that step and memory.step() returns.
CommitRetires(p, i, n) ==
  /\ CommitSteps(p, n)
  /\ Completes(i, n, Held)
  /\ trapped' = Null
  /\ mip' = {}
  /\ mie' = Restored(MieAfter(i, Masked))
  /\ reservation' = HeldAfter(i, Held)
  /\ counter' \in CounterAfter(i, SyncedCounter)
  /\ programMie' = MieAfter(i, programMie)

CommitAccepted(p, i, n) ==
  /\ CommitRetires(p, i, n)
  /\ RfAgrees(i) /\ CsrAgrees(i)
  /\ pc' = IF i.kind = "xret" /\ i.csrs # {} THEN PhysExtend(i.next) ELSE i.next
  /\ rf' = [k \in RfKinds |-> [rf[k] EXCEPT !.valid = FALSE]]
  /\ csr' = [csr EXCEPT !.read = FALSE, !.write = FALSE]
  /\ reported' = [k \in RfKinds |-> <<>>]
  /\ UNCHANGED status

\* Nothing reads the flags again that the comparison has cleared before it threw.
CommitMismatch(p, i, n) ==
  /\ CommitRetires(p, i, n)
  /\ ~(RfAgrees(i) /\ CsrAgrees(i))
  /\ pc' = i.next
  /\ Fail
  /\ UNCHANGED <<rf, csr, reported>>

CommitMissedTrap(p, t, n) ==
  /\ CommitSteps(p, n)
  /\ Traps(t, Synced, Masked, n)
  /\ trapped' = t
  /\ pc' = TrapVector
  /\ \/ mip' = {} /\ mie' = Restored(Masked)
     \/ mip' = Synced /\ mie' = Masked          \* memory.step() throws first
  /\ reservation' = Held
  /\ counter' = SyncedCounter
  /\ Fail
  /\ UNCHANGED <<rf, csr, reported, programMie>>

\* Spike executes i, and memory.step() throws: the CSRs are not synchronised back.
CommitUnclean(p, i, n) ==
  /\ CommitSteps(p, n)
  /\ Completes(i, n, Held)
  /\ trapped' = Null
  /\ pc' = i.next
  /\ mip' = Synced
  /\ mie' = MieAfter(i, Masked)
  /\ reservation' = HeldAfter(i, Held)
  /\ counter' \in CounterAfter(i, SyncedCounter)
  /\ Fail
  /\ UNCHANGED <<rf, csr, reported, programMie>>

\* Spike's step throws.
CommitStepThrows(p, n) ==
  /\ CommitSteps(p, n)
  /\ \E i \in Instructions : Throws(i, n)
  /\ mip' = Synced
  /\ mie' = Masked
  /\ reservation' = Held
  /\ counter' = SyncedCounter
  /\ Fail
  /\ UNCHANGED <<rf, csr, pc, trapped, reported, programMie>>

CommitWrongPc(p) ==
  /\ Running
  /\ p # pc % Xlen
  /\ Fail
  /\ UNCHANGED <<hartVars, sifVars, spikeVars, reported, programMie>>

\* Spike's step in trap(), with the interrupt the DUT took pending, and the
\* clearing of that interrupt.
TrapSteps(t, n) ==
  /\ Running
  /\ ioQueue' = SubSeq(ioQueue, n + 1, Len(ioQueue))
  /\ mip' = IF t.interrupt THEN mip \ {t.code} ELSE mip
  /\ UNCHANGED <<hartVars, regions, counter, reported>>

RaisedMip(t) == IF t.interrupt THEN mip \cup {t.code} ELSE mip

\* The DUT trapped on t, and so did Spike.
TrapAccepted(t, n) ==
  /\ TrapSteps(t, n)
  /\ Traps(t, RaisedMip(t), mie, n)
  /\ trapped' = t
  /\ pc' = PhysExtend(TrapVector)
  /\ UNCHANGED <<mie, reservation, status, programMie>>

\* Spike trapped on another u, or memory.step() throws.
TrapMismatch(t, u, n) ==
  /\ TrapSteps(t, n)
  /\ Traps(u, RaisedMip(t), mie, n)
  /\ trapped' = u
  /\ pc' = TrapVector
  /\ Fail
  /\ UNCHANGED <<mie, reservation, programMie>>

\* Spike executed i instead.
TrapNotTaken(t, i, n) ==
  /\ TrapSteps(t, n)
  /\ Completes(i, n, reservation)
  /\ trapped' = Null
  /\ pc' = i.next
  /\ mie' = MieAfter(i, mie)
  /\ programMie' = MieAfter(i, programMie)
  /\ reservation' = HeldAfter(i, reservation)
  /\ Fail

TrapStepThrows(t, n) ==
  /\ Running
  /\ \E i \in Instructions : Throws(i, n)
  /\ ioQueue' = SubSeq(ioQueue, n + 1, Len(ioQueue))
  /\ mip' = RaisedMip(t)
  /\ Fail
  /\ UNCHANGED <<hartVars, regions, pc, mie, counter, reservation, trapped,
                 reported, programMie>>

-----------------------------------------------------------------------------
ReportStep ==
  \/ \E k \in RfKinds, a \in Rd, d \in Value : WriteRf(k, a, d)
  \/ \E c \in Csrs : WriteCsr(c)
  \/ \E c \in Csrs, d \in Word : ReadCsr(c, d)
  \/ UnknownRf
  \/ \E failure \in BOOLEAN : ScStatus(failure)
  \/ \E io \in IoAccesses : IoAccess(io)

SetupStep ==
  \/ \E r \in Regions : AddRegion(r)
  \/ \E p \in Pcs : SetPc(p)

CommitStep(p) ==
  \/ \E n \in 0 .. Len(ioQueue) :
       \/ \E i \in Instructions : \/ CommitAccepted(p, i, n)
                                 \/ CommitMismatch(p, i, n)
                                 \/ CommitUnclean(p, i, n)
       \/ \E t \in Trap : CommitMissedTrap(p, t, n)
       \/ CommitStepThrows(p, n)
  \/ CommitWrongPc(p)

TrapStep(t) ==
  \E n \in 0 .. Len(ioQueue) :
    \/ TrapAccepted(t, n)
    \/ \E u \in Trap : TrapMismatch(t, u, n)
    \/ \E i \in Instructions : TrapNotTaken(t, i, n)
    \/ TrapStepThrows(t, n)

Next ==
  \/ ReportStep
  \/ SetupStep
  \/ \E p \in Pcs : CommitStep(p)
  \/ \E t \in Trap : TrapStep(t)

Spec == Init /\ [][Next]_vars

-----------------------------------------------------------------------------
(***************************************************************************)
(* Properties.                                                             *)
(***************************************************************************)

\* What Hart copies into Spike's interrupt registers never outlives the step it
\* is for: between two instructions no interrupt is pending in Spike, and mie is
\* what the program has written, although commit masks it for a read of mip and
\* restores it from a copy taken before the instruction.
InterruptStateOwned == Running => mip = {} /\ mie = programMie

\* Spike never takes a maskable interrupt of its own accord: it takes one when
\* the DUT reports it as a trap, and not while the DUT reports a commit that
\* reads pins that are set.
InterruptsComeFromTraps ==
  [][\A p \in Pcs, t \in Trap :
       CommitMissedTrap(p, t, 0) => ~(t.interrupt /\ t.code \in Maskable)]_vars

\* An accepted instruction made the register writes the DUT reported since the
\* one before, traps in between included: each kind that was reported was
\* written and conversely, and the last value reported is the one written.
ReportsChecked ==
  [][Running' => \A p \in Pcs, i \in Instructions, n \in 0 .. MaxIo :
       CommitAccepted(p, i, n) => \A k \in RfKinds :
         /\ reported[k] # <<>> <=> k \in DOMAIN i.rf
         /\ reported[k] # <<>> => reported[k][Len(reported[k])].data = i.rf[k].data]_vars

\* An IO access on which the DUT saw a bus error leads to a trap: no commit that
\* is accepted uses it up.
BusErrorsTrap ==
  [][(Running' /\ trapped' = Null) =>
       \A k \in 1 .. (Len(ioQueue) - Len(ioQueue')) : ~ioQueue[k].error]_vars

\* The trace format: a register address other than 32 is checked.
AddressChecked ==
  [][Running' => \A p \in Pcs, i \in Instructions, n \in 0 .. MaxIo :
       CommitAccepted(p, i, n) => \A k \in DOMAIN i.rf :
         reported[k][Len(reported[k])].address \in {32, i.rf[k].rd}]_vars
=============================================================================
