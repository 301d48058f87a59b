------------------------------- MODULE MCHart -------------------------------
(***************************************************************************)
(* Instances of Hart for TLC: a u64 has 5 bits, xlen is 4 and physWidth 3. *)
(***************************************************************************)
EXTENDS Hart

NoRf    == [k \in {} |-> Null]
Plain   == [rf |-> NoRf, csrs |-> {}, kind |-> "other", accesses |-> <<>>,
            mie |-> {}, atomic |-> "none", next |-> 1]
Writes(d) == [k \in {"integer"} |-> [rd |-> 1, data |-> d]]
Floats(d) == [k \in {"float"} |-> [rd |-> 1, data |-> d]]
Vector    == [k \in {"vector"} |-> [rd |-> 1, data |-> 0]]

\* Instructions that compute, write mie, read or write mip, return from a trap.
Computing ==
  {Plain, [Plain EXCEPT !.rf = Vector]} \cup {[Plain EXCEPT !.rf = Writes(d)] : d \in Value}
    \cup {[Plain EXCEPT !.rf = Floats(d), !.csrs = {"other"}] : d \in Value}
WritingCsr ==
  {[Plain EXCEPT !.kind = "csr", !.csrs = {"mie"}, !.mie = m] : m \in Word}
    \cup {[Plain EXCEPT !.kind = "csr", !.csrs = {c}] : c \in {"mip", "mcycle"}}
    \cup {[Plain EXCEPT !.kind = "xret", !.csrs = {"other"}, !.next = 4]}
Reserving ==
  {[Plain EXCEPT !.atomic = a] : a \in {"lr", "sc", "scFails"}}
Interruptible == {Plain} \cup WritingCsr \cup Reserving

\* Loads and stores of IO at address 2, and an AMO that does both; a store at
\* address 6, which lies in the region but not in the window.
Io(w, a, d)  == [write |-> w, addr |-> a, size |-> 1, data |-> d]
Accessing ==
  {[Plain EXCEPT !.rf = Writes(d), !.accesses = <<Io(FALSE, 2, d)>>] : d \in Value}
    \cup {[Plain EXCEPT !.accesses = <<Io(TRUE, 2, d)>>] : d \in Value}
    \cup {[Plain EXCEPT !.rf = Writes(d), !.accesses = <<Io(FALSE, 2, d), Io(TRUE, 2, 0)>>] : d \in Value}
    \cup {[Plain EXCEPT !.accesses = <<Io(TRUE, 6, 0)>>]}

DutIo ==
  {io \in [write : BOOLEAN, addr : {2}, size : {1}, data : Value, error : BOOLEAN] :
     io.error => io.data = 0 /\ ~io.write}
Memories == {[type |-> "mem", base |-> 0, size |-> 3], [type |-> "io", base |-> 2, size |-> 5]}
Reported == Computing \cup Accessing

\* What a step of a running hart, or a property, reads: no data that is not valid.
Live ==
  IF ~Running THEN <<status>>
  ELSE <<[k \in RfKinds |-> IF rf[k].valid THEN rf[k] ELSE Null],
         IF csr.read \/ csr.write THEN <<csr.address, csr.write>> ELSE Null,
         IF csr.read THEN csr.readData ELSE Null,
         IF sc.valid THEN sc ELSE Null,
         regions, ioQueue, pc, mip, mie, counter, reservation, trapped,
         reported, programMie>>
=============================================================================
