------------------------------- MODULE Access -------------------------------
(***************************************************************************)
(* The index arithmetic of src/coherency.{hpp,cpp} over the paged Memory:  *)
(* CpuMemoryView::loadExecute reads memory and loops over the waiting      *)
(* stores, Access::bypass computes the overlap of two accesses.            *)
(* CpuMemoryView writes the data of an access as a function from addresses;*)
(* here it is what the code has, an array `bytes` indexed from 0, next to  *)
(* a u64 `addr` and a `len`.                                               *)
(***************************************************************************)
EXTENDS MemoryImpl

CONSTANTS
  U64,        \* how many values a u64 has
  Loads,      \* the <<address, length>> of the loads of a trace
  Stores      \* the stores of a trace

U32 == Size   \* Memory has a byte for every u32

ASSUME WidthAssumption == U64 \in Nat /\ U32 < U64

\* Accesses that stay below 4 GB: Memory has no more, the physical addresses of
\* the accesses Spike performs are compared as u32, and aligned ones do not
\* straddle its end.
ASSUME AccessAssumption ==
  /\ Loads \subseteq Nat \X Nat /\ \A r \in Loads : r[1] + r[2] <= U32
  /\ \A x \in Stores :
       /\ x.addr \in Nat /\ x.len \in Nat /\ x.addr + x.len <= U32
       /\ x.bytes \in [0 .. (x.len - 1) -> Byte]

VARIABLES
  list,     \* the waiting stores, from storeHead along next
  load,     \* the slot that loadExecute fills
  store     \* place in list of the store the loop is about to look at; 0: no loop

accessVars == <<vars, list, load, store>>

AccessInit ==
  /\ Init
  /\ list \in Seq(Stores)
  /\ load = Null
  /\ store = 0

Add64(x, y) == (x + y) % U64

Larger(x, y)  == IF x < y THEN y ELSE x
Smaller(x, y) == IF x < y THEN x ELSE y

\* Mutant: the two accesses have to be at the same address.
Overlap_SameAddress(st, ld) == ld.addr = st.addr

Overlap(st, ld) ==
  ld.addr < Add64(st.addr, st.len) /\ st.addr < Add64(ld.addr, ld.len)

\* Access::bypass: st.bypass(ld) returns ld with the bytes st covers.
Bypass(st, ld) ==
  LET startAt == Larger(ld.addr, st.addr)
      endAt   == Smaller(Add64(ld.addr, ld.len), Add64(st.addr, st.len))
  IN  IF Overlap(st, ld)
      THEN [ld EXCEPT !.bytes = [k \in DOMAIN @ |->
             IF startAt <= ld.addr + k /\ ld.addr + k < endAt
             THEN st.bytes[ld.addr + k - st.addr] ELSE @[k]]]
      ELSE ld

\* loadExecute up to its loop: memory.read allocates the pages it needs.
Execute(r) ==
  /\ store = 0
  /\ Read(r)
  /\ load' = [addr |-> r[1], len |-> r[2], bytes |-> [k \in 0 .. (r[2] - 1) |-> answer'[k + 1]]]
  /\ store' = 1
  /\ UNCHANGED list

\* One iteration of the loop over the waiting stores.
Iterate ==
  /\ store \in 1 .. Len(list)
  /\ load' = Bypass(list[store], load)
  /\ store' = store + 1
  /\ UNCHANGED <<vars, list>>

\* Another user of Memory: a loader, a fetch, a broadcast of any hart.
OtherUse == store = 0 /\ Next /\ UNCHANGED <<list, load, store>>

LoadStep == (\E r \in Loads : Execute(r)) \/ Iterate

AccessNext == OtherUse \/ LoadStep
AccessSpec == AccessInit /\ [][AccessNext]_accessVars

-----------------------------------------------------------------------------
Covers(x, a) == x.addr <= a /\ a < x.addr + x.len

\* The loop finds, for each byte of the load, the newest store that covers its
\* address, and memory if there is none: what CpuMemoryView calls Observed.
\* Every iteration keeps this for the stores looked at so far.
NewestStoreWins ==
  store > 0 => \A k \in 0 .. (load.len - 1) :
    LET a == load.addr + k
        covering == {i \in 1 .. (store - 1) : Covers(list[i], a)}
    IN  \/ covering = {} /\ load.bytes[k] = contentBar[a]
        \/ \E i \in covering :
             /\ \A j \in covering : j <= i
             /\ load.bytes[k] = list[i].bytes[a - list[i].addr]
=============================================================================
