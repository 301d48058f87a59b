--------------------------- MODULE Access_proofs ---------------------------
(***************************************************************************)
(* The byte arithmetic of a load, for any sizes, addresses and lists of    *)
(* stores: CpuMemoryView::loadExecute and Access::bypass find the newest   *)
(* store of every byte, and memory where there is none.                    *)
(***************************************************************************)
EXTENDS Access, Memory_proofs, TLAPS

-----------------------------------------------------------------------------
(***************************************************************************)
(* Memory, used by loads and by others.                                    *)
(***************************************************************************)

\* The read of a load is a read that the flat memory answers.
LEMMA LoadIsFlatStep ==
  ASSUME TypeOK, NEW r \in Loads, Read(r)
  PROVE  IsFlatStep
<1>1. r[1] \in Nat /\ r[2] \in Nat /\ r[1] + r[2] <= Size /\ Size \in Nat
  BY AccessAssumption, Sizes DEF U32
<1>2. r[2] \in 0 .. Size /\ (r[1] < Size \/ r[2] = 0)
  BY <1>1
<1> QED BY <1>1, <1>2, ReadIsFlatStep

LEMMA AccessIsFlatStep ==
  ASSUME TypeOK, [AccessNext]_accessVars
  PROVE  IsFlatStep
<1>1. ASSUME NEW r \in Loads, Execute(r) PROVE IsFlatStep
  BY <1>1, LoadIsFlatStep DEF Execute
<1>2. CASE Iterate
  BY <1>2, StutterIsFlatStep DEF Iterate
<1>3. CASE OtherUse
  BY <1>3, NextIsFlatStep DEF OtherUse
<1>4. CASE UNCHANGED accessVars
  BY <1>4, StutterIsFlatStep DEF accessVars
<1> QED BY <1>1, <1>2, <1>3, <1>4 DEF AccessNext, LoadStep

\* The memory that loads and others use keeps its type.
THEOREM AccessKeepsMemoryType == AccessSpec => []TypeOK
<1>1. AccessInit => TypeOK
  BY InitIsFlat DEF AccessInit
<1>2. TypeOK /\ [AccessNext]_accessVars => TypeOK'
  BY AccessIsFlatStep, FlatStepKeepsTable
<1> QED BY <1>1, <1>2, PTL DEF AccessSpec

\* To the loads of a hart, as to everybody else, the memory is flat.
THEOREM AccessImplementsFlatMemory == AccessSpec => MemoryIsFlat
<1>1. AccessInit => Flat!Init
  BY InitIsFlat DEF AccessInit
<1>2. TypeOK /\ [AccessNext]_accessVars => [Flat!Next]_(Flat!vars)
  BY AccessIsFlatStep DEF IsFlatStep, Flat!vars
<1> QED BY <1>1, <1>2, AccessKeepsMemoryType, PTL DEF AccessSpec, MemoryIsFlat, Flat!Spec

-----------------------------------------------------------------------------
(***************************************************************************)
(* The loop over the waiting stores.                                       *)
(***************************************************************************)

\* x is what the first n stores of the list leave at address a.
IsByteAfter(n, a, x) ==
  LET covering == {i \in 1 .. n : Covers(list[i], a)}
  IN  \/ covering = {} /\ x = contentBar[a]
      \/ \E i \in covering :
           (\A j \in covering : j <= i) /\ x = list[i].bytes[a - list[i].addr]

\* The slot that is filled holds a load of the trace.
LoadTyped ==
  store > 0 => \E r \in Loads :
    /\ load = [addr |-> r[1], len |-> r[2], bytes |-> load.bytes]
    /\ DOMAIN load.bytes = 0 .. (r[2] - 1)

LoopInvariant ==
  /\ list \in Seq(Stores) /\ store \in Nat
  /\ LoadTyped
  /\ store > 0 => \A k \in 0 .. (load.len - 1) :
       IsByteAfter(store - 1, load.addr + k, load.bytes[k])

LEMMA LoopInvariantIsEnough == LoopInvariant => NewestStoreWins
BY DEF LoopInvariant, IsByteAfter, NewestStoreWins

LEMMA NoWrap ==
  ASSUME NEW m \in Nat, NEW u \in Nat, m < u
  PROVE  m % u = m
OBVIOUS

\* The overlap, cut to a byte of the load, says that the store covers the byte.
LEMMA OverlapIsCover ==
  ASSUME NEW la \in Nat, NEW ll \in Nat, NEW sa \in Nat, NEW sl \in Nat,
         NEW k \in 0 .. (ll - 1)
  PROVE  (sa <= la + k /\ la + k < sa + sl) <=>
           /\ la < sa + sl /\ sa < la + ll
           /\ Larger(la, sa) <= la + k /\ la + k < Smaller(la + ll, sa + sl)
BY DEF Larger, Smaller

\* Access::bypass on two accesses below 4 GB, where no sum wraps.
LEMMA BypassCovers ==
  ASSUME NEW x \in Stores, NEW r \in Loads, NEW ld,
         ld = [addr |-> r[1], len |-> r[2], bytes |-> ld.bytes],
         DOMAIN ld.bytes = 0 .. (r[2] - 1)
  PROVE  /\ Bypass(x, ld) = [addr |-> r[1], len |-> r[2], bytes |-> Bypass(x, ld).bytes]
         /\ DOMAIN Bypass(x, ld).bytes = 0 .. (r[2] - 1)
         /\ \A k \in 0 .. (r[2] - 1) :
              Bypass(x, ld).bytes[k] = IF Covers(x, r[1] + k)
                                       THEN x.bytes[(r[1] + k) - x.addr] ELSE ld.bytes[k]
<1>1. /\ r[1] \in Nat /\ r[2] \in Nat /\ r[1] + r[2] <= U32
      /\ x.addr \in Nat /\ x.len \in Nat /\ x.addr + x.len <= U32
      /\ U64 \in Nat /\ U32 < U64 /\ U32 \in Nat
  BY AccessAssumption, WidthAssumption, SizeAssumption DEF U32, Size
<1>2. Add64(r[1], r[2]) = r[1] + r[2] /\ Add64(x.addr, x.len) = x.addr + x.len
  <2>1. r[1] + r[2] \in Nat /\ r[1] + r[2] < U64
    BY <1>1
  <2>2. x.addr + x.len \in Nat /\ x.addr + x.len < U64
    BY <1>1
  <2> QED BY <1>1, <2>1, <2>2, NoWrap DEF Add64
<1>3. ld.addr = r[1] /\ ld.len = r[2]
  OBVIOUS
<1> DEFINE startAt == Larger(r[1], x.addr)
           endAt   == Smaller(r[1] + r[2], x.addr + x.len)
           bypassed == [k \in 0 .. (r[2] - 1) |->
                          IF startAt <= r[1] + k /\ r[1] + k < endAt
                          THEN x.bytes[r[1] + k - x.addr] ELSE ld.bytes[k]]
<1>4. Overlap(x, ld) <=> (r[1] < x.addr + x.len /\ x.addr < r[1] + r[2])
  BY <1>2, <1>3 DEF Overlap
<1>5. ASSUME NEW k \in 0 .. (r[2] - 1)
      PROVE  Covers(x, r[1] + k) <=>
               (Overlap(x, ld) /\ startAt <= r[1] + k /\ r[1] + k < endAt)
  <2>1. (x.addr <= r[1] + k /\ r[1] + k < x.addr + x.len) <=>
          /\ r[1] < x.addr + x.len /\ x.addr < r[1] + r[2]
          /\ startAt <= r[1] + k /\ r[1] + k < endAt
    BY <1>1, OverlapIsCover
  <2> HIDE DEF startAt, endAt
  <2> QED BY <1>4, <2>1 DEF Covers
<1>6. CASE Overlap(x, ld)
  <2>1. Bypass(x, ld) = [ld EXCEPT !.bytes = bypassed]
    BY <1>2, <1>3, <1>6 DEF Bypass
  <2>2. ASSUME NEW k \in 0 .. (r[2] - 1)
        PROVE  bypassed[k] = IF Covers(x, r[1] + k)
                             THEN x.bytes[(r[1] + k) - x.addr] ELSE ld.bytes[k]
    <3>1. r[1] + k - x.addr = (r[1] + k) - x.addr
      BY <1>1
    <3>2. bypassed[k] = IF startAt <= r[1] + k /\ r[1] + k < endAt
                        THEN x.bytes[r[1] + k - x.addr] ELSE ld.bytes[k]
      OBVIOUS
    <3> HIDE DEF bypassed, startAt, endAt
    <3> QED BY <1>5, <1>6, <3>1, <3>2
  <2>3. DOMAIN bypassed = 0 .. (r[2] - 1)
    OBVIOUS
  <2> HIDE DEF bypassed
  <2>4. Bypass(x, ld) = [addr |-> r[1], len |-> r[2], bytes |-> bypassed]
    BY <2>1
  <2> QED BY <2>2, <2>3, <2>4
<1>7. CASE ~Overlap(x, ld)
  <2>1. Bypass(x, ld) = ld
    BY <1>7 DEF Bypass
  <2> QED BY <1>5, <1>7, <2>1
<1> QED BY <1>6, <1>7

\* One store more: it is the newest of those that cover the address, or not one.
LEMMA OneStoreMore ==
  ASSUME NEW n \in Nat, NEW a, NEW x, IsByteAfter(n, a, x), NEW y,
         y = IF Covers(list[n + 1], a) THEN list[n + 1].bytes[a - list[n + 1].addr] ELSE x
  PROVE  IsByteAfter(n + 1, a, y)
<1> DEFINE before == {i \in 1 .. n : Covers(list[i], a)}
           after  == {i \in 1 .. (n + 1) : Covers(list[i], a)}
<1>1. CASE Covers(list[n + 1], a)
  <2>1. n + 1 \in after /\ \A j \in after : j <= n + 1
    BY <1>1
  <2> QED BY <1>1, <2>1 DEF IsByteAfter
<1>2. CASE ~Covers(list[n + 1], a)
  <2>1. after = before
    BY <1>2
  <2>2. y = x
    BY <1>2
  <2> QED BY <2>1, <2>2 DEF IsByteAfter
<1> QED BY <1>1, <1>2

-----------------------------------------------------------------------------
LEMMA ExecuteStartsLoop ==
  ASSUME TypeOK, LoopInvariant, NEW r \in Loads, Execute(r)
  PROVE  LoopInvariant'
<1>1. r[1] \in Nat /\ r[2] \in Nat /\ r[1] + r[2] <= Size /\ Size \in Nat
  BY AccessAssumption, SizeAssumption DEF U32, Size
<1>2. /\ load' = [addr |-> r[1], len |-> r[2],
                  bytes |-> [k \in 0 .. (r[2] - 1) |-> answer'[k + 1]]]
      /\ store' = 1 /\ list' = list /\ Read(r)
  BY DEF Execute
<1>3. LoadTyped'
  BY <1>1, <1>2 DEF LoadTyped
<1>4. ASSUME NEW k \in 0 .. (r[2] - 1)
      PROVE  load'.bytes[k] = contentBar'[r[1] + k]
  <2>1. k + 1 \in 1 .. r[2] /\ (r[1] + (k + 1) - 1) % Size = r[1] + k
    <3>1. r[1] + k \in Nat /\ r[1] + k < Size /\ r[1] + (k + 1) - 1 = r[1] + k
      BY <1>1
    <3> QED BY <1>1, <3>1, NoWrap
  <2>2. answer'[k + 1] = contentBar[(r[1] + (k + 1) - 1) % Size] /\ contentBar' = contentBar
    BY <1>1, <1>2, <2>1, ReadIsFlat, TypeOKIsTable
  <2> QED BY <1>2, <2>1, <2>2
<1>5. ASSUME NEW k \in 0 .. (r[2] - 1), NEW x, x = load'.bytes[k]
      PROVE  IsByteAfter(0, r[1] + k, x)'
  BY <1>4, <1>5 DEF IsByteAfter
<1>6. list' \in Seq(Stores) /\ store' \in Nat /\ store' - 1 = 0
  BY <1>2 DEF LoopInvariant
<1>7. load'.addr = r[1] /\ load'.len = r[2]
  BY <1>2
<1> QED BY <1>3, <1>5, <1>6, <1>7 DEF LoopInvariant

LEMMA IterateKeepsLoop ==
  ASSUME LoopInvariant, Iterate
  PROVE  LoopInvariant'
<1>1. /\ store \in 1 .. Len(list) /\ load' = Bypass(list[store], load) /\ store' = store + 1
      /\ list' = list /\ mem' = mem
  BY DEF Iterate, vars
<1>2. list[store] \in Stores /\ store \in Nat /\ store > 0
  BY <1>1 DEF LoopInvariant
<1>3. PICK r \in Loads : /\ load = [addr |-> r[1], len |-> r[2], bytes |-> load.bytes]
                         /\ DOMAIN load.bytes = 0 .. (r[2] - 1)
  BY <1>2 DEF LoopInvariant, LoadTyped
<1>4. load.addr = r[1] /\ load.len = r[2]
  BY <1>3
<1>5. /\ load' = [addr |-> r[1], len |-> r[2], bytes |-> load'.bytes]
      /\ DOMAIN load'.bytes = 0 .. (r[2] - 1)
      /\ \A k \in 0 .. (r[2] - 1) :
           load'.bytes[k] = IF Covers(list[store], r[1] + k)
                            THEN list[store].bytes[(r[1] + k) - list[store].addr]
                            ELSE load.bytes[k]
  BY <1>1, <1>2, <1>3, BypassCovers
<1>6. LoadTyped'
  BY <1>5 DEF LoadTyped
<1>7. contentBar' = contentBar
  BY <1>1 DEF contentBar
<1>8. ASSUME NEW k \in 0 .. (r[2] - 1), NEW y, y = load'.bytes[k]
      PROVE  IsByteAfter(store, r[1] + k, y)
  <2>1. PICK n \in Nat : n = store - 1 /\ store = n + 1
    BY <1>2
  <2>2. PICK a, x : a = r[1] + k /\ x = load.bytes[k]
    OBVIOUS
  <2>3. IsByteAfter(n, a, x)
    BY <1>2, <1>4, <2>1, <2>2 DEF LoopInvariant
  <2>4. y = IF Covers(list[n + 1], a) THEN list[n + 1].bytes[a - list[n + 1].addr] ELSE x
    <3>1. PICK s : s = list[store] /\ s = list[n + 1]
      BY <2>1
    <3>2. y = IF Covers(list[store], r[1] + k)
              THEN list[store].bytes[(r[1] + k) - list[store].addr] ELSE load.bytes[k]
      BY <1>5, <1>8
    <3>3. y = IF Covers(s, a) THEN s.bytes[a - s.addr] ELSE x
      BY <2>2, <3>1, <3>2
    <3> QED BY <3>1, <3>3
  <2>5. IsByteAfter(n + 1, a, y)
    BY <2>3, <2>4, OneStoreMore
  <2> QED BY <2>1, <2>2, <2>5
<1>9. /\ list' \in Seq(Stores) /\ store' \in Nat /\ store' - 1 = store
      /\ load'.addr = r[1] /\ load'.len = r[2]
  BY <1>1, <1>2, <1>5 DEF LoopInvariant
<1>10. ASSUME NEW n, NEW a, NEW y, IsByteAfter(n, a, y)
       PROVE  IsByteAfter(n, a, y)'
  BY <1>1, <1>7, <1>10 DEF IsByteAfter, Covers
<1>11. ASSUME NEW n, n = store, NEW k \in 0 .. (r[2] - 1), NEW y, y = load'.bytes[k]
       PROVE  IsByteAfter(n, r[1] + k, y)'
  BY <1>8, <1>10, <1>11
<1> QED BY <1>6, <1>9, <1>11 DEF LoopInvariant

\* The byte arithmetic is right: a load gets, for each of its bytes, the newest of
\* the waiting stores that cover it, and memory otherwise, for any lengths, overlaps
\* and lists.
THEOREM LoadsFindTheNewestStore == AccessSpec => []NewestStoreWins
<1>1. AccessInit => LoopInvariant
  BY DEF AccessInit, LoopInvariant, LoadTyped
<1>2. TypeOK /\ LoopInvariant /\ [AccessNext]_accessVars => LoopInvariant'
  <2> SUFFICES ASSUME TypeOK, LoopInvariant, [AccessNext]_accessVars PROVE LoopInvariant'
    OBVIOUS
  <2>1. ASSUME NEW r \in Loads, Execute(r) PROVE LoopInvariant'
    BY <2>1, ExecuteStartsLoop
  <2>2. CASE Iterate
    BY <2>2, IterateKeepsLoop
  <2>3. CASE OtherUse
    BY <2>3 DEF OtherUse, LoopInvariant, LoadTyped
  <2>4. CASE UNCHANGED accessVars
    <3>1. UNCHANGED <<mem, list, load, store>>
      BY <2>4 DEF accessVars, vars
    <3>2. contentBar' = contentBar
      BY <3>1 DEF contentBar
    <3> QED BY <3>1, <3>2 DEF LoopInvariant, LoadTyped, IsByteAfter, Covers
  <2> QED BY <2>1, <2>2, <2>3, <2>4 DEF AccessNext, LoadStep
<1> QED BY <1>1, <1>2, AccessKeepsMemoryType, LoopInvariantIsEnough, PTL DEF AccessSpec
=============================================================================
