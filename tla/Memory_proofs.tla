--------------------------- MODULE Memory_proofs ---------------------------
(***************************************************************************)
(* The table of pages implements a flat memory, for any sizes of pages and *)
(* bytes, any generator and any files smaller than memory: by induction    *)
(* over the bytes and lines of a file, which the library's facts on        *)
(* well-founded relations give for sets.                                   *)
(***************************************************************************)
EXTENDS MemoryImpl, WellFoundedInduction, TLAPS

-----------------------------------------------------------------------------
(***************************************************************************)
(* Loops.                                                                  *)
(***************************************************************************)

\* What holds before a loop and is kept by each turn holds after every turn.
LEMMA LoopInduction ==
  ASSUME NEW N \in Nat, NEW P,
         0 \in P,
         \A n \in 1 .. N : n - 1 \in P => n \in P
  PROVE  \A n \in 0 .. N : n \in P
<1> DEFINE B == (0 .. N) \ P
           R == {ss \in Nat \X Nat : ss[1] < ss[2]}
<1>1. IsWellFoundedOn(R, Nat)
  BY NatLessThanWellFounded DEF OpToRel
<1>2. B \subseteq Nat
  OBVIOUS
<1>3. ASSUME B # {}
      PROVE  FALSE
  <2> HIDE DEF B, R
  <2>1. PICK n \in B : \A m \in B : ~(<<m, n>> \in R)
    BY <1>1, <1>2, <1>3, WFMin
  <2> USE DEF B
  <2>2. n \in 1 .. N /\ n \notin P
    OBVIOUS
  <2>3. n - 1 \in B
    BY <2>2
  <2>4. <<n - 1, n>> \in R
    BY <2>2 DEF R
  <2> QED BY <2>1, <2>3, <2>4
<1> QED BY <1>3

\* What f tells of a loop of N turns: what there is after each of them.
Turns(N, S, start, turn, f) ==
  /\ f \in [0 .. N -> S] /\ f[0] = start
  /\ \A n \in 1 .. N : f[n] = turn[<<n, f[n - 1]>>]

\* A loop whose turns keep a type is a function of the number of turns.
LEMMA LoopIsDefined ==
  ASSUME NEW N \in Nat, NEW S, NEW start \in S, NEW turn \in [(1 .. N) \X S -> S]
  PROVE  \E f : Turns(N, S, start, turn, f)
<1> USE DEF Turns
<1> DEFINE IsLoop(k, f) == Turns(k, S, start, turn, f)
           P == {k \in 0 .. N : \E f : IsLoop(k, f)}
<1>1. 0 \in P
  <2> DEFINE g == [n \in 0 .. 0 |-> start]
  <2>1. g \in [0 .. 0 -> S] /\ g[0] = start
    OBVIOUS
  <2>2. \A n \in 1 .. 0 : g[n] = turn[<<n, g[n - 1]>>]
    OBVIOUS
  <2> HIDE DEF g
  <2>3. IsLoop(0, g)
    BY <2>1, <2>2
  <2> QED BY <2>3
<1>2. ASSUME NEW k \in 1 .. N, k - 1 \in P
      PROVE  k \in P
  <2>1. PICK f : IsLoop(k - 1, f)
    BY <1>2
  <2> DEFINE g == [n \in 0 .. k |-> IF n < k THEN f[n] ELSE turn[<<k, f[k - 1]>>]]
  <2>2. f[k - 1] \in S
    BY <2>1
  <2>3. turn[<<k, f[k - 1]>>] \in S
    BY <2>2
  <2>4. g \in [0 .. k -> S]
    BY <2>1, <2>3
  <2>5. g[0] = start
    BY <2>1
  <2>6. ASSUME NEW n \in 1 .. k
        PROVE  g[n] = turn[<<n, g[n - 1]>>]
    <3>1. n - 1 \in 0 .. k /\ n - 1 < k /\ n \in 0 .. k
      OBVIOUS
    <3>2. g[n - 1] = f[n - 1]
      BY <3>1
    <3>3. CASE n = k
      <4>1. g[k] = turn[<<k, f[k - 1]>>]
        OBVIOUS
      <4> HIDE DEF g
      <4> QED BY <3>2, <3>3, <4>1
    <3>4. CASE n # k
      <4>1. n \in 1 .. (k - 1)
        BY <3>4
      <4>2. g[n] = f[n] /\ f[n] = turn[<<n, f[n - 1]>>]
        BY <2>1, <4>1
      <4> QED BY <3>2, <4>2
    <3> QED BY <3>3, <3>4
  <2>7. IsLoop(k, g)
    <3> HIDE DEF g
    <3>1. \A n \in 1 .. k : g[n] = turn[<<n, g[n - 1]>>]
      BY <2>6
    <3> QED BY <2>4, <2>5, <3>1, Zenon
  <2>8. k \in 0 .. N
    OBVIOUS
  <2> QED BY <2>7, <2>8, Zenon
<1>3. N \in P
  <2>1. \A n \in 1 .. N : n - 1 \in P => n \in P
    BY <1>2
  <2> HIDE DEF P
  <2>2. \A n \in 0 .. N : n \in P
    BY <1>1, <2>1, LoopInduction
  <2> QED BY <2>2
<1> QED BY <1>3

-----------------------------------------------------------------------------
(***************************************************************************)
(* Pages and addresses.                                                    *)
(***************************************************************************)
Page  == [0 .. (PageSize - 1) -> Byte]
Table == [0 .. (Blocks - 1) -> Page \cup {Null}]

LEMMA Sizes ==
  /\ Blocks \in Nat /\ Blocks > 0 /\ PageSize \in Nat /\ PageSize > 0
  /\ Size = Blocks * PageSize /\ Size \in Nat /\ Size > 0
<1>1. Blocks \in Nat /\ Blocks > 0 /\ PageSize \in Nat /\ PageSize > 0
  BY SizeAssumption
<1>2. Size = Blocks * PageSize
  BY DEF Size
<1>3. \A b, p \in Nat : b > 0 /\ p > 0 => b * p \in Nat /\ b * p > 0
  OBVIOUS
<1> QED BY <1>1, <1>2, <1>3

LEMMA Quotient ==
  ASSUME NEW a \in Nat, NEW p \in Nat, p > 0, NEW b \in Nat, a < b * p
  PROVE  a \div p \in Nat /\ a \div p < b /\ a % p \in 0 .. (p - 1)
<1>1. a \div p \in Nat
  OBVIOUS
<1>2. a \div p < b
  OBVIOUS
<1>3. a % p \in 0 .. (p - 1)
  OBVIOUS
<1> QED BY <1>1, <1>2, <1>3

LEMMA PlaceOf ==
  ASSUME NEW a \in 0 .. (Size - 1)
  PROVE  /\ BlockOf(a) \in 0 .. (Blocks - 1)
         /\ a % PageSize \in 0 .. (PageSize - 1)
<1>1. a \in Nat /\ a < Blocks * PageSize
  BY Sizes
<1>2. /\ a \div PageSize \in Nat /\ a \div PageSize < Blocks
      /\ a % PageSize \in 0 .. (PageSize - 1)
  BY <1>1, Sizes, Quotient
<1> QED BY <1>2, Sizes DEF BlockOf

LEMMA QuotientAndRest ==
  ASSUME NEW a \in Nat, NEW p \in Nat, p > 0
  PROVE  a = p * (a \div p) + (a % p)
OBVIOUS

\* Two addresses do not share a place.
LEMMA PlacesDiffer ==
  ASSUME NEW a \in 0 .. (Size - 1), NEW b \in 0 .. (Size - 1),
         BlockOf(a) = BlockOf(b), a % PageSize = b % PageSize
  PROVE  a = b
<1>2. a \in Nat /\ b \in Nat /\ PageSize \in Nat /\ PageSize > 0
  BY Sizes
<1>3. /\ a = PageSize * (a \div PageSize) + (a % PageSize)
      /\ b = PageSize * (b \div PageSize) + (b % PageSize)
  BY <1>2, QuotientAndRest
<1>4. a \div PageSize = b \div PageSize
  BY DEF BlockOf
<1>5. PageSize * (a \div PageSize) = PageSize * (b \div PageSize)
  BY <1>4
<1> QED BY <1>3, <1>4, <1>5

-----------------------------------------------------------------------------
(***************************************************************************)
(* The generator.                                                          *)
(***************************************************************************)

\* The generator's state and number stay natural numbers.
LEMMA GeneratedType ==
  ASSUME NEW seed \in Nat
  PROVE  Generated(seed) \in [0 .. PageSize -> [state : Nat, rand : Nat]]
<1> DEFINE S == [state : Nat, rand : Nat]
           drawn(state) == [state |-> state, rand |-> state \div Shift]
           Next1(n, g) == IF (n - 1) % BytesPerInt = 0 THEN drawn(Advance(g.state))
                          ELSE [g EXCEPT !.rand = @ \div ByteValues]
           turn == [x \in (1 .. PageSize) \X S |-> Next1(x[1], x[2])]
           start == [state |-> seed, rand |-> 0]
           IsGen(f) == f = [n \in 0 .. PageSize |->
                              IF n = 0 THEN start ELSE Next1(n, f[n - 1])]
<1>1. ASSUME NEW n \in 1 .. PageSize, NEW g \in S
      PROVE  Next1(n, g) \in S
  <2>1. /\ Modulus \in Nat /\ Modulus > 0 /\ Shift \in Nat /\ Shift > 0
        /\ ByteValues \in Nat /\ ByteValues > 0 /\ Multiplier \in Nat /\ Increment \in Nat
    BY SizeAssumption
  <2>2. g.state \in Nat /\ g.rand \in Nat
    OBVIOUS
  <2>3. \A x, y \in Nat : x * y \in Nat
    OBVIOUS
  <2>4. g.state * Multiplier + Increment \in Nat
    BY <2>1, <2>2, <2>3
  <2>5. \A x \in Nat, y \in Nat : y > 0 => x % y \in Nat /\ x \div y \in Nat
    OBVIOUS
  <2>6. Advance(g.state) \in Nat
    BY <2>1, <2>4, <2>5 DEF Advance
  <2>7. drawn(Advance(g.state)) \in S
    BY <2>1, <2>5, <2>6
  <2>8. [g EXCEPT !.rand = @ \div ByteValues] \in S
    BY <2>1, <2>2, <2>5
  <2> QED BY <2>7, <2>8
<1>2. start \in S
  OBVIOUS
<1>3. turn \in [(1 .. PageSize) \X S -> S]
  <2> HIDE DEF S, Next1
  <2> QED BY <1>1
<1>4. PICK f : Turns(PageSize, S, start, turn, f)
  <2> HIDE DEF S, turn, start
  <2>1. PageSize \in Nat
    BY Sizes
  <2> QED BY <1>2, <1>3, <2>1, LoopIsDefined
<1>5. IsGen(f)
  <2> HIDE DEF S, Next1, start
  <2>1. \A n \in 1 .. PageSize : n \in 0 .. PageSize /\ n - 1 \in 0 .. PageSize
    BY Sizes
  <2>2. \A n \in 1 .. PageSize : f[n] = Next1(n, f[n - 1])
    BY <1>4, <2>1 DEF Turns
  <2>3. \A n \in 0 .. PageSize : n = 0 \/ n \in 1 .. PageSize
    BY Sizes
  <2> QED BY <1>4, <2>2, <2>3 DEF Turns
<1>6. \A h : IsGen(h) => h \in [0 .. PageSize -> S]
  <2> SUFFICES ASSUME NEW h, IsGen(h)
               PROVE  h \in [0 .. PageSize -> S]
    OBVIOUS
  <2> DEFINE P == {n \in 0 .. PageSize : h[n] \in S}
  <2> HIDE DEF S, Next1, start
  <2>1. h[0] = start /\ \A n \in 1 .. PageSize : h[n] = Next1(n, h[n - 1])
    BY Sizes
  <2>2. 0 \in P
    BY <1>2, <2>1, Sizes
  <2>3. \A n \in 1 .. PageSize : n - 1 \in P => n \in P
    BY <1>1, <2>1
  <2> HIDE DEF P
  <2>4. \A n \in 0 .. PageSize : n \in P
    BY <2>2, <2>3, Sizes, LoopInduction
  <2> USE DEF P
  <2> QED BY <2>4
<1>7. Generated(seed) = CHOOSE h : IsGen(h)
  BY DEF Generated
<1> HIDE DEF IsGen, S
<1>8. IsGen(Generated(seed))
  BY <1>5, <1>7
<1>9. Generated(seed) \in [0 .. PageSize -> S]
  BY <1>6, <1>8
<1> QED BY <1>9 DEF S

\* A generator fills a page with bytes.
LEMMA FilledIsPage ==
  ASSUME NEW m, NEW b \in 0 .. (Blocks - 1)
  PROVE  Filled(m, b) \in Page
<1>1. b * PageSize \in Nat
  <2>1. \A x, y \in Nat : x * y \in Nat
    OBVIOUS
  <2> QED BY <2>1, Sizes
<1>2. Generated(b * PageSize) \in [0 .. PageSize -> [state : Nat, rand : Nat]]
  BY <1>1, GeneratedType
<1>3. ASSUME NEW i \in 0 .. (PageSize - 1)
      PROVE  Generated(b * PageSize)[i + 1].rand % ByteValues \in Byte
  <2>1. i + 1 \in 0 .. PageSize
    BY Sizes
  <2>2. Generated(b * PageSize)[i + 1].rand \in Nat
    BY <1>2, <2>1
  <2>3. ByteValues \in Nat /\ ByteValues > 0
    BY SizeAssumption
  <2>4. \A x, y \in Nat : y > 0 => x % y \in 0 .. (y - 1)
    OBVIOUS
  <2> QED BY <2>2, <2>3, <2>4 DEF Byte
<1> QED BY <1>3 DEF Filled, RandomBytes, Page

-----------------------------------------------------------------------------
(***************************************************************************)
(* One byte.                                                               *)
(***************************************************************************)

\* A table has the content of its pages, and of those that are not there yet.
LEMMA ContentType ==
  ASSUME NEW m
  PROVE  /\ ContentOf(m) = [a \in 0 .. (Size - 1) |-> ContentOf(m)[a]]
         /\ \A a \in 0 .. (Size - 1) :
              ContentOf(m)[a] = IF m[BlockOf(a)] = Null THEN InitialByte(a)
                                ELSE m[BlockOf(a)][a % PageSize]
BY DEF ContentOf

LEMMA SameContent ==
  ASSUME NEW m, NEW n, \A a \in 0 .. (Size - 1) : ContentOf(m)[a] = ContentOf(n)[a]
  PROVE  ContentOf(m) = ContentOf(n)
<1>1. ContentOf(m) = [a \in 0 .. (Size - 1) |-> ContentOf(m)[a]]
  BY ContentType
<1>2. ContentOf(n) = [a \in 0 .. (Size - 1) |-> ContentOf(n)[a]]
  BY ContentType
<1> QED BY <1>1, <1>2, Zenon

LEMMA NullIsNoPage == Null \notin Page
BY InputAssumption DEF Page

\* The first use of a page does not change the content.
LEMMA TouchedIs ==
  ASSUME NEW m \in Table, NEW A \in SUBSET (0 .. (Size - 1))
  PROVE  /\ Touched(m, A) \in Table
         /\ ContentOf(Touched(m, A)) = ContentOf(m)
         /\ \A a \in A : Touched(m, A)[BlockOf(a)] \in Page
<1> DEFINE t == Touched(m, A)
<1>1. \A b \in 0 .. (Blocks - 1) :
        t[b] = IF m[b] = Null /\ b \in {BlockOf(a) : a \in A} THEN Filled(m, b) ELSE m[b]
  BY DEF Touched
<1>2. \A b \in 0 .. (Blocks - 1) : t[b] \in Page \cup {Null}
  BY <1>1, FilledIsPage DEF Table
<1>3. t \in Table
  <2>1. t = [b \in 0 .. (Blocks - 1) |-> t[b]]
    BY DEF Touched
  <2> HIDE DEF t
  <2> QED BY <1>2, <2>1 DEF Table
<1> HIDE DEF t
<1>4. ASSUME NEW a \in 0 .. (Size - 1)
      PROVE  ContentOf(t)[a] = ContentOf(m)[a]
  <2>1. BlockOf(a) \in 0 .. (Blocks - 1)
    BY PlaceOf
  <2>2. Filled(m, BlockOf(a))[a % PageSize] = InitialByte(a)
    BY DEF Filled, InitialByte
  <2>3. /\ ContentOf(m)[a] = IF m[BlockOf(a)] = Null THEN InitialByte(a)
                             ELSE m[BlockOf(a)][a % PageSize]
        /\ ContentOf(t)[a] = IF t[BlockOf(a)] = Null THEN InitialByte(a)
                             ELSE t[BlockOf(a)][a % PageSize]
    BY ContentType
  <2>4. t[BlockOf(a)] = m[BlockOf(a)]
          \/ (m[BlockOf(a)] = Null /\ t[BlockOf(a)] = Filled(m, BlockOf(a)))
    BY <1>1, <2>1
  <2> QED BY <2>2, <2>3, <2>4
<1>5. ContentOf(t) = ContentOf(m)
  BY <1>4, SameContent
<1>6. ASSUME NEW a \in A
      PROVE  t[BlockOf(a)] \in Page
  <2>1. BlockOf(a) \in 0 .. (Blocks - 1)
    BY PlaceOf
  <2>2. t[BlockOf(a)] = IF m[BlockOf(a)] = Null THEN Filled(m, BlockOf(a)) ELSE m[BlockOf(a)]
    BY <1>1, <2>1
  <2>3. m[BlockOf(a)] \in Page \cup {Null}
    BY <2>1 DEF Table
  <2> QED BY <2>1, <2>2, <2>3, FilledIsPage
<1> QED BY <1>3, <1>5, <1>6 DEF t

\* What is read is the content.
LEMMA ByteAtIsContent ==
  ASSUME NEW m \in Table, NEW a \in 0 .. (Size - 1)
  PROVE  ByteAt(m, a) = ContentOf(m)[a] /\ ByteAt(m, a) \in Byte
<1> DEFINE t == Touched(m, {a})
<1>1. t \in Table /\ ContentOf(t) = ContentOf(m) /\ t[BlockOf(a)] \in Page
  BY TouchedIs
<1>2. a % PageSize \in 0 .. (PageSize - 1)
  BY PlaceOf
<1>3. ByteAt(m, a) = t[BlockOf(a)][a % PageSize]
  BY DEF ByteAt
<1> HIDE DEF t
<1>4. ContentOf(t)[a] = t[BlockOf(a)][a % PageSize]
  BY <1>1, ContentType, NullIsNoPage
<1> QED BY <1>1, <1>2, <1>3, <1>4 DEF Page

\* What is written is there afterwards, and nothing else has changed.
LEMMA PutByteIs ==
  ASSUME NEW m \in Table, NEW a \in 0 .. (Size - 1), NEW x \in Byte
  PROVE  /\ PutByte(m, a, x) \in Table
         /\ \A c \in 0 .. (Size - 1) :
              ContentOf(PutByte(m, a, x))[c] = IF c = a THEN x ELSE ContentOf(m)[c]
<1> DEFINE t == Touched(m, {a})
           p == [t[BlockOf(a)] EXCEPT ![a % PageSize] = x]
           n == [t EXCEPT ![BlockOf(a)] = p]
<1>1. t \in Table /\ ContentOf(t) = ContentOf(m) /\ t[BlockOf(a)] \in Page
  BY TouchedIs
<1>2. BlockOf(a) \in 0 .. (Blocks - 1) /\ a % PageSize \in 0 .. (PageSize - 1)
  BY PlaceOf
<1>3. PutByte(m, a, x) = n
  BY DEF PutByte
<1> HIDE DEF t
<1>4. p \in Page
  BY <1>1, <1>2 DEF Page
<1>5. n \in Table
  BY <1>1, <1>2, <1>4 DEF Table
<1>6. ASSUME NEW c \in 0 .. (Size - 1)
      PROVE  ContentOf(n)[c] = IF c = a THEN x ELSE ContentOf(t)[c]
  <2>1. BlockOf(c) \in 0 .. (Blocks - 1) /\ c % PageSize \in 0 .. (PageSize - 1)
    BY PlaceOf
  <2>2. /\ n[BlockOf(a)] = p
        /\ BlockOf(c) # BlockOf(a) => n[BlockOf(c)] = t[BlockOf(c)]
    BY <1>1, <1>2, <2>1 DEF Table
  <2>3. /\ p[a % PageSize] = x
        /\ c % PageSize # a % PageSize => p[c % PageSize] = t[BlockOf(a)][c % PageSize]
    BY <1>1, <1>2, <2>1 DEF Page
  <2> HIDE DEF p, n
  <2>4. /\ ContentOf(t)[c] = IF t[BlockOf(c)] = Null THEN InitialByte(c)
                             ELSE t[BlockOf(c)][c % PageSize]
        /\ ContentOf(n)[c] = IF n[BlockOf(c)] = Null THEN InitialByte(c)
                             ELSE n[BlockOf(c)][c % PageSize]
    BY ContentType
  <2>5. CASE BlockOf(c) # BlockOf(a)
    BY <2>2, <2>4, <2>5
  <2>6. CASE BlockOf(c) = BlockOf(a)
    <3>1. ContentOf(n)[c] = p[c % PageSize] /\ ContentOf(t)[c] = t[BlockOf(a)][c % PageSize]
      BY <1>1, <1>4, <2>2, <2>4, <2>6, NullIsNoPage
    <3>2. c # a => c % PageSize # a % PageSize
      BY <2>6, PlacesDiffer
    <3> QED BY <2>3, <3>1, <3>2
  <2> QED BY <2>5, <2>6
<1> HIDE DEF n
<1> QED BY <1>1, <1>3, <1>5, <1>6

-----------------------------------------------------------------------------
(***************************************************************************)
(* A segment, byte by byte.                                                *)
(***************************************************************************)
At(base, k) == (base + k - 1) % Size

\* d is c with the first n bytes from base on, of those that meet the last one.
Stored(c, d, base, bytes, n) ==
  \A a \in 0 .. (Size - 1) :
    \/ d[a] = c[a] /\ \A k \in 1 .. n : At(base, k) # a
    \/ \E k \in 1 .. n : /\ At(base, k) = a /\ d[a] = bytes[k]
                         /\ \A j \in 1 .. n : At(base, j) = a => j <= k

LEMMA AtIsAddress ==
  ASSUME NEW base \in Nat, NEW k \in Nat \ {0}
  PROVE  At(base, k) \in 0 .. (Size - 1)
<1>1. base + k - 1 \in Nat
  OBVIOUS
<1>2. \A x, y \in Nat : y > 0 => x % y \in 0 .. (y - 1)
  OBVIOUS
<1> QED BY <1>1, <1>2, Sizes DEF At

\* PutBytes is a loop whose turns each put a byte.
LEMMA PutBytesLoop ==
  ASSUME NEW m \in Table, NEW base \in Nat, NEW bytes \in Seq(Byte)
  PROVE  \E put : /\ put \in [0 .. Len(bytes) -> Table] /\ put[0] = m
                  /\ \A n \in 1 .. Len(bytes) :
                       put[n] = PutByte(put[n - 1], At(base, n), bytes[n])
                  /\ PutBytes(m, base, bytes) = put[Len(bytes)]
<1> DEFINE N == Len(bytes)
           Put(n, t) == PutByte(t, At(base, n), bytes[n])
           turn == [x \in (1 .. N) \X Table |-> Put(x[1], x[2])]
           IsPut(f) == f = [n \in 0 .. N |-> IF n = 0 THEN m ELSE Put(n, f[n - 1])]
<1>1. N \in Nat
  OBVIOUS
<1>2. ASSUME NEW n \in 1 .. N, NEW t \in Table
      PROVE  Put(n, t) \in Table
  <2>1. bytes[n] \in Byte /\ n \in Nat \ {0}
    OBVIOUS
  <2> QED BY <2>1, AtIsAddress, PutByteIs
<1> HIDE DEF N, Put
<1>3. turn \in [(1 .. N) \X Table -> Table]
  BY <1>2
<1>4. PICK f : Turns(N, Table, m, turn, f)
  <2> HIDE DEF turn
  <2> QED BY <1>1, <1>3, LoopIsDefined, Zenon
<1>5. IsPut(f)
  <2>1. \A n \in 1 .. N : n \in 0 .. N /\ n - 1 \in 0 .. N
    BY <1>1
  <2>2. \A n \in 1 .. N : f[n] = Put(n, f[n - 1])
    BY <1>4, <2>1 DEF Turns
  <2>3. \A n \in 0 .. N : n = 0 \/ n \in 1 .. N
    BY <1>1
  <2> QED BY <1>4, <2>2, <2>3 DEF Turns
<1> DEFINE put == CHOOSE g : IsPut(g)
<1>6. IsPut(put)
  <2> HIDE DEF IsPut
  <2> QED BY <1>5
<1>7. PutBytes(m, base, bytes) = put[N]
  BY DEF PutBytes, Put, N, At
<1> HIDE DEF put
<1>8. put[0] = m /\ \A n \in 1 .. N : put[n] = Put(n, put[n - 1])
  BY <1>1, <1>6
<1>9. put \in [0 .. N -> Table]
  <2> DEFINE P == {n \in 0 .. N : put[n] \in Table}
  <2>1. 0 \in P
    BY <1>1, <1>8
  <2>2. \A n \in 1 .. N : n - 1 \in P => n \in P
    BY <1>2, <1>8
  <2> HIDE DEF P
  <2>3. \A n \in 0 .. N : n \in P
    BY <1>1, <2>1, <2>2, LoopInduction
  <2> USE DEF P
  <2>4. \A n \in 0 .. N : put[n] \in Table
    BY <2>3
  <2> QED BY <1>6, <2>4
<1> QED BY <1>7, <1>8, <1>9 DEF N, Put

\* One byte more.
LEMMA OneByteMore ==
  ASSUME NEW c, NEW d, NEW e, NEW base \in Nat, NEW bytes, NEW n \in Nat \ {0},
         Stored(c, d, base, bytes, n - 1),
         \A a \in 0 .. (Size - 1) : e[a] = IF a = At(base, n) THEN bytes[n] ELSE d[a]
  PROVE  Stored(c, e, base, bytes, n)
<1> SUFFICES ASSUME NEW a \in 0 .. (Size - 1)
             PROVE  \/ e[a] = c[a] /\ \A k \in 1 .. n : At(base, k) # a
                    \/ \E k \in 1 .. n : /\ At(base, k) = a /\ e[a] = bytes[k]
                                         /\ \A j \in 1 .. n : At(base, j) = a => j <= k
  BY DEF Stored
<1>1. n \in 1 .. n /\ \A k \in 1 .. n : k <= n /\ (k = n \/ k \in 1 .. (n - 1))
  OBVIOUS
<1>2. CASE At(base, n) = a
  <2>1. e[a] = bytes[n]
    BY <1>2
  <2> QED BY <1>1, <1>2, <2>1
<1>3. CASE At(base, n) # a
  <2>1. e[a] = d[a]
    BY <1>3
  <2>2. CASE d[a] = c[a] /\ \A k \in 1 .. (n - 1) : At(base, k) # a
    BY <1>1, <1>3, <2>1, <2>2
  <2>3. ASSUME NEW k \in 1 .. (n - 1), At(base, k) = a, d[a] = bytes[k],
               \A j \in 1 .. (n - 1) : At(base, j) = a => j <= k
        PROVE  \E i \in 1 .. n : /\ At(base, i) = a /\ e[a] = bytes[i]
                                 /\ \A j \in 1 .. n : At(base, j) = a => j <= i
    <3>1. k \in 1 .. n
      OBVIOUS
    <3>2. \A j \in 1 .. n : At(base, j) = a => j <= k
      BY <1>1, <1>3, <2>3
    <3> QED BY <2>1, <2>3, <3>1, <3>2
  <2> QED BY <2>2, <2>3 DEF Stored
<1> QED BY <1>2, <1>3

\* A loader's loop leaves each byte of a segment at its place.
LEMMA PutBytesIs ==
  ASSUME NEW m \in Table, NEW base \in Nat, NEW bytes \in Seq(Byte)
  PROVE  /\ PutBytes(m, base, bytes) \in Table
         /\ Stored(ContentOf(m), ContentOf(PutBytes(m, base, bytes)), base, bytes, Len(bytes))
<1>1. PICK put : /\ put \in [0 .. Len(bytes) -> Table] /\ put[0] = m
                 /\ \A n \in 1 .. Len(bytes) :
                      put[n] = PutByte(put[n - 1], At(base, n), bytes[n])
                 /\ PutBytes(m, base, bytes) = put[Len(bytes)]
  BY PutBytesLoop
<1>2. Len(bytes) \in Nat
  OBVIOUS
<1> DEFINE P == {n \in 0 .. Len(bytes) :
                   Stored(ContentOf(m), ContentOf(put[n]), base, bytes, n)}
<1>3. 0 \in P
  <2>1. Stored(ContentOf(m), ContentOf(put[0]), base, bytes, 0)
    BY <1>1 DEF Stored
  <2> QED BY <1>2, <2>1
<1>4. ASSUME NEW n \in 1 .. Len(bytes), n - 1 \in P
      PROVE  n \in P
  <2>1. n \in Nat \ {0} /\ n - 1 \in 0 .. Len(bytes) /\ bytes[n] \in Byte
    OBVIOUS
  <2>2. put[n - 1] \in Table /\ put[n] = PutByte(put[n - 1], At(base, n), bytes[n])
    BY <1>1, <2>1
  <2>3. At(base, n) \in 0 .. (Size - 1)
    BY <2>1, AtIsAddress
  <2>4. \A a \in 0 .. (Size - 1) :
          ContentOf(put[n])[a] = IF a = At(base, n) THEN bytes[n] ELSE ContentOf(put[n - 1])[a]
    BY <2>1, <2>2, <2>3, PutByteIs
  <2>5. Stored(ContentOf(m), ContentOf(put[n]), base, bytes, n)
    BY <1>4, <2>1, <2>4, OneByteMore
  <2> QED BY <2>5
<1> HIDE DEF P
<1>5. \A n \in 0 .. Len(bytes) : n \in P
  BY <1>2, <1>3, <1>4, LoopInduction
<1> USE DEF P
<1>6. Len(bytes) \in 0 .. Len(bytes)
  BY <1>2
<1>7. Stored(ContentOf(m), ContentOf(put[Len(bytes)]), base, bytes, Len(bytes))
  BY <1>5, <1>6
<1> QED BY <1>1, <1>6, <1>7

-----------------------------------------------------------------------------
(***************************************************************************)
(* An image, segment by segment.                                           *)
(***************************************************************************)
Segments == Seq([base : Nat, bytes : Seq(Byte)])
Places(image, s) == 1 .. Len(image[s].bytes)

\* d is c with the first n segments of the image, of those that meet the last one.
Landed(c, d, image, n) ==
  \A a \in 0 .. (Size - 1) :
    \/ /\ d[a] = c[a]
       /\ \A s \in 1 .. n : \A k \in Places(image, s) : At(image[s].base, k) # a
    \/ \E s \in 1 .. n : \E k \in Places(image, s) :
         /\ At(image[s].base, k) = a /\ d[a] = image[s].bytes[k]
         /\ \A t \in 1 .. n : \A j \in Places(image, t) :
              At(image[t].base, j) = a => t < s \/ (t = s /\ j <= k)

LEMMA OneSegmentMore ==
  ASSUME NEW c, NEW d, NEW e, NEW image \in Segments, NEW n \in 1 .. Len(image),
         Landed(c, d, image, n - 1),
         Stored(d, e, image[n].base, image[n].bytes, Len(image[n].bytes))
  PROVE  Landed(c, e, image, n)
<1> SUFFICES ASSUME NEW a \in 0 .. (Size - 1)
             PROVE  \/ /\ e[a] = c[a]
                       /\ \A s \in 1 .. n : \A k \in Places(image, s) : At(image[s].base, k) # a
                    \/ \E s \in 1 .. n : \E k \in Places(image, s) :
                         /\ At(image[s].base, k) = a /\ e[a] = image[s].bytes[k]
                         /\ \A t \in 1 .. n : \A j \in Places(image, t) :
                              At(image[t].base, j) = a => t < s \/ (t = s /\ j <= k)
  BY DEF Landed
<1>1. n \in 1 .. n /\ \A s \in 1 .. n : s = n \/ (s \in 1 .. (n - 1) /\ s < n)
  OBVIOUS
<1>2. \/ e[a] = d[a] /\ \A k \in Places(image, n) : At(image[n].base, k) # a
      \/ \E k \in Places(image, n) :
           /\ At(image[n].base, k) = a /\ e[a] = image[n].bytes[k]
           /\ \A j \in Places(image, n) : At(image[n].base, j) = a => j <= k
  BY DEF Stored, Places
<1>3. ASSUME NEW k \in Places(image, n), At(image[n].base, k) = a, e[a] = image[n].bytes[k],
             \A j \in Places(image, n) : At(image[n].base, j) = a => j <= k
      PROVE  \E s \in 1 .. n : \E i \in Places(image, s) :
               /\ At(image[s].base, i) = a /\ e[a] = image[s].bytes[i]
               /\ \A t \in 1 .. n : \A j \in Places(image, t) :
                    At(image[t].base, j) = a => t < s \/ (t = s /\ j <= i)
  <2>1. \A t \in 1 .. n : \A j \in Places(image, t) :
          At(image[t].base, j) = a => t < n \/ (t = n /\ j <= k)
    BY <1>1, <1>3
  <2> QED BY <1>1, <1>3, <2>1
<1>4. ASSUME e[a] = d[a], \A k \in Places(image, n) : At(image[n].base, k) # a
      PROVE  \/ /\ e[a] = c[a]
                /\ \A s \in 1 .. n : \A k \in Places(image, s) : At(image[s].base, k) # a
             \/ \E s \in 1 .. n : \E k \in Places(image, s) :
                  /\ At(image[s].base, k) = a /\ e[a] = image[s].bytes[k]
                  /\ \A t \in 1 .. n : \A j \in Places(image, t) :
                       At(image[t].base, j) = a => t < s \/ (t = s /\ j <= k)
  <2>1. CASE /\ d[a] = c[a]
             /\ \A s \in 1 .. (n - 1) : \A k \in Places(image, s) : At(image[s].base, k) # a
    BY <1>1, <1>4, <2>1
  <2>2. ASSUME NEW s \in 1 .. (n - 1), NEW k \in Places(image, s),
               At(image[s].base, k) = a, d[a] = image[s].bytes[k],
               \A t \in 1 .. (n - 1) : \A j \in Places(image, t) :
                 At(image[t].base, j) = a => t < s \/ (t = s /\ j <= k)
        PROVE  \E i \in 1 .. n : \E h \in Places(image, i) :
                 /\ At(image[i].base, h) = a /\ e[a] = image[i].bytes[h]
                 /\ \A t \in 1 .. n : \A j \in Places(image, t) :
                      At(image[t].base, j) = a => t < i \/ (t = i /\ j <= h)
    <3>1. s \in 1 .. n
      OBVIOUS
    <3>2. \A t \in 1 .. n : \A j \in Places(image, t) :
            At(image[t].base, j) = a => t < s \/ (t = s /\ j <= k)
      BY <1>1, <1>4, <2>2
    <3> QED BY <1>4, <2>2, <3>1, <3>2
  <2> QED BY <2>1, <2>2 DEF Landed
<1> QED BY <1>2, <1>3, <1>4

\* The memory that is there from the start stores that image.
LEMMA LandedIsStore ==
  ASSUME NEW image \in Segments, Landed(contentBar, contentBar', image, Len(image)),
         answer' = answer
  PROVE  Flat!Store(image)
<1> DEFINE here(a) == Flat!Landing(image, a)
           last(a) == CHOOSE x \in here(a) : \A y \in here(a) : Flat!Later(x, y)
           new(a)  == IF here(a) = {} THEN contentBar[a] ELSE image[last(a)[1]].bytes[last(a)[2]]
<1>1. \A a : here(a) = {sb \in UNION {{<<s, k>> : k \in Places(image, s)} : s \in 1 .. Len(image)} :
                          At(image[sb[1]].base, sb[2]) = a}
  BY DEF Flat!Landing, Places, At
<1>2. \A a, x : x \in here(a) <=>
        \E s \in 1 .. Len(image) : \E k \in Places(image, s) :
          x = <<s, k>> /\ At(image[s].base, k) = a
  BY <1>1
<1>3. \A x, y : Flat!Later(x, y) <=> x[1] > y[1] \/ (x[1] = y[1] /\ x[2] >= y[2])
  BY DEF Flat!Later
<1> HIDE DEF here
<1>4. ASSUME NEW a \in 0 .. (Size - 1)
      PROVE  contentBar'[a] = new(a)
  <2>1. CASE /\ contentBar'[a] = contentBar[a]
             /\ \A s \in 1 .. Len(image) : \A k \in Places(image, s) : At(image[s].base, k) # a
    <3>1. here(a) = {}
      BY <1>2, <2>1
    <3> QED BY <2>1, <3>1
  <2>2. ASSUME NEW s \in 1 .. Len(image), NEW k \in Places(image, s),
               At(image[s].base, k) = a, contentBar'[a] = image[s].bytes[k],
               \A t \in 1 .. Len(image) : \A j \in Places(image, t) :
                 At(image[t].base, j) = a => t < s \/ (t = s /\ j <= k)
        PROVE  contentBar'[a] = new(a)
    <3>1. <<s, k>> \in here(a)
      BY <1>2, <2>2
    <3>2. \A y \in here(a) : Flat!Later(<<s, k>>, y)
      <4> SUFFICES ASSUME NEW y \in here(a)
                   PROVE  Flat!Later(<<s, k>>, y)
        OBVIOUS
      <4>1. PICK t \in 1 .. Len(image) :
              \E j \in Places(image, t) : y = <<t, j>> /\ At(image[t].base, j) = a
        BY <1>2
      <4>2. PICK j \in Places(image, t) : y = <<t, j>> /\ At(image[t].base, j) = a
        BY <4>1
      <4>3. t < s \/ (t = s /\ j <= k)
        BY <2>2, <4>2
      <4>4. y[1] = t /\ y[2] = j /\ t \in Nat /\ s \in Nat /\ j \in Nat /\ k \in Nat
        BY <4>2 DEF Places
      <4> QED BY <1>3, <4>3, <4>4
    <3>3. last(a) \in here(a) /\ \A y \in here(a) : Flat!Later(last(a), y)
      BY <3>1, <3>2
    <3>4. last(a) = <<s, k>>
      <4> HIDE DEF last
      <4>1. PICK t \in 1 .. Len(image) :
              \E j \in Places(image, t) : last(a) = <<t, j>> /\ At(image[t].base, j) = a
        BY <1>2, <3>3
      <4>2. PICK j \in Places(image, t) : last(a) = <<t, j>> /\ At(image[t].base, j) = a
        BY <4>1
      <4>3. t \in Nat /\ s \in Nat /\ j \in Nat /\ k \in Nat
        BY DEF Places
      <4>4. Flat!Later(<<t, j>>, <<s, k>>)
        BY <3>1, <3>3, <4>2
      <4>5. t > s \/ (t = s /\ j >= k)
        BY <1>3, <4>4
      <4>6. t < s \/ (t = s /\ j <= k)
        BY <2>2, <4>2
      <4> QED BY <4>2, <4>3, <4>5, <4>6
    <3> HIDE DEF last
    <3>5. here(a) # {}
      BY <3>1
    <3> QED BY <2>2, <3>4, <3>5
  <2> QED BY <2>1, <2>2 DEF Landed
<1>5. contentBar' = [a \in 0 .. (Size - 1) |-> contentBar'[a]]
  BY DEF contentBar, ContentOf
<1> HIDE DEF new
<1>6. contentBar' = [a \in 0 .. (Size - 1) |-> new(a)]
  BY <1>4, <1>5, Zenon
<1> USE DEF new, last, here
<1> QED BY <1>6 DEF Flat!Store

\* Where the n-th segment has no bytes, nothing changes.
LEMMA NothingStored ==
  ASSUME NEW d, NEW base, NEW bytes
  PROVE  Stored(d, d, base, bytes, 0)
BY DEF Stored

LEMMA NoSegmentYet ==
  ASSUME NEW c, NEW image
  PROVE  Landed(c, c, image, 0)
BY DEF Landed

LEMMA TableIsSequence ==
  ASSUME NEW n \in Nat, NEW T, NEW f \in [1 .. n -> T]
  PROVE  f \in Seq(T) /\ Len(f) = n
OBVIOUS

\* A table of segments is a sequence of segments.
LEMMA SegmentsAre ==
  ASSUME NEW n \in Nat, NEW image, image = [k \in 1 .. n |-> image[k]],
         \A k \in 1 .. n : image[k] \in [base : Nat, bytes : Seq(Byte)]
  PROVE  image \in Segments /\ Len(image) = n
<1> DEFINE T == [base : Nat, bytes : Seq(Byte)]
<1>1. \A k \in 1 .. n : image[k] \in T
  OBVIOUS
<1> HIDE DEF T
<1>2. image \in [1 .. n -> T]
  BY <1>1
<1>3. image \in Seq(T) /\ Len(image) = n
  BY <1>2, TableIsSequence
<1> QED BY <1>3 DEF Segments, T

LEMMA NoBytesIs == NoBytes \in [base : Nat, bytes : Seq(Byte)] /\ Len(NoBytes.bytes) = 0
BY DEF NoBytes

-----------------------------------------------------------------------------
(***************************************************************************)
(* ELF.                                                                    *)
(***************************************************************************)
SectionLoaded(t, section, offset) ==
  IF section.alloc THEN PutBytes(t, section.address + offset, VisitedBytes(section)) ELSE t

LEMMA VisitedBytesAre ==
  ASSUME NEW s \in Section
  PROVE  /\ s.address \in Nat /\ s.size \in Nat
         /\ VisitedBytes(s) \in Seq(Byte)
         /\ VisitedBytes(s) = IF s.data = Null THEN [i \in 1 .. s.size |-> 0]
                              ELSE SubSeq(s.data, 1, s.size)
<1>1. /\ s.address \in Nat /\ s.size \in Nat /\ s.data \in Seq(Byte) \cup {Null}
      /\ s.data # Null => s.size <= Len(s.data)
  BY DEF Section
<1>2. CASE s.data = Null
  <2>1. VisitedBytes(s) = [i \in 1 .. s.size |-> 0]
    BY <1>2 DEF VisitedBytes
  <2>2. 0 \in Byte
    BY SizeAssumption DEF Byte
  <2>3. [i \in 1 .. s.size |-> 0] \in Seq(Byte)
    BY <1>1, <2>2
  <2> QED BY <1>1, <1>2, <2>1, <2>3
<1>3. CASE s.data # Null
  <2>1. VisitedBytes(s) = [k \in 1 .. s.size |-> s.data[k]]
    BY <1>3 DEF VisitedBytes
  <2>2. s.data \in Seq(Byte) /\ s.size <= Len(s.data)
    BY <1>1, <1>3
  <2>3. \A k \in 1 .. s.size : s.data[k] \in Byte
    BY <1>1, <2>2
  <2>4. [k \in 1 .. s.size |-> s.data[k]] \in Seq(Byte)
    BY <1>1, <2>3
  <2>5. SubSeq(s.data, 1, s.size) = [k \in 1 .. s.size |-> s.data[k]]
    BY <1>1, <2>2
  <2> QED BY <1>1, <1>3, <2>1, <2>4, <2>5
<1> QED BY <1>2, <1>3

\* A section that is loaded is a segment of the image.
LEMMA ElfImageIs ==
  ASSUME NEW sections \in Seq(Section), NEW offset \in Nat
  PROVE  /\ ElfImage(sections, offset) \in Segments
         /\ Len(ElfImage(sections, offset)) = Len(sections)
         /\ \A n \in 1 .. Len(sections) :
              ElfImage(sections, offset)[n] =
                IF sections[n].alloc
                THEN [base |-> sections[n].address + offset, bytes |-> VisitedBytes(sections[n])]
                ELSE NoBytes
<1> DEFINE image == ElfImage(sections, offset)
<1>1. ASSUME NEW n \in 1 .. Len(sections)
      PROVE  /\ image[n] = IF sections[n].alloc
                           THEN [base |-> sections[n].address + offset,
                                 bytes |-> VisitedBytes(sections[n])]
                           ELSE NoBytes
             /\ image[n] \in [base : Nat, bytes : Seq(Byte)]
  <2>1. sections[n] \in Section
    OBVIOUS
  <2>2. image[n] = IF sections[n].alloc
                   THEN [base |-> sections[n].address + offset,
                         bytes |-> IF sections[n].data = Null
                                   THEN [i \in 1 .. sections[n].size |-> 0]
                                   ELSE SubSeq(sections[n].data, 1, sections[n].size)]
                   ELSE NoBytes
    BY DEF ElfImage
  <2>3. image[n] = IF sections[n].alloc
                   THEN [base |-> sections[n].address + offset,
                         bytes |-> VisitedBytes(sections[n])]
                   ELSE NoBytes
    BY <2>1, <2>2, VisitedBytesAre, Zenon
  <2>4. sections[n].address + offset \in Nat /\ VisitedBytes(sections[n]) \in Seq(Byte)
    BY <2>1, VisitedBytesAre
  <2> HIDE DEF image
  <2> QED BY <2>3, <2>4, NoBytesIs
<1>2. image = [n \in 1 .. Len(sections) |-> image[n]]
  BY DEF ElfImage
<1>3. Len(sections) \in Nat
  OBVIOUS
<1> HIDE DEF image
<1>4. image \in Segments /\ Len(image) = Len(sections)
  BY <1>1, <1>2, <1>3, SegmentsAre
<1> QED BY <1>1, <1>4 DEF image

\* loadElf is a loop whose turns each load a section.
LEMMA SectionsLoop ==
  ASSUME NEW m \in Table, NEW sections \in Seq(Section), NEW offset \in Nat
  PROVE  \E after :
           /\ after \in [0 .. Len(sections) -> Table] /\ after[0] = m
           /\ \A n \in 1 .. Len(sections) :
                after[n] = SectionLoaded(after[n - 1], sections[n], offset)
           /\ SectionsLoaded(m, sections, offset) = after[Len(sections)]
<1> DEFINE N == Len(sections)
           Load(n, t) == IF sections[n].alloc
                         THEN PutBytes(t, sections[n].address + offset, VisitedBytes(sections[n]))
                         ELSE t
           turn == [x \in (1 .. N) \X Table |-> Load(x[1], x[2])]
           IsAfter(f) == f = [n \in 0 .. N |-> IF n = 0 THEN m ELSE
             IF sections[n].alloc
             THEN PutBytes(f[n - 1], sections[n].address + offset, VisitedBytes(sections[n]))
             ELSE f[n - 1]]
<1>1. N \in Nat
  OBVIOUS
<1>2. ASSUME NEW n \in 1 .. N, NEW t \in Table
      PROVE  Load(n, t) \in Table
  <2>1. sections[n] \in Section
    OBVIOUS
  <2>2. sections[n].address + offset \in Nat /\ VisitedBytes(sections[n]) \in Seq(Byte)
    BY <2>1, VisitedBytesAre
  <2> QED BY <2>2, PutBytesIs
<1>3. \A f : IsAfter(f) <=> f = [n \in 0 .. N |-> IF n = 0 THEN m ELSE Load(n, f[n - 1])]
  OBVIOUS
<1> HIDE DEF N, Load
<1>4. turn \in [(1 .. N) \X Table -> Table]
  BY <1>2
<1>5. PICK f : Turns(N, Table, m, turn, f)
  <2> HIDE DEF turn
  <2> QED BY <1>1, <1>4, LoopIsDefined, Zenon
<1>6. IsAfter(f)
  <2> HIDE DEF IsAfter
  <2>1. \A n \in 1 .. N : n \in 0 .. N /\ n - 1 \in 0 .. N
    BY <1>1
  <2>2. \A n \in 1 .. N : f[n] = Load(n, f[n - 1])
    BY <1>5, <2>1 DEF Turns
  <2>3. \A n \in 0 .. N : n = 0 \/ n \in 1 .. N
    BY <1>1
  <2>4. f = [n \in 0 .. N |-> IF n = 0 THEN m ELSE Load(n, f[n - 1])]
    BY <1>5, <2>2, <2>3 DEF Turns
  <2> QED BY <1>3, <2>4
<1> DEFINE after == CHOOSE g : IsAfter(g)
<1>7. IsAfter(after)
  <2> HIDE DEF IsAfter
  <2> QED BY <1>6
<1>8. SectionsLoaded(m, sections, offset) = after[N]
  BY DEF SectionsLoaded, N
<1> HIDE DEF after, IsAfter
<1>9. after[0] = m /\ \A n \in 1 .. N : after[n] = Load(n, after[n - 1])
  BY <1>1, <1>3, <1>7
<1>10. after \in [0 .. N -> Table]
  <2> DEFINE P == {n \in 0 .. N : after[n] \in Table}
  <2>1. 0 \in P
    BY <1>1, <1>9
  <2>2. \A n \in 1 .. N : n - 1 \in P => n \in P
    BY <1>2, <1>9
  <2> HIDE DEF P
  <2>3. \A n \in 0 .. N : n \in P
    BY <1>1, <2>1, <2>2, LoopInduction
  <2> USE DEF P
  <2>4. \A n \in 0 .. N : after[n] \in Table
    BY <2>3
  <2> QED BY <1>3, <1>7, <2>4
<1> QED BY <1>8, <1>9, <1>10 DEF N, Load, SectionLoaded

\* The sections of a file land in memory as its image says.
LEMMA SectionsLoadedAre ==
  ASSUME NEW m \in Table, NEW sections \in Seq(Section), NEW offset \in Nat
  PROVE  /\ SectionsLoaded(m, sections, offset) \in Table
         /\ Landed(ContentOf(m), ContentOf(SectionsLoaded(m, sections, offset)),
                   ElfImage(sections, offset), Len(sections))
<1>1. PICK after :
        /\ after \in [0 .. Len(sections) -> Table] /\ after[0] = m
        /\ \A n \in 1 .. Len(sections) :
             after[n] = SectionLoaded(after[n - 1], sections[n], offset)
        /\ SectionsLoaded(m, sections, offset) = after[Len(sections)]
  BY SectionsLoop
<1> DEFINE image == ElfImage(sections, offset)
           P == {n \in 0 .. Len(sections) : Landed(ContentOf(m), ContentOf(after[n]), image, n)}
<1>2. /\ image \in Segments /\ Len(image) = Len(sections)
      /\ \A n \in 1 .. Len(sections) :
           image[n] =
             IF sections[n].alloc
             THEN [base |-> sections[n].address + offset, bytes |-> VisitedBytes(sections[n])]
             ELSE NoBytes
  BY ElfImageIs
<1> HIDE DEF image
<1>3. Len(sections) \in Nat
  OBVIOUS
<1>4. 0 \in P
  BY <1>1, <1>3, NoSegmentYet
<1>5. ASSUME NEW n \in 1 .. Len(sections), n - 1 \in P
      PROVE  n \in P
  <2>1. after[n - 1] \in Table /\ after[n] = SectionLoaded(after[n - 1], sections[n], offset)
    BY <1>1
  <2>2. Stored(ContentOf(after[n - 1]), ContentOf(after[n]),
               image[n].base, image[n].bytes, Len(image[n].bytes))
    <3>1. CASE sections[n].alloc
      <4>1. sections[n] \in Section
        OBVIOUS
      <4>2. sections[n].address + offset \in Nat /\ VisitedBytes(sections[n]) \in Seq(Byte)
        BY <4>1, VisitedBytesAre
      <4>3. image[n].base = sections[n].address + offset
              /\ image[n].bytes = VisitedBytes(sections[n])
        <5>1. image[n] = [base  |-> sections[n].address + offset,
                          bytes |-> VisitedBytes(sections[n])]
          BY <1>2, <3>1, Zenon
        <5> QED BY <5>1
      <4>4. after[n] = PutBytes(after[n - 1], image[n].base, image[n].bytes)
        BY <2>1, <3>1, <4>3 DEF SectionLoaded
      <4> QED BY <2>1, <4>2, <4>3, <4>4, PutBytesIs
    <3>2. CASE ~sections[n].alloc
      <4>1. Len(image[n].bytes) = 0 /\ after[n] = after[n - 1]
        BY <1>2, <2>1, <3>2, NoBytesIs DEF SectionLoaded
      <4> QED BY <4>1, NothingStored
    <3> QED BY <3>1, <3>2
  <2>3. Landed(ContentOf(m), ContentOf(after[n]), image, n)
    BY <1>2, <1>5, <2>2, OneSegmentMore
  <2> QED BY <2>3
<1> HIDE DEF P
<1>6. \A n \in 0 .. Len(sections) : n \in P
  BY <1>3, <1>4, <1>5, LoopInduction
<1> USE DEF P
<1>7. Len(sections) \in 0 .. Len(sections)
  BY <1>3
<1>8. Landed(ContentOf(m), ContentOf(after[Len(sections)]), image, Len(sections))
  BY <1>6, <1>7
<1> QED BY <1>1, <1>7, <1>8 DEF image

-----------------------------------------------------------------------------
(***************************************************************************)
(* Intel HEX.                                                              *)
(***************************************************************************)
SetsBase(line) == line # Null /\ line.key \in {2, 4}
BaseOf(line) == line.value * (IF line.key = 2 THEN SegmentUnit ELSE LinearUnit)

\* The base of a line is what the line before it has set, or the base of that line.
LEMMA HexBaseOfNext ==
  ASSUME NEW lines, NEW n \in Nat \ {0}
  PROVE  HexBase(lines, n + 1) = IF SetsBase(lines[n]) THEN BaseOf(lines[n]) ELSE HexBase(lines, n)
<1> DEFINE bases(k) == {j \in 1 .. (k - 1) : SetsBase(lines[j])}
           last(k) == CHOOSE j \in bases(k) : \A i \in bases(k) : i <= j
<1>1. \A k : HexBase(lines, k) = IF bases(k) = {} THEN 0 ELSE BaseOf(lines[last(k)])
  BY DEF HexBase, SetsBase, BaseOf
<1>2. CASE SetsBase(lines[n])
  <2>1. n \in bases(n + 1) /\ \A i \in bases(n + 1) : i <= n /\ i \in Nat
    BY <1>2
  <2> HIDE DEF bases
  <2>2. last(n + 1) \in bases(n + 1) /\ \A i \in bases(n + 1) : i <= last(n + 1)
    BY <2>1
  <2> HIDE DEF last
  <2>3. last(n + 1) = n
    BY <2>1, <2>2
  <2>4. bases(n + 1) # {}
    BY <2>1
  <2> QED BY <1>1, <1>2, <2>3, <2>4, Zenon
<1>3. CASE ~SetsBase(lines[n])
  <2>1. \A j : j \in 1 .. (n + 1 - 1) <=> j \in 1 .. (n - 1) \/ j = n
    OBVIOUS
  <2>2. bases(n + 1) = bases(n)
    BY <1>3, <2>1
  <2> HIDE DEF bases
  <2> QED BY <1>1, <1>3, <2>2
<1> QED BY <1>2, <1>3

LEMMA NoBaseYet ==
  ASSUME NEW lines
  PROVE  HexBase(lines, 1) = 0
<1>1. {j \in 1 .. (1 - 1) : lines[j] # Null /\ lines[j].key \in {2, 4}} = {}
  OBVIOUS
<1> QED BY <1>1 DEF HexBase

LEMMA HexLinesAre ==
  ASSUME NEW line \in HexLine
  PROVE  /\ line.key \in {0, 2, 4, 5} /\ line.addr \in Nat /\ line.bytes \in Seq(Byte)
         /\ line # Null /\ BaseOf(line) \in Nat
<1>1. /\ line.key \in {0, 2, 4, 5} /\ line.addr \in Nat /\ line.bytes \in Seq(Byte)
      /\ line.value \in Nat
  BY DEF HexLine
<1>2. SegmentUnit \in Nat /\ LinearUnit \in Nat
  BY SizeAssumption
<1>3. \A x, y \in Nat : x * y \in Nat
  OBVIOUS
<1> QED BY <1>1, <1>2, <1>3, InputAssumption DEF BaseOf

LEMMA HexBaseType ==
  ASSUME NEW lines \in Seq(HexLine \cup {Null})
  PROVE  \A k \in 1 .. Len(lines) : HexBase(lines, k) \in Nat
<1> DEFINE P == {n \in 0 .. Len(lines) : HexBase(lines, n + 1) \in Nat}
<1>1. Len(lines) \in Nat
  OBVIOUS
<1>2. 0 \in P
  BY <1>1, NoBaseYet
<1>3. ASSUME NEW n \in 1 .. Len(lines), n - 1 \in P
      PROVE  n \in P
  <2>1. n \in Nat \ {0} /\ lines[n] \in HexLine \cup {Null} /\ n - 1 + 1 = n
    OBVIOUS
  <2>2. HexBase(lines, n) \in Nat
    BY <1>3, <2>1
  <2>3. SetsBase(lines[n]) => BaseOf(lines[n]) \in Nat
    BY <2>1, HexLinesAre DEF SetsBase
  <2>4. HexBase(lines, n + 1) \in Nat
    BY <2>1, <2>2, <2>3, HexBaseOfNext
  <2> QED BY <2>4
<1> HIDE DEF P
<1>4. \A n \in 0 .. Len(lines) : n \in P
  BY <1>1, <1>2, <1>3, LoopInduction
<1> USE DEF P
<1> SUFFICES ASSUME NEW k \in 1 .. Len(lines)
             PROVE  HexBase(lines, k) \in Nat
  OBVIOUS
<1>5. k - 1 \in 0 .. Len(lines) /\ k - 1 + 1 = k
  OBVIOUS
<1>6. k - 1 \in P
  BY <1>4, <1>5
<1> QED BY <1>5, <1>6

\* The loop of loadHex has the table and an offset.
Hexes == [mem : Table, offset : Nat]

\* A turn of the loop stores the data of a line at the offset, or sets that.
LEMMA HexLineReadIs ==
  ASSUME NEW h \in Hexes, NEW line \in HexLine \cup {Null}
  PROVE  /\ HexLineRead(h, line) \in Hexes
         /\ HexLineRead(h, line).mem =
              IF line # Null /\ line.key = 0
              THEN PutBytes(h.mem, line.addr + h.offset, line.bytes) ELSE h.mem
         /\ HexLineRead(h, line).offset = IF SetsBase(line) THEN BaseOf(line) ELSE h.offset
<1>1. h.mem \in Table /\ h.offset \in Nat /\ h = [mem |-> h.mem, offset |-> h.offset]
  BY DEF Hexes
<1>2. CASE line = Null
  BY <1>2 DEF HexLineRead, SetsBase
<1>3. CASE line # Null
  <2>1. line \in HexLine
    BY <1>3
  <2>2. /\ line.key \in {0, 2, 4, 5} /\ line.addr \in Nat /\ line.bytes \in Seq(Byte)
        /\ BaseOf(line) \in Nat
    BY <2>1, HexLinesAre
  <2>3. CASE line.key = 0
    <3>1. HexLineRead(h, line) = [h EXCEPT !.mem = PutBytes(@, line.addr + h.offset, line.bytes)]
      BY <1>3, <2>3 DEF HexLineRead
    <3>2. PutBytes(h.mem, line.addr + h.offset, line.bytes) \in Table
      <4>1. line.addr + h.offset \in Nat
        BY <1>1, <2>2
      <4> QED BY <1>1, <2>2, <4>1, PutBytesIs
    <3>3. ~SetsBase(line)
      BY <2>3 DEF SetsBase
    <3>4. PICK t \in Table : t = PutBytes(h.mem, line.addr + h.offset, line.bytes)
      BY <3>2
    <3>5. HexLineRead(h, line) = [mem |-> t, offset |-> h.offset]
      BY <1>1, <3>1, <3>4
    <3> QED BY <1>1, <1>3, <2>3, <3>3, <3>4, <3>5 DEF Hexes
  <2>4. CASE line.key \in {2, 4}
    <3>1. HexLineRead(h, line) = [h EXCEPT !.offset = BaseOf(line)]
      BY <1>3, <2>4 DEF HexLineRead, BaseOf
    <3>2. SetsBase(line) /\ line.key # 0
      BY <1>3, <2>4 DEF SetsBase
    <3>3. HexLineRead(h, line) = [mem |-> h.mem, offset |-> BaseOf(line)]
      BY <1>1, <3>1
    <3> QED BY <1>1, <2>2, <3>2, <3>3 DEF Hexes
  <2>5. CASE line.key = 5
    <3>1. HexLineRead(h, line) = h
      BY <1>3, <2>5 DEF HexLineRead
    <3> QED BY <2>5, <3>1 DEF SetsBase
  <2> QED BY <2>2, <2>3, <2>4, <2>5
<1> QED BY <1>2, <1>3

\* A segment for every line with data.
LEMMA HexImageIs ==
  ASSUME NEW lines \in Seq(HexLine \cup {Null})
  PROVE  /\ HexImage(lines) \in Segments /\ Len(HexImage(lines)) = Len(lines)
         /\ \A n \in 1 .. Len(lines) :
              HexImage(lines)[n] =
                IF lines[n] # Null /\ lines[n].key = 0
                THEN [base |-> lines[n].addr + HexBase(lines, n), bytes |-> lines[n].bytes]
                ELSE NoBytes
<1> DEFINE image == HexImage(lines)
<1>1. ASSUME NEW n \in 1 .. Len(lines)
      PROVE  /\ image[n] = IF lines[n] # Null /\ lines[n].key = 0
                           THEN [base |-> lines[n].addr + HexBase(lines, n),
                                 bytes |-> lines[n].bytes]
                           ELSE NoBytes
             /\ image[n] \in [base : Nat, bytes : Seq(Byte)]
  <2>1. lines[n] \in HexLine \cup {Null} /\ HexBase(lines, n) \in Nat
    BY HexBaseType
  <2>2. image[n] = IF lines[n] # Null /\ lines[n].key = 0
                   THEN [base |-> lines[n].addr + HexBase(lines, n), bytes |-> lines[n].bytes]
                   ELSE NoBytes
    BY DEF HexImage
  <2> HIDE DEF image
  <2>3. CASE lines[n] # Null /\ lines[n].key = 0
    <3>1. lines[n].addr + HexBase(lines, n) \in Nat /\ lines[n].bytes \in Seq(Byte)
      BY <2>1, <2>3, HexLinesAre
    <3> QED BY <2>2, <2>3, <3>1
  <2> QED BY <2>2, <2>3, NoBytesIs
<1>2. image = [n \in 1 .. Len(lines) |-> image[n]]
  BY DEF HexImage
<1>3. Len(lines) \in Nat
  OBVIOUS
<1> HIDE DEF image
<1>4. image \in Segments /\ Len(image) = Len(lines)
  BY <1>1, <1>2, <1>3, SegmentsAre
<1> QED BY <1>1, <1>4 DEF image

\* loadHex is a loop whose turns each read a line.
LEMMA HexLinesLoop ==
  ASSUME NEW m \in Table, NEW lines \in Seq(HexLine \cup {Null})
  PROVE  \E after :
           /\ after \in [0 .. Len(lines) -> Hexes] /\ after[0] = [mem |-> m, offset |-> 0]
           /\ \A n \in 1 .. Len(lines) : after[n] = HexLineRead(after[n - 1], lines[n])
           /\ HexLinesRead(m, lines) = after[Len(lines)]
<1> DEFINE N == Len(lines)
           start == [mem |-> m, offset |-> 0]
           turn == [x \in (1 .. N) \X Hexes |-> HexLineRead(x[2], lines[x[1]])]
           IsAfter(f) == f = [n \in 0 .. N |->
                                IF n = 0 THEN start ELSE HexLineRead(f[n - 1], lines[n])]
<1>1. N \in Nat
  OBVIOUS
<1>2. ASSUME NEW n \in 1 .. N, NEW h \in Hexes
      PROVE  HexLineRead(h, lines[n]) \in Hexes
  <2>1. lines[n] \in HexLine \cup {Null}
    OBVIOUS
  <2> QED BY <2>1, HexLineReadIs
<1>3. start \in Hexes
  BY DEF Hexes
<1> HIDE DEF N, start
<1>4. turn \in [(1 .. N) \X Hexes -> Hexes]
  BY <1>2
<1>5. PICK f : Turns(N, Hexes, start, turn, f)
  <2> HIDE DEF turn
  <2> QED BY <1>1, <1>3, <1>4, LoopIsDefined, Zenon
<1>6. IsAfter(f)
  <2>1. \A n \in 1 .. N : n \in 0 .. N /\ n - 1 \in 0 .. N
    BY <1>1
  <2>2. \A n \in 1 .. N : f[n] = HexLineRead(f[n - 1], lines[n])
    BY <1>5, <2>1 DEF Turns
  <2>3. \A n \in 0 .. N : n = 0 \/ n \in 1 .. N
    BY <1>1
  <2> QED BY <1>5, <2>2, <2>3 DEF Turns
<1> DEFINE after == CHOOSE g : IsAfter(g)
<1>7. IsAfter(after)
  <2> HIDE DEF IsAfter
  <2> QED BY <1>6
<1>8. HexLinesRead(m, lines) = after[N]
  BY DEF HexLinesRead, N, start
<1> HIDE DEF after
<1>9. after[0] = start /\ \A n \in 1 .. N : after[n] = HexLineRead(after[n - 1], lines[n])
  BY <1>1, <1>7
<1>10. after \in [0 .. N -> Hexes]
  <2> DEFINE P == {n \in 0 .. N : after[n] \in Hexes}
  <2>1. 0 \in P
    BY <1>1, <1>3, <1>9
  <2>2. \A n \in 1 .. N : n - 1 \in P => n \in P
    BY <1>2, <1>9
  <2> HIDE DEF P
  <2>3. \A n \in 0 .. N : n \in P
    BY <1>1, <2>1, <2>2, LoopInduction
  <2> USE DEF P
  <2>4. \A n \in 0 .. N : after[n] \in Hexes
    BY <2>3
  <2> QED BY <1>7, <2>4
<1> QED BY <1>8, <1>9, <1>10 DEF N, start

\* The lines of a file land in memory as its image says.
LEMMA HexLinesReadAre ==
  ASSUME NEW m \in Table, NEW lines \in Seq(HexLine \cup {Null})
  PROVE  /\ HexLinesRead(m, lines).mem \in Table
         /\ Landed(ContentOf(m), ContentOf(HexLinesRead(m, lines).mem),
                   HexImage(lines), Len(lines))
<1>1. PICK after :
        /\ after \in [0 .. Len(lines) -> Hexes] /\ after[0] = [mem |-> m, offset |-> 0]
        /\ \A n \in 1 .. Len(lines) : after[n] = HexLineRead(after[n - 1], lines[n])
        /\ HexLinesRead(m, lines) = after[Len(lines)]
  BY HexLinesLoop
<1> DEFINE image == HexImage(lines)
           P == {n \in 0 .. Len(lines) :
                   /\ after[n].offset = HexBase(lines, n + 1)
                   /\ Landed(ContentOf(m), ContentOf(after[n].mem), image, n)}
<1>2. /\ image \in Segments /\ Len(image) = Len(lines)
      /\ \A n \in 1 .. Len(lines) :
           image[n] = IF lines[n] # Null /\ lines[n].key = 0
                      THEN [base |-> lines[n].addr + HexBase(lines, n), bytes |-> lines[n].bytes]
                      ELSE NoBytes
  BY HexImageIs
<1> HIDE DEF image
<1>3. Len(lines) \in Nat
  OBVIOUS
<1>4. 0 \in P
  <2>1. after[0].mem = m /\ after[0].offset = 0
    BY <1>1
  <2> QED BY <1>3, <2>1, NoSegmentYet, NoBaseYet
<1>5. ASSUME NEW n \in 1 .. Len(lines), n - 1 \in P
      PROVE  n \in P
  <2>1. /\ n \in Nat \ {0} /\ n - 1 \in 0 .. Len(lines) /\ n - 1 + 1 = n
        /\ lines[n] \in HexLine \cup {Null}
    OBVIOUS
  <2>2. after[n - 1] \in Hexes /\ after[n] = HexLineRead(after[n - 1], lines[n])
    BY <1>1, <2>1
  <2>3. /\ after[n].mem = IF lines[n] # Null /\ lines[n].key = 0
                          THEN PutBytes(after[n - 1].mem, lines[n].addr + after[n - 1].offset,
                                        lines[n].bytes)
                          ELSE after[n - 1].mem
        /\ after[n].offset = IF SetsBase(lines[n]) THEN BaseOf(lines[n]) ELSE after[n - 1].offset
    BY <2>1, <2>2, HexLineReadIs
  <2>4. after[n - 1].offset = HexBase(lines, n)
    BY <1>5, <2>1
  <2>5. after[n].offset = HexBase(lines, n + 1)
    BY <2>1, <2>3, <2>4, HexBaseOfNext
  <2>6. Stored(ContentOf(after[n - 1].mem), ContentOf(after[n].mem),
               image[n].base, image[n].bytes, Len(image[n].bytes))
    <3>1. CASE lines[n] # Null /\ lines[n].key = 0
      <4>1. /\ lines[n].addr + HexBase(lines, n) \in Nat /\ lines[n].bytes \in Seq(Byte)
            /\ after[n - 1].mem \in Table
        BY <2>1, <2>2, <3>1, HexLinesAre, HexBaseType DEF Hexes
      <4>2. image[n] = [base |-> lines[n].addr + HexBase(lines, n), bytes |-> lines[n].bytes]
        BY <1>2, <3>1, Zenon
      <4>3. image[n].base = lines[n].addr + HexBase(lines, n) /\ image[n].bytes = lines[n].bytes
        BY <4>2
      <4>4. after[n].mem = PutBytes(after[n - 1].mem, image[n].base, image[n].bytes)
        BY <2>3, <2>4, <3>1, <4>3
      <4> QED BY <4>1, <4>3, <4>4, PutBytesIs
    <3>2. CASE ~(lines[n] # Null /\ lines[n].key = 0)
      <4>1. Len(image[n].bytes) = 0 /\ after[n].mem = after[n - 1].mem
        BY <1>2, <2>3, <3>2, NoBytesIs
      <4> QED BY <4>1, NothingStored
    <3> QED BY <3>1, <3>2
  <2>7. Landed(ContentOf(m), ContentOf(after[n].mem), image, n)
    BY <1>2, <1>5, <2>6, OneSegmentMore
  <2> QED BY <2>5, <2>7
<1> HIDE DEF P
<1>6. \A n \in 0 .. Len(lines) : n \in P
  BY <1>3, <1>4, <1>5, LoopInduction
<1> USE DEF P
<1>7. Len(lines) \in 0 .. Len(lines)
  BY <1>3
<1>8. Landed(ContentOf(m), ContentOf(after[Len(lines)].mem), image, Len(lines))
  BY <1>6, <1>7
<1>9. after[Len(lines)].mem \in Table
  BY <1>1, <1>7 DEF Hexes
<1> QED BY <1>1, <1>8, <1>9 DEF image

-----------------------------------------------------------------------------
(***************************************************************************)
(* The operations.                                                         *)
(***************************************************************************)

LEMMA TypeOKIsTable ==
  TypeOK <=> mem \in Table /\ answer \in Seq(Byte) /\ failed \in BOOLEAN
BY DEF TypeOK, Table, Page

\* A read returns the content and leaves it alone, whichever pages it creates.
LEMMA ReadIsFlat ==
  ASSUME mem \in Table, NEW r, r[1] \in Nat, r[2] \in Nat, Read(r)
  PROVE  /\ mem' \in Table /\ answer' \in Seq(Byte) /\ contentBar' = contentBar
         /\ answer' = [k \in 1 .. r[2] |-> contentBar[(r[1] + k - 1) % Size]]
<1> DEFINE A == {(r[1] + k - 1) % Size : k \in 1 .. r[2]}
<1>1. ASSUME NEW k \in 1 .. r[2]
      PROVE  (r[1] + k - 1) % Size \in 0 .. (Size - 1)
  BY AtIsAddress DEF At
<1>2. mem' = Touched(mem, A) /\ answer' = [k \in 1 .. r[2] |-> ByteAt(mem, (r[1] + k - 1) % Size)]
  BY DEF Read
<1>3. A \in SUBSET (0 .. (Size - 1))
  BY <1>1
<1> HIDE DEF A
<1>4. mem' \in Table /\ ContentOf(mem') = ContentOf(mem)
  BY <1>2, <1>3, TouchedIs
<1>5. ASSUME NEW k \in 1 .. r[2]
      PROVE  /\ ByteAt(mem, (r[1] + k - 1) % Size) = contentBar[(r[1] + k - 1) % Size]
             /\ ByteAt(mem, (r[1] + k - 1) % Size) \in Byte
  BY <1>1, ByteAtIsContent DEF contentBar
<1>6. answer' = [k \in 1 .. r[2] |-> contentBar[(r[1] + k - 1) % Size]]
  BY <1>2, <1>5
<1>7. answer' \in Seq(Byte)
  <2>1. answer' \in [1 .. r[2] -> Byte]
    BY <1>2, <1>5
  <2> QED BY <2>1, TableIsSequence
<1> QED BY <1>4, <1>6, <1>7 DEF contentBar

\* A write, or a binary file, is an image of one segment.
LEMMA OneSegment ==
  ASSUME mem \in Table, NEW base \in Nat, NEW bytes \in Seq(Byte),
         mem' = PutBytes(mem, base, bytes), answer' = answer
  PROVE  mem' \in Table /\ Flat!Store(<<[base |-> base, bytes |-> bytes]>>)
<1> DEFINE segment == [base |-> base, bytes |-> bytes]
           image == <<segment>>
<1>1. segment \in [base : Nat, bytes : Seq(Byte)]
  OBVIOUS
<1>2. segment.base = base /\ segment.bytes = bytes
  OBVIOUS
<1> HIDE DEF segment
<1>3. image = [k \in 1 .. 1 |-> image[k]] /\ image[1] = segment
  OBVIOUS
<1>4. image \in Segments /\ Len(image) = 1
  <2> HIDE DEF image
  <2>1. \A k \in 1 .. 1 : image[k] \in [base : Nat, bytes : Seq(Byte)]
    BY <1>1, <1>3
  <2> QED BY <1>3, <2>1, SegmentsAre
<1> HIDE DEF image
<1>5. mem' \in Table /\ Stored(contentBar, contentBar', base, bytes, Len(bytes))
  BY PutBytesIs DEF contentBar
<1>6. Landed(contentBar, contentBar', image, 1)
  <2>1. Landed(contentBar, contentBar, image, 1 - 1)
    BY NoSegmentYet
  <2>2. 1 \in 1 .. Len(image)
    BY <1>4
  <2> QED BY <1>2, <1>3, <1>4, <1>5, <2>1, <2>2, OneSegmentMore
<1>7. Flat!Store(image)
  BY <1>4, <1>6, LandedIsStore
<1> QED BY <1>5, <1>7 DEF image, segment

\* What a step of Memory is to the flat memory, and that it keeps the table.
IsFlatStep ==
  /\ mem' \in Table /\ answer' \in Seq(Byte) /\ failed' \in BOOLEAN
  /\ Flat!Next \/ UNCHANGED <<contentBar, answer>>

\* Memory::read of any range that starts at an address, or of nothing.
LEMMA ReadIsFlatStep ==
  ASSUME TypeOK, NEW r, r[1] \in Nat, r[2] \in 0 .. Size, r[1] < Size \/ r[2] = 0, Read(r)
  PROVE  IsFlatStep
<1>1. mem \in Table /\ r[2] \in Nat /\ Size \in Nat /\ Size > 0
  BY TypeOKIsTable, Sizes
<1>2. /\ mem' \in Table /\ answer' \in Seq(Byte) /\ contentBar' = contentBar
      /\ answer' = [k \in 1 .. r[2] |-> contentBar[(r[1] + k - 1) % Size]]
  BY <1>1, ReadIsFlat
<1>3. PICK q \in (0 .. (Size - 1)) \X (0 .. Size) :
        [k \in 1 .. q[2] |-> contentBar[(q[1] + k - 1) % Size]] = answer'
  <2>1. CASE r[1] < Size
    <3> DEFINE q == <<r[1], r[2]>>
    <3>1. q \in (0 .. (Size - 1)) \X (0 .. Size)
      BY <1>1, <2>1
    <3>2. [k \in 1 .. q[2] |-> contentBar[(q[1] + k - 1) % Size]] = answer'
      BY <1>2
    <3> QED BY <3>1, <3>2
  <2>2. CASE r[2] = 0
    <3> DEFINE q == <<0, 0>>
    <3>1. q \in (0 .. (Size - 1)) \X (0 .. Size)
      BY <1>1
    <3>2. [k \in 1 .. q[2] |-> contentBar[(q[1] + k - 1) % Size]] = answer'
      BY <1>2, <2>2
    <3> QED BY <3>1, <3>2
  <2> QED BY <2>1, <2>2
<1>4. Flat!Read(q)
  BY <1>2, <1>3 DEF Flat!Read
<1>5. failed' \in BOOLEAN
  BY TypeOKIsTable DEF Read
<1> QED BY <1>2, <1>4, <1>5 DEF IsFlatStep, Flat!Next

LEMMA WriteIsFlatStep ==
  ASSUME TypeOK, NEW w \in Writes, Write(w)
  PROVE  IsFlatStep
<1>1. w.base \in Nat /\ w.bytes \in Seq(Byte) /\ w = [base |-> w.base, bytes |-> w.bytes]
  <2>1. w \in [base : 0 .. (Size - 1), bytes : Buffer]
    BY InputAssumption
  <2>2. w.base \in Nat /\ w.bytes \in Buffer /\ w = [base |-> w.base, bytes |-> w.bytes]
    BY <2>1, Sizes
  <2> QED BY <2>2 DEF Buffer
<1>2. mem \in Table /\ answer' = answer /\ answer \in Seq(Byte) /\ failed' \in BOOLEAN
  BY TypeOKIsTable DEF Write
<1>3. mem' \in Table /\ Flat!Store(<<w>>)
  BY <1>1, <1>2, OneSegment DEF Write
<1>4. <<w>> \in Image
  BY DEF Image
<1> QED BY <1>2, <1>3, <1>4 DEF IsFlatStep, Flat!Next

LEMMA FilesAre ==
  ASSUME NEW file \in Files
  PROVE  /\ file.type = "bin" => file.bytes \in Seq(Byte)
         /\ file.type = "elf" => file.sections \in Seq(Section)
<1>1. file \in BinFile \cup ElfFile \cup Missing
  BY InputAssumption
<1> DEFINE S == Seq(Section)
           B == Buffer
<1>2. /\ BinFile = [type : {"bin"}, bytes : B]
      /\ ElfFile = [type : {"elf"}, sections : S] /\ Missing = [type : {"missing"}]
  BY DEF BinFile, ElfFile, Missing
<1> HIDE DEF S, B
<1>3. /\ file.type = "bin" => file.bytes \in B
      /\ file.type = "elf" => file.sections \in S
  BY <1>1, <1>2
<1> QED BY <1>3 DEF S, B, Buffer

LEMMA LoadBinIsFlatStep ==
  ASSUME TypeOK, NEW file \in Files, NEW offset \in Offsets, LoadBin(file, offset)
  PROVE  IsFlatStep
<1>1. offset \in Nat /\ file.bytes \in Seq(Byte) /\ file \in FilesOf("bin")
  BY InputAssumption, FilesAre DEF LoadBin, FilesOf
<1>2. mem \in Table /\ answer' = answer /\ answer \in Seq(Byte) /\ failed' \in BOOLEAN
  BY TypeOKIsTable DEF LoadBin
<1>3. mem' \in Table /\ Flat!Store(<<[base |-> offset, bytes |-> file.bytes]>>)
  BY <1>1, <1>2, OneSegment DEF LoadBin
<1>4. <<[base |-> offset, bytes |-> file.bytes]>> \in Image
  BY <1>1 DEF Image
<1> QED BY <1>2, <1>3, <1>4 DEF IsFlatStep, Flat!Next

LEMMA LoadHexIsFlatStep ==
  ASSUME TypeOK, NEW file \in HexFiles, LoadHex(file)
  PROVE  IsFlatStep
<1>1. file.lines \in Seq(HexLine \cup {Null})
  BY InputAssumption DEF HexFile
<1>2. mem \in Table /\ answer' = answer /\ answer \in Seq(Byte) /\ failed' \in BOOLEAN
  BY TypeOKIsTable DEF LoadHex
<1>3. mem' \in Table
        /\ Landed(contentBar, contentBar', HexImage(file.lines), Len(file.lines))
  BY <1>1, <1>2, HexLinesReadAre DEF LoadHex, contentBar
<1>4. Flat!Store(HexImage(file.lines))
  BY <1>1, <1>2, <1>3, HexImageIs, LandedIsStore
<1>5. HexImage(file.lines) \in Image
  BY <1>1 DEF Image
<1> QED BY <1>2, <1>3, <1>4, <1>5 DEF IsFlatStep, Flat!Next

LEMMA LoadElfIsFlatStep ==
  ASSUME TypeOK, NEW file \in Files, NEW offset \in Offsets, LoadElf(file, offset)
  PROVE  IsFlatStep
<1>1. /\ offset \in Nat /\ file.sections \in Seq(Section)
      /\ file \in FilesOf("elf")
  BY InputAssumption, FilesAre DEF LoadElf, FilesOf
<1>2. mem \in Table /\ answer' = answer /\ answer \in Seq(Byte) /\ failed' \in BOOLEAN
  BY TypeOKIsTable DEF LoadElf
<1>3. mem' \in Table
        /\ Landed(contentBar, contentBar', ElfImage(file.sections, offset), Len(file.sections))
  BY <1>1, <1>2, SectionsLoadedAre DEF LoadElf, contentBar
<1>4. Flat!Store(ElfImage(file.sections, offset))
  BY <1>1, <1>2, <1>3, ElfImageIs, LandedIsStore
<1>5. ElfImage(file.sections, offset) \in Image
  BY <1>1 DEF Image
<1> QED BY <1>2, <1>3, <1>4, <1>5 DEF IsFlatStep, Flat!Next

\* Without its file a loader changes nothing.
LEMMA LoadFailsIsFlatStep ==
  ASSUME TypeOK, NEW file, LoadFails(file)
  PROVE  IsFlatStep
<1>1. mem' = mem /\ answer' = answer /\ failed' = TRUE
  BY DEF LoadFails
<1>2. contentBar' = contentBar
  BY <1>1 DEF contentBar
<1> QED BY <1>1, <1>2, TypeOKIsTable DEF IsFlatStep

LEMMA NextIsFlatStep ==
  ASSUME TypeOK, Next
  PROVE  IsFlatStep
<1>1. ASSUME NEW r \in Reads, Read(r) PROVE IsFlatStep
  <2>1. r[1] \in Nat /\ r[1] < Size /\ r[2] \in 0 .. Size
    BY InputAssumption, Sizes
  <2> QED BY <1>1, <2>1, ReadIsFlatStep
<1>2. ASSUME NEW w \in Writes, Write(w) PROVE IsFlatStep
  BY <1>2, WriteIsFlatStep
<1>3. ASSUME NEW file \in Files, NEW offset \in Offsets, LoadBin(file, offset) PROVE IsFlatStep
  BY <1>3, LoadBinIsFlatStep
<1>4. ASSUME NEW file \in Files, NEW offset \in Offsets, LoadElf(file, offset) PROVE IsFlatStep
  BY <1>4, LoadElfIsFlatStep
<1>5. ASSUME NEW file \in HexFiles, LoadHex(file) PROVE IsFlatStep
  BY <1>5, LoadHexIsFlatStep
<1>6. ASSUME NEW file \in Files, LoadFails(file) PROVE IsFlatStep
  BY <1>6, LoadFailsIsFlatStep
<1> QED BY <1>1, <1>2, <1>3, <1>4, <1>5, <1>6 DEF Next

LEMMA StutterIsFlatStep ==
  ASSUME TypeOK, UNCHANGED vars
  PROVE  IsFlatStep
<1>1. mem' = mem /\ answer' = answer /\ failed' = failed
  BY DEF vars
<1>2. contentBar' = contentBar
  BY <1>1 DEF contentBar
<1> QED BY <1>1, <1>2, TypeOKIsTable DEF IsFlatStep

LEMMA InitIsFlat ==
  ASSUME Init
  PROVE  TypeOK /\ Flat!Init
<1>1. mem = [b \in 0 .. (Blocks - 1) |-> Null] /\ answer = <<>> /\ failed = FALSE
  BY DEF Init
<1>2. mem \in Table
  BY <1>1 DEF Table
<1>3. TypeOK
  <2>1. answer \in Seq(Byte)
    BY <1>1
  <2>2. failed \in BOOLEAN
    BY <1>1
  <2> QED BY <1>2, <2>1, <2>2, TypeOKIsTable
<1>4. \A a \in 0 .. (Size - 1) : contentBar[a] = InitialByte(a)
  BY <1>1, ContentType, PlaceOf DEF contentBar
<1>5. contentBar = [a \in 0 .. (Size - 1) |-> contentBar[a]]
  BY ContentType DEF contentBar
<1>6. contentBar = [a \in 0 .. (Size - 1) |-> InitialByte(a)]
  BY <1>4, <1>5, Zenon
<1> QED BY <1>1, <1>3, <1>6 DEF Flat!Init

LEMMA FlatStepKeepsTable ==
  ASSUME IsFlatStep
  PROVE  TypeOK'
BY DEF IsFlatStep, TypeOK, Table, Page

\* A page is a page of bytes and an answer is bytes, whatever generator, files,
\* offsets and addresses class Memory is used with.
THEOREM MemoryTypeCorrect == Spec => []TypeOK
<1>1. Init => TypeOK
  BY InitIsFlat
<1>2. TypeOK /\ [Next]_vars => TypeOK'
  BY NextIsFlatStep, StutterIsFlatStep, FlatStepKeepsTable
<1> QED BY <1>1, <1>2, PTL DEF Spec

\* Memory::get's pages, which appear with their first use, cannot be told from a
\* memory that is there from the start; the loops of Memory::write and of the
\* loaders leave each byte of a segment or a file where it belongs, the last one
\* where several meet, for any sizes of pages and bytes, any generator and offsets, and
\* any segments, binary files and sections that are smaller than memory.
THEOREM ImplementsFlatMemory == Spec => MemoryIsFlat
<1>1. Init => Flat!Init
  BY InitIsFlat
<1>2. TypeOK /\ [Next]_vars => [Flat!Next]_(Flat!vars)
  BY NextIsFlatStep, StutterIsFlatStep DEF IsFlatStep, Flat!vars
<1> QED BY <1>1, <1>2, MemoryTypeCorrect, PTL DEF Spec, MemoryIsFlat, Flat!Spec
=============================================================================
