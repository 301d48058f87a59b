------------------------------- MODULE Memory -------------------------------
(***************************************************************************)
(* src/memory.{hpp,cpp}, src/elf.{hpp,cpp} and the loaders of Context: the *)
(* memory that all harts share.  It is a table of pages.  A page does not  *)
(* exist before its first use, be it a read or a write, by a hart, a fetch,*)
(* a page walk or a loader; then it is filled by a generator seeded with   *)
(* its place in the table.                                                 *)
(***************************************************************************)
EXTENDS Integers, Sequences, FiniteSets

CONSTANTS
  Blocks,       \* how many pages there are, 2^12
  PageSize,     \* how many bytes a page has, 2^20
  ByteValues,   \* how many values a byte has, 2^8
  BytesPerInt,  \* how many bytes nextBytes takes from a u32: 4
  Multiplier, Increment, Modulus, Shift,  \* of the generator
  SegmentUnit,  \* what kinds 2 and 4 of Intel HEX count in: 2^4 and 2^16
  LinearUnit,
  Reads,        \* the <<address, length>> that may be read
  Writes,       \* the segments that Memory::write may get
  Files,        \* the files a trace may load: see BinFile, ElfFile, Missing
  HexFiles,     \* those that Memory::loadHex may get, which nothing in the repository calls
  Offsets,      \* the offsets a trace may load them at
  Null

Size == Blocks * PageSize
Byte == 0 .. (ByteValues - 1)

(***************************************************************************)
(* Binary data; lines of Intel HEX: the kind, the 16 bit address and the   *)
(* data; ELF sections, one without data being a .bss.  Offsets are u64.    *)
(* Files can be read to their end, and nothing is as large as memory:      *)
(* loadBin holds a size in a u32, and would load so much less of a file of *)
(* 4 GiB (memory.cpp:150), and visitBytes counts to a u64 with a u32, which*)
(* never reaches 4 GiB (elf.cpp:25).                                       *)
(***************************************************************************)
Buffer == {b \in Seq(Byte) : Len(b) < Size}
BinFile == [type : {"bin"}, bytes : Buffer]
HexLine == [key : {0, 2, 4, 5}, addr : Nat, bytes : Seq(Byte), value : Nat]
HexFile == [type : {"hex"}, lines : Seq(HexLine \cup {Null})]
Section ==
  {s \in [alloc : BOOLEAN, address : Nat, size : Nat, data : Seq(Byte) \cup {Null}] :
     s.size < Size /\ (s.data # Null => s.size <= Len(s.data))}
ElfFile == [type : {"elf"}, sections : Seq(Section)]
Missing == [type : {"missing"}]

ASSUME SizeAssumption ==
  /\ Blocks \in Nat \ {0} /\ PageSize \in Nat \ {0} /\ ByteValues \in Nat \ {0}
  /\ BytesPerInt \in Nat \ {0} /\ Shift \in Nat \ {0} /\ Modulus \in Nat \ {0}
  /\ Multiplier \in Nat /\ Increment \in Nat /\ SegmentUnit \in Nat /\ LinearUnit \in Nat
ASSUME InputAssumption ==
  /\ Reads \subseteq (0 .. (Size - 1)) \X (0 .. Size)
  /\ Writes \subseteq [base : 0 .. (Size - 1), bytes : Buffer]
  /\ Files \subseteq BinFile \cup ElfFile \cup Missing
  /\ HexFiles \subseteq HexFile
  /\ Offsets \subseteq Nat
  /\ Null \notin [0 .. (PageSize - 1) -> Byte] /\ Null \notin HexLine

VARIABLES
  mem,      \* the table of pages
  answer,   \* what the last read returned
  failed    \* a loader has not found its file

vars == <<mem, answer, failed>>

TypeOK ==
  /\ mem \in [0 .. (Blocks - 1) -> [0 .. (PageSize - 1) -> Byte] \cup {Null}]
  /\ answer \in Seq(Byte)
  /\ failed \in BOOLEAN

Init ==
  /\ mem = [b \in 0 .. (Blocks - 1) |-> Null]
  /\ answer = <<>>
  /\ failed = FALSE

-----------------------------------------------------------------------------
(***************************************************************************)
(* RandomGen and Memory::get.                                              *)
(***************************************************************************)

Advance(state) == (state * Multiplier + Increment) % Modulus

\* nextBytes after n bytes: a number is drawn for every BytesPerInt bytes, and
\* shifted to the next byte between them.
Generated(seed) ==
  LET drawn(state) == [state |-> state, rand |-> state \div Shift]
      after[n \in 0 .. PageSize] ==
        IF n = 0 THEN [state |-> seed, rand |-> 0]
        ELSE IF (n - 1) % BytesPerInt = 0 THEN drawn(Advance(after[n - 1].state))
        ELSE [after[n - 1] EXCEPT !.rand = @ \div ByteValues]
  IN  after

\* Mutant: the number is shifted, but not cut to a byte.
RandomBytes_Wide(seed) == [i \in 0 .. (PageSize - 1) |-> Generated(seed)[i + 1].rand]

RandomBytes(seed) == [i \in 0 .. (PageSize - 1) |-> Generated(seed)[i + 1].rand % ByteValues]

BlockOf(address) == address \div PageSize

\* Mutant: the generator goes on where the page before has left it.
Filled_NotReseeded(m, block) ==
  RandomBytes(Cardinality({b \in DOMAIN m : m[b] # Null}))

\* The seed is that of the block; seed and randOffset of Memory are 0.
Filled(m, block) == RandomBytes(block * PageSize)

\* get of some addresses: their pages are there afterwards.
Touched(m, addresses) ==
  [b \in 0 .. (Blocks - 1) |->
     IF m[b] = Null /\ b \in {BlockOf(a) : a \in addresses} THEN Filled(m, b) ELSE m[b]]

ByteAt(m, address) == Touched(m, {address})[BlockOf(address)][address % PageSize]

PutByte(m, address, byte) ==
  [Touched(m, {address}) EXCEPT ![BlockOf(address)][address % PageSize] = byte]

\* A loop that puts the k-th byte at base + k, truncated to a u32.
PutBytes(m, base, bytes) ==
  LET put[n \in 0 .. Len(bytes)] ==
        IF n = 0 THEN m ELSE PutByte(put[n - 1], (base + n - 1) % Size, bytes[n])
  IN  put[Len(bytes)]

-----------------------------------------------------------------------------
(***************************************************************************)
(* Memory::read and Memory::write.                                         *)
(***************************************************************************)

Read(r) ==
  LET at(k) == (r[1] + k - 1) % Size
  IN  /\ mem' = Touched(mem, {at(k) : k \in 1 .. r[2]})
      /\ answer' = [k \in 1 .. r[2] |-> ByteAt(mem, at(k))]
      /\ UNCHANGED failed

Write(w) ==
  /\ mem' = PutBytes(mem, w.base, w.bytes)
  /\ UNCHANGED <<answer, failed>>

-----------------------------------------------------------------------------
(***************************************************************************)
(* The loaders.                                                            *)
(***************************************************************************)

LoadBin(file, offset) ==
  /\ file.type = "bin"
  /\ mem' = PutBytes(mem, offset, file.bytes)
  /\ UNCHANGED <<answer, failed>>

(***************************************************************************)
(* One turn of loadHex's loop.  A line without ":" (Null) is skipped, one  *)
(* with data is stored at its address plus the offset that the last line   *)
(* of kind 2 or 4 has set, and all other kinds are ignored, the end of     *)
(* file (here 5 stands for all) included.                                  *)
(***************************************************************************)
HexLineRead(state, line) ==
  IF line = Null THEN state
  ELSE CASE line.key = 0 ->
              [state EXCEPT !.mem = PutBytes(@, line.addr + state.offset, line.bytes)]
         [] line.key = 2 -> [state EXCEPT !.offset = line.value * SegmentUnit]
         [] line.key = 4 -> [state EXCEPT !.offset = line.value * LinearUnit]
         [] OTHER        -> state

HexLinesRead(m, lines) ==
  LET after[n \in 0 .. Len(lines)] ==
        IF n = 0 THEN [mem |-> m, offset |-> 0] ELSE HexLineRead(after[n - 1], lines[n])
  IN  after[Len(lines)]

LoadHex(file) ==
  /\ mem' = HexLinesRead(mem, file.lines).mem
  /\ UNCHANGED <<answer, failed>>

\* Elf::visitBytes: the bytes of a section, or as many zeros.
VisitedBytes(section) ==
  [k \in 1 .. section.size |-> IF section.data = Null THEN 0 ELSE section.data[k]]

SectionsLoaded(m, sections, offset) ==
  LET after[n \in 0 .. Len(sections)] ==
        IF n = 0 THEN m
        ELSE IF sections[n].alloc
        THEN PutBytes(after[n - 1], sections[n].address + offset, VisitedBytes(sections[n]))
        ELSE after[n - 1]
  IN  after[Len(sections)]

LoadElf(file, offset) ==
  /\ file.type = "elf"
  /\ mem' = SectionsLoaded(mem, file.sections, offset)
  /\ UNCHANGED <<answer, failed>>

\* loadBin and loadHex throw before they write anything, Elf::Elf exits.
LoadFails(file) ==
  /\ file.type = "missing"
  /\ failed' = TRUE
  /\ UNCHANGED <<mem, answer>>

Next ==
  /\ ~failed
  /\ \/ \E r \in Reads : Read(r)
     \/ \E w \in Writes : Write(w)
     \/ \E file \in Files :
          \/ \E offset \in Offsets : LoadBin(file, offset) \/ LoadElf(file, offset)
          \/ LoadFails(file)
     \/ \E file \in HexFiles : LoadHex(file)

Spec == Init /\ [][Next]_vars
=============================================================================
