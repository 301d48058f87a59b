----------------------------- MODULE MemoryImpl -----------------------------
(***************************************************************************)
(* The table of pages implements a memory that is there from the start,    *)
(* and the loops of the loaders the images their files describe.           *)
(***************************************************************************)
EXTENDS Memory

\* The content of an address before its page exists.
InitialByte(a) == RandomBytes(BlockOf(a) * PageSize)[a % PageSize]

ContentOf(m) ==
  [a \in 0 .. (Size - 1) |->
     IF m[BlockOf(a)] = Null THEN InitialByte(a) ELSE m[BlockOf(a)][a % PageSize]]
contentBar == ContentOf(mem)

(***************************************************************************)
(* The image of a file, said without a loop.  What loads nothing is a      *)
(* segment without bytes.                                                  *)
(***************************************************************************)
NoBytes == [base |-> 0, bytes |-> <<>>]

\* The base of line k of an Intel HEX file: what the last line before it sets.
HexBase(lines, k) ==
  LET bases == {j \in 1 .. (k - 1) : lines[j] # Null /\ lines[j].key \in {2, 4}}
      last  == CHOOSE j \in bases : \A i \in bases : i <= j
  IN  IF bases = {} THEN 0
      ELSE lines[last].value * (IF lines[last].key = 2 THEN SegmentUnit ELSE LinearUnit)

HexImage(lines) ==
  [k \in 1 .. Len(lines) |->
     IF lines[k] # Null /\ lines[k].key = 0
     THEN [base |-> lines[k].addr + HexBase(lines, k), bytes |-> lines[k].bytes]
     ELSE NoBytes]

ElfImage(sections, offset) ==
  [k \in 1 .. Len(sections) |->
     IF sections[k].alloc
     THEN [base  |-> sections[k].address + offset,
           bytes |-> IF sections[k].data = Null
                     THEN [i \in 1 .. sections[k].size |-> 0]
                     ELSE SubSeq(sections[k].data, 1, sections[k].size)]
     ELSE NoBytes]

FilesOf(type) == {f \in Files : f.type = type}
Image ==
  {<<w>> : w \in Writes}
    \cup {<<[base |-> o, bytes |-> f.bytes]>> : f \in FilesOf("bin"), o \in Offsets}
    \cup {HexImage(f.lines) : f \in HexFiles}
    \cup {ElfImage(f.sections, o) : f \in FilesOf("elf"), o \in Offsets}

Flat == INSTANCE FlatMemory WITH
  Initial <- InitialByte, Reads <- (0 .. (Size - 1)) \X (0 .. Size), Images <- Image,
  content <- contentBar

\* When a page comes into being, and which access makes it, cannot be observed:
\* every read returns what a memory would that is filled from the start, and a
\* loader leaves each byte of its file at the address the file says, the last one
\* where several meet, also where an address wraps or a segment crosses pages.
MemoryIsFlat == Flat!Spec
=============================================================================
