----------------------------- MODULE FlatMemory -----------------------------
(***************************************************************************)
(* What class Memory promises its users: 4 GB of bytes that are there from *)
(* the start, with a fixed initial content, that only writes change.       *)
(***************************************************************************)
EXTENDS Integers, Sequences

CONSTANTS
  Size,       \* how many bytes there are
  Byte,       \* values of a byte
  Initial(_), \* the content of an address before anything is written to it
  Reads,      \* the <<address, length>> that may be read
  Images      \* what may be written at once, see Image

(***************************************************************************)
(* An image is a sequence of segments, each a base address and the bytes   *)
(* from there on.  Addresses wrap; where segments overlap the last one     *)
(* counts, and in a segment longer than the memory the last byte.          *)
(***************************************************************************)
Image == Seq([base : Nat, bytes : Seq(Byte)])

VARIABLES
  content,  \* the bytes
  answer    \* what the last read returned

vars == <<content, answer>>

Init ==
  /\ content = [a \in 0 .. (Size - 1) |-> Initial(a)]
  /\ answer = <<>>

Read(r) ==
  /\ answer' = [k \in 1 .. r[2] |-> content[(r[1] + k - 1) % Size]]
  /\ UNCHANGED content

\* The <<segment, byte>> of an image that lands on a, and the last of them.
Landing(image, a) ==
  {sb \in UNION {{<<s, k>> : k \in 1 .. Len(image[s].bytes)} : s \in 1 .. Len(image)} :
     (image[sb[1]].base + sb[2] - 1) % Size = a}
Later(x, y) == x[1] > y[1] \/ (x[1] = y[1] /\ x[2] >= y[2])

Store(image) ==
  /\ content' = [a \in 0 .. (Size - 1) |->
       LET here == Landing(image, a)
       IN  IF here = {} THEN content[a]
           ELSE LET last == CHOOSE x \in here : \A y \in here : Later(x, y)
                IN  image[last[1]].bytes[last[2]]]
  /\ UNCHANGED answer

Next ==
  \/ \E r \in Reads : Read(r)
  \/ \E image \in Images : Store(image)

Spec == Init /\ [][Next]_vars
=============================================================================
