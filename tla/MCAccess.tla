------------------------------ MODULE MCAccess ------------------------------
(***************************************************************************)
(* An instance of Access for TLC: a memory of two pages of four bytes;     *)
(* loads and stores of 1, 2 and 4 bytes at every place, aligned or not,    *)
(* and lists of two stores; files with segments that overlap, cross from   *)
(* one page to the other and wrap around the end of memory.                *)
(***************************************************************************)
EXTENDS Access

Places == {<<a, n>> \in (0 .. 4) \X {1, 2, 4} : TRUE}

\* Each byte of a store has a value of its own.
StoresFrom(x) ==
  {[addr |-> p[1], len |-> p[2], bytes |-> [k \in 0 .. (p[2] - 1) |-> x + k]] : p \in Places}
SmallStores == StoresFrom(8) \cup StoresFrom(16)

SmallReads  == {<<7, 2>>, <<2, 4>>}
SmallWrites == {[base |-> 3, bytes |-> <<24, 25>>]}

Data(a, bytes)  == [key |-> 0, addr |-> a, bytes |-> bytes, value |-> 0]
Control(k, x)   == [key |-> k, addr |-> 0, bytes |-> <<>>, value |-> x]
Part(c, a, n, d) == [alloc |-> c, address |-> a, size |-> n, data |-> d]

SmallFiles ==
  {[type |-> "bin", bytes |-> <<27, 28, 29>>],
   [type |-> "elf", sections |-> <<Part(TRUE, 2, 3, <<7, 8, 9>>), Part(FALSE, 0, 1, <<10>>),
                                   Part(TRUE, 4, 2, Null)>>],
   [type |-> "missing"]}

SmallHexFiles ==
  {[type |-> "hex", lines |-> <<Data(0, <<1>>), Control(4, 1), Data(2, <<2, 3>>), Null,
                                Data(1, <<4, 5>>), Control(5, 1), Control(2, 3), Data(0, <<6>>)>>]}

\* TLC enumerates lists of at most two stores, and looks at the other uses of
\* Memory where no store waits.
MCInit ==
  /\ Init
  /\ list \in [1 .. 2 -> SmallStores] \cup [1 .. 1 -> SmallStores] \cup {<<>>}
  /\ load = Null
  /\ store = 0

MCNext == (list = <<>> /\ OtherUse) \/ LoadStep
MCSpec == MCInit /\ [][MCNext]_accessVars
=============================================================================
