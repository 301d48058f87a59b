------------------------------ MODULE Context ------------------------------
(***************************************************************************)
(* src/context.{hpp,cpp}: the tables of harts and memory views of a run,   *)
(* its configuration, the time and the log file that all harts share, and  *)
(* the commands that work on them.  What a hart or a view does with a      *)
(* command is modelled in Hart and CpuMemoryView; here it returns, throws, *)
(* hangs, or meets a pointer or an index that points nowhere.              *)
(***************************************************************************)
EXTENDS Integers, Sequences, FiniteSets

CONSTANTS
  U32,      \* how many values a u32 has; ids are u32
  Times,    \* the values of a time stamp
  Never,    \* the time stamp of all ones, which Context starts with
  Null,     \* the null pointer
  Wild      \* a pointer read beyond the end of a table

Id == 0 .. (U32 - 1)

\* What a hart keeps of its construction: its view, and Spike's switches.
HartObject == [memory : Nat \cup {Null, Wild}, debug : BOOLEAN, logCommits : BOOLEAN]

ASSUME ContextAssumption ==
  /\ U32 \in Nat \ {0} /\ Never \in Times /\ 0 \in Times
  /\ {Null, Wild} \cap (Nat \cup HartObject) = {}

VARIABLES
  config,           \* spikeDebug, spikeLogCommit
  cpuMemoryViews,   \* table of views; a view is the number of the command that made it
  harts,            \* table of harts: their view, and Spike's debug and log_commits
  time,
  spikeLogs,        \* "open", or Null if fopen has failed
  closes            \* how often the log file was closed

contextVars == <<config, cpuMemoryViews, harts, time, spikeLogs, closes>>

ContextInit(configs) ==
  /\ config \in configs
  /\ cpuMemoryViews = <<>>
  /\ harts = <<>>
  /\ time = Never
  /\ spikeLogs \in {"open", Null}
  /\ closes = 0

-----------------------------------------------------------------------------
(***************************************************************************)
(* std::vector::resize and operator[].                                     *)
(***************************************************************************)

\* Mutant: without the max() a table shrinks.
SizeFor_Shrinks(table, id) == (id + 1) % U32

\* id + 1 is computed as a u32.
SizeFor(table, id) ==
  IF (id + 1) % U32 > Len(table) THEN (id + 1) % U32 ELSE Len(table)

\* Mutant: the entries that a table gains are not cleared.
Put_Uninitialised(table, id, x) ==
  [k \in 1 .. SizeFor(table, id) |->
     IF k = id + 1 THEN x ELSE IF k <= Len(table) THEN table[k] ELSE Wild]

Put(table, id, x) ==
  [k \in 1 .. SizeFor(table, id) |->
     IF k = id + 1 THEN x ELSE IF k <= Len(table) THEN table[k] ELSE Null]

Grown(table, id) ==
  [k \in 1 .. SizeFor(table, id) |-> IF k <= Len(table) THEN table[k] ELSE Null]

At(table, id) == IF id < Len(table) THEN table[id + 1] ELSE Wild

Made(table) == {k \in 1 .. Len(table) : table[k] # Null}

-----------------------------------------------------------------------------
(***************************************************************************)
(* The commands, each with its outcome: "returns", "throws", "exits" (the  *)
(* process, with a message), "crashes" (undefined behaviour or abort), or  *)
(* "hangs" (it never ends).                                                *)
(***************************************************************************)
Outcomes == {"returns", "throws", "exits", "crashes", "hangs"}

\* cpuMemoryViewNew.  Without room for so many entries or slots resize() throws, of
\* the table or of the view's own vectors; if id + 1 wraps the table has no place.
CpuMemoryViewNew(id, room, self, outcome) ==
  /\ \/ /\ outcome = "returns" /\ room /\ id < SizeFor(cpuMemoryViews, id)
        /\ cpuMemoryViews' = Put(cpuMemoryViews, id, self)
     \/ /\ outcome = "throws" /\ ~room
        /\ cpuMemoryViews' \in {cpuMemoryViews, Grown(cpuMemoryViews, id)}
     \/ /\ outcome = "crashes" /\ room /\ ~(id < SizeFor(cpuMemoryViews, id))
        /\ UNCHANGED cpuMemoryViews
  /\ UNCHANGED <<config, harts, time, spikeLogs, closes>>

\* Mutant: the configuration of the command line is not handed to the hart.
NewHart_Default(view) == [memory |-> view, debug |-> FALSE, logCommits |-> FALSE]

NewHart(view) ==
  [memory |-> view, debug |-> config.spikeDebug, logCommits |-> config.spikeLogCommit]

\* rvNew: reads the table of views without a check; Spike aborts on an isa or priv
\* that it does not know, and resize() throws if the table has no room.
RvNew(id, viewId, known, room, outcome) ==
  /\ LET places == known /\ id < SizeFor(harts, id)
         view   == At(cpuMemoryViews, viewId)
     IN  \/ /\ outcome = "returns" /\ places /\ room
            /\ harts' = Put(harts, id, NewHart(view))
         \/ /\ outcome = "throws" /\ known /\ ~room
            /\ UNCHANGED harts
         \/ /\ outcome = "crashes" /\ (~places \/ view = Wild)
            /\ UNCHANGED harts
  /\ UNCHANGED <<config, cpuMemoryViews, time, spikeLogs, closes>>

(***************************************************************************)
(* A command for a hart.  `needs` is what it looks into: a method of the   *)
(* hart that is empty ("nothing"), the hart, or also its view.  `may` is   *)
(* how else than by returning its handler may end, where it stands in the  *)
(* trace: by a throw; by the endless walk of loadExecute, after a store    *)
(* slot was reused before its broadcast; or by the index out of bounds of  *)
(* loadCommit, for a load that is committed again (CpuMemoryView has both).*)
(***************************************************************************)
Reached(needs, id) ==
  LET hart == At(harts, id)
  IN  CASE needs = "nothing" -> TRUE
        [] needs = "hart"    -> hart \notin {Null, Wild}
        [] needs = "view"    -> hart \notin {Null, Wild} /\ hart.memory \notin {Null, Wild}

Use(needs, may, id, outcome) ==
  /\ \/ Reached(needs, id) /\ outcome \in {"returns"} \cup may
     \/ outcome = "crashes" /\ (~Reached(needs, id) \/ At(harts, id) = Wild)
  /\ UNCHANGED contextVars

SetTime(value, outcome) ==
  /\ outcome = "returns"
  /\ time' = value
  /\ UNCHANGED <<config, cpuMemoryViews, harts, spikeLogs, closes>>

\* loadElf and loadBin: Memory::loadBin throws if there is no such file, Elf::Elf exits.
\* A file that is there has less than 4 GiB: the sections of an ELF file are counted
\* with a u32, which from 4 GiB on would never end.
LoadFile(kind, exists, outcome) ==
  /\ outcome = IF exists THEN "returns" ELSE IF kind = "elf" THEN "exits" ELSE "throws"
  /\ UNCHANGED contextVars

\* Context::print has a time to show.
PrintedTime == IF time = Never THEN Null ELSE time

\* Context::close: every hart closes the log file it was given.  What closing a
\* file again does is undefined; here it is only counted.
Close ==
  /\ closes' = closes + (IF spikeLogs = Null THEN 0 ELSE Cardinality(Made(harts)))
  /\ UNCHANGED <<config, cpuMemoryViews, harts, time, spikeLogs>>
=============================================================================
