# TLA+ models of RVLS

RVLS checks a RISC-V design under test (DUT) against the reference simulator
Spike. The DUT runs in an RTL simulation and reports what it does as a sequence
of commands, the *trace*; RVLS replays it, lets Spike execute the same
instructions, and stops at the first disagreement. The checker is a sequential
program, but what it checks is not: several harts, their out of order load
queues, their store buffers and one shared memory. Its own state must follow
every order in which the DUT may report events.

## 1. Inventory

| Component | State | Operations | What makes it correct |
|---|---|---|---|
| **CpuMemoryView** (`coherency.*`): one per hart, what the hart sees of the shared memory | slots of the load queue and the store queue, array of in-flight loads, doubly linked list of waiting stores, `loadFresh`, `storeFresh` | DUT: `load exe/com/flu`, `store com/bro`; Spike: `load`, `store`, `fetch`, `mmu`, `step` | a load holds the value the DUT's hart must have seen; array and list stay well formed in any order of commands; no access is checked twice, or by the wrong instruction |
| **Access** (`coherency.hpp`) | bytes of one access | `bypass` | each overlapping byte is taken from the right place, the newest store wins |
| **Hart** (`hart.*`) | reports of the next instruction (register writes, CSR access, store conditional); Spike's registers | `rf w/r`, `store sc`, `set pc`, `commit`, `trap`, `int set` (empty in the code) | each report is compared with the instruction it is about; what is copied into Spike is taken back |
| **SpikeIf** (`hart.*`): Spike's bus | regions, queue of the DUT's IO accesses | `region add`, `io`; callbacks `mmio_fetch/mmu/load/store` | accesses go to the right target; IO accesses match in order; a bus error becomes a trap |
| **Memory**, **RandomGen** (`memory.*`, `elf.*`) | pages of 1 MB, allocated at first use with seeded content | `get`, `read`, `write`, `loadBin`, `loadHex` (never called), `Elf::visitBytes` | the content does not depend on the order of first uses; a file ends up where it says |
| **Context** (`context.*`) | tables of harts and views, configuration, log file, time | `rvNew`, `cpuMemoryViewNew`, `loadElf`, `loadBin`, `close`, `print` | a hart uses the view it was made with and follows the configuration; each resource is released once |
| **ASCII frontend**, **JNI frontend** | current line; last error | one call per command, catches what a handler throws | a throw ends the run; the verdict names the right line; every file ends, if no handler walks a cyclic list |
| **Bindings** (Java, Scala) | none of their own | declare commands, forward them or print them as lines | - (when a store id is free, and in which order stores leave, is up to the DUT) |
| **Spike** | external | `step(1)` with callbacks into SpikeIf | - |
| **Command line** (`rvls.cpp`, `config.hpp`) | `RvlsConfig` | options, then one call of `checkFile` | rvls checks the file that was named with the switches that were given, or says why not |
| **CLI11** (`CLI11.hpp`, part of the repository) | options with their texts, arguments still to read, variables | `parse` and what it calls | each word goes to one place, is checked there, and becomes the value of that place |
| String utilities (`global.hpp`) | - | `failure`, the asserts | - |

A frontend calls the handlers of a hart or of its view one after the other.
`commit` and `trap` let Spike execute one instruction (`proc->step(1)`), whose
accesses come back through SpikeIf to the view (`load`, `store`) or to the IO
queue, and then call the view's `step()`. Views share one Memory. There are no
threads: a handler, with all the callbacks in it, is one atomic step. What is
hard is the order of the handlers, the handlers that throw half way, and the
state that stays behind for a later one. `PROJECT.json` lists these hazards line
by line.

After a throw both frontends end the run: the ASCII frontend leaves its loop, the
Scala backend turns a `false` result into an exception. Hence `status` never
leaves "failed" in the models, and the configurations turn the deadlock check off.

## 2. Modules

| Module | Models | Main idea |
|---|---|---|
| `CpuMemoryView` | `coherency.cpp`, `coherency.hpp` | one action per command and per kind of instruction, and one for each way a handler fails |
| `CoherentMemory` | what the views promise | shared memory, FIFO store buffers, reads that later retired stores of the hart overwrite; no slots, links or arrays |
| `CpuMemoryViewImpl` | the refinement | mapping of the list and the array to the buffer and the reads |
| `CoherenceOrder` | `CpuMemoryView` with a history | stores write unique versions; the order in which memory takes them is recorded |
| `FlatMemory` | what `Memory` promises | a function from addresses to bytes, there from the start |
| `Memory`, `MemoryImpl` | `memory.*`, `elf.cpp`, and the refinement of `FlatMemory` | pages made by the first use, the generator, the three loaders |
| `Access` | `Access::bypass`, the loop of `loadExecute`, on `Memory` | arrays of bytes and address arithmetic with u64 sums and u32 memory |
| `Hart` | `hart.cpp`, `hart.hpp` | reports, commit, trap, CSR synchronisation, regions, IO queue; Spike is nondeterministic |
| `Rvls` | a hart with its view, next to the view of another hart | Spike's step inside `commit` and `trap` calls the view's handlers |
| `Context`, `Session` | `context.*`; `ascii_frontend.cpp`, `jni_frontend.cpp` | the tables, and a run from its first command to its verdict |
| `CliTypes`, `CliValidator`, `CliOption`, `CliApp` | `CLI11.hpp` | types and conversions; validators; one option; the parser |
| `CommandLine` | `rvls.cpp`, `config.hpp` | the options of rvls, what main does with them, and what a command line means |
| `MC*` | instances for TLC | sets of ids and instructions, symmetry, views |
| `*_proofs` | theorems | see section 6 |

**CpuMemoryView and the code.** `loads`, `stores`, `storeHead`, `storeLast`,
`loadsInflight`, `loadsInflightCount`, `loadFresh`, `storeFresh` have the code's
names; a pointer to a slot is the slot's id, NULL is `Null`. The fields
`addr`, `len` and `bytes` of an access are one function from addresses to
bytes (`bytes`, its domain the addresses covered); module `Access` checks the
arithmetic this hides. `LoadExecute`, `LoadCommit`, `LoadFlush`, `StoreCommit`,
`StoreBroadcast` are the commands. Spike's calls come in one `commit`, with no
command between them, so `load()`, `store()` and `step()` of one instruction are
one action: `CommitLoad`, `CommitStore`, `CommitAmo`, `CommitOther`. Each
early return or throw is an action of its own (`...Rejected`, `...Invalid`,
`...TooBig`), with the writes the handler has made before it throws.
`LoadCommitCrashes` (the count wraps and indexes the vector out of bounds) and
`LoadExecuteHangs` (the list is a cycle of valid stores) are the two ways the code
fails without throwing; a walk that meets a store which is not valid throws
(`LoadExecuteMeetsInvalid`, with the bytes it has taken so far).

The traces are of three kinds, from the weakest assumption on the DUT to the
strongest:

- `AnySpec`: any command in any order with any operands.
- `Spec`: a store slot is committed only when it waits for no broadcast. The
  code used to check this (`coherency.cpp:58`, now a comment).
- `OrderedSpec`: also, stores of one hart that overlap are broadcast in program
  order. Every cache does; the code does not check it. Without it a load could
  miss the newest store, since forwarding takes the last entry of the list.

`FreeSlots` and `Leaving` say so. They are assumptions on the DUT: the bindings
pass the ids on as they come, and no code of the repository keeps a queue of them.

**Hart and the code.** `rf`, `csr`, `sc` are the members `integerWriteValid` ...
`scFailure`; `regions`, `ioQueue` are SpikeIf's; `pc`, `mip`, `mie`, `counter`
(one of the CSRs that are synchronised, mcycle), `reservation` and `trapped` are
Spike's. A `commit` is one of `CommitAccepted`, `CommitMismatch`,
`CommitMissedTrap`, `CommitUnclean` (`memory.step()` throws), `CommitStepThrows`
(a callback throws in Spike's step) and `CommitWrongPc`; `trap` likewise. CSR
addresses are names; two names are the same for the comparison if the code's mask
0xCFF makes them so. Spike executes any instruction of the constant
`Instructions` whose accesses the queue answers, or it traps. `setInt` is empty in
the code and has no action. `reported` and `programMie` are history variables.
An instruction that reads memory gets its data from the view, which is the
other module; here the view answers or throws.

**Rvls and the code.** `Rvls` instantiates both modules on the variables of one
hart and conjoins their actions: a `commit` that Spike answers with a load of
memory is `Hart!CommitAccepted` and `CpuMemoryView!CommitLoad` in one step, and
each way the view can throw is the corresponding way for the hart (`Refuses`
inside Spike's step, `Unclean` in `memory->step()`). The data of the load is that of
the view (`Given`). The second hart is its view only: it commits, checks and
broadcasts stores to the same byte.

**Memory and the code.** A page is a function on offsets, or `Null` before its first
use; `Filled` reseeds the generator with the address of the page as `get` does,
so the bytes follow from the address. `Read`, `Write`, `LoadBin`, `LoadHex` and
`LoadElf` touch the pages they meet, in the order of the code. A loop of the code is a
function of the number of its turns (`put`, `after`), so that it can be proved about.
`HexFiles` are kept apart from the `Files` of a trace, since nothing calls `loadHex`.
Files, sections and what is written are smaller than memory: `loadBin` keeps the size in a
u32, and `visitBytes` counts to a u64 with a u32 that never gets to 4 GiB. The
lines of an HEX file are records; an unreadable line is `Null`. Page size, bytes per number
and the generator's constants are parameters. `MemoryImpl` maps an absent page to
what it would be filled with (`ContentOf`), and says what image a file describes:
a segment for every line or section, one without bytes where nothing is loaded.

**Context, Session and the code.** An entry of a table is the number of the command
that made it, `Null` for a gap, and `Wild` for what lies beyond the end. Each
command has an outcome: it returns, throws, exits the process (`Elf::Elf`), crashes
(a pointer or an index that points nowhere, an abort of Spike) or hangs (the walk of
`loadExecute` over a cyclic list). `room` says whether `vector::resize` can allocate what
a command asks for; it throws if not. Commands for a hart
are told apart by what they follow: nothing, the hart, or also its view; what
they do there is `Hart` and `CpuMemoryView`, and `may` says how else than by returning
they end there: "throws", "hangs" (a store slot was reused early), or
"crashes" (a load committed twice, finding 1). `Line`, `Catch`, `EndOfFile` are
`checkFile`; `Readings` gives the operands that `operator>>` leaves when a line
is cut (the variable is uninitialised) or unreadable (it becomes 0). `Call`,
`SwitchCall` and `DeleteContext` are the JNI functions; those that return a
result catch what a handler throws, the others let it escape ("terminated").

**The command line and the code.** A text is a sequence of characters, and a word that
nothing looks into is one character. A step of `CliApp` is one turn of the loop
of `App::_parse` (`ParseSingle`), or one of the phases after it: environment,
callbacks (one pass over the options, each looked at once), help, requirements, extras. An exception is the phase "thrown"
with the name of its class. An option holds the texts it was given and, after its
callback, a value; types are descriptions (`Vector(Pair)`) that `Convert`
interprets, as the overloads of `lexical_conversion` do for a C++ type.
`CommandLine` adds the three options of main, and what it does after
`CLI11_PARSE`. The recursive operators here are used by TLC only.

## 3. Runs

| Run | Instance | Shows |
|---|---|---|
| `any_trace` | `AnySpec`, 1 view, 3 load slots, 2 store slots, one value | types; the load queue stays well formed; an early broadcast is never accepted; load and store of an instruction are checked together |
| `refinement` | `Spec`, 1 load and 3 store slots, partial overlap | the store list is one doubly linked list of the valid slots, and `CpuMemoryView` implements `CoherentMemory` |
| `coherence` | `OrderedSpec`, 2 views, 2 + 2 slots each, one byte, 3 stores in all | store to load forwarding; a hart never loses its own store, nor sees it hide a later store of the other hart |
| `access` | memory of 2 pages of 4 bytes, 2 stores, accesses of 1, 2, 4 bytes anywhere, files that overlap, cross pages and wrap | the loop yields the newest store of each byte, for every overlap; `Memory` implements `FlatMemory` |
| `rvls` | a hart with 1 load slot and 2 store slots, another hart, one byte, loads, stores and AMOs (which store 0, whatever they load) | the hart's reports, Spike's accesses and the view's buffers agree |
| `session` | files of 3 lines of 24 kinds and of 4 lines that make and use harts and views; 4 JNI calls; ids of 2 bits | tables, configuration, verdict; a file that reuses store slots in time comes to an end |
| `hart_interrupts` | interrupts MTI (masked) and SSI (not masked); CSR reports of mip, mie, mcycle | Spike's interrupt registers belong to the program between instructions; pins shown in mip are not taken as interrupts |
| `hart_reports` | 2 values, 2 register reports per instruction, IO queue of 2, instructions with up to 2 IO accesses, a memory or an IO region | of the register reports of a kind the last is compared with Spike's; a bus error always traps |
| `command_line` | rvls with up to 3 words of 26 forms, or 4 of the 7 most telling ones; some 60 applications that use what rvls leaves alone, with up to 6 words | rvls does what its words say; words and texts are neither lost nor misplaced nor unchecked; every turn of the parser uses up text |
| `double_load_commit` | as `any_trace`, smaller | *violated*: finding 1 |
| `log_closed` | as `session`, 3 lines of 7 kinds | *violated*: finding 2 |
| `hart_address` | as `hart_reports` | *violated*: finding 3 |

**Why the bounds are enough.** Three stores give a list with a first, a middle and
a last entry. Two in-flight loads are
needed for the swap of `loadCommit`, three for a swap that moves neither
the first nor the removed one. Two bytes with nested footprints give full and
partial overlap; the bytes of an access do not interact otherwise. In `coherence`
three stores are the least for one hart to retire two and the other to interleave
one. Two pages are the least with a first use of each in either order; a file that
starts in the last bytes wraps into the first page. A table needs three commands for a
gap and its use, and four to make a view again after a hart and use the hart. In a
command line four words are the least for an option, two texts, and a positional that
needs the second of them; six give three pairs, of which TakeLast drops one or two.
Two register reports are the least for one to overwrite another of its kind (`MaxReports`
bounds those of an instruction, of both kinds together). `MaxVersion`, `MaxReports`, `MaxIo`,
`MaxRegions`, `MaxCalls` bound the length of histories and queues; no property speaks of a
full queue. `MaxInt` = 4 and the
numbers -18 to 18 make sums and single numbers overflow; `Unlimited` = 64 is more
texts than any line has.

**Views and symmetry.** The runs `refinement`, `coherence`, `rvls`
and the hart runs use a VIEW: it drops the data of slots and reports that
are not valid, and everything but the status once the run is over. No action
reads a dropped part before it is written again (in `Spec` and `OrderedSpec`; the
runs of `AnySpec`, where a cleared slot may still be linked, use no view), and
no property does, apart from type invariants: the Hart run checks its own on one
state for each value of the view. Symmetry is over views, ids and values, which only occur as
members of sets in the specifications that use it; all properties there are
invariants, action properties or a refinement without fairness. The run with
a liveness property, `session`, uses neither, and `command_line` does not either.

**Fairness.** The checker is driven by its input, and waits for nobody; a trace or a
simulation may stop at any point, so nothing is assumed of the commands of
`CpuMemoryView`, `Hart`, `Rvls` and of the JNI calls. What `checkFile` does by itself
once it was started is fair, `WF_vars(CheckFile)` in `Session`: it is a sequential loop over
a finite file. One of its handlers need not return, `loadExecute`, which may walk a cyclic
store list for ever. A line with such a command may leave the session "hung", a status
that enables no step, so that the fairness asks nothing of it; `EveryFileEnds` is stated
for the files that reuse a store slot only after its broadcast (`SlotsReusedInTime`), for which
`StoreListWellFormed` of `CpuMemoryView` excludes the cycle. `CommandLine` has no
fairness: that the parser ends is the action property `EveryTurnUsesText`.
The deadlock check is off because runs end.

## 4. Properties

- `InflightWellFormed`: the array has no hole and no duplicate, each load knows
  its place, a slot is valid exactly while its load is in flight or committed and
  unchecked. It makes the vector accesses safe and the assertion "load wasn't
  valid wuuut ???" unreachable.
- `StoreListWellFormed`: both directions of the list, its two ends and the valid
  flags agree; a store that Spike has yet to check is the newest one.
- `ForwardingSound`: each byte of an in-flight load that a retired and waiting
  store of the hart covers has the value of the newest such store, whether the
  walk of `loadExecute` or the bypass in `store` put it there.
- `UncheckedStoreNeverAccepted`, `FreshAccessesLeaveTogether`: a store
  that was broadcast too early, or a load and a store of different instructions,
  end the run.
- `Implements`: the whole of the views' behaviour is that of `CoherentMemory`.
- `ReadsOwnWrites`: once a hart has retired a *store* to a byte, none of its unretired
  loads holds an older version of it, in the order in which memory takes the stores of all
  harts. Two loads are not compared.
- `NewestStoreWins`: the byte arithmetic is right.
- `InterruptStateOwned`, `InterruptsComeFromTraps`: the copying of the DUT's pins
  into Spike is invisible to the program, even if CSR reports of instructions that
  trapped are left behind.
- `ReportsChecked`: traps do not clear the reports, so what is compared with an
  instruction is everything reported since the last accepted commit; of several
  writes of a kind only the last is compared.
- `BusErrorsTrap`: an IO access that failed in the DUT never ends in a commit.
- `ReportedLoadsSound`: the value that the DUT reports for a load is, at the moment the
  load retires, that of the hart's own newest waiting store if there is one, however
  execution, commits and the broadcasts of two harts interleave. The load of an AMO may
  also have the value of the AMO's own store (see section 5).
- `NothingLeftOver`: the accesses that the DUT committed are those of the
  instruction that retires; none stays for the next one, and a trap leaves none.
- `MemoryIsFlat`: `Memory` is `FlatMemory`; the refinement covers reads, writes and the
  three loaders.
- `DeclaredNeverCrashes`: a trace that declares views and harts before it uses
  them, and commits each load once, never follows a pointer that points nowhere. `HartsKeepTheirView`,
  `HartsFollowConfig`: what a hart took over when it was made.
- `VerdictSound`: success means that no line was beyond the checker; a failure names the
  first line that failed, with the time that was valid there. `EveryFileEnds`: a file that
  reuses store slots in time ends with a verdict or with the process.
- `DoesWhatWasAsked`: the parser of CLI11, main and `RvlsConfig` together are compared
  with `Meaning`, a fold over the words that says what each form means. What the text of a
  flag (`--spike-debug=12more`) means is stated there on its own, without the parser's tables.
- `NoWordLost`, `PositionalsNotStarved`, `OnlyCheckedTextsAreUsed`, `NothingMisplaced`:
  what holds for every application of the parser, from the words to the values.
- `EveryTurnUsesText`: the parser's loop puts the rest of a word back, and still every turn
  leaves less text than it found.

## 5. Findings

1. *A double `load com` crashes.* `loadCommit` removes the load from the array
   before it looks at `loadFresh`. When the load is committed again and no
   other is in flight, the count wraps to 2^64-1 and indexes the vector; the
   diagnostic "loadFresh was valid ???" (`coherency.cpp:45`) is never reached.
2. *The log file is closed once per hart.* All harts get the one `FILE*` of the
   run, `Context::close` calls `Hart::close` for each of them, and each calls `fclose`
   (`hart.cpp:136`). With two harts, which `README.md:8` promises to support, the
   second call is undefined behaviour. The model only counts the calls. Through JNI the
   file is never closed.
3. *Register addresses are not compared.* `README.md:131` says an address of 32
   switches the check off; `writeRf` and `commit` never make it.

An assumption the code used to check: committing a store slot that waits for its
broadcast makes the list cyclic or drops stores; the check at `coherency.cpp:58` is
commented out. It is the difference between `AnySpec` and `Spec`.

Observed and not stated as findings: `README.md:123-125` describes `rv int set`, which is
empty; `mie` is not masked for SSI and STI, so a read of mip that shows one of
them enabled makes Spike trap; JNI calls without a result let exceptions escape into
the Java virtual machine, and `spikeDebug` and `spikeLogCommit` crash if the table of
harts has a gap; a pair that is given half keeps its second element
uninitialised if it is a number (`CLI11.hpp:2378`, `Wild` in `CliTypes`); a flag value is read up to where its number
ends, so `--spike-debug=12more` is 12 and `0x1` is 0, that is false (`CLI11.hpp:1832`); an AMO whose
load executes in the DUT after its own store was committed reads this store, and RVLS
accepts what it reports. The last one came out of the proof of `ReportedLoadsSound`: the run had not shown
it while its only AMO was a swap with itself.

## 6. Proofs

The theorems are checked with TLAPS and hold for every value of the constants that
the assumptions allow: any number of harts, slots and bytes, any instruction set, files
smaller than memory, pages of any size. "Run" is the run that checks the same property on
an instance.

| Module | Theorem | Statement | Run |
|---|---|---|---|
| `CpuMemoryView_proofs` | `TypeCorrect` | `AnySpec => []TypeOK` | `any_trace` |
| | `LoadQueueCorrect` | `AnySpec => []InflightWellFormed` | `any_trace` |
| | `StoreQueueCorrect` | `Spec => []StoreListWellFormed` | `refinement` |
| | `UncheckedStoreIsRejected` | `AnySpec => UncheckedStoreNeverAccepted` | `any_trace` |
| | `AccessesLeaveTogether` | `AnySpec => FreshAccessesLeaveTogether` | `any_trace` |
| | `ForwardingIsSound` | `OrderedSpec => []ForwardingSound` | `coherence` |
| `CpuMemoryViewImpl_proofs` | `ImplementsCoherentMemory` | `Spec => Implements` | `refinement` |
| `CoherenceOrder_proofs` | `HartsReadTheirOwnWrites` | `HSpec => []ReadsOwnWrites` | `coherence` |
| `Hart_proofs` | `HartTypeCorrect` | `Spec => []TypeOK` | `hart_*` |
| | `InterruptsOwned` | `Spec => []InterruptStateOwned` | `hart_interrupts` |
| | `NoInterruptInCommit` | `Spec => InterruptsComeFromTraps` | `hart_interrupts` |
| | `AcceptedWritesWereReported` | `Spec => ReportsChecked` | `hart_reports` |
| | `NoBusErrorIsCommitted` | `Spec => BusErrorsTrap` | `hart_reports` |
| `Rvls_proofs` | `BehavesAsViews`, `BehavesAsHart` | `Spec => V!OrderedSpec`, `Spec => H!Spec` | - |
| | `AccessesAreUsedUp` | `Spec => NothingLeftOver` | `rvls` |
| | `ReportedLoadsAreSound` | `Spec => ReportedLoadsSound` | `rvls` |
| `Memory_proofs` | `MemoryTypeCorrect` | `Spec => []TypeOK` | `access` |
| | `ImplementsFlatMemory` | `Spec => MemoryIsFlat` | `access` |
| `Access_proofs` | `AccessKeepsMemoryType`, `AccessImplementsFlatMemory` | `AccessSpec => []TypeOK`, `AccessSpec => MemoryIsFlat` | `access` |
| | `LoadsFindTheNewestStore` | `AccessSpec => []NewestStoreWins` | `access` |
| `Session_proofs` | `SessionTypeCorrect` | `Spec => []TypeOK` | `session` |
| | `DeclaredRunsAreSafe` | `Spec => []DeclaredNeverCrashes` | `session` |
| | `ViewsAreKept`, `ConfigIsFollowed` | `Spec => []HartsKeepTheirView`, `Spec => []HartsFollowConfig` | `session` |
| | `VerdictIsOfTheFile` | `Spec => []VerdictSound` | `session` |

*The load queue.* `LoadQueueWellFormed(v)` is inductive. The delicate step is
`loadExecute` of an invalid slot (`RoomForInvalidLoad`): the in-flight loads
are distinct, since each knows its own place, and none is the invalid slot, so
their number is less than that of the slots and the array has room. `loadCommit`
moves the last entry into the freed place (`LoadCommitQueue`), with the
case where it is the removed one itself. `TypeOK` is inductive only together with this
invariant, which keeps the index of `loadExecute` inside the array.

*The store queue.* `IsStoreList(v, q)` says that q is read from both ends and holds
every valid slot once. Given such a q, a commit into a free slot yields q with
that slot at its end (`StoreCommitList`); a broadcast yields q without its k-th place,
by cases on the neighbours of k (`StoreBroadcastList`). `StoreSeqs` bounds the length of q
by the number of slots, so distinctness of the entries has to be part of the invariant.

*The refinement.* The mapping reads the list as the walk from `storeHead`. The walk is the
only list there is (`PathIsUnique`, `StoreListIs`, `NextStoreListIs`), so the buffer after
a step is the one the store queue's lemmas give. Then each action has a lemma
that names its abstract step: `loadExecute` is a read (`LoadExecuteIsRead`: the loop sees
what the buffer and memory hold), `storeBroadcast` removes one place of the buffer
(`StoreBroadcastIsDrain`), `load()`, `store()` and `step()` of one instruction are one
retirement (`CommitsAreRetires`), and each of the ways a handler fails is a
rejection (`EndingsAreReject`).

*Forwarding.* `ForwardingSound` is not inductive: it speaks of the stores that retired, and
a store retires later than it is committed. The invariant `Forwards` gives a list
q for each view and says, for each byte of a load in flight, which place of q was the
newest that Spike had executed, and that the load has its byte. Removing a place of q may uncover
an older store of the same byte; that is the one step that needs overlapping stores to
leave in order, the difference between `Spec` and `OrderedSpec`.

*Coherence.* Versions ascend along each view's list (`VersionsAscend`), the last version that
a hart retired is still in its list or memory has taken it and the list holds nothing older
(`OwnIsKept`), and no load in flight is older than that (`LoadsNotOlder`), where "older" is
the order of memory for what memory has taken and the order of the list for the rest.
A broadcast moves a version from the second order to the end of the first one
(`StoreBroadcastIsCoherent`).

*The hart.* `ReportsKept` says that a report is valid exactly if something of its kind was
reported since the last accepted commit, and that it is the last of these; a commit whose checks all pass
then made the writes that were reported. That what is left of the IO queue is
still a queue of reports is part of `HartTypeCorrect`.

*The composition.* Each step of `Rvls` is a step of the views, or leaves them alone, and a
step of the hart, or leaves it alone (`ViewSteps`, `HartSteps`); the theorems of the parts then
hold in it, through instances of their proof modules. `PartsAreCorrect` collects what is
needed: the queues, forwarding, and the reports. `NothingLeftOver` follows from an accepted commit's
guards, `ReportedLoadsSound` from forwarding for the load that was committed
and from the reports for its value.

*The bytes of an access.* No sum of `bypass` wraps while accesses end below 4 GB (`NoWrap`), its
overlap test is that the two accesses share a byte (`OverlapIsCover`), and it copies exactly
the shared bytes (`BypassCovers`). The loop's invariant is that the load holds
the newest of the stores passed so far (`LoopInvariant`).

*Memory.* The property is a refinement, with `ContentOf` as the mapping: the content of a table of
pages is that of the pages that exist, and of the others what they would be filled with.
`TypeOK` is inductive, and the refinement needs of it only that a page is a page of bytes and not
`Null`. One byte: the first use of a page leaves the content alone, whichever pages it makes
(`TouchedIs`), so a read is a read (`ReadIsFlat`); two addresses never share a place in the table
(`PlacesDiffer`), so a write of a byte changes that byte only (`PutByteIs`).
One segment: by induction over the bytes, the first n of them are stored, the last one where
several meet because the segment is longer than memory (`Stored`, `OneByteMore`, `PutBytesIs`). One file: by
induction over the segments of its image, the first n of them have landed, the last one where
several meet (`Landed`, `OneSegmentMore`), which is what `FlatMemory` says with a `CHOOSE`
(`LandedIsStore`). Two loops load files. That of `loadHex` carries the base: after n lines it is
what the last line that sets one has set (`HexBaseOfNext`, `HexLinesReadAre`); that of
`visitBytes` yields the bytes of each section or zeros (`VisitedBytesAre`, `SectionsLoadedAre`).

The inductions are over sets: a set of numbers that holds 0 and with n - 1 also n holds all of
them, since otherwise the numbers it lacks have a least one (`LoopInduction`, from the library's fact that
the natural numbers are well founded, which has no operator as a parameter). A loop is a
function given by an equation, of which the prover knows nothing until one function that satisfies
it is exhibited; `LoopIsDefined` builds it from the turns, for any loop whose turns keep a type.

*The tables of a session.* The table of views holds at an id the view of the last line that made
one there, and nothing if none did (`ViewsAsTold`), whether the table had to grow for it or not; every hart that a
line made is in its table (`HartsAsTold`), with the view of the last line that made one under its
view's id before that line. The last line
of a kind exists because the lines are finitely many (`LastOfIs`, from the well-foundedness of
the natural numbers). `DeclaredNeverCrashes` needs also that before a line that is
declared every earlier one returned, since otherwise the run has ended.
`VerdictReady` follows the report from the handler that throws to the verdict.

**Assumptions.** All are named, in the module that declares the constants, and TLC
evaluates them. `IdsAssumption`: finitely many slots, and Null is none of them.
`DataAssumption` of the views: footprints are sets of addresses; of the hart: the shape of IO accesses
and regions. `VersionAssumption`: the values stored are versions. `WidthAssumption`: pcs and addresses
fit their words. `SpikeAssumption`: only a CSR instruction which Spike logs writes mie, and the accesses of one
instruction have one address. `CompositionAssumption`: those of both parts; an instruction
makes one access, or an AMO's load and store, of one byte, and the register it writes gets
what it loads. `AccessAssumption`: accesses end below 4 GB. `SizeAssumption`: pages and
generator are not empty. `InputAssumption`: reads, writes and files are of their types; a read is
not longer than memory, since its length is a u32; what is written, a binary file and the size
of a section are shorter (`loadBin` cuts the size to a u32, `memory.cpp:150`, and `visitBytes`
counts to it with one, `elf.cpp:25`); files can be read to their end, which the code does not
check; and a section with data has as many
bytes as its size says, or else the code reads past the end of what ELFIO holds. `ContextAssumption`:
the markers of the model are no numbers.
`SessionAssumption`: a call through JNI has all its operands; the lines of a file need not.

**Only model-checked.** All properties of `CommandLine`: `CliTypes`, `CliValidator` and what
extends them describe types and validators that contain others, with recursive operators, which
the prover does not take. `EveryFileEnds`, a liveness property under
fairness. ENABLED is used in no theorem.

## 7. Not modelled

- The digits and columns of files and lines, formatting of messages, the conversion of
  Java strings, the disassembler's text: input and output without state that a
  property needs. `Elf::getSymbolAddress` is called by nothing.
- Of CLI11: subcommands and option groups, configuration files, help and version
  text, delimiters and brackets inside a word, letter case and underscores, Windows
  style options, sizes with units, characters, floating point, complex numbers and
  enumerations, tuples whose elements take several texts. rvls uses none of it.
- White space inside flag values, and numbers that do not fit 64 bits (of which a flag takes
  the sign).
- Files and sections of 4 GiB and more, and files that cannot be read to their end.
- Addresses above 4 GB (`AccessAssumption` of `Access`): there `Memory` truncates the
  address and `bypass` does not.
- `mmio_fetch` and `mmio_mmu` only read memory, past the store buffer, as the
  repository's README documents; for `Memory` they are reads.
- An interrupt code of 32 or more, for which `1 << code` is undefined, does not exist.
- What a second `fclose` does.
- Spike and ELFIO, which are not in the repository, beyond how the code uses them.

## 8. Plan

Done: `CpuMemoryView` with its refinement, `Hart`, the composition `Rvls`, `Memory` against
`FlatMemory`, `Access`, `Context` and `Session`, with the theorems of section 6 about every safety
property of theirs; the command line, model-checked.

Left: theorems about the command line. The recursion of `Convert`, `Judge` and `Leaves` over types and
validators would have to become functions over the depth of nesting, as the loops of `Memory`
became functions of the number of turns.
