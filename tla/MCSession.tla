----------------------------- MODULE MCSession -----------------------------
(***************************************************************************)
(* Instances of Session for TLC.                                           *)
(***************************************************************************)
EXTENDS Session

View(i)             == [do |-> "memview", id |-> i, room |-> TRUE]
New(i, v, known)    == [do |-> "new", id |-> i, view |-> v, known |-> known, room |-> TRUE]
Hart(i, needs, may, checked) ==
  [do |-> "use", id |-> i, needs |-> needs, may |-> may, checked |-> checked]
Commit(i)           == Hart(i, "view", {"throws"}, TRUE)
Report(i)           == Hart(i, "hart", {"throws"}, FALSE)
Pin(i)              == Hart(i, "nothing", {}, FALSE)
\* `load exe` after a store slot was reused early, `load com` of a load again.
EndlessLoad(i)      == Hart(i, "view", {"throws", "hangs"}, TRUE)
RepeatedLoad(i)     == Hart(i, "view", {"throws", "crashes"}, TRUE)
Stamp(t)            == [do |-> "time", value |-> t]
File(kind, exists)  == [do |-> "load", kind |-> kind, exists |-> exists]

\* Views and harts in any order, with gaps, more than once, and their use.
CoreLines ==
  {View(0), View(1), New(0, 0, TRUE), New(0, 1, TRUE), New(1, 0, TRUE), Commit(0), Commit(1)}

\* Also ids that wrap, tables and views without room, loads that hang or crash, and
\* lines that are cut, unreadable or unknown.
AllLines == CoreLines \cup
  {EndlessLoad(0), RepeatedLoad(0), [View(1) EXCEPT !.room = FALSE],
   [New(1, 0, TRUE) EXCEPT !.room = FALSE], View(3), View(Cut), New(3, 0, TRUE), New(0, 0, FALSE), New(1, Cut, TRUE),
   New(Unreadable, 0, TRUE), Report(0), Pin(1), Commit(Cut), Commit(Unreadable),
   Stamp(1), Stamp(Never), Stamp(Cut), File("elf", TRUE), File("elf", FALSE),
   File("bin", FALSE), [do |-> "unknown"]}

Files(lines, n) == UNION {[1 .. k -> lines] : k \in 0 .. n}
CoreTraces  == Files(CoreLines, 3)
SmallTraces == Files(AllLines, 3) \cup Files(CoreLines, 4)

SmallCalls == CoreLines \cup {Report(0), Pin(1), EndlessLoad(0), RepeatedLoad(0),
                              File("bin", FALSE)}
  \cup [do : {"spikeDebug", "spikeLogCommit"}, enable : BOOLEAN]
=============================================================================
