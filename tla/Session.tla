------------------------------ MODULE Session ------------------------------
(***************************************************************************)
(* A run of the checker, by either of its frontends: checkFile of          *)
(* src/ascii_frontend.cpp, which reads a trace line by line and ends at    *)
(* the first failure, or the calls of src/jni_frontend.cpp, which a running*)
(* simulation makes one after the other.                                   *)
(***************************************************************************)
EXTENDS Context

CONSTANTS
  Traces,   \* the files that the ASCII frontend may be given
  Calls,    \* the commands that a simulation may send through JNI
  MaxCalls, \* bound: how many it sends
  Cut,      \* operand: the line ends before it
  Unreadable \* operand: it is no number

(***************************************************************************)
(* A command.  `hart` commands are told apart by what they need and how    *)
(* their handler may end (see Use) and, for JNI, whether the call catches  *)
(* what it throws and returns false.  `room` says that vector::resize can  *)
(* allocate what the ids and sizes of the command ask for.  "unknown" is a *)
(* line whose words the frontend does not know; an empty line is one.      *)
(***************************************************************************)
Operand == Id \cup {Cut, Unreadable}
Command ==
  [do : {"memview"}, id : Operand, room : BOOLEAN]
  \cup [do : {"new"}, id : Operand, view : Operand, known : BOOLEAN, room : BOOLEAN]
  \cup [do : {"use"}, id : Operand, needs : {"nothing", "hart", "view"},
        may : SUBSET {"throws", "hangs", "crashes"}, checked : BOOLEAN]
  \cup [do : {"time"}, value : Times \cup {Cut, Unreadable}]
  \cup [do : {"load"}, kind : {"elf", "bin"}, exists : BOOLEAN]
  \cup [do : {"unknown"}]
Switch == [do : {"spikeDebug", "spikeLogCommit"}, enable : BOOLEAN]

\* The operands are there and can be read, as those of a call through JNI are.
Complete(line) ==
  /\ line.do \in {"memview", "use", "new"} => line.id \in Id
  /\ line.do = "new" => line.view \in Id
  /\ line.do = "time" => line.value \in Times

ASSUME SessionAssumption ==
  /\ Traces \subseteq Seq(Command) /\ Calls \subseteq Command \cup Switch
  /\ \A c \in Calls : Complete(c) /\ (c.do \in {"memview", "new"} => c.room)
  /\ MaxCalls \in Nat /\ {Cut, Unreadable} \cap (Nat \cup Times) = {}

VARIABLES
  frontend,   \* "ascii" or "jni"
  trace,      \* the lines of the file, or the calls made so far
  lineId,     \* the line that is read next
  status,     \* "running", "throwing", "success", "failed", "exited", "terminated",
              \* "crashed", "hung", "deleted"
  report,     \* what a failure prints: the number of the line, and a time
  lastError   \* lastErrorMessage: the number of the call it came from

vars == <<contextVars, frontend, trace, lineId, status, report, lastError>>

Init ==
  /\ \/ /\ frontend = "ascii" /\ trace \in Traces
        /\ ContextInit([spikeDebug : BOOLEAN, spikeLogCommit : BOOLEAN])
     \/ /\ frontend = "jni" /\ trace = <<>>
        /\ ContextInit({[spikeDebug |-> FALSE, spikeLogCommit |-> FALSE]})
  /\ lineId = 1
  /\ status = "running"
  /\ report = Null
  /\ lastError = Null

-----------------------------------------------------------------------------
(***************************************************************************)
(* Reading a line.  A number that is missing leaves its variable           *)
(* uninitialised, one that cannot be read becomes 0; the operands after it *)
(* are not read then, the sizes of a view among them.                      *)
(***************************************************************************)

Read(x, all) == CASE x = Cut -> all [] x = Unreadable -> {0} [] OTHER -> {x}

Readings(line) ==
  CASE line.do = "use" -> {[line EXCEPT !.id = i] : i \in Read(line.id, Id)}
    [] line.do = "memview" ->
         {[do |-> "memview", id |-> i, room |-> r] : i \in Read(line.id, Id),
            r \in IF line.id \in {Cut, Unreadable} THEN BOOLEAN ELSE {line.room}}
    [] line.do = "new" ->
         IF line.id \in {Cut, Unreadable}
         THEN {[do |-> "new", id |-> i, view |-> v, known |-> FALSE, room |-> line.room] :
                 i \in Read(line.id, Id), v \in Id}
         ELSE {[line EXCEPT !.view = v] : v \in Read(line.view, Id)}
    [] line.do = "time" -> {[line EXCEPT !.value = t] : t \in Read(line.value, Times)}
    [] OTHER -> {line}

Unknown(outcome) == outcome = "throws" /\ UNCHANGED contextVars

Perform(c, outcome) ==
  \/ c.do = "memview" /\ CpuMemoryViewNew(c.id, c.room, lineId, outcome)
  \/ c.do = "new"     /\ RvNew(c.id, c.view, c.known, c.room, outcome)
  \/ c.do = "use"     /\ Use(c.needs, c.may, c.id, outcome)
  \/ c.do = "time"    /\ SetTime(c.value, outcome)
  \/ c.do = "load"    /\ LoadFile(c.kind, c.exists, outcome)
  \/ c.do = "unknown" /\ Unknown(outcome)

-----------------------------------------------------------------------------
(***************************************************************************)
(* checkFile.                                                              *)
(***************************************************************************)

\* One turn of the loop.  A throw leads to the handler; a command that hangs keeps
\* the loop for ever.
Line ==
  /\ frontend = "ascii" /\ status = "running" /\ lineId <= Len(trace)
  /\ \E c \in Readings(trace[lineId]), outcome \in Outcomes :
       /\ Perform(c, outcome)
       /\ lineId' = IF outcome = "returns" THEN lineId + 1 ELSE lineId
       /\ status' = CASE outcome = "returns" -> "running"
                      [] outcome = "throws"  -> "throwing"
                      [] outcome = "exits"   -> "exited"
                      [] outcome = "crashes" -> "crashed"
                      [] outcome = "hangs"   -> "hung"
  /\ UNCHANGED <<frontend, trace, report, lastError>>

\* Mutant: the loop goes on at the line that has failed.
Failed_Resumed == report' = [line |-> lineId, time |-> PrintedTime] /\ status' = "running"

\* Mutant: the handler prints the number of lines that were accepted.
Failed_OffByOne == report' = [line |-> lineId - 1, time |-> PrintedTime] /\ status' = "failed"

Failed == report' = [line |-> lineId, time |-> PrintedTime] /\ status' = "failed"

\* The handler.  It throws a copy of the exception again, which nobody catches.
Catch ==
  /\ frontend = "ascii" /\ status = "throwing"
  /\ Failed
  /\ Close
  /\ UNCHANGED <<frontend, trace, lineId, lastError>>

EndOfFile ==
  /\ frontend = "ascii" /\ status = "running" /\ lineId > Len(trace)
  /\ status' = "success"
  /\ Close
  /\ UNCHANGED <<frontend, trace, lineId, report, lastError>>

CheckFile == Line \/ Catch \/ EndOfFile

-----------------------------------------------------------------------------
(***************************************************************************)
(* The JNI frontend.                                                       *)
(***************************************************************************)

Calling == frontend = "jni" /\ status = "running" /\ lineId <= MaxCalls

Switched(hart, what, enable) ==
  IF what = "spikeDebug" THEN [hart EXCEPT !.debug = enable] ELSE [hart EXCEPT !.logCommits = enable]

\* spikeDebug, spikeLogCommit: the loop over the table looks into every hart,
\* the gaps included.
SwitchCall(c) ==
  /\ Calling
  /\ c.do \in {"spikeDebug", "spikeLogCommit"}
  /\ \/ /\ Made(harts) = 1 .. Len(harts)
        /\ harts' = [k \in 1 .. Len(harts) |-> Switched(harts[k], c.do, c.enable)]
        /\ UNCHANGED status
     \/ /\ Made(harts) # 1 .. Len(harts)
        /\ status' = "crashed"
        /\ UNCHANGED harts
  /\ config' = [config EXCEPT ![c.do] = c.enable]
  /\ trace' = Append(trace, c) /\ lineId' = lineId + 1
  /\ UNCHANGED <<cpuMemoryViews, time, spikeLogs, closes, frontend, report, lastError>>

\* The other calls.  Those that return a bool catch what the handler throws and
\* keep its message; from all others it leaves into the Java virtual machine.
Call(c) ==
  /\ Calling
  /\ c.do \notin {"spikeDebug", "spikeLogCommit"}
  /\ \E outcome \in Outcomes :
       LET caught == outcome = "throws" /\ c.do = "use" /\ c.checked
       IN  /\ Perform(c, outcome)
           /\ status' = CASE outcome = "returns" \/ caught -> "running"
                          [] outcome = "throws" /\ ~caught -> "terminated"
                          [] outcome = "exits"   -> "exited"
                          [] outcome = "crashes" -> "crashed"
                          [] outcome = "hangs"   -> "hung"
           /\ lastError' = IF caught THEN lineId ELSE lastError
  /\ trace' = Append(trace, c) /\ lineId' = lineId + 1
  /\ UNCHANGED <<frontend, report>>

\* deleteContext: Context has no destructor that closes the log file.
DeleteContext ==
  /\ frontend = "jni" /\ status = "running"
  /\ status' = "deleted"
  /\ UNCHANGED <<contextVars, frontend, trace, lineId, report, lastError>>

Jni == (\E c \in Calls : SwitchCall(c) \/ Call(c)) \/ DeleteContext

Next == CheckFile \/ Jni

\* checkFile is a sequential program, which goes on as long as no command keeps it
\* (the status "hung" enables no step); a simulation may stop calling at any time.
Spec == Init /\ [][Next]_vars /\ WF_vars(CheckFile)

-----------------------------------------------------------------------------
TypeOK ==
  /\ frontend \in {"ascii", "jni"} /\ trace \in Seq(Command \cup Switch)
  /\ lineId \in 1 .. (Len(trace) + 1)
  /\ cpuMemoryViews \in Seq(Nat \cup {Null})
  /\ \A k \in Made(harts) : harts[k].memory \in Nat \cup {Null, Wild}
  /\ time \in Times /\ closes \in Nat

Past == 1 .. (lineId - 1)
LastOf(lines) == IF lines = {} THEN Null ELSE CHOOSE k \in lines : \A j \in lines : j <= k

(***************************************************************************)
(* What the run is told by the lines up to k, provided that they are       *)
(* complete: the view made last under an id, the hart made last, the time. *)
(***************************************************************************)
ViewLine(id, k) == LastOf({j \in 1 .. (k - 1) : trace[j].do = "memview" /\ trace[j].id = id})
HartLine(id, k) == LastOf({j \in 1 .. (k - 1) : trace[j].do = "new" /\ trace[j].id = id})
TimeLine(k)     == LastOf({j \in 1 .. (k - 1) : trace[j].do = "time"})

(***************************************************************************)
(* A trace keeps the rules of README.md if ids fit, a hart is made with a  *)
(* view and an isa that are known, and commands are sent to harts that were*)
(* made; through JNI, harts are made in the order of their ids if Spike's  *)
(* logs are switched in between.                                           *)
(***************************************************************************)
WellDeclared ==
  \A k \in 1 .. Len(trace) :
    LET line == trace[k]
    IN  /\ Complete(line)
        /\ line.do \in {"memview", "new"} => line.id + 1 < U32
        /\ line.do = "new" => line.known /\ ViewLine(line.view, k) # Null
        /\ line.do = "use" => HartLine(line.id, k) # Null
        /\ line.do \in {"spikeDebug", "spikeLogCommit"} =>
             \A j \in 1 .. (k - 1) : trace[j].do = "new" =>
               \A id \in 0 .. trace[j].id : HartLine(id, k) # Null

\* No load is committed again by a hart that has none in flight: the out of bounds
\* index of loadCommit is not met.
CommitsLoadsOnce ==
  \A k \in 1 .. Len(trace) : trace[k].do = "use" => "crashes" \notin trace[k].may

\* No order of well declared commands, with each load committed once, leads a
\* handler to a pointer that points nowhere, although the tables have gaps, grow in
\* any order, and entries may be replaced.
DeclaredNeverCrashes == (WellDeclared /\ CommitsLoadsOnce) => status # "crashed"

\* A hart works on the view that its id named when the hart was made, whatever
\* views and harts are made before, after and in its place.
HartsKeepTheirView ==
  (status # "crashed" /\ \A k \in Past : Complete(trace[k])) =>
    \A k \in Made(harts) :
      LET made == HartLine(k - 1, lineId)
      IN  /\ made # Null
          /\ LET view == ViewLine(trace[made].view, made)
             IN  harts[k].memory = view \/ (view = Null /\ harts[k].memory \in {Null, Wild})

\* Every hart traces as the configuration says, those made before it was changed
\* and those made after.
HartsFollowConfig ==
  status # "crashed" => \A k \in Made(harts) :
    harts[k].debug = config.spikeDebug /\ harts[k].logCommits = config.spikeLogCommit

\* The verdict of checkFile is that of the whole file: success means that no line
\* of it was beyond the checker, and the line a failure names is the first one
\* that could not be done, or one before it whose handler threw, with the time of
\* the last time stamp before it.
MustFail(line) ==
  \/ line.do = "unknown"
  \/ line.do = "load" /\ ~line.exists
  \/ line.do \in {"memview", "new"} /\ line.id \in Id /\ ~line.room
MayThrow(line) ==
  \/ MustFail(line)
  \/ line.do = "memview" /\ line.id \notin Id
  \/ line.do = "use" /\ "throws" \in line.may

VerdictSound ==
  /\ status = "success" => \A k \in 1 .. Len(trace) : ~MustFail(trace[k])
  /\ status = "failed" =>
       /\ report.line \in 1 .. Len(trace) /\ MayThrow(trace[report.line])
       /\ \A k \in 1 .. (report.line - 1) : ~MustFail(trace[k])
       /\ LET stamp == TimeLine(report.line)
          IN  \/ stamp # Null /\ trace[stamp].value \in {Cut, Unreadable}
              \/ report.time = IF stamp = Null \/ trace[stamp].value = Never THEN Null
                               ELSE trace[stamp].value

\* The file keeps the rule of a store queue that CpuMemoryView's Spec states: a slot
\* is committed into only when it waits for no broadcast.  Then the stores are a list
\* (StoreListWellFormed there), and no walk of loadExecute is endless.
SlotsReusedInTime ==
  \A k \in 1 .. Len(trace) : trace[k].do = "use" => "hangs" \notin trace[k].may

\* checkFile gets through every file that reuses store slots in time, whatever else
\* is wrong with it: it ends with a verdict or with the process.  A file that reuses
\* a slot early may keep it for ever (status "hung").
EveryFileEnds ==
  (frontend = "ascii" /\ SlotsReusedInTime) ~> status \notin {"running", "throwing", "hung"}

\* What close() is for: the log file of a run is closed once, with one hart or
\* with several.
LogClosedOnce == WellDeclared => closes <= 1
=============================================================================
