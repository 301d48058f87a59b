--------------------------- MODULE Session_proofs ---------------------------
(***************************************************************************)
(* Theorems about Session: what the tables of a run hold is what the lines *)
(* carried out so far say, whatever their order, and the verdict is that   *)
(* of the whole file.                                                      *)
(***************************************************************************)
EXTENDS Session, FiniteSetTheorems, WellFoundedInduction, NaturalsInduction, TLAPS

-----------------------------------------------------------------------------
(***************************************************************************)
(* The last line that says something.                                      *)
(***************************************************************************)

\* A set of lines that has a member has a last one.
LEMMA LastOfIs ==
  ASSUME NEW n \in Nat, NEW L \in SUBSET (1 .. n)
  PROVE  /\ L = {} => LastOf(L) = Null
         /\ L # {} => LastOf(L) \in L /\ \A j \in L : j <= LastOf(L)
<1> DEFINE D == {n - j : j \in L}
           R == {ss \in Nat \X Nat : ss[1] < ss[2]}
<1>1. L = {} => LastOf(L) = Null
  BY DEF LastOf
<1>2. ASSUME L # {}
      PROVE  \E k \in L : \A j \in L : j <= k
  <2>1. IsWellFoundedOn(R, Nat)
    BY NatLessThanWellFounded DEF OpToRel
  <2>2. D \subseteq Nat /\ D # {}
    <3>1. \A j \in L : n - j \in Nat
      OBVIOUS
    <3>2. PICK j \in L : TRUE
      BY <1>2
    <3>3. n - j \in D
      OBVIOUS
    <3> QED BY <3>1, <3>3
  <2> HIDE DEF R, D
  <2>3. PICK d \in D : \A e \in D : ~(<<e, d>> \in R)
    BY <2>1, <2>2, WFMin
  <2> USE DEF R, D
  <2>4. PICK k \in L : d = n - k
    OBVIOUS
  <2>5. ASSUME NEW j \in L
        PROVE  j <= k
    <3>1. n - j \in D /\ n - j \in Nat /\ n - k \in Nat /\ j \in Nat /\ k \in Nat
      BY <2>2
    <3>2. ~(n - j < n - k)
      BY <2>3, <2>4, <3>1
    <3> QED BY <3>1, <3>2
  <2> QED BY <2>5
<1>3. ASSUME L # {}
      PROVE  LastOf(L) \in L /\ \A j \in L : j <= LastOf(L)
  <2> HIDE DEF D, R
  <2>1. LastOf(L) = CHOOSE k \in L : \A j \in L : j <= k
    BY <1>3 DEF LastOf
  <2> QED BY <1>2, <1>3, <2>1
<1> QED BY <1>1, <1>3

LEMMA NullIsNoLine == Null \notin Nat
BY ContextAssumption

\* The line n, if it is one of them, comes after those before it.
LEMMA LastOfGrows ==
  ASSUME NEW n \in Nat \ {0}, NEW L \in SUBSET (1 .. (n - 1))
  PROVE  LastOf(L \cup {n}) = n
<1>1. L \cup {n} \in SUBSET (1 .. n) /\ L \cup {n} # {}
  OBVIOUS
<1> DEFINE m == LastOf(L \cup {n})
<1>2. m \in L \cup {n} /\ n <= m
  <2>1. n \in L \cup {n} /\ n \in Nat
    OBVIOUS
  <2>2. LastOf(L \cup {n}) \in L \cup {n} /\ \A j \in L \cup {n} : j <= LastOf(L \cup {n})
    BY <1>1, <2>1, LastOfIs
  <2> QED BY <2>1, <2>2
<1> HIDE DEF m
<1>3. m \in L => ~(n <= m)
  OBVIOUS
<1> QED BY <1>2, <1>3 DEF m

(***************************************************************************)
(* The lines of tr before k that speak of a view, a hart, or the time.     *)
(***************************************************************************)
ViewLines(tr, id, k) == {j \in 1 .. (k - 1) : tr[j].do = "memview" /\ tr[j].id = id}
HartLines(tr, id, k) == {j \in 1 .. (k - 1) : tr[j].do = "new" /\ tr[j].id = id}
TimeLines(tr, k)     == {j \in 1 .. (k - 1) : tr[j].do = "time"}

LEMMA LinesAre ==
  /\ \A id, k : ViewLine(id, k) = LastOf(ViewLines(trace, id, k))
  /\ \A id, k : HartLine(id, k) = LastOf(HartLines(trace, id, k))
  /\ \A k : TimeLine(k) = LastOf(TimeLines(trace, k))
BY DEF ViewLine, HartLine, TimeLine, ViewLines, HartLines, TimeLines

\* Traces that agree on the lines before n agree on what these say.
LEMMA LinesKept ==
  ASSUME NEW n \in Nat, NEW tr, NEW tr2, \A j \in 1 .. (n - 1) : tr2[j] = tr[j],
         NEW k \in 0 .. n
  PROVE  /\ \A id : ViewLines(tr2, id, k) = ViewLines(tr, id, k)
         /\ \A id : HartLines(tr2, id, k) = HartLines(tr, id, k)
         /\ TimeLines(tr2, k) = TimeLines(tr, k)
<1>1. 1 .. (k - 1) \subseteq 1 .. (n - 1)
  OBVIOUS
<1> QED BY <1>1 DEF ViewLines, HartLines, TimeLines

\* One line more.
LEMMA NextLines ==
  ASSUME NEW n \in Nat \ {0}, NEW tr, NEW id
  PROVE  /\ LastOf(ViewLines(tr, id, n + 1)) =
              IF tr[n].do = "memview" /\ tr[n].id = id THEN n ELSE LastOf(ViewLines(tr, id, n))
         /\ LastOf(HartLines(tr, id, n + 1)) =
              IF tr[n].do = "new" /\ tr[n].id = id THEN n ELSE LastOf(HartLines(tr, id, n))
         /\ LastOf(TimeLines(tr, n + 1)) =
              IF tr[n].do = "time" THEN n ELSE LastOf(TimeLines(tr, n))
<1>1. 1 .. ((n + 1) - 1) = (1 .. (n - 1)) \cup {n}
  OBVIOUS
<1>2. /\ ViewLines(tr, id, n) \in SUBSET (1 .. (n - 1))
      /\ HartLines(tr, id, n) \in SUBSET (1 .. (n - 1))
      /\ TimeLines(tr, n) \in SUBSET (1 .. (n - 1))
  BY DEF ViewLines, HartLines, TimeLines
<1>3. ViewLines(tr, id, n + 1) =
        IF tr[n].do = "memview" /\ tr[n].id = id
        THEN ViewLines(tr, id, n) \cup {n} ELSE ViewLines(tr, id, n)
  BY <1>1 DEF ViewLines
<1>4. HartLines(tr, id, n + 1) =
        IF tr[n].do = "new" /\ tr[n].id = id
        THEN HartLines(tr, id, n) \cup {n} ELSE HartLines(tr, id, n)
  BY <1>1 DEF HartLines
<1>5. TimeLines(tr, n + 1) =
        IF tr[n].do = "time" THEN TimeLines(tr, n) \cup {n} ELSE TimeLines(tr, n)
  BY <1>1 DEF TimeLines
<1> QED BY <1>2, <1>3, <1>4, <1>5, LastOfGrows

-----------------------------------------------------------------------------
(***************************************************************************)
(* The tables.                                                             *)
(***************************************************************************)

LEMMA SizeForIs ==
  ASSUME NEW X, NEW table \in Seq(X), NEW id \in Id, Len(table) <= U32
  PROVE  /\ SizeFor(table, id) \in Nat /\ SizeFor(table, id) <= U32
         /\ Len(table) <= SizeFor(table, id)
         /\ SizeFor(table, id) <= Len(table) \/ SizeFor(table, id) = id + 1
         /\ id + 1 < U32 => id < SizeFor(table, id)
<1>1. U32 \in Nat \ {0} /\ id \in Nat /\ id + 1 \in Nat /\ id + 1 <= U32 /\ Len(table) \in Nat
  BY ContextAssumption DEF Id
<1>2. id + 1 < U32 => (id + 1) % U32 = id + 1
  BY <1>1
<1>3. id + 1 = U32 => (id + 1) % U32 = 0
  BY <1>1
<1>4. (id + 1) % U32 = id + 1 \/ (id + 1) % U32 = 0
  BY <1>1, <1>2, <1>3
<1> QED BY <1>1, <1>2, <1>4 DEF SizeFor

LEMMA PutIs ==
  ASSUME NEW X, Null \in X, NEW table \in Seq(X), NEW id \in Id, Len(table) <= U32,
         id < SizeFor(table, id), NEW x \in X
  PROVE  /\ Put(table, id, x) \in Seq(X)
         /\ Len(Put(table, id, x)) = SizeFor(table, id)
         /\ \A k \in 1 .. SizeFor(table, id) :
              Put(table, id, x)[k] = IF k = id + 1 THEN x
                                     ELSE IF k <= Len(table) THEN table[k] ELSE Null
<1> DEFINE n == SizeFor(table, id)
<1>1. n \in Nat /\ Len(table) \in Nat
  BY SizeForIs
<1>2. Put(table, id, x) = [k \in 1 .. n |->
        IF k = id + 1 THEN x ELSE IF k <= Len(table) THEN table[k] ELSE Null]
  BY DEF Put
<1> HIDE DEF n
<1>3. \A k \in 1 .. n :
        (IF k = id + 1 THEN x ELSE IF k <= Len(table) THEN table[k] ELSE Null) \in X
  BY <1>1
<1>4. Put(table, id, x) \in [1 .. n -> X]
  BY <1>2, <1>3
<1>5. Put(table, id, x) \in Seq(X) /\ Len(Put(table, id, x)) = n
  BY <1>1, <1>4
<1> QED BY <1>2, <1>5 DEF n

\* A table that has grown, with no entry made, has the old ones and gaps.
LEMMA GrownIs ==
  ASSUME NEW X, Null \in X, NEW table \in Seq(X), NEW id \in Id, Len(table) <= U32
  PROVE  /\ Grown(table, id) \in Seq(X)
         /\ Len(Grown(table, id)) = SizeFor(table, id)
         /\ Len(table) <= SizeFor(table, id) /\ SizeFor(table, id) <= U32
         /\ \A k \in 1 .. SizeFor(table, id) :
              Grown(table, id)[k] = IF k <= Len(table) THEN table[k] ELSE Null
<1> DEFINE n == SizeFor(table, id)
<1>1. n \in Nat /\ Len(table) \in Nat /\ Len(table) <= n /\ n <= U32
  BY SizeForIs
<1>2. Grown(table, id) = [k \in 1 .. n |-> IF k <= Len(table) THEN table[k] ELSE Null]
  BY DEF Grown
<1> HIDE DEF n
<1>3. \A k \in 1 .. n : (IF k <= Len(table) THEN table[k] ELSE Null) \in X
  BY <1>1
<1>4. Grown(table, id) \in [1 .. n -> X]
  BY <1>2, <1>3
<1>5. Grown(table, id) \in Seq(X) /\ Len(Grown(table, id)) = n
  BY <1>1, <1>4
<1> QED BY <1>1, <1>2, <1>5 DEF n

-----------------------------------------------------------------------------
(***************************************************************************)
(* The invariant.                                                          *)
(***************************************************************************)

\* The lines up to now have been carried out, with the operands they hold.
Told == status # "crashed" /\ \A k \in Past : Complete(trace[k])

\* The shape of the tables, and of the trace that a simulation makes.
TablesTyped ==
  /\ harts \in Seq(HartObject \cup {Null})
  /\ Len(cpuMemoryViews) <= U32 /\ Len(harts) <= U32
  /\ config \in [spikeDebug : BOOLEAN, spikeLogCommit : BOOLEAN]
  /\ frontend = "ascii" => trace \in Seq(Command)
  /\ frontend = "jni" => lineId = Len(trace) + 1 /\ status # "throwing"

\* The table of views holds what the lines say, and nothing else.
ViewsAsTold ==
  Told => \A id \in Id :
    IF id < Len(cpuMemoryViews) THEN cpuMemoryViews[id + 1] = ViewLine(id, lineId)
    ELSE ViewLine(id, lineId) = Null

\* The table of harts holds those that were made; a line asked for each of its places.
HartsAsTold ==
  Told =>
    /\ \A id \in Id : HartLine(id, lineId) # Null =>
         id < Len(harts) /\ harts[id + 1] # Null
    /\ \A k \in 1 .. Len(harts) : \E j \in Past : trace[j].do = "new" /\ k - 1 <= trace[j].id

TablesTold == ViewsAsTold /\ HartsAsTold /\ HartsKeepTheirView /\ HartsFollowConfig

\* The time is that of the last stamp, if its value could be read.
TimeAsTold ==
  frontend = "ascii" =>
    LET stamp == TimeLine(lineId)
    IN  \/ stamp # Null /\ trace[stamp].value \in {Cut, Unreadable}
        \/ time = IF stamp = Null THEN Never ELSE trace[stamp].value

\* checkFile has got through the lines before lineId, and no further.
VerdictReady ==
  /\ frontend = "ascii" => \A k \in Past : ~MustFail(trace[k])
  /\ status = "throwing" => lineId \in 1 .. Len(trace) /\ MayThrow(trace[lineId])
  /\ status = "success" => lineId = Len(trace) + 1
  /\ status \in {"success", "failed"} => frontend = "ascii"

Invariant ==
  /\ TypeOK /\ TablesTyped /\ TablesTold /\ DeclaredNeverCrashes
  /\ TimeAsTold /\ VerdictReady /\ VerdictSound

-----------------------------------------------------------------------------
(***************************************************************************)
(* What a step does to the tables.                                         *)
(***************************************************************************)

LEMMA CommandShape ==
  ASSUME NEW c \in Command \cup Switch
  PROVE  /\ c.do \in {"memview", "new", "use", "time", "load", "unknown",
                      "spikeDebug", "spikeLogCommit"}
         /\ c.do = "memview" => c \in [do : {"memview"}, id : Operand, room : BOOLEAN]
         /\ c.do = "new" =>
              c \in [do : {"new"}, id : Operand, view : Operand, known : BOOLEAN,
                     room : BOOLEAN]
         /\ c.do = "use" =>
              c \in [do : {"use"}, id : Operand, needs : {"nothing", "hart", "view"},
                     may : SUBSET {"throws", "hangs", "crashes"}, checked : BOOLEAN]
         /\ c.do = "time" => c \in [do : {"time"}, value : Times \cup {Cut, Unreadable}]
         /\ c.do = "load" => c \in [do : {"load"}, kind : {"elf", "bin"}, exists : BOOLEAN]
         /\ c.do \in {"spikeDebug", "spikeLogCommit"} <=> c \in Switch
BY DEF Command, Switch

LEMMA ReadIs ==
  ASSUME NEW all, 0 \in all, NEW x \in all \cup {Cut, Unreadable}, {Cut, Unreadable} \cap all = {}
  PROVE  Read(x, all) \subseteq all /\ (x \in all => Read(x, all) = {x})
BY DEF Read

LEMMA OperandsAreNoIds ==
  /\ 0 \in Id /\ {Cut, Unreadable} \cap Id = {}
  /\ 0 \in Times /\ {Cut, Unreadable} \cap Times = {}
BY ContextAssumption, SessionAssumption DEF Id

\* A line is read with operands that are there; one that is complete as it stands.
LEMMA ReadingsAre ==
  ASSUME NEW line \in Command, NEW c \in Readings(line)
  PROVE  /\ c \in Command /\ Complete(c) /\ c.do = line.do
         /\ Complete(line) => c = line
         /\ c.do \in {"load", "unknown"} => c = line
         /\ c.do = "use" => c.may = line.may
         /\ c.do \in {"memview", "new"} /\ line.id \in Id => c.id = line.id /\ c.room = line.room
         /\ c.do = "new" /\ line.id \notin Id => ~c.known
<1>1. line.do \in {"memview", "new", "use", "time", "load", "unknown"}
  BY DEF Command
<1>2. CASE line.do = "memview"
  <2>1. line \in [do : {"memview"}, id : Operand, room : BOOLEAN]
    BY <1>2, CommandShape
  <2>2. PICK i \in Read(line.id, Id),
             r \in IF line.id \in {Cut, Unreadable} THEN BOOLEAN ELSE {line.room} :
          c = [do |-> "memview", id |-> i, room |-> r]
    BY <1>2 DEF Readings
  <2>3. i \in Id /\ (line.id \in Id => i = line.id /\ r = line.room) /\ r \in BOOLEAN
    BY <2>1, <2>2, OperandsAreNoIds, ReadIs DEF Operand
  <2>4. c \in [do : {"memview"}, id : Operand, room : BOOLEAN] /\ c.id = i /\ c.room = r
    BY <2>1, <2>2, <2>3 DEF Operand
  <2>5. line.id \in Id => c = line
    BY <2>1, <2>2, <2>3
  <2>6. c \in Command
    BY <2>4 DEF Command
  <2> QED BY <1>2, <2>3, <2>4, <2>5, <2>6 DEF Complete
<1>3. CASE line.do = "use"
  <2> DEFINE U == [do : {"use"}, id : Operand, needs : {"nothing", "hart", "view"},
                   may : SUBSET {"throws", "hangs", "crashes"}, checked : BOOLEAN]
  <2>1. line \in U
    BY <1>3, CommandShape
  <2>2. PICK i \in Read(line.id, Id) : c = [line EXCEPT !.id = i]
    BY <1>3 DEF Readings
  <2>3. i \in Id /\ (line.id \in Id => i = line.id)
    BY <2>1, <2>2, OperandsAreNoIds, ReadIs DEF Operand
  <2>4. c \in U /\ c.id = i /\ c.may = line.may
    BY <2>1, <2>2, <2>3 DEF Operand
  <2>5. line.id = i => c = line
    BY <2>1, <2>2
  <2>6. c \in Command
    BY <2>4 DEF Command
  <2> QED BY <1>3, <2>3, <2>4, <2>5, <2>6 DEF Complete
<1>4. CASE line.do = "new"
  <2> DEFINE N == [do : {"new"}, id : Operand, view : Operand, known : BOOLEAN,
                   room : BOOLEAN]
  <2>1. line \in N
    BY <1>4, CommandShape
  <2>2. CASE line.id \in {Cut, Unreadable}
    <3>1. PICK i \in Read(line.id, Id), w \in Id :
            c = [do |-> "new", id |-> i, view |-> w, known |-> FALSE, room |-> line.room]
      BY <1>4, <2>2 DEF Readings
    <3>2. i \in Id
      BY <2>1, <3>1, OperandsAreNoIds, ReadIs DEF Operand
    <3>3. c \in N /\ c.id = i /\ c.view = w /\ ~c.known
      BY <2>1, <3>1, <3>2 DEF Operand
    <3>4. ~Complete(line) /\ c \in Command
      BY <1>4, <2>2, <3>3, OperandsAreNoIds DEF Complete, Command
    <3>5. line.id \notin Id
      BY <2>2, OperandsAreNoIds
    <3> QED BY <1>4, <3>1, <3>2, <3>3, <3>4, <3>5 DEF Complete
  <2>3. CASE line.id \notin {Cut, Unreadable}
    <3>1. PICK w \in Read(line.view, Id) : c = [line EXCEPT !.view = w]
      BY <1>4, <2>3 DEF Readings
    <3>2. w \in Id /\ (line.view \in Id => w = line.view)
      BY <2>1, <3>1, OperandsAreNoIds, ReadIs DEF Operand
    <3>3. c \in N /\ c.id = line.id /\ c.view = w /\ line.id \in Id /\ c.room = line.room
      BY <2>1, <2>3, <3>1, <3>2 DEF Operand
    <3>4. line.view = w => c = line
      BY <2>1, <3>1
    <3>5. c \in Command
      BY <3>3 DEF Command
    <3> QED BY <1>4, <3>2, <3>3, <3>4, <3>5 DEF Complete
  <2> QED BY <2>2, <2>3
<1>5. CASE line.do = "time"
  <2>1. line \in [do : {"time"}, value : Times \cup {Cut, Unreadable}]
    BY <1>5, CommandShape
  <2>2. PICK t \in Read(line.value, Times) : c = [line EXCEPT !.value = t]
    BY <1>5 DEF Readings
  <2>3. t \in Times /\ (line.value \in Times => t = line.value)
    BY <2>1, <2>2, OperandsAreNoIds, ReadIs
  <2>4. c \in [do : {"time"}, value : Times \cup {Cut, Unreadable}] /\ c.value = t
    BY <2>1, <2>2, <2>3
  <2>5. line.value = t => c = line
    BY <2>1, <2>2
  <2>6. c \in Command
    BY <2>4 DEF Command
  <2> QED BY <1>5, <2>3, <2>4, <2>5, <2>6 DEF Complete
<1>6. CASE line.do \in {"load", "unknown"}
  <2>1. Readings(line) = {line}
    BY <1>6 DEF Readings
  <2> QED BY <1>6, <2>1 DEF Complete
<1> QED BY <1>1, <1>2, <1>3, <1>4, <1>5, <1>6

LEMMA PerformIs ==
  ASSUME NEW c \in Command, NEW outcome \in Outcomes, Perform(c, outcome)
  PROVE  /\ outcome = "crashes" => UNCHANGED contextVars
         /\ c.do \notin {"memview", "new", "time"} => UNCHANGED contextVars
         /\ c.do \in {"memview", "new"} =>
              outcome \in {"returns", "crashes"} \/ (outcome = "throws" /\ ~c.room)
         /\ c.do = "memview" => CpuMemoryViewNew(c.id, c.room, lineId, outcome)
         /\ c.do = "new" => RvNew(c.id, c.view, c.known, c.room, outcome)
         /\ c.do = "new" /\ ~c.known => outcome = "crashes"
         /\ c.do = "time" => SetTime(c.value, outcome) /\ outcome = "returns"
         /\ c.do # "time" => UNCHANGED time
         /\ UNCHANGED <<config, spikeLogs, closes>>
         /\ outcome = "returns" => ~MustFail(c)
         /\ outcome = "throws" /\ Complete(c) => MayThrow(c)
         /\ c.do # "memview" => UNCHANGED cpuMemoryViews
         /\ c.do # "new" \/ outcome # "returns" => UNCHANGED harts
BY CommandShape DEF Perform, CpuMemoryViewNew, RvNew, Use, SetTime, LoadFile, Unknown,
     contextVars, MustFail, MayThrow, Outcomes, Complete

\* A line was carried out: the next one follows, and c is what the line was read as.
Carried(c) ==
  /\ lineId' = lineId + 1 /\ lineId \in 1 .. Len(trace')
  /\ \A j \in Past : trace'[j] = trace[j]
  /\ c \in Command \cup Switch /\ c.do = trace'[lineId].do
  /\ Complete(trace'[lineId]) => c = trace'[lineId]

Stays  == lineId' = lineId /\ trace' = trace
Tables == <<config, cpuMemoryViews, harts>>

\* The ways in which the tables change while the run goes on.
TableStep ==
  \/ Stays /\ UNCHANGED Tables
  \/ /\ Stays /\ UNCHANGED <<config, harts>>
     /\ \E id \in Id : cpuMemoryViews' = Grown(cpuMemoryViews, id)
  \/ \E c : /\ Carried(c)
            /\ \/ c.do \notin {"memview", "new"} /\ UNCHANGED Tables
               \/ /\ c.do = "memview" /\ c.id \in Id
                  /\ CpuMemoryViewNew(c.id, c.room, lineId, "returns")
               \/ /\ c.do = "new" /\ c.id \in Id /\ c.view \in Id
                  /\ RvNew(c.id, c.view, c.known, c.room, "returns")
               \/ /\ c \in Switch /\ UNCHANGED cpuMemoryViews /\ Made(harts) = 1 .. Len(harts)
                  /\ harts' = [k \in 1 .. Len(harts) |-> Switched(harts[k], c.do, c.enable)]
                  /\ config' = [config EXCEPT ![c.do] = c.enable]

LEMMA LineIsTableStep ==
  ASSUME TypeOK, TablesTyped, Line, status' # "crashed"
  PROVE  TableStep
<1>1. /\ lineId \in 1 .. Len(trace) /\ trace' = trace /\ trace[lineId] \in Command
  BY DEF Line, TypeOK, TablesTyped
<1>2. PICK c \in Readings(trace[lineId]), outcome \in Outcomes :
        /\ Perform(c, outcome)
        /\ lineId' = IF outcome = "returns" THEN lineId + 1 ELSE lineId
        /\ status' = CASE outcome = "returns" -> "running"
                       [] outcome = "throws"  -> "throwing"
                       [] outcome = "exits"   -> "exited"
                       [] outcome = "crashes" -> "crashed"
                       [] outcome = "hangs"   -> "hung"
  BY DEF Line, Outcomes
<1>3. /\ c \in Command /\ Complete(c) /\ c.do = trace[lineId].do
      /\ Complete(trace[lineId]) => c = trace[lineId]
  BY <1>1, <1>2, ReadingsAre
<1>4. outcome # "crashes"
  BY <1>2
<1>5. CASE outcome = "returns"
  <2>1. Carried(c)
    BY <1>1, <1>2, <1>3, <1>5 DEF Carried
  <2>2. /\ c.do = "memview" => CpuMemoryViewNew(c.id, c.room, lineId, "returns")
        /\ c.do = "new" => RvNew(c.id, c.view, c.known, c.room, "returns")
        /\ c.do \notin {"memview", "new"} => UNCHANGED Tables
    BY <1>2, <1>3, <1>5, PerformIs DEF Tables
  <2>3. /\ c.do \in {"memview", "new"} => c.id \in Id
        /\ c.do = "new" => c.view \in Id
    BY <1>3 DEF Complete
  <2> QED BY <2>1, <2>2, <2>3 DEF TableStep
<1>6. CASE outcome # "returns"
  <2>1. Stays
    BY <1>1, <1>2, <1>6 DEF Stays
  <2>2. c.do = "memview" => c.id \in Id /\ CpuMemoryViewNew(c.id, c.room, lineId, outcome)
    BY <1>2, <1>3, PerformIs DEF Complete
  <2>3. UNCHANGED <<config, harts>>
    BY <1>2, <1>3, <1>6, PerformIs
  <2>4. UNCHANGED cpuMemoryViews \/ \E id \in Id : cpuMemoryViews' = Grown(cpuMemoryViews, id)
    BY <1>2, <1>3, <1>6, <2>2, PerformIs DEF CpuMemoryViewNew
  <2> QED BY <2>1, <2>3, <2>4 DEF TableStep, Tables
<1> QED BY <1>5, <1>6

\* The call that is made becomes the last line of the trace.
LEMMA AppendedCall ==
  ASSUME TypeOK, TablesTyped, frontend = "jni", NEW c \in Calls, trace' = Append(trace, c)
  PROVE  /\ c \in Command \cup Switch /\ Complete(c)
         /\ lineId = Len(trace) + 1 /\ Len(trace') = lineId /\ trace'[lineId] = c
         /\ \A j \in Past : trace'[j] = trace[j]
         /\ trace' \in Seq(Command \cup Switch)
<1> DEFINE C == Command \cup Switch
<1>1. c \in C /\ Complete(c) /\ trace \in Seq(C) /\ lineId = Len(trace) + 1
  BY SessionAssumption DEF TypeOK, TablesTyped
<1> HIDE DEF C
<1>2. /\ trace' \in Seq(C) /\ Len(trace') = Len(trace) + 1 /\ trace'[Len(trace) + 1] = c
      /\ \A j \in 1 .. Len(trace) : trace'[j] = trace[j]
  BY <1>1
<1>3. Past = 1 .. Len(trace)
  BY <1>1 DEF Past
<1> QED BY <1>1, <1>2, <1>3 DEF C

LEMMA CallIsTableStep ==
  ASSUME TypeOK, TablesTyped, NEW c \in Calls, Call(c), status' # "crashed"
  PROVE  TableStep
<1>1. PICK outcome \in Outcomes :
        /\ Perform(c, outcome)
        /\ outcome = "crashes" => status' = "crashed"
  BY DEF Call, Outcomes
<1>2. /\ c \in Command \cup Switch /\ Complete(c)
      /\ lineId = Len(trace) + 1 /\ Len(trace') = lineId /\ trace'[lineId] = c
      /\ \A j \in Past : trace'[j] = trace[j]
  BY AppendedCall DEF Call, Calling
<1>3. Carried(c) /\ c \in Command /\ (c.do \in {"memview", "new"} => c.room)
  <2>1. lineId' = lineId + 1 /\ lineId \in 1 .. Len(trace')
    BY <1>2 DEF Call, TypeOK
  <2>2. c \notin Switch
    BY <1>2, CommandShape DEF Call
  <2> QED BY <1>2, <2>1, <2>2, SessionAssumption DEF Carried
<1>4. /\ c.do \in {"memview", "new"} => outcome = "returns"
      /\ c.do = "memview" => CpuMemoryViewNew(c.id, c.room, lineId, outcome)
      /\ c.do = "new" => RvNew(c.id, c.view, c.known, c.room, outcome)
      /\ c.do \notin {"memview", "new"} => UNCHANGED Tables
  BY <1>1, <1>3, PerformIs DEF Tables
<1>5. /\ c.do \in {"memview", "new"} => c.id \in Id
      /\ c.do = "new" => c.view \in Id
  BY <1>2 DEF Complete
<1> QED BY <1>3, <1>4, <1>5 DEF TableStep

LEMMA SwitchIsTableStep ==
  ASSUME TypeOK, TablesTyped, NEW c \in Calls, SwitchCall(c), status' # "crashed"
  PROVE  TableStep
<1>1. /\ c \in Command \cup Switch /\ Complete(c)
      /\ lineId = Len(trace) + 1 /\ Len(trace') = lineId /\ trace'[lineId] = c
      /\ \A j \in Past : trace'[j] = trace[j]
  BY AppendedCall DEF SwitchCall, Calling
<1>2. Carried(c) /\ c \in Switch
  <2>1. lineId' = lineId + 1 /\ lineId \in 1 .. Len(trace')
    BY <1>1 DEF SwitchCall, TypeOK
  <2> QED BY <1>1, <2>1, CommandShape DEF Carried, SwitchCall
<1> QED BY <1>2 DEF TableStep, SwitchCall

LEMMA OtherIsTableStep ==
  ASSUME Catch \/ EndOfFile \/ DeleteContext
  PROVE  Stays /\ UNCHANGED Tables /\ UNCHANGED time /\ status' # "crashed"
BY DEF Catch, EndOfFile, DeleteContext, Stays, Tables, Close, contextVars, Failed

-----------------------------------------------------------------------------
(***************************************************************************)
(* The tables remain what the lines say.                                   *)
(***************************************************************************)

\* A line that is carried out adds what it says itself.
LEMMA CarriedLines ==
  ASSUME TypeOK, NEW c, Carried(c), Complete(trace'[lineId])
  PROVE  /\ \A id : ViewLine(id, lineId)' =
              IF c.do = "memview" /\ c.id = id THEN lineId ELSE ViewLine(id, lineId)
         /\ \A id : HartLine(id, lineId)' =
              IF c.do = "new" /\ c.id = id THEN lineId ELSE HartLine(id, lineId)
<1> DEFINE n == lineId
           tr == trace'
<1>1. n \in Nat \ {0} /\ lineId' = n + 1 /\ tr[n] = c
  BY DEF Carried, TypeOK
<1>2. n \in Nat /\ n \in 0 .. n /\ \A j \in 1 .. (n - 1) : tr[j] = trace[j]
  BY <1>1 DEF Carried, Past
<1>3. /\ \A id : ViewLines(tr, id, n) = ViewLines(trace, id, n)
      /\ \A id : HartLines(tr, id, n) = HartLines(trace, id, n)
  BY <1>2, LinesKept
<1>4. \A id : /\ ViewLine(id, lineId)' = LastOf(ViewLines(tr, id, n + 1))
              /\ HartLine(id, lineId)' = LastOf(HartLines(tr, id, n + 1))
  BY <1>1 DEF ViewLine, HartLine, ViewLines, HartLines, LastOf
<1> HIDE DEF n, tr
<1>5. ASSUME NEW id
      PROVE  /\ LastOf(ViewLines(tr, id, n + 1)) =
                  IF c.do = "memview" /\ c.id = id THEN n ELSE LastOf(ViewLines(tr, id, n))
             /\ LastOf(HartLines(tr, id, n + 1)) =
                  IF c.do = "new" /\ c.id = id THEN n ELSE LastOf(HartLines(tr, id, n))
  <2>1. /\ LastOf(ViewLines(tr, id, n + 1)) =
             IF tr[n].do = "memview" /\ tr[n].id = id THEN n ELSE LastOf(ViewLines(tr, id, n))
        /\ LastOf(HartLines(tr, id, n + 1)) =
             IF tr[n].do = "new" /\ tr[n].id = id THEN n ELSE LastOf(HartLines(tr, id, n))
    BY <1>1, NextLines
  <2> QED BY <1>1, <2>1
<1> QED BY <1>3, <1>4, <1>5, LinesAre DEF n

LEMMA CarriedPast ==
  ASSUME TypeOK, NEW c, Carried(c)
  PROVE  /\ Past' = Past \cup {lineId} /\ \A j \in Past : trace'[j] = trace[j]
         /\ lineId \in Nat \ {0} /\ lineId \notin Past
<1>1. lineId \in Nat \ {0} /\ lineId' = lineId + 1
  BY DEF Carried, TypeOK
<1>2. 1 .. ((lineId + 1) - 1) = 1 .. (lineId - 1) \cup {lineId} /\ lineId \notin 1 .. (lineId - 1)
  BY <1>1
<1> QED BY <1>1, <1>2 DEF Carried, Past

LEMMA ToldBefore ==
  ASSUME TypeOK, NEW c, Carried(c), Told', status # "crashed"
  PROVE  Told /\ Complete(trace'[lineId]) /\ c = trace'[lineId] /\ Complete(c)
<1>1. \A k \in Past' : Complete(trace'[k])
  BY DEF Told, Complete
<1>2. Complete(trace'[lineId]) /\ \A k \in Past : Complete(trace[k])
  BY <1>1, CarriedPast
<1> QED BY <1>2 DEF Told, Carried

(***************************************************************************)
(* What HartsKeepTheirView says of one hart, for a given trace.            *)
(***************************************************************************)
KeepsView(tr, n, k, m) ==
  LET made == LastOf(HartLines(tr, k - 1, n))
      view == LastOf(ViewLines(tr, tr[made].view, made))
  IN  made # Null /\ (m = view \/ (view = Null /\ m \in {Null, Wild}))

LEMMA KeepsViewIs ==
  /\ HartsKeepTheirView <=> (Told => \A k \in Made(harts) : KeepsView(trace, lineId, k, harts[k].memory))
  /\ HartsKeepTheirView' <=>
       (Told' => \A k \in Made(harts') : KeepsView(trace', lineId', k, harts'[k].memory))
BY DEF HartsKeepTheirView, Told, KeepsView, HartLine, ViewLine, HartLines, ViewLines, LastOf,
       Complete, Past, Made

\* A later line that makes another hart, or none, does not touch this one.
LEMMA KeepsViewLater ==
  ASSUME NEW n \in Nat \ {0}, NEW tr, NEW tr2, \A j \in 1 .. (n - 1) : tr2[j] = tr[j],
         NEW k, NEW m, KeepsView(tr, n, k, m), ~(tr2[n].do = "new" /\ tr2[n].id = k - 1)
  PROVE  KeepsView(tr2, n + 1, k, m)
<1> DEFINE made == LastOf(HartLines(tr, k - 1, n))
<1>1. made # Null
  BY DEF KeepsView
<1>2. HartLines(tr, k - 1, n) \in SUBSET (1 .. (n - 1)) /\ n - 1 \in Nat
  BY DEF HartLines
<1>3. made \in 1 .. (n - 1)
  BY <1>1, <1>2, LastOfIs
<1>4. LastOf(HartLines(tr2, k - 1, n + 1)) = made
  <2>1. HartLines(tr2, k - 1, n) = HartLines(tr, k - 1, n)
    BY LinesKept
  <2> QED BY <2>1, NextLines
<1>5. tr2[made] = tr[made] /\ made \in 0 .. n
  BY <1>3
<1>6. ViewLines(tr2, tr2[made].view, made) = ViewLines(tr, tr[made].view, made)
  BY <1>5, LinesKept
<1> HIDE DEF made
<1> QED BY <1>1, <1>4, <1>6 DEF KeepsView, made

-----------------------------------------------------------------------------
LEMMA StaysKeepsTables ==
  ASSUME TablesTold, Stays, UNCHANGED Tables, status # "crashed"
  PROVE  TablesTold'
<1>1. Told' => Told
  BY DEF Told, Stays, Past, Complete
<1>2. (ViewsAsTold /\ HartsAsTold)'
  BY <1>1 DEF TablesTold, ViewsAsTold, HartsAsTold, Stays, Tables, ViewLine, HartLine, Past
<1>3. HartsKeepTheirView'
  BY <1>1, KeepsViewIs DEF TablesTold, Stays, Tables, Made
<1>4. HartsFollowConfig'
  BY DEF TablesTold, HartsFollowConfig, Tables, Made
<1> QED BY <1>2, <1>3, <1>4 DEF TablesTold

\* A view that could not be made leaves a gap, or nothing.
LEMMA GrownKeepsTables ==
  ASSUME TypeOK, TablesTyped, TablesTold, Stays, UNCHANGED <<config, harts>>, NEW new \in Id,
         cpuMemoryViews' = Grown(cpuMemoryViews, new), status # "crashed"
  PROVE  TablesTold'
<1>1. Told' => Told
  BY DEF Told, Stays, Past, Complete
<1>2. HartsAsTold'
  BY <1>1 DEF TablesTold, HartsAsTold, Stays, HartLine, Past
<1>3. HartsKeepTheirView'
  BY <1>1, KeepsViewIs DEF TablesTold, Stays, Made
<1>4. HartsFollowConfig'
  BY DEF TablesTold, HartsFollowConfig, Made
<1>5. ViewsAsTold'
  <2> SUFFICES ASSUME Told', NEW id \in Id
               PROVE  (IF id < Len(cpuMemoryViews) THEN cpuMemoryViews[id + 1] = ViewLine(id, lineId)
                       ELSE ViewLine(id, lineId) = Null)'
    BY DEF ViewsAsTold, Id
  <2>1. ViewLine(id, lineId)' = ViewLine(id, lineId)
    BY DEF ViewLine, Stays
  <2>2. IF id < Len(cpuMemoryViews) THEN cpuMemoryViews[id + 1] = ViewLine(id, lineId)
        ELSE ViewLine(id, lineId) = Null
    BY <1>1 DEF TablesTold, ViewsAsTold
  <2> DEFINE X == Nat \cup {Null}
             n == SizeFor(cpuMemoryViews, new)
  <2>3. Null \in X /\ cpuMemoryViews \in Seq(X) /\ Len(cpuMemoryViews) <= U32
    BY DEF TypeOK, TablesTyped
  <2> HIDE DEF X
  <2>4. /\ Len(cpuMemoryViews') = n /\ Len(cpuMemoryViews) <= n
        /\ \A k \in 1 .. n :
             cpuMemoryViews'[k] = IF k <= Len(cpuMemoryViews) THEN cpuMemoryViews[k] ELSE Null
    BY <2>3, GrownIs
  <2>8. n \in Nat /\ Len(cpuMemoryViews) \in Nat
    BY <2>3, SizeForIs
  <2> HIDE DEF n
  <2>5. id \in Nat
    BY DEF Id
  <2>6. CASE id < n
    <3>1. id + 1 \in 1 .. n
      BY <2>5, <2>6, <2>8
    <3>2. cpuMemoryViews'[id + 1] =
            IF id < Len(cpuMemoryViews) THEN cpuMemoryViews[id + 1] ELSE Null
      BY <2>4, <2>5, <2>8, <3>1
    <3> QED BY <2>1, <2>2, <2>4, <2>6, <3>2
  <2>7. CASE ~(id < n)
    <3>1. ~(id < Len(cpuMemoryViews))
      BY <2>4, <2>5, <2>7, <2>8
    <3> QED BY <2>1, <2>2, <2>4, <2>7, <3>1
  <2> QED BY <2>6, <2>7
<1> QED BY <1>2, <1>3, <1>4, <1>5 DEF TablesTold

\* A line that makes no view.
LEMMA ViewsKept ==
  ASSUME TypeOK, TablesTold, NEW c, Carried(c), c.do # "memview",
         cpuMemoryViews' = cpuMemoryViews, status # "crashed"
  PROVE  ViewsAsTold'
<1>1. Told' => Told /\ Complete(trace'[lineId]) /\ c = trace'[lineId]
  BY ToldBefore
<1>2. ViewsAsTold'
  <2> SUFFICES ASSUME Told'
               PROVE  (\A id \in Id : IF id < Len(cpuMemoryViews)
                         THEN cpuMemoryViews[id + 1] = ViewLine(id, lineId)
                         ELSE ViewLine(id, lineId) = Null)'
    BY DEF ViewsAsTold
  <2>1. \A id : ViewLine(id, lineId)' = ViewLine(id, lineId)
    BY <1>1, CarriedLines
  <2>2. \A id \in Id : IF id < Len(cpuMemoryViews)
          THEN cpuMemoryViews[id + 1] = ViewLine(id, lineId) ELSE ViewLine(id, lineId) = Null
    BY <1>1 DEF TablesTold, ViewsAsTold
  <2> QED BY <2>1, <2>2 DEF Id
<1> QED BY <1>2

\* A line that makes no hart: the harts keep their places and their views.
LEMMA HartsKept ==
  ASSUME TypeOK, TablesTyped, TablesTold, NEW c, Carried(c), c.do # "new", status # "crashed",
         Len(harts') = Len(harts), Made(harts') = Made(harts),
         \A k \in Made(harts) : harts'[k].memory = harts[k].memory
  PROVE  HartsAsTold' /\ HartsKeepTheirView'
<1>1. Told' => Told /\ Complete(trace'[lineId]) /\ c = trace'[lineId]
  BY ToldBefore
<1>2. \A k \in 1 .. Len(harts) : harts[k] # Null <=> harts'[k] # Null
  BY DEF Made
<1>3. HartsAsTold'
  <2> SUFFICES ASSUME Told'
               PROVE  /\ (\A id \in Id : HartLine(id, lineId) # Null =>
                            id < Len(harts) /\ harts[id + 1] # Null)'
                      /\ (\A k \in 1 .. Len(harts) :
                            \E j \in Past : trace[j].do = "new" /\ k - 1 <= trace[j].id)'
    BY DEF HartsAsTold
  <2>1. \A id : HartLine(id, lineId)' = HartLine(id, lineId)
    BY <1>1, CarriedLines
  <2>2. /\ \A id \in Id : HartLine(id, lineId) # Null =>
             id < Len(harts) /\ harts[id + 1] # Null
        /\ \A k \in 1 .. Len(harts) : \E j \in Past : trace[j].do = "new" /\ k - 1 <= trace[j].id
    BY <1>1 DEF TablesTold, HartsAsTold
  <2>3. \A k \in 1 .. Len(harts) : \E j \in Past' : trace'[j].do = "new" /\ k - 1 <= trace'[j].id
    BY <2>2, CarriedPast
  <2>4. ASSUME NEW id \in Id, HartLine(id, lineId) # Null
        PROVE  id < Len(harts') /\ harts'[id + 1] # Null
    <3>1. id < Len(harts) /\ harts[id + 1] # Null
      BY <2>2, <2>4
    <3>2. id + 1 \in 1 .. Len(harts)
      <4>1. id \in Nat /\ Len(harts) \in Nat
        BY DEF TablesTyped, Id
      <4> QED BY <3>1, <4>1
    <3> QED BY <1>2, <3>1, <3>2
  <2> QED BY <2>1, <2>3, <2>4 DEF Id
<1>4. HartsKeepTheirView'
  <2> SUFFICES ASSUME Told', NEW k \in Made(harts')
               PROVE  KeepsView(trace', lineId', k, harts'[k].memory)
    BY KeepsViewIs
  <2>1. KeepsView(trace, lineId, k, harts[k].memory)
    BY <1>1, KeepsViewIs DEF TablesTold
  <2>2. lineId' = lineId + 1 /\ \A j \in 1 .. (lineId - 1) : trace'[j] = trace[j]
    BY DEF Carried, Past
  <2>3. KeepsView(trace', lineId + 1, k, harts[k].memory)
    BY <1>1, <2>1, <2>2, CarriedPast, KeepsViewLater
  <2> QED BY <2>2, <2>3
<1> QED BY <1>3, <1>4

\* A command for a hart, a time stamp, a file.
LEMMA OtherLineKeepsTables ==
  ASSUME TypeOK, TablesTyped, TablesTold, NEW c, Carried(c), c.do \notin {"memview", "new"},
         Tables' = Tables, status # "crashed"
  PROVE  TablesTold'
<1>1. ViewsAsTold' /\ HartsAsTold' /\ HartsKeepTheirView'
  BY ViewsKept, HartsKept DEF Tables
<1>2. HartsFollowConfig'
  BY DEF TablesTold, HartsFollowConfig, Tables, Made
<1> QED BY <1>1, <1>2 DEF TablesTold

\* A new view, or another one under an old id.
LEMMA ViewLineKeepsTables ==
  ASSUME TypeOK, TablesTyped, TablesTold, NEW c, Carried(c), c.do = "memview", c.id \in Id,
         CpuMemoryViewNew(c.id, c.room, lineId, "returns"), status # "crashed"
  PROVE  TablesTold'
<1>1. /\ c.id < SizeFor(cpuMemoryViews, c.id)
      /\ cpuMemoryViews' = Put(cpuMemoryViews, c.id, lineId) /\ UNCHANGED <<config, harts>>
  BY DEF CpuMemoryViewNew
<1>2. HartsAsTold' /\ HartsKeepTheirView'
  BY <1>1, HartsKept
<1>3. HartsFollowConfig'
  BY <1>1 DEF TablesTold, HartsFollowConfig, Made
<1>4. ViewsAsTold'
  <2> SUFFICES ASSUME Told', NEW id \in Id
               PROVE  (IF id < Len(cpuMemoryViews) THEN cpuMemoryViews[id + 1] = ViewLine(id, lineId)
                       ELSE ViewLine(id, lineId) = Null)'
    BY DEF ViewsAsTold, Id
  <2>1. Told /\ Complete(trace'[lineId])
    BY ToldBefore
  <2>2. ViewLine(id, lineId)' = IF c.id = id THEN lineId ELSE ViewLine(id, lineId)
    BY <2>1, CarriedLines
  <2>3. IF id < Len(cpuMemoryViews) THEN cpuMemoryViews[id + 1] = ViewLine(id, lineId)
        ELSE ViewLine(id, lineId) = Null
    BY <2>1 DEF TablesTold, ViewsAsTold
  <2> DEFINE n == SizeFor(cpuMemoryViews, c.id)
  <2>4. /\ n \in Nat /\ Len(cpuMemoryViews) \in Nat /\ Len(cpuMemoryViews) <= n
        /\ n <= Len(cpuMemoryViews) \/ n = c.id + 1
    BY SizeForIs DEF TypeOK, TablesTyped
  <2>5. /\ Len(cpuMemoryViews') = n
        /\ \A k \in 1 .. n : cpuMemoryViews'[k] =
             IF k = c.id + 1 THEN lineId
             ELSE IF k <= Len(cpuMemoryViews) THEN cpuMemoryViews[k] ELSE Null
    <3>1. lineId \in Nat \cup {Null} /\ Null \in Nat \cup {Null}
      BY DEF TypeOK
    <3>2. cpuMemoryViews \in Seq(Nat \cup {Null}) /\ Len(cpuMemoryViews) <= U32
      BY DEF TypeOK, TablesTyped
    <3> DEFINE X == Nat \cup {Null}
               new == Put(cpuMemoryViews, c.id, lineId)
    <3> HIDE DEF X
    <3>3. /\ Len(new) = SizeFor(cpuMemoryViews, c.id)
          /\ \A k \in 1 .. SizeFor(cpuMemoryViews, c.id) : new[k] =
               IF k = c.id + 1 THEN lineId
               ELSE IF k <= Len(cpuMemoryViews) THEN cpuMemoryViews[k] ELSE Null
      <4>1. lineId \in X /\ Null \in X /\ cpuMemoryViews \in Seq(X)
        BY <3>1, <3>2 DEF X
      <4> HIDE DEF new
      <4> QED BY <1>1, <3>2, <4>1, PutIs DEF new
    <3> QED BY <1>1, <3>3
  <2> HIDE DEF n
  <2>6. id \in Nat /\ c.id \in Nat /\ c.id < n
    BY <1>1 DEF Id, n
  <2>7. CASE id < n
    <3>1. id + 1 \in 1 .. n
      BY <2>4, <2>6, <2>7
    <3>2. cpuMemoryViews'[id + 1] = IF id = c.id THEN lineId
            ELSE IF id < Len(cpuMemoryViews) THEN cpuMemoryViews[id + 1] ELSE Null
      BY <2>4, <2>5, <2>6, <3>1
    <3> QED BY <2>2, <2>3, <2>5, <2>7, <3>2
  <2>8. CASE ~(id < n)
    <3>1. id # c.id /\ ~(id < Len(cpuMemoryViews))
      BY <2>4, <2>6, <2>8
    <3> QED BY <2>2, <2>3, <2>5, <2>8, <3>1
  <2> QED BY <2>7, <2>8
<1> QED BY <1>2, <1>3, <1>4 DEF TablesTold

\* A new hart takes the view that its id names now, and the configuration.
LEMMA HartLineKeepsTables ==
  ASSUME TypeOK, TablesTyped, TablesTold, NEW c, Carried(c), c.do = "new",
         c.id \in Id, c.view \in Id, RvNew(c.id, c.view, c.known, c.room, "returns"),
         status # "crashed"
  PROVE  TablesTold'
<1> DEFINE view == At(cpuMemoryViews, c.view)
           n == SizeFor(harts, c.id)
<1>1. /\ c.id < n /\ harts' = Put(harts, c.id, NewHart(view))
      /\ UNCHANGED <<config, cpuMemoryViews>>
  BY DEF RvNew
<1>2. /\ c.id \in Nat /\ c.view \in Nat /\ Len(cpuMemoryViews) \in Nat /\ Len(harts) \in Nat
      /\ n \in Nat /\ Len(harts) <= n /\ (n <= Len(harts) \/ n = c.id + 1)
  BY SizeForIs DEF TypeOK, TablesTyped, Id
<1>3. /\ view = IF c.view < Len(cpuMemoryViews) THEN cpuMemoryViews[c.view + 1] ELSE Wild
      /\ view \in Nat \cup {Null, Wild}
  <2>1. c.view < Len(cpuMemoryViews) => cpuMemoryViews[c.view + 1] \in Nat \cup {Null}
    BY <1>2 DEF TypeOK
  <2> QED BY <2>1 DEF At
<1> HIDE DEF view
<1>4. /\ NewHart(view) \in HartObject /\ NewHart(view).memory = view
      /\ NewHart(view).debug = config.spikeDebug /\ NewHart(view).logCommits = config.spikeLogCommit
      /\ NewHart(view) # Null
  BY <1>3, ContextAssumption DEF NewHart, HartObject, TablesTyped
<1>5. /\ Len(harts') = n
      /\ \A k \in 1 .. n : harts'[k] =
           IF k = c.id + 1 THEN NewHart(view) ELSE IF k <= Len(harts) THEN harts[k] ELSE Null
  <2> DEFINE X == HartObject \cup {Null}
             new == Put(harts, c.id, NewHart(view))
  <2>1. /\ Null \in X /\ harts \in Seq(X) /\ NewHart(view) \in X /\ Len(harts) <= U32
        /\ c.id < SizeFor(harts, c.id)
    BY <1>1, <1>4 DEF TablesTyped
  <2> HIDE DEF X
  <2>2. /\ Len(new) = SizeFor(harts, c.id)
        /\ \A k \in 1 .. SizeFor(harts, c.id) : new[k] =
             IF k = c.id + 1 THEN NewHart(view)
             ELSE IF k <= Len(harts) THEN harts[k] ELSE Null
    <3> HIDE DEF new
    <3> QED BY <2>1, PutIs DEF new
  <2> QED BY <1>1, <2>2
<1> HIDE DEF n
<1>6. \A k \in Made(harts') :
        \/ k = c.id + 1 /\ harts'[k] = NewHart(view)
        \/ k # c.id + 1 /\ k \in Made(harts) /\ harts'[k] = harts[k]
  BY <1>2, <1>5 DEF Made
<1>7. ViewsAsTold'
  BY <1>1, ViewsKept
<1>8. HartsFollowConfig'
  BY <1>1, <1>4, <1>6 DEF TablesTold, HartsFollowConfig
<1>9. HartsKeepTheirView'
  <2> SUFFICES ASSUME Told', NEW k \in Made(harts')
               PROVE  KeepsView(trace', lineId', k, harts'[k].memory)
    BY KeepsViewIs
  <2>1. /\ Told /\ Complete(trace'[lineId]) /\ c = trace'[lineId] /\ lineId' = lineId + 1
        /\ lineId \in Nat \ {0} /\ \A j \in 1 .. (lineId - 1) : trace'[j] = trace[j]
    BY ToldBefore, CarriedPast DEF Carried, Past
  <2>2. CASE k # c.id + 1
    <3>1. KeepsView(trace, lineId, k, harts[k].memory) /\ harts'[k] = harts[k]
      BY <1>6, <2>1, <2>2, KeepsViewIs DEF TablesTold
    <3>2. k - 1 # c.id
      <4>1. k \in Nat
        BY <1>2, <1>5 DEF Made
      <4> QED BY <1>2, <2>2, <4>1
    <3> QED BY <2>1, <3>1, <3>2, KeepsViewLater
  <2>3. CASE k = c.id + 1
    <3>1. k - 1 = c.id /\ harts'[k].memory = view
      BY <1>2, <1>4, <1>6, <2>3
    <3>2. LastOf(HartLines(trace', k - 1, lineId + 1)) = lineId
      BY <2>1, <3>1, NextLines
    <3>3. ViewLines(trace', c.view, lineId) = ViewLines(trace, c.view, lineId)
      BY <2>1, LinesKept
    <3>4. LastOf(ViewLines(trace', c.view, lineId)) = ViewLine(c.view, lineId)
      BY <3>3, LinesAre
    <3>5. view = ViewLine(c.view, lineId) \/ (ViewLine(c.view, lineId) = Null /\ view = Wild)
      BY <1>3, <2>1 DEF TablesTold, ViewsAsTold
    <3>6. lineId # Null
      BY <2>1, NullIsNoLine
    <3> QED BY <2>1, <3>1, <3>2, <3>4, <3>5, <3>6 DEF KeepsView
  <2> QED BY <2>2, <2>3
<1>10. HartsAsTold'
  <2> SUFFICES ASSUME Told'
               PROVE  /\ (\A id \in Id : HartLine(id, lineId) # Null =>
                            id < Len(harts) /\ harts[id + 1] # Null)'
                      /\ (\A k \in 1 .. Len(harts) :
                            \E j \in Past : trace[j].do = "new" /\ k - 1 <= trace[j].id)'
    BY DEF HartsAsTold
  <2>1. Told /\ Complete(trace'[lineId]) /\ c = trace'[lineId]
    BY ToldBefore
  <2>2. \A id : HartLine(id, lineId)' = IF c.id = id THEN lineId ELSE HartLine(id, lineId)
    BY <2>1, CarriedLines
  <2>3. /\ \A id \in Id : HartLine(id, lineId) # Null =>
             id < Len(harts) /\ harts[id + 1] # Null
        /\ \A k \in 1 .. Len(harts) : \E j \in Past : trace[j].do = "new" /\ k - 1 <= trace[j].id
    BY <2>1 DEF TablesTold, HartsAsTold
  <2>4. ASSUME NEW id \in Id, HartLine(id, lineId)' # Null
        PROVE  id < Len(harts') /\ harts'[id + 1] # Null
    <3>1. id \in Nat
      BY DEF Id
    <3>2. CASE id = c.id
      BY <1>1, <1>2, <1>4, <1>5, <3>1, <3>2 DEF n
    <3>3. CASE id # c.id
      <4>1. id < Len(harts) /\ harts[id + 1] # Null
        BY <2>2, <2>3, <2>4, <3>3
      <4> QED BY <1>2, <1>5, <3>1, <3>3, <4>1
    <3> QED BY <3>2, <3>3
  <2>5. ASSUME NEW k \in 1 .. Len(harts')
        PROVE  \E j \in Past' : trace'[j].do = "new" /\ k - 1 <= trace'[j].id
    <3>1. CASE k <= Len(harts)
      <4>1. PICK j \in Past : trace[j].do = "new" /\ k - 1 <= trace[j].id
        BY <1>2, <2>3, <3>1, <1>5
      <4> QED BY <4>1, CarriedPast
    <3>2. CASE ~(k <= Len(harts))
      <4>1. k - 1 <= c.id
        BY <1>2, <1>5, <3>2
      <4> QED BY <2>1, <4>1, CarriedPast
    <3> QED BY <3>1, <3>2
  <2> QED BY <2>4, <2>5 DEF Id
<1> QED BY <1>7, <1>8, <1>9, <1>10 DEF TablesTold

\* The switches of Spike's logs, turned on every hart.
LEMMA SwitchKeepsTables ==
  ASSUME TypeOK, TablesTyped, TablesTold, NEW c \in Switch, Carried(c), UNCHANGED cpuMemoryViews,
         harts' = [k \in 1 .. Len(harts) |-> Switched(harts[k], c.do, c.enable)],
         Made(harts) = 1 .. Len(harts),
         config' = [config EXCEPT ![c.do] = c.enable], status # "crashed"
  PROVE  TablesTold'
<1>1. c.do \in {"spikeDebug", "spikeLogCommit"} /\ c.enable \in BOOLEAN
  BY DEF Switch
<1>2. \A k \in 1 .. Len(harts) : harts[k] \in HartObject
  BY DEF TablesTyped, Made
<1>3. ASSUME NEW h \in HartObject
      PROVE  /\ Switched(h, c.do, c.enable) \in HartObject
             /\ Switched(h, c.do, c.enable).memory = h.memory
             /\ Switched(h, c.do, c.enable).debug = IF c.do = "spikeDebug" THEN c.enable ELSE h.debug
             /\ Switched(h, c.do, c.enable).logCommits =
                  IF c.do = "spikeLogCommit" THEN c.enable ELSE h.logCommits
  <2>1. CASE c.do = "spikeDebug"
    BY <1>1, <2>1 DEF Switched, HartObject
  <2>2. CASE c.do = "spikeLogCommit"
    BY <1>1, <2>2 DEF Switched, HartObject
  <2> QED BY <1>1, <2>1, <2>2
<1>4. Len(harts) \in Nat /\ Len(harts') = Len(harts)
  BY DEF TablesTyped
<1>5. \A k \in 1 .. Len(harts) : harts'[k] = Switched(harts[k], c.do, c.enable)
  OBVIOUS
<1>6. Made(harts') = Made(harts)
  BY <1>2, <1>3, <1>4, <1>5, ContextAssumption DEF Made
<1>7. \A k \in Made(harts) : harts'[k].memory = harts[k].memory
  BY <1>2, <1>3, <1>5
<1>8. ViewsAsTold' /\ HartsAsTold' /\ HartsKeepTheirView'
  BY <1>1, <1>4, <1>6, <1>7, ViewsKept, HartsKept
<1>9. HartsFollowConfig'
  <2>1. /\ config'.spikeDebug = IF c.do = "spikeDebug" THEN c.enable ELSE config.spikeDebug
        /\ config'.spikeLogCommit = IF c.do = "spikeLogCommit" THEN c.enable ELSE config.spikeLogCommit
    BY <1>1 DEF TablesTyped
  <2> SUFFICES ASSUME NEW k \in Made(harts')
               PROVE  /\ harts'[k].debug = config'.spikeDebug
                      /\ harts'[k].logCommits = config'.spikeLogCommit
    BY DEF HartsFollowConfig
  <2>2. harts[k].debug = config.spikeDebug /\ harts[k].logCommits = config.spikeLogCommit
    BY <1>6 DEF TablesTold, HartsFollowConfig
  <2>3. k \in 1 .. Len(harts)
    BY <1>6
  <2> QED BY <1>2, <1>3, <1>5, <2>1, <2>2, <2>3
<1> QED BY <1>8, <1>9 DEF TablesTold

-----------------------------------------------------------------------------
(***************************************************************************)
(* The types.                                                              *)
(***************************************************************************)

TablesShape ==
  /\ cpuMemoryViews \in Seq(Nat \cup {Null}) /\ Len(cpuMemoryViews) <= U32
  /\ harts \in Seq(HartObject \cup {Null}) /\ Len(harts) <= U32
  /\ config \in [spikeDebug : BOOLEAN, spikeLogCommit : BOOLEAN]
  /\ time \in Times /\ closes \in Nat

LEMMA ShapeIs == TypeOK /\ TablesTyped => TablesShape
BY DEF TypeOK, TablesTyped, TablesShape

LEMMA PerformShape ==
  ASSUME TypeOK, TablesShape, NEW c \in Command, Complete(c), NEW outcome \in Outcomes,
         Perform(c, outcome)
  PROVE  TablesShape'
<1>1. /\ c.do \in {"memview", "new"} => c.id \in Id
      /\ c.do = "new" => c.view \in Id
      /\ c.do = "time" => c.value \in Times
  BY DEF Complete
<1>2. UNCHANGED <<config, closes>>
  BY PerformIs
<1>3. time' \in Times
  BY <1>1, PerformIs DEF SetTime, TablesShape
<1>4. cpuMemoryViews' \in Seq(Nat \cup {Null}) /\ Len(cpuMemoryViews') <= U32
  <2>1. CASE c.do = "memview" /\ outcome = "returns"
    <3> DEFINE X == Nat \cup {Null}
               new == Put(cpuMemoryViews, c.id, lineId)
    <3>1. cpuMemoryViews' = new /\ c.id < SizeFor(cpuMemoryViews, c.id)
      BY <2>1, PerformIs DEF CpuMemoryViewNew
    <3>2. Null \in X /\ lineId \in X /\ cpuMemoryViews \in Seq(X) /\ Len(cpuMemoryViews) <= U32
      BY DEF TypeOK, TablesShape
    <3> HIDE DEF X
    <3>3. new \in Seq(X) /\ Len(new) = SizeFor(cpuMemoryViews, c.id)
      <4> HIDE DEF new
      <4> QED BY <1>1, <2>1, <3>1, <3>2, PutIs DEF new
    <3>4. SizeFor(cpuMemoryViews, c.id) <= U32
      BY <1>1, <2>1, <3>2, SizeForIs
    <3> QED BY <3>1, <3>3, <3>4 DEF X
  <2>2. CASE c.do = "memview" /\ cpuMemoryViews' = Grown(cpuMemoryViews, c.id)
    <3> DEFINE X == Nat \cup {Null}
    <3>1. Null \in X /\ cpuMemoryViews \in Seq(X) /\ Len(cpuMemoryViews) <= U32
      BY DEF TablesShape
    <3> HIDE DEF X
    <3>2. cpuMemoryViews' \in Seq(X) /\ Len(cpuMemoryViews') <= U32
      BY <1>1, <2>2, <3>1, GrownIs
    <3> QED BY <3>2 DEF X
  <2>3. CASE UNCHANGED cpuMemoryViews
    BY <2>3 DEF TablesShape
  <2> QED BY <2>1, <2>2, <2>3, PerformIs DEF CpuMemoryViewNew
<1>5. harts' \in Seq(HartObject \cup {Null}) /\ Len(harts') <= U32
  <2>1. CASE c.do = "new" /\ outcome = "returns"
    <3> DEFINE X == HartObject \cup {Null}
               hart == NewHart(At(cpuMemoryViews, c.view))
               new == Put(harts, c.id, hart)
    <3>1. harts' = new /\ c.id < SizeFor(harts, c.id)
      BY <2>1, PerformIs DEF RvNew
    <3>2. At(cpuMemoryViews, c.view) \in Nat \cup {Null, Wild}
      <4>1. c.view \in Nat
        BY <1>1, <2>1 DEF Id
      <4> QED BY <4>1 DEF At, TablesShape
    <3>3. Null \in X /\ hart \in X /\ harts \in Seq(X) /\ Len(harts) <= U32
      BY <3>2 DEF TablesShape, NewHart, HartObject
    <3> HIDE DEF X, hart
    <3>4. new \in Seq(X) /\ Len(new) = SizeFor(harts, c.id)
      <4> HIDE DEF new
      <4> QED BY <1>1, <2>1, <3>1, <3>3, PutIs DEF new
    <3>5. SizeFor(harts, c.id) <= U32
      BY <1>1, <2>1, <3>3, SizeForIs
    <3> QED BY <3>1, <3>4, <3>5 DEF X
  <2>2. CASE ~(c.do = "new" /\ outcome = "returns")
    BY <2>2, PerformIs DEF TablesShape
  <2> QED BY <2>1, <2>2
<1> QED BY <1>2, <1>3, <1>4, <1>5 DEF TablesShape

\* The harts that Context::close counts are as many as a number can say.
LEMMA CloseShape ==
  ASSUME TablesShape, Close
  PROVE  TablesShape'
<1>1. Cardinality(Made(harts)) \in Nat
  <2>1. Len(harts) \in Nat
    BY DEF TablesShape
  <2>2. IsFiniteSet(1 .. Len(harts))
    BY <2>1, FS_Interval
  <2>3. Made(harts) \subseteq 1 .. Len(harts)
    BY DEF Made
  <2>4. IsFiniteSet(Made(harts))
    BY <2>2, <2>3, FS_Subset
  <2> QED BY <2>4, FS_CardinalityType
<1> QED BY <1>1 DEF TablesShape, Close

LEMMA TypesKept ==
  ASSUME TypeOK, TablesTyped, Next
  PROVE  TypeOK' /\ TablesTyped'
<1>1. TablesShape
  BY ShapeIs
<1>2. /\ frontend' = frontend /\ frontend \in {"ascii", "jni"}
      /\ lineId \in 1 .. (Len(trace) + 1) /\ trace \in Seq(Command \cup Switch)
      /\ Len(trace) \in Nat
  BY DEF Next, CheckFile, Jni, Line, Catch, EndOfFile, SwitchCall, Call, DeleteContext, TypeOK
<1> DEFINE TraceShape ==
             /\ trace' \in Seq(Command \cup Switch) /\ lineId' \in 1 .. (Len(trace') + 1)
             /\ frontend' = "ascii" => trace' \in Seq(Command)
             /\ frontend' = "jni" => lineId' = Len(trace') + 1 /\ status' # "throwing"
<1>3. ASSUME TablesShape', TraceShape
      PROVE  TypeOK' /\ TablesTyped'
  <2>1. \A k \in Made(harts') : harts'[k].memory \in Nat \cup {Null, Wild}
    BY <1>3 DEF TablesShape, Made, HartObject
  <2> QED BY <1>2, <1>3, <2>1 DEF TypeOK, TablesTyped, TablesShape
<1>4. CASE Line
  <2>1. /\ frontend = "ascii" /\ lineId \in 1 .. Len(trace) /\ trace' = trace
        /\ lineId' \in {lineId, lineId + 1} /\ trace[lineId] \in Command
    BY <1>2, <1>4 DEF Line, TablesTyped
  <2>2. PICK c \in Readings(trace[lineId]), outcome \in Outcomes : Perform(c, outcome)
    BY <1>4 DEF Line, Outcomes
  <2>3. TablesShape'
    BY <1>1, <2>1, <2>2, ReadingsAre, PerformShape
  <2>4. TraceShape
    BY <1>2, <2>1 DEF TablesTyped
  <2> QED BY <1>3, <2>3, <2>4
<1>5. CASE Catch \/ EndOfFile
  <2>1. TablesShape'
    BY <1>1, <1>5, CloseShape DEF Catch, EndOfFile
  <2>2. frontend = "ascii" /\ trace' = trace /\ lineId' = lineId
    BY <1>5 DEF Catch, EndOfFile
  <2> QED BY <1>2, <1>3, <2>1, <2>2 DEF TablesTyped
<1>6. CASE DeleteContext
  <2>1. TablesShape'
    BY <1>1, <1>6 DEF DeleteContext, TablesShape, contextVars
  <2> QED BY <1>2, <1>3, <1>6, <2>1 DEF DeleteContext, TablesTyped
<1>7. ASSUME NEW c \in Calls, Call(c) \/ SwitchCall(c)
      PROVE  TraceShape /\ c \in Command \cup Switch /\ Complete(c)
  <2>1. frontend = "jni" /\ trace' = Append(trace, c) /\ lineId' = lineId + 1
    BY <1>7 DEF Call, SwitchCall, Calling
  <2>2. status' # "throwing"
    BY <1>7 DEF Call, SwitchCall, Calling, Outcomes
  <2>3. /\ c \in Command \cup Switch /\ Complete(c)
        /\ lineId = Len(trace) + 1 /\ Len(trace') = lineId
        /\ trace' \in Seq(Command \cup Switch)
    BY <2>1, AppendedCall
  <2> QED BY <1>2, <2>1, <2>2, <2>3
<1>8. ASSUME NEW c \in Calls, Call(c)
      PROVE  TypeOK' /\ TablesTyped'
  <2>1. c \in Command /\ Complete(c)
    BY <1>7, <1>8, CommandShape DEF Call
  <2>2. PICK outcome \in Outcomes : Perform(c, outcome)
    BY <1>8 DEF Call, Outcomes
  <2>3. TablesShape'
    BY <1>1, <2>1, <2>2, PerformShape
  <2> QED BY <1>3, <1>7, <1>8, <2>3
<1>9. ASSUME NEW c \in Calls, SwitchCall(c)
      PROVE  TypeOK' /\ TablesTyped'
  <2>1. c \in Switch /\ c.enable \in BOOLEAN /\ c.do \in {"spikeDebug", "spikeLogCommit"}
    BY <1>7, <1>9, CommandShape DEF SwitchCall, Switch
  <2>2. config' \in [spikeDebug : BOOLEAN, spikeLogCommit : BOOLEAN]
    BY <1>1, <1>9, <2>1 DEF SwitchCall, TablesShape
  <2>3. harts' \in Seq(HartObject \cup {Null}) /\ Len(harts') <= U32
    <3>1. CASE UNCHANGED harts
      BY <1>1, <3>1 DEF TablesShape
    <3>2. CASE /\ Made(harts) = 1 .. Len(harts)
               /\ harts' = [k \in 1 .. Len(harts) |-> Switched(harts[k], c.do, c.enable)]
      <4>1. Len(harts) \in Nat /\ Len(harts) <= U32
        BY <1>1 DEF TablesShape
      <4>2. \A k \in 1 .. Len(harts) : harts[k] \in HartObject
        BY <1>1, <3>2 DEF TablesShape, Made
      <4>3. \A h \in HartObject : Switched(h, c.do, c.enable) \in HartObject
        BY <2>1 DEF Switched, HartObject
      <4>4. \A k \in 1 .. Len(harts) :
              Switched(harts[k], c.do, c.enable) \in HartObject \cup {Null}
        BY <4>2, <4>3
      <4> DEFINE X == HartObject \cup {Null}
      <4> HIDE DEF X
      <4>5. harts' \in [1 .. Len(harts) -> X]
        BY <3>2, <4>4 DEF X
      <4>6. harts' \in Seq(X) /\ Len(harts') = Len(harts)
        BY <4>1, <4>5
      <4> QED BY <4>1, <4>6 DEF X
    <3> QED BY <1>9, <3>1, <3>2 DEF SwitchCall
  <2>4. TablesShape'
    BY <1>1, <1>9, <2>2, <2>3 DEF SwitchCall, TablesShape
  <2> QED BY <1>3, <1>7, <1>9, <2>4
<1> QED BY <1>4, <1>5, <1>6, <1>8, <1>9 DEF Next, CheckFile, Jni

-----------------------------------------------------------------------------
(***************************************************************************)
(* The tables, over all steps.                                             *)
(***************************************************************************)

LEMMA TablesKept ==
  ASSUME TypeOK, TablesTyped, TablesTold, Next
  PROVE  TablesTold'
<1>1. status # "crashed"
  BY DEF Next, CheckFile, Jni, Line, Catch, EndOfFile, SwitchCall, Call, DeleteContext, Calling
<1>2. CASE status' = "crashed"
  BY <1>2, KeepsViewIs DEF TablesTold, ViewsAsTold, HartsAsTold, HartsFollowConfig, Told
<1>3. CASE status' # "crashed"
  <2>1. TableStep
    BY <1>3, LineIsTableStep, CallIsTableStep, SwitchIsTableStep, OtherIsTableStep
       DEF Next, CheckFile, Jni, TableStep
  <2>2. CASE Stays /\ UNCHANGED Tables
    BY <1>1, <2>2, StaysKeepsTables
  <2>7. ASSUME Stays, UNCHANGED <<config, harts>>, NEW id \in Id,
               cpuMemoryViews' = Grown(cpuMemoryViews, id)
        PROVE  TablesTold'
    BY <1>1, <2>7, GrownKeepsTables
  <2>3. ASSUME NEW c, Carried(c), c.do \notin {"memview", "new"}, UNCHANGED Tables
        PROVE  TablesTold'
    BY <1>1, <2>3, OtherLineKeepsTables
  <2>4. ASSUME NEW c, Carried(c), c.do = "memview", c.id \in Id,
               CpuMemoryViewNew(c.id, c.room, lineId, "returns")
        PROVE  TablesTold'
    BY <1>1, <2>4, ViewLineKeepsTables
  <2>5. ASSUME NEW c, Carried(c), c.do = "new", c.id \in Id, c.view \in Id,
               RvNew(c.id, c.view, c.known, c.room, "returns")
        PROVE  TablesTold'
    BY <1>1, <2>5, HartLineKeepsTables
  <2>6. ASSUME NEW c, Carried(c), c \in Switch, UNCHANGED cpuMemoryViews,
               Made(harts) = 1 .. Len(harts),
               harts' = [k \in 1 .. Len(harts) |-> Switched(harts[k], c.do, c.enable)],
               config' = [config EXCEPT ![c.do] = c.enable]
        PROVE  TablesTold'
    BY <1>1, <2>6, SwitchKeepsTables
  <2> QED BY <2>1, <2>2, <2>3, <2>4, <2>5, <2>6, <2>7 DEF TableStep
<1> QED BY <1>2, <1>3

-----------------------------------------------------------------------------
(***************************************************************************)
(* No well declared command meets a pointer that points nowhere.           *)
(***************************************************************************)

\* What WellDeclared says of the lines up to now, and of the line that follows.
Declared(line) ==
  /\ Complete(line)
  /\ line.do \in {"memview", "new"} => line.id + 1 < U32
  /\ line.do = "new" => line.known /\ ViewLine(line.view, lineId) # Null
  /\ line.do = "use" => HartLine(line.id, lineId) # Null
  /\ line.do \in {"spikeDebug", "spikeLogCommit"} =>
       \A j \in Past : trace[j].do = "new" => \A id \in 0 .. trace[j].id : HartLine(id, lineId) # Null
PastDeclared ==
  \A j \in Past :
    Complete(trace[j]) /\ (trace[j].do = "new" => LastOf(ViewLines(trace, trace[j].view, j)) # Null)

LEMMA DeclaredSoFar ==
  ASSUME TypeOK, WellDeclared', lineId \in 1 .. Len(trace'), Len(trace') \in Nat,
         \A j \in Past : trace'[j] = trace[j]
  PROVE  Declared(trace'[lineId]) /\ PastDeclared
<1>1. lineId \in Nat \ {0} /\ \A j \in 1 .. (lineId - 1) : trace'[j] = trace[j]
  BY DEF TypeOK, Past
<1>2. \A k \in 1 .. Len(trace') :
        /\ Complete(trace'[k])
        /\ trace'[k].do \in {"memview", "new"} => trace'[k].id + 1 < U32
        /\ trace'[k].do = "new" =>
             trace'[k].known /\ LastOf(ViewLines(trace', trace'[k].view, k)) # Null
        /\ trace'[k].do = "use" => LastOf(HartLines(trace', trace'[k].id, k)) # Null
        /\ trace'[k].do \in {"spikeDebug", "spikeLogCommit"} =>
             \A j \in 1 .. (k - 1) : trace'[j].do = "new" =>
               \A id \in 0 .. trace'[j].id : LastOf(HartLines(trace', id, k)) # Null
  BY DEF WellDeclared, Complete, ViewLine, HartLine, ViewLines, HartLines, LastOf
<1>3. \A k \in 0 .. lineId :
        /\ \A id : ViewLines(trace', id, k) = ViewLines(trace, id, k)
        /\ \A id : HartLines(trace', id, k) = HartLines(trace, id, k)
  BY <1>1, LinesKept
<1>4. lineId \in 0 .. lineId /\ Past \subseteq 1 .. Len(trace') /\ Past \subseteq 0 .. lineId
      /\ Past = 1 .. (lineId - 1)
  BY <1>1 DEF Past
<1>5. Declared(trace'[lineId])
  <2> DEFINE line == trace'[lineId]
  <2>1. /\ Complete(line)
        /\ line.do \in {"memview", "new"} => line.id + 1 < U32
        /\ line.do = "new" => line.known /\ LastOf(ViewLines(trace', line.view, lineId)) # Null
        /\ line.do = "use" => LastOf(HartLines(trace', line.id, lineId)) # Null
        /\ line.do \in {"spikeDebug", "spikeLogCommit"} =>
             \A j \in Past : trace'[j].do = "new" =>
               \A id \in 0 .. trace'[j].id : LastOf(HartLines(trace', id, lineId)) # Null
    BY <1>2, <1>4
  <2> HIDE DEF line
  <2>2. Declared(line)
    BY <1>3, <1>4, <2>1, LinesAre DEF Declared
  <2> QED BY <2>2 DEF line
<1>6. PastDeclared
  <2> SUFFICES ASSUME NEW j \in Past
               PROVE  Complete(trace[j]) /\
                      (trace[j].do = "new" => LastOf(ViewLines(trace, trace[j].view, j)) # Null)
    BY DEF PastDeclared
  <2>1. trace'[j] = trace[j] /\ j \in 1 .. Len(trace') /\ j \in 0 .. lineId
    BY <1>4
  <2> QED BY <1>2, <1>3, <2>1
<1> QED BY <1>5, <1>6

\* A hart that was made, and whose view was, can be reached.
LEMMA DeclaredHartIsReached ==
  ASSUME TypeOK, TablesTyped, TablesTold, Told, PastDeclared, NEW id \in Id,
         HartLine(id, lineId) # Null
  PROVE  /\ At(harts, id) \notin {Null, Wild}
         /\ At(harts, id).memory \notin {Null, Wild}
<1> DEFINE made == LastOf(HartLines(trace, id, lineId))
           view == LastOf(ViewLines(trace, trace[made].view, made))
<1>1. id \in Nat /\ id < Len(harts) /\ harts[id + 1] # Null /\ Len(harts) \in Nat
  BY DEF TablesTold, HartsAsTold, Id, TablesTyped
<1>2. id + 1 \in Made(harts) /\ (id + 1) - 1 = id /\ At(harts, id) = harts[id + 1]
  BY <1>1 DEF Made, At
<1>3. harts[id + 1] \in HartObject
  BY <1>1, <1>2 DEF TablesTyped, Made
<1>4. KeepsView(trace, lineId, id + 1, harts[id + 1].memory)
  BY <1>2, KeepsViewIs DEF TablesTold
<1>5. made # Null /\ (harts[id + 1].memory = view
                       \/ (view = Null /\ harts[id + 1].memory \in {Null, Wild}))
  BY <1>2, <1>4 DEF KeepsView
<1>6. lineId - 1 \in Nat /\ HartLines(trace, id, lineId) \in SUBSET (1 .. (lineId - 1))
  BY DEF TypeOK, HartLines
<1>7. made \in HartLines(trace, id, lineId)
  BY <1>5, <1>6, LastOfIs
<1>8. made \in Past /\ made \in Nat \ {0} /\ trace[made].do = "new"
  BY <1>6, <1>7 DEF HartLines, Past
<1>9. view # Null
  BY <1>8 DEF PastDeclared
<1> DEFINE L == ViewLines(trace, trace[made].view, made)
<1>10. L \in SUBSET (1 .. (made - 1)) /\ made - 1 \in Nat
  <2> HIDE DEF made
  <2> QED BY <1>8 DEF ViewLines
<1>11. view \in Nat
  <2> HIDE DEF L, made
  <2>1. LastOf(L) \in L
    BY <1>9, <1>10, LastOfIs DEF L
  <2> QED BY <1>10, <2>1 DEF L
<1> HIDE DEF made, view
<1>12. harts[id + 1].memory \in Nat
  BY <1>5, <1>9, <1>11
<1> QED BY <1>2, <1>3, <1>12, ContextAssumption

LEMMA DeclaredPerformReturns ==
  ASSUME TypeOK, TablesTyped, TablesTold, Told, PastDeclared, NEW c \in Command, Declared(c),
         c.do = "use" => "crashes" \notin c.may
  PROVE  ~Perform(c, "crashes")
<1> SUFFICES ASSUME Perform(c, "crashes")
             PROVE  FALSE
  OBVIOUS
<1>1. /\ c.do \in {"memview", "new", "use"} => c.id \in Id
      /\ c.do = "new" => c.view \in Id
  BY DEF Declared, Complete
<1>2. CASE c.do = "memview"
  <2>1. c.id < SizeFor(cpuMemoryViews, c.id)
    BY <1>1, <1>2, SizeForIs DEF Declared, TypeOK, TablesTyped
  <2>2. CpuMemoryViewNew(c.id, c.room, lineId, "crashes")
    BY <1>2 DEF Perform
  <2> QED BY <2>1, <2>2 DEF CpuMemoryViewNew
<1>3. CASE c.do = "new"
  <2>1. c.id < SizeFor(harts, c.id) /\ c.known
    BY <1>1, <1>3, SizeForIs DEF Declared, TablesTyped
  <2>2. At(cpuMemoryViews, c.view) \in Nat
    <3>1. ViewLine(c.view, lineId) # Null
      BY <1>3 DEF Declared
    <3>2. c.view < Len(cpuMemoryViews) /\ cpuMemoryViews[c.view + 1] # Null
      BY <1>1, <1>3, <3>1 DEF TablesTold, ViewsAsTold
    <3>3. c.view + 1 \in 1 .. Len(cpuMemoryViews)
      BY <1>1, <1>3, <3>2 DEF Id, TypeOK
    <3> QED BY <3>2, <3>3 DEF At, TypeOK
  <2>3. RvNew(c.id, c.view, c.known, c.room, "crashes")
    BY <1>3 DEF Perform
  <2> QED BY <2>1, <2>2, <2>3, ContextAssumption DEF RvNew
<1>4. CASE c.do = "use"
  <2>1. /\ At(harts, c.id) \notin {Null, Wild}
        /\ At(harts, c.id).memory \notin {Null, Wild}
    BY <1>1, <1>4, DeclaredHartIsReached DEF Declared
  <2>2. c.needs \in {"nothing", "hart", "view"}
    BY <1>4, CommandShape
  <2>3. Reached(c.needs, c.id)
    BY <2>1, <2>2 DEF Reached
  <2>4. Use(c.needs, c.may, c.id, "crashes")
    BY <1>4 DEF Perform
  <2> QED BY <1>4, <2>1, <2>3, <2>4 DEF Use
<1>5. CASE c.do \notin {"memview", "new", "use"}
  BY <1>5, CommandShape DEF Perform, SetTime, LoadFile, Unknown
<1> QED BY <1>2, <1>3, <1>4, <1>5

\* A simulation that switches the logs has made the harts without a gap.
LEMMA DeclaredTableHasNoGap ==
  ASSUME TypeOK, TablesTyped, TablesTold, Told, NEW c \in Switch, Declared(c)
  PROVE  Made(harts) = 1 .. Len(harts)
<1> SUFFICES ASSUME NEW k \in 1 .. Len(harts)
             PROVE  harts[k] # Null
  BY DEF Made
<1>1. PICK j \in Past : trace[j].do = "new" /\ k - 1 <= trace[j].id
  BY DEF TablesTold, HartsAsTold
<1>2. trace[j].id \in Id
  BY <1>1 DEF Told, Complete
<1>3. k - 1 \in 0 .. trace[j].id /\ k - 1 \in Id /\ (k - 1) + 1 = k
  BY <1>1, <1>2, ContextAssumption DEF Id, TablesTyped
<1>4. HartLine(k - 1, lineId) # Null
  BY <1>1, <1>3 DEF Declared, Switch
<1> QED BY <1>3, <1>4 DEF TablesTold, HartsAsTold

LEMMA DeclaredStepReturns ==
  ASSUME TypeOK, TablesTyped, TablesTold, Next, WellDeclared', CommitsLoadsOnce'
  PROVE  status' # "crashed"
<1>1. ASSUME \A j \in Past : trace'[j] = trace[j], lineId \in 1 .. Len(trace'),
             Len(trace') \in Nat, status = "running"
      PROVE  /\ Declared(trace'[lineId]) /\ PastDeclared /\ Told
             /\ trace'[lineId].do = "use" => "crashes" \notin trace'[lineId].may
  BY <1>1, DeclaredSoFar DEF PastDeclared, Told, CommitsLoadsOnce
<1>2. CASE Line
  <2>1. /\ trace' = trace /\ lineId \in 1 .. Len(trace) /\ trace[lineId] \in Command
        /\ status = "running" /\ Len(trace) \in Nat
    BY <1>2 DEF Line, TypeOK, TablesTyped
  <2>2. /\ Declared(trace[lineId]) /\ PastDeclared /\ Told
        /\ trace[lineId].do = "use" => "crashes" \notin trace[lineId].may
    BY <1>1, <2>1
  <2>3. PICK c \in Readings(trace[lineId]), outcome \in Outcomes :
          Perform(c, outcome) /\ (outcome # "crashes" => status' # "crashed")
    BY <1>2 DEF Line, Outcomes
  <2>4. c = trace[lineId]
    BY <2>1, <2>2, <2>3, ReadingsAre DEF Declared
  <2> QED BY <2>1, <2>2, <2>3, <2>4, DeclaredPerformReturns
<1>3. ASSUME NEW c \in Calls, Call(c) \/ SwitchCall(c)
      PROVE  /\ c \in Command \cup Switch /\ Declared(c) /\ PastDeclared /\ Told
             /\ c.do = "use" => "crashes" \notin c.may
  <2>1. frontend = "jni" /\ trace' = Append(trace, c) /\ status = "running"
    BY <1>3 DEF Call, SwitchCall, Calling
  <2>2. /\ c \in Command \cup Switch /\ Len(trace') = lineId /\ trace'[lineId] = c
        /\ \A j \in Past : trace'[j] = trace[j]
    BY <2>1, AppendedCall
  <2>3. lineId \in 1 .. Len(trace') /\ Len(trace') \in Nat
    BY <2>2 DEF TypeOK
  <2> QED BY <1>1, <2>1, <2>2, <2>3
<1>4. ASSUME NEW c \in Calls, Call(c)
      PROVE  status' # "crashed"
  <2>1. c \in Command
    BY <1>3, <1>4, CommandShape DEF Call
  <2>2. PICK outcome \in Outcomes :
          Perform(c, outcome) /\ (outcome # "crashes" => status' # "crashed")
    BY <1>4 DEF Call, Outcomes
  <2> QED BY <1>3, <1>4, <2>1, <2>2, DeclaredPerformReturns
<1>5. ASSUME NEW c \in Calls, SwitchCall(c)
      PROVE  status' # "crashed"
  <2>1. c \in Switch
    BY <1>3, <1>5, CommandShape DEF SwitchCall
  <2>2. Made(harts) = 1 .. Len(harts)
    BY <1>3, <1>5, <2>1, DeclaredTableHasNoGap
  <2> QED BY <1>5, <2>2 DEF SwitchCall, Calling
<1>6. CASE Catch \/ EndOfFile \/ DeleteContext
  BY <1>6, OtherIsTableStep
<1> QED BY <1>2, <1>4, <1>5, <1>6 DEF Next, CheckFile, Jni

-----------------------------------------------------------------------------
(***************************************************************************)
(* The verdict of checkFile.                                               *)
(***************************************************************************)

\* One turn of the loop, from the line as it stands in the file.
LEMMA LineIs ==
  ASSUME TypeOK, TablesTyped, Line
  PROVE  /\ lineId \in 1 .. Len(trace) /\ trace' = trace /\ report' = report
         /\ frontend = "ascii" /\ frontend' = frontend
         /\ status' \in {"running", "throwing", "exited", "crashed", "hung"}
         /\ \/ lineId' = lineId + 1 /\ ~MustFail(trace[lineId]) /\ status' = "running"
            \/ lineId' = lineId /\ UNCHANGED time
         /\ status' = "throwing" => lineId' = lineId /\ MayThrow(trace[lineId])
         /\ trace[lineId].do # "time" => UNCHANGED time
         /\ trace[lineId].do = "time" =>
              trace[lineId].value \in {Cut, Unreadable} \/ time' = trace[lineId].value
<1>1. /\ lineId \in 1 .. Len(trace) /\ trace' = trace /\ trace[lineId] \in Command
      /\ frontend = "ascii" /\ report' = report /\ frontend' = frontend
  BY DEF Line, TypeOK, TablesTyped
<1>2. PICK c \in Readings(trace[lineId]), outcome \in Outcomes :
        /\ Perform(c, outcome)
        /\ lineId' = IF outcome = "returns" THEN lineId + 1 ELSE lineId
        /\ status' = CASE outcome = "returns" -> "running"
                       [] outcome = "throws"  -> "throwing"
                       [] outcome = "exits"   -> "exited"
                       [] outcome = "crashes" -> "crashed"
                       [] outcome = "hangs"   -> "hung"
  BY DEF Line, Outcomes
<1>3. /\ c \in Command /\ c.do = trace[lineId].do /\ (Complete(trace[lineId]) => c = trace[lineId])
      /\ c.do \in {"load", "unknown"} => c = trace[lineId]
      /\ c.do = "use" => c.may = trace[lineId].may
      /\ c.do \in {"memview", "new"} /\ trace[lineId].id \in Id =>
           c.id = trace[lineId].id /\ c.room = trace[lineId].room
      /\ c.do = "new" /\ trace[lineId].id \notin Id => ~c.known
      /\ Complete(c)
  BY <1>1, <1>2, ReadingsAre
<1>4. /\ MustFail(trace[lineId]) => MustFail(c)
      /\ MayThrow(c) => \/ MayThrow(trace[lineId])
                        \/ c.do = "new" /\ ~c.known
  BY <1>3 DEF MustFail, MayThrow
<1>5. /\ outcome = "returns" => ~MustFail(trace[lineId])
      /\ outcome = "throws" => MayThrow(trace[lineId])
      /\ c.do # "time" => UNCHANGED time
      /\ c.do = "time" => time' = c.value /\ outcome = "returns"
  BY <1>2, <1>3, <1>4, PerformIs DEF SetTime
<1>6. /\ outcome = "returns" => status' = "running" /\ lineId' = lineId + 1
      /\ outcome = "throws" => status' = "throwing" /\ lineId' = lineId
      /\ outcome = "exits" => status' = "exited" /\ lineId' = lineId
      /\ outcome = "crashes" => status' = "crashed" /\ lineId' = lineId
      /\ outcome = "hangs" => status' = "hung" /\ lineId' = lineId
  BY <1>2 DEF Outcomes
<1>7. trace[lineId].do = "time" =>
        trace[lineId].value \in {Cut, Unreadable} \/ c = trace[lineId]
  <2> SUFFICES ASSUME trace[lineId].do = "time", trace[lineId].value \notin {Cut, Unreadable}
               PROVE  c = trace[lineId]
    OBVIOUS
  <2>1. trace[lineId].value \in Times
    BY <1>1, CommandShape
  <2> QED BY <1>3, <2>1 DEF Complete
<1> QED BY <1>1, <1>3, <1>5, <1>6, <1>7 DEF Outcomes

LEMMA TimeKept ==
  ASSUME TypeOK, TablesTyped, TimeAsTold, Next
  PROVE  TimeAsTold'
<1>1. CASE frontend' # "ascii"
  BY <1>1 DEF TimeAsTold
<1>2. ASSUME frontend = "ascii", lineId' = lineId, trace' = trace, time' = time
      PROVE  TimeAsTold'
  BY <1>2 DEF TimeAsTold, TimeLine
<1>3. CASE Line /\ lineId' # lineId
  <2>1. lineId' = lineId + 1 /\ trace' = trace /\ frontend = "ascii" /\ lineId \in Nat \ {0}
    BY <1>3, LineIs DEF TypeOK
  <2>2. TimeLine(lineId)' = IF trace[lineId].do = "time" THEN lineId ELSE TimeLine(lineId)
    <3>1. TimeLine(lineId)' = LastOf(TimeLines(trace, lineId + 1))
      BY <2>1 DEF TimeLine, TimeLines, LastOf
    <3> QED BY <2>1, <3>1, NextLines, LinesAre
  <2>3. CASE trace[lineId].do = "time"
    <3>1. lineId # Null
      BY <2>1, NullIsNoLine
    <3> QED BY <1>3, <2>1, <2>2, <2>3, <3>1, LineIs DEF TimeAsTold
  <2>4. CASE trace[lineId].do # "time"
    <3>1. time' = time
      BY <1>3, <2>4, LineIs
    <3>2. TimeLine(lineId)' = TimeLine(lineId)
      BY <2>2, <2>4
    <3>3. LET stamp == TimeLine(lineId)
          IN  \/ stamp # Null /\ trace[stamp].value \in {Cut, Unreadable}
              \/ time = IF stamp = Null THEN Never ELSE trace[stamp].value
      BY <2>1 DEF TimeAsTold
    <3> QED BY <2>1, <3>1, <3>2, <3>3 DEF TimeAsTold
  <2> QED BY <2>3, <2>4
<1>4. CASE Line /\ lineId' = lineId
  BY <1>2, <1>4, LineIs
<1>5. CASE Catch \/ EndOfFile
  BY <1>2, <1>5 DEF Catch, EndOfFile, Close
<1>6. CASE Jni
  BY <1>1, <1>6 DEF Jni, SwitchCall, Call, Calling, DeleteContext
<1> QED BY <1>3, <1>4, <1>5, <1>6 DEF Next, CheckFile

LEMMA VerdictKept ==
  ASSUME TypeOK, TablesTyped, TimeAsTold, VerdictReady, VerdictSound, Next
  PROVE  VerdictReady' /\ VerdictSound'
<1>1. lineId \in 1 .. (Len(trace) + 1) /\ Len(trace) \in Nat
  BY DEF TypeOK
<1>2. CASE Line
  <2>1. /\ lineId \in 1 .. Len(trace) /\ trace' = trace /\ frontend = "ascii"
        /\ status' \in {"running", "throwing", "exited", "crashed", "hung"}
        /\ \/ lineId' = lineId + 1 /\ ~MustFail(trace[lineId])
           \/ lineId' = lineId
        /\ status' = "throwing" => lineId' = lineId /\ MayThrow(trace[lineId])
    BY <1>2, LineIs
  <2>2. \A k \in 1 .. (lineId - 1) : ~MustFail(trace[k])
    BY <2>1 DEF VerdictReady, Past
  <2>3. \A k \in 1 .. (lineId' - 1) : ~MustFail(trace[k])
    BY <1>1, <2>1, <2>2
  <2>4. \A k \in Past' : ~MustFail(trace'[k])
    BY <2>1, <2>3 DEF Past
  <2> QED BY <2>1, <2>4 DEF VerdictReady, VerdictSound, MustFail, MayThrow
<1>3. CASE Catch
  <2>1. /\ frontend = "ascii" /\ status = "throwing" /\ trace' = trace /\ lineId' = lineId
        /\ status' = "failed" /\ frontend' = frontend
        /\ report' = [line |-> lineId, time |-> PrintedTime]
    BY <1>3 DEF Catch, Failed
  <2>2. /\ lineId \in 1 .. Len(trace) /\ MayThrow(trace[lineId])
        /\ \A k \in 1 .. (lineId - 1) : ~MustFail(trace[k])
    BY <2>1 DEF VerdictReady, Past
  <2>3. LET stamp == TimeLine(lineId)
        IN  \/ stamp # Null /\ trace[stamp].value \in {Cut, Unreadable}
            \/ PrintedTime = IF stamp = Null \/ trace[stamp].value = Never THEN Null
                             ELSE trace[stamp].value
    BY <2>1 DEF TimeAsTold, PrintedTime
  <2>4. VerdictReady'
    BY <2>1, <2>2 DEF VerdictReady, Past, MustFail
  <2>5. report'.line = lineId /\ report'.time = PrintedTime
    BY <2>1
  <2>6. TimeLine(report.line)' = TimeLine(lineId)
    BY <2>1, <2>5 DEF TimeLine
  <2> QED BY <2>1, <2>2, <2>3, <2>4, <2>5, <2>6 DEF VerdictSound, MustFail, MayThrow
<1>4. CASE EndOfFile
  <2>1. /\ frontend = "ascii" /\ trace' = trace /\ lineId' = lineId /\ status' = "success"
        /\ frontend' = frontend /\ lineId = Len(trace) + 1
    BY <1>1, <1>4 DEF EndOfFile
  <2>2. \A k \in 1 .. Len(trace) : ~MustFail(trace[k])
    BY <1>1, <2>1 DEF VerdictReady, Past
  <2>3. Past' = 1 .. Len(trace)
    BY <1>1, <2>1 DEF Past
  <2> QED BY <2>1, <2>2, <2>3 DEF VerdictReady, VerdictSound, MustFail
<1>5. CASE Jni
  <2>1. frontend' = "jni" /\ status' \notin {"throwing", "success", "failed"}
    BY <1>5 DEF Jni, SwitchCall, Call, Calling, DeleteContext, Outcomes
  <2> QED BY <2>1 DEF VerdictReady, VerdictSound
<1> QED BY <1>2, <1>3, <1>4, <1>5 DEF Next, CheckFile

-----------------------------------------------------------------------------
(***************************************************************************)
(* The theorems.                                                           *)
(***************************************************************************)

LEMMA InitInvariant ==
  ASSUME Init
  PROVE  Invariant
<1>1. /\ harts = <<>> /\ cpuMemoryViews = <<>> /\ lineId = 1 /\ status = "running"
      /\ time = Never /\ closes = 0
      /\ \/ frontend = "ascii" /\ trace \in Traces
         \/ frontend = "jni" /\ trace = <<>>
  BY DEF Init, ContextInit
<1>9. config \in [spikeDebug : BOOLEAN, spikeLogCommit : BOOLEAN]
  <2>1. \/ config \in [spikeDebug : BOOLEAN, spikeLogCommit : BOOLEAN]
        \/ config = [spikeDebug |-> FALSE, spikeLogCommit |-> FALSE]
    BY Zenon DEF Init, ContextInit
  <2>2. [spikeDebug |-> FALSE, spikeLogCommit |-> FALSE]
          \in [spikeDebug : BOOLEAN, spikeLogCommit : BOOLEAN]
    OBVIOUS
  <2> QED BY <2>1, <2>2
<1>2. /\ frontend = "ascii" => trace \in Seq(Command)
      /\ trace \in Seq(Command \cup Switch) /\ Len(trace) \in Nat
      /\ frontend = "jni" => Len(trace) = 0
  <2>1. CASE frontend = "ascii" /\ trace \in Traces
    <3>1. trace \in Seq(Command)
      BY <2>1, SessionAssumption
    <3> DEFINE C == Command
               S == Switch
    <3> HIDE DEF C, S
    <3>2. trace \in Seq(C) => trace \in Seq(C \cup S) /\ Len(trace) \in Nat
      OBVIOUS
    <3> QED BY <2>1, <3>1, <3>2 DEF C, S
  <2>2. CASE frontend = "jni" /\ trace = <<>>
    BY <2>2
  <2> QED BY <1>1, <2>1, <2>2
<1>3. Made(harts) = {} /\ Past = {}
  BY <1>1 DEF Made, Past
<1>4. TypeOK /\ TablesTyped
  BY <1>1, <1>2, <1>3, <1>9, ContextAssumption DEF TypeOK, TablesTyped
<1>5. /\ \A id : ViewLine(id, lineId) = Null /\ HartLine(id, lineId) = Null
      /\ TimeLine(lineId) = Null
  BY <1>1 DEF ViewLine, HartLine, TimeLine, LastOf
<1>6. ViewsAsTold
  BY <1>1, <1>5 DEF ViewsAsTold, Id
<1>7. HartsAsTold
  BY <1>1, <1>5 DEF HartsAsTold
<1>8. TablesTold
  BY <1>3, <1>6, <1>7 DEF TablesTold, HartsKeepTheirView, HartsFollowConfig
<1> QED BY <1>1, <1>3, <1>4, <1>5, <1>8
        DEF Invariant, DeclaredNeverCrashes, TimeAsTold, VerdictReady, VerdictSound

LEMMA NextInvariant ==
  ASSUME Invariant, [Next]_vars
  PROVE  Invariant'
<1>1. CASE Next
  <2>1. TypeOK' /\ TablesTyped' /\ TablesTold'
    BY <1>1, TypesKept, TablesKept DEF Invariant
  <2>2. DeclaredNeverCrashes'
    BY <1>1, DeclaredStepReturns DEF Invariant, DeclaredNeverCrashes
  <2>3. TimeAsTold' /\ VerdictReady' /\ VerdictSound'
    BY <1>1, TimeKept, VerdictKept DEF Invariant
  <2> QED BY <2>1, <2>2, <2>3 DEF Invariant
<1>2. CASE UNCHANGED vars
  <2>1. /\ UNCHANGED <<config, cpuMemoryViews, harts, time, closes>>
        /\ UNCHANGED <<frontend, trace, lineId, status, report>>
    BY <1>2 DEF vars, contextVars
  <2>2. /\ \A id, k : ViewLine(id, k)' = ViewLine(id, k) /\ HartLine(id, k)' = HartLine(id, k)
        /\ \A k : TimeLine(k)' = TimeLine(k)
    BY <2>1 DEF ViewLine, HartLine, TimeLine
  <2>3. TypeOK' /\ TablesTyped'
    BY <2>1 DEF Invariant, TypeOK, TablesTyped, Made
  <2>4. TablesTold'
    <3>1. CASE status = "crashed"
      BY <2>1, <3>1, KeepsViewIs
         DEF TablesTold, ViewsAsTold, HartsAsTold, HartsFollowConfig, Told
    <3>2. CASE status # "crashed"
      BY <2>1, <3>2, StaysKeepsTables DEF Invariant, Stays, Tables
    <3> QED BY <3>1, <3>2
  <2>5. DeclaredNeverCrashes'
    <3>1. WellDeclared' = WellDeclared
      BY <2>1, <2>2, Zenon DEF WellDeclared, Complete
    <3>2. CommitsLoadsOnce' = CommitsLoadsOnce
      BY <2>1 DEF CommitsLoadsOnce
    <3> QED BY <2>1, <3>1, <3>2 DEF Invariant, DeclaredNeverCrashes
  <2>6. TimeAsTold'
    BY <2>1 DEF Invariant, TimeAsTold, TimeLine
  <2>7. VerdictReady' /\ VerdictSound'
    BY <2>1 DEF Invariant, VerdictReady, VerdictSound, Past, MustFail, MayThrow, TimeLine
  <2> QED BY <2>3, <2>4, <2>5, <2>6, <2>7 DEF Invariant
<1> QED BY <1>1, <1>2

LEMMA SessionInvariant == Spec => []Invariant
BY InitInvariant, NextInvariant, PTL DEF Spec

\* The tables, the time and the trace have the types the code declares, for every
\* file, every sequence of calls and every width of the ids.
THEOREM SessionTypeCorrect == Spec => []TypeOK
<1>1. Invariant => TypeOK
  BY DEF Invariant
<1> QED BY <1>1, SessionInvariant, PTL

\* A run that declares what it uses is never led to a pointer that points nowhere.
THEOREM DeclaredRunsAreSafe == Spec => []DeclaredNeverCrashes
<1>1. Invariant => DeclaredNeverCrashes
  BY DEF Invariant
<1> QED BY <1>1, SessionInvariant, PTL

\* A hart works on the view that its id named when the hart was made.
THEOREM ViewsAreKept == Spec => []HartsKeepTheirView
<1>1. Invariant => HartsKeepTheirView
  BY DEF Invariant, TablesTold
<1> QED BY <1>1, SessionInvariant, PTL

\* Every hart traces as the configuration says.
THEOREM ConfigIsFollowed == Spec => []HartsFollowConfig
<1>1. Invariant => HartsFollowConfig
  BY DEF Invariant, TablesTold
<1> QED BY <1>1, SessionInvariant, PTL

\* The verdict of checkFile is that of the whole file.
THEOREM VerdictIsOfTheFile == Spec => []VerdictSound
<1>1. Invariant => VerdictSound
  BY DEF Invariant
<1> QED BY <1>1, SessionInvariant, PTL
=============================================================================
