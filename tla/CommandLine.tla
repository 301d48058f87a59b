---------------------------- MODULE CommandLine ----------------------------
(***************************************************************************)
(* src/rvls.cpp: the options of rvls, and what main does with them.        *)
(***************************************************************************)
EXTENDS CliApp

CONSTANT Readable   \* the names of files that can be opened

VARIABLES
  checked,    \* the RvlsConfig that checkFile was called with, or Null
  exitCode    \* how the process has ended: its status, or less than 0 for a signal; or Null

vars == <<cliVars, checked, exitCode>>

\* The options of main, and default_val(false), which sets nothing but the text.
FileNames  == << <<"-", "f">>, <<"-", "-", "file">> >>
DebugNames == << <<"-", "-", "spike-debug", "{", "1", "}">> >>
LogNames   == << <<"-", "-", "spike-log", "{", "1", "}">> >>

ASSUME NamesAssumption ==
  /\ GoodNames(FileNames)
  /\ \A names \in {DebugNames, LogNames} : GoodNames(<<Stripped(names[1])>>)

RvlsApp ==
  LET file  == NewOption(FileNames, String, "asciiTraceFile")
      debug == [NewFlag(DebugNames, Bool, "spikeDebug") EXCEPT !.defaultStr = <<"0">>]
      log   == [NewFlag(LogNames, Bool, "spikeLogCommit") EXCEPT !.defaultStr = <<"0">>]
  IN  AddOption(AddOption(AddOption(NewApp, file), debug), log)

\* RvlsConfig, with its initial values where no option has set one.
Config ==
  [asciiTraceFile |-> IF variables["asciiTraceFile"] = Null THEN Empty ELSE variables["asciiTraceFile"],
   spikeDebug     |-> variables["spikeDebug"] = TRUE,
   spikeLogCommit |-> variables["spikeLogCommit"] = TRUE]

Init == CliInit /\ checked = Null /\ exitCode = Null

\* CLI11_PARSE returns what App::exit says.
ExitParse ==
  /\ phase = "thrown" /\ exitCode = Null
  /\ exitCode' = ExitCode(error)
  /\ UNCHANGED <<cliVars, checked>>

Refuse ==
  /\ app = RvlsApp /\ phase = "parsed" /\ exitCode = Null /\ checked = Null
  /\ Config.asciiTraceFile \notin Readable   \* no file has an empty name
  /\ exitCode' = 1
  /\ UNCHANGED <<cliVars, checked>>

Launch ==
  /\ app = RvlsApp /\ phase = "parsed" /\ exitCode = Null /\ checked = Null
  /\ Config.asciiTraceFile \in Readable
  /\ checked' = Config
  /\ UNCHANGED <<cliVars, exitCode>>

SigAbrt == -6
SigSegv == -11

\* When checkFile has ended, as Session says: its status is "success", "exited",
\* "failed", which ends in an exception that nobody catches, or "crashed".
EndCheck ==
  /\ checked # Null /\ exitCode = Null
  /\ exitCode' \in {0, 1, SigAbrt, SigSegv}
  /\ UNCHANGED <<cliVars, checked>>

Main == ExitParse \/ Refuse \/ Launch \/ EndCheck

Next == (Parse /\ UNCHANGED <<checked, exitCode>>) \/ Main

Spec == Init /\ [][Next]_vars

-----------------------------------------------------------------------------
TypeOK ==
  /\ CliTypeOK
  /\ exitCode \in {Null, SigAbrt, SigSegv} \cup 0 .. 127
  /\ checked = Null \/ checked.asciiTraceFile \in Text

(***************************************************************************)
(* What a command line of rvls means, read from the left, said without the *)
(* machinery above.                                                        *)
(***************************************************************************)

Nothing == [expects |-> FALSE, only |-> FALSE, help |-> FALSE, extra |-> FALSE,
            files |-> Empty, spikeDebug |-> Empty, spikeLogCommit |-> Empty]

Dashed(word) == <<"-", "-", word>>
With(word)   == <<"-", "-", word, "=">>
AfterSign(word, arg) == SubSeq(arg, Len(With(word)) + 1, Len(arg))

\* -hhhX asks for help, and is -X for the rest.
Helps(arg) ==
  CHOOSE k \in 0 .. Len(arg) :
    /\ k > 0 => arg[1] = "-" /\ \A j \in 2 .. (k + 1) : j <= Len(arg) /\ arg[j] = "h"
    /\ (arg # Empty /\ arg[1] = "-" /\ k + 2 <= Len(arg)) => arg[k + 2] # "h"

ReadFlag(m, field, word, arg) ==
  [m EXCEPT ![field] = Append(@,
     IF arg \in {Dashed(word), With(word)} THEN <<"1">> ELSE AfterSign(word, arg))]

ReadRest(m, arg) ==
  IF arg \in {<<"-", "f">>, Dashed("file"), With("file")} THEN [m EXCEPT !.expects = TRUE]
  ELSE IF IsPrefix(With("file"), arg) THEN [m EXCEPT !.files = Append(@, AfterSign("file", arg))]
  ELSE IF IsPrefix(<<"-", "f">>, arg) THEN [m EXCEPT !.files = Append(@, SubSeq(arg, 3, Len(arg)))]
  ELSE IF arg = Dashed("help") \/ IsPrefix(With("help"), arg) THEN [m EXCEPT !.help = TRUE]
  ELSE IF arg = Dashed("spike-debug") \/ IsPrefix(With("spike-debug"), arg)
  THEN ReadFlag(m, "spikeDebug", "spike-debug", arg)
  ELSE IF arg = Dashed("spike-log") \/ IsPrefix(With("spike-log"), arg)
  THEN ReadFlag(m, "spikeLogCommit", "spike-log", arg)
  ELSE IF arg = <<"-", "-">> THEN [m EXCEPT !.only = TRUE]
  ELSE [m EXCEPT !.extra = TRUE]

\* An option that expects a file takes the next argument, whatever it looks like.
ReadArgument(m, arg) ==
  LET k == Helps(arg)
  IN  IF m.expects THEN [m EXCEPT !.expects = FALSE, !.files = Append(@, arg)]
      ELSE IF m.only THEN [m EXCEPT !.extra = TRUE]
      ELSE IF k = 0 THEN ReadRest(m, arg)
      ELSE IF Len(arg) = k + 1 THEN [m EXCEPT !.help = TRUE]
      ELSE ReadRest([m EXCEPT !.help = TRUE], <<"-">> \o SubSeq(arg, k + 2, Len(arg)))

Meaning == FoldLeft(ReadArgument, Nothing, argv)

\* The last value of a flag counts: one of the words for yes or no, or a number, which
\* is all that begins with a digit after a sign.  It is a yes unless it is 0 or less.
Unsigned(text)   == IF text # Empty /\ text[1] \in {"+", "-"} THEN Tail(text) ELSE text
BeginsDigits(text) == Unsigned(text) # Empty /\ Unsigned(text)[1] \in Digits
SaysYes(text) ==
  \/ text \in Affirmative
  \/ /\ BeginsDigits(text) /\ text[1] # "-"
     /\ \E k \in DOMAIN Unsigned(text) :
          /\ \A j \in 1 .. k : Unsigned(text)[j] \in Digits
          /\ Unsigned(text)[k] # "0"
Unreadable(texts) ==
  texts # Empty /\ LET last == texts[Len(texts)]
                   IN  last \notin (Affirmative \cup Negative) /\ ~BeginsDigits(last)
Enabled(texts) == texts # Empty /\ SaysYes(texts[Len(texts)])

Outcome ==
  IF Meaning.expects \/ Len(Meaning.files) > 1 THEN "ArgumentMismatch"
  ELSE IF Unreadable(Meaning.spikeDebug) \/ Unreadable(Meaning.spikeLogCommit) THEN "ConversionError"
  ELSE IF Meaning.help THEN "CallForHelp"
  ELSE IF Meaning.extra THEN "ExtrasError"
  ELSE Null

\* rvls does what its command line says: it complains, it shows its help, or it checks
\* the one file that was named, with the switches that were given last; and it ends
\* with 0 only after help or after a file that it has checked.
DoesWhatWasAsked ==
  (app = RvlsApp /\ (phase = "parsed" \/ exitCode # Null)) =>
    /\ error = Outcome
    /\ checked # Null =>
         /\ <<checked.asciiTraceFile>> = Meaning.files
         /\ checked.spikeDebug = Enabled(Meaning.spikeDebug)
         /\ checked.spikeLogCommit = Enabled(Meaning.spikeLogCommit)
    /\ (exitCode = 0 /\ checked = Null) => Meaning.help

(***************************************************************************)
(* For any application.                                                    *)
(***************************************************************************)

\* The characters of the arguments that are not options.
Words == UNION {ToSet(argv[k]) : k \in {j \in 1 .. Len(argv) : argv[j] # Empty /\ argv[j][1] # "-"}}
CountIn(char, texts) ==
  LET chars == FlattenSeq(texts) IN Cardinality({k \in 1 .. Len(chars) : chars[k] = char})

\* While arguments move from the command line to options, to the missing ones or into
\* the values of options, nothing of a word is lost and nothing is taken twice, unless
\* an option runs its callback at every text and then starts over, or changes texts.
Changes(option) == \E k \in DOMAIN option.validators : option.validators[k].modifying
NoWordLost ==
  (phase # "thrown" /\ \A i \in Options(app) : ~app.options[i].trigger /\ ~Changes(app.options[i])) =>
    \A char \in Words :
      CountIn(char, argv)
        = CountIn(char, args) + CountIn(char, [k \in 1 .. Len(missing) |-> missing[k].text])
          + CountIn(char, FlattenSeq(results))

\* The texts that a callback makes a value of satisfy the option's checks, each the
\* checks of its place in the value, whichever texts the policy has dropped.
PlaceIn(option, texts, k) ==
  LET since == {j \in 1 .. (k - 1) : option.typeSize.max # option.typeSize.min /\ IsSeparator(texts[j])}
      first == IF since = {} THEN 1 ELSE 1 + CHOOSE j \in since : \A h \in since : h <= j
  IN  IF option.typeSize.max > 1 THEN (k - first) % option.typeSize.max ELSE k - 1
OnlyCheckedTextsAreUsed ==
  \A i \in Options(app) :
    LET option == app.options[i]
        used   == Reduced(option, results[i])
    IN  (callbackRun[i] /\ error # "ConversionError" /\ option.policy \notin {"Join", "Sum"}) =>
          \A k \in DOMAIN used, n \in DOMAIN option.validators :
            LET v == option.validators[n]
            IN  \/ ~v.active \/ v.modifying \/ IsSeparator(used[k])
                \/ v.index \notin {-1, PlaceIn(option, used, k)}
                \/ Judge(v, used[k]).ok

\* The parts of a value that are made of one text each, and their types.
RECURSIVE Leaves(_, _)
Leaves(type, value) ==
  CASE type.is = "tuple"   -> FlattenSeq([k \in DOMAIN value |-> Leaves(type.types[k], value[k])])
    [] type.is = "vector"  -> FlattenSeq([k \in DOMAIN value |-> Leaves(type.type, value[k])])
    [] type.is = "wrapper" -> IF value = Null THEN Empty ELSE Leaves(type.type, value.some)
    [] OTHER               -> <<[type |-> type, value |-> value]>>

\* What a user gives an option of a structured type comes back in order, every text as
\* the part of the value that stands at its place: no separator becomes a part and no
\* part is skipped, but the last value may lack some.  (A variable of one value keeps
\* the first of all texts that the policy TakeAll gives it.)
NothingMisplaced ==
  \A i \in Options(app) :
    LET option == app.options[i]
        used   == Reduced(option, results[i])
        texts  == IF TypeCount(option.type) = TypeCountMin(option.type) THEN used
                  ELSE SelectSeq(used, LAMBDA t : ~IsSeparator(t))
        leaves == Leaves(option.type, variables[option.variable])
    IN  (/\ phase = "parsed" /\ callbackRun[i] /\ ~option.casts /\ option.type # Null
         /\ option.policy # "TakeAll" \/ option.type.is = "vector"
         /\ {Empty, Braces} \cap ToSet(argv) = {}) =>
          /\ Len(leaves) - Len(texts) \in 0 .. (TypeCountBase(option.type) - 1)
          /\ \A k \in DOMAIN texts : Assign(leaves[k].type, texts[k]) = Gives(leaves[k].value)

\* A required positional goes without its texts only if there were too few words for
\* it after the last option, beyond those that this option must have: no option takes
\* optional words that a positional needs.
LastOption == SelectLastInSeq(argv, LAMBDA arg : arg # Empty /\ arg[1] = "-")
PositionalsNotStarved ==
  error = "RequiredError" =>
    LET positional == {i \in Options(app) : Positional(app.options[i]) /\ app.options[i].required}
        lacking    == {i \in positional : results[i] = Empty}
        needed     == FoldLeft(LAMBDA n, i : n + (IF i \in positional THEN ItemsMin(app.options[i]) ELSE 0),
                               0, [i \in Options(app) |-> i])
    IN  lacking # {} =>
          \E i \in Options(app) : Len(argv) - LastOption < needed + app.options[i].typeSize.min

\* The loop that reads the command line ends, although it puts the rest of a word back:
\* every turn leaves less of it, an argument or some characters.
Size(left) == Len(left) + Len(FlattenSeq(left))
EveryTurnUsesText ==
  [][(phase = "parse" /\ phase' = "parse") => Size(args') < Size(args)]_vars
=============================================================================
