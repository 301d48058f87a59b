------------------------------- MODULE CliApp -------------------------------
(***************************************************************************)
(* Class App of src/CLI11.hpp, for an application without subcommands,     *)
(* option groups and configuration file, as rvls is: the parsing of a      *)
(* command line argument by argument, and what is done with the collected  *)
(* texts afterwards.                                                       *)
(***************************************************************************)
EXTENDS CliOption

CONSTANTS
  Given,        \* the <<app, argv>> that are looked at
  Environment   \* what getenv returns

VARIABLES
  app,          \* options_ and the settings of the application
  argv,         \* the command line
  args,         \* what is left of it, the next argument first
  positionalOnly,
  results,      \* results_ of every option
  callbackRun,  \* whether an option is in the state callback_run
  opt,          \* where _process_callbacks is in options_
  variables,    \* what the callbacks have set; Null: not touched
  missing,      \* arguments that belong to no option
  phase,        \* where App::parse is
  error         \* the exception it has thrown, or Null

cliVars == <<app, argv, args, positionalOnly, results, callbackRun, opt, variables,
             missing, phase, error>>

-----------------------------------------------------------------------------
(***************************************************************************)
(* Making an application.                                                  *)
(***************************************************************************)

\* App::App gives it a help flag.
NewApp ==
  [options |-> <<InternalFlag(<< <<"-", "h">>, <<"-", "-", "help">> >>)>>, help |-> 1,
   allowExtras |-> FALSE, prefixCommand |-> FALSE, positionalsAtEnd |-> FALSE,
   validatePositionals |-> FALSE, validateOptional |-> FALSE, requireOption |-> [min |-> 0, max |-> 0]]

\* App::add_option throws OptionAlreadyAdded for a name that another option has.
CanAdd(a, option) == \A k \in 1 .. Len(a.options) : ~SameName(a.options[k], option)
AddOption(a, option) == [a EXCEPT !.options = Append(@, option)]

Options(a)   == 1 .. Len(a.options)
Variables(a) == {a.options[i].variable : i \in Options(a)} \ {Null}

ASSUME GivenAssumption ==
  \A given \in Given :
    LET a == given[1]
    IN  /\ given[2] \in Seq(Text)
        /\ \A i \in Options(a) :
             /\ CanAdd([a EXCEPT !.options = SubSeq(@, 1, i - 1)], a.options[i])
             /\ a.options[i].needs \cup a.options[i].excludes \subseteq Options(a) \ {i}
             /\ \A j \in a.options[i].excludes : i \in a.options[j].excludes

\* get_option_no_throw and the search of _parse_arg: the first that has the name.
ShortOption(name) == SelectInSeq(app.options, LAMBDA o : name \in o.snames)
LongOption(name)  == SelectInSeq(app.options, LAMBDA o : name \in o.lnames)

-----------------------------------------------------------------------------
CliInit ==
  /\ \E given \in Given : app = given[1] /\ argv = given[2]
  /\ args = argv
  /\ positionalOnly = FALSE
  /\ results = [i \in Options(app) |-> Empty]
  /\ callbackRun = [i \in Options(app) |-> FALSE]
  /\ opt = 1
  /\ variables = [v \in Variables(app) |-> Null]
  /\ missing = Empty
  /\ phase = "validate"
  /\ error = Null

Throw(e) == error' = e /\ phase' = "thrown"

(***************************************************************************)
(* App::_validate.                                                         *)
(***************************************************************************)

Unbounded(i) ==
  /\ ItemsMax(app.options[i]) >= Unlimited
  /\ app.options[i].snames = {} /\ app.options[i].lnames = {}

Validate ==
  /\ phase = "validate"
  /\ LET unbounded == {i \in Options(app) : Unbounded(i)}
         optional  == {i \in unbounded : ~app.options[i].required}
         require   == app.requireOption
     IN  IF \/ Cardinality(unbounded) > 1 /\ Cardinality(optional) > 1
            \/ require.min > 0 /\ require.max > 0 /\ require.max < require.min
            \/ require.min > Len(app.options)
         THEN Throw("InvalidError")
         ELSE phase' = "parse" /\ UNCHANGED error
  /\ UNCHANGED <<app, argv, args, positionalOnly, results, callbackRun, opt, variables, missing>>

-----------------------------------------------------------------------------
(***************************************************************************)
(* _recognize: what an argument looks like.                                *)
(***************************************************************************)

Digits == {"0", "1", "2", "3", "4", "5", "6", "7", "8", "9"}

Recognized(arg) ==
  CASE arg = <<"-", "-">>                                  -> "POSITIONAL_MARK"
    [] arg # <<"-", "-">> /\ IsLong(arg)                   -> "LONG"
    [] IsShort(arg) /\ ~(arg[2] \in Digits /\ ShortOption(<<arg[2]>>) = 0) -> "SHORT"
    [] OTHER                                               -> "NONE"

-----------------------------------------------------------------------------
(***************************************************************************)
(* Giving texts to option i.  An option that triggers on its results is    *)
(* cleared if its callback has run, and its callback runs at once.         *)
(***************************************************************************)

\* Mutant: what an option has collected is dropped when it is given again.
Collected_Dropped(i) == Empty

\* Between the values of a type without end comes an empty text, after which the
\* callback counts as not run.
Collected(i) ==
  LET texts == results[i]
  IN  IF app.options[i].injectSeparator /\ texts # Empty /\ texts[Len(texts)] # Empty
      THEN Append(texts, Empty)
      ELSE IF app.options[i].trigger /\ callbackRun[i] THEN Empty ELSE texts

\* Option::run_callback with these texts: the validators may change them, and the
\* callback sets the variable.  A flag appends to a list.
Called(i, value) ==
  LET option == app.options[i]
      before == IF option.type = Null THEN Null ELSE variables[option.variable]
  IN  IF option.type = Null THEN variables
      ELSE [variables EXCEPT ![option.variable] =
              IF option.casts /\ option.type.is = "vector" /\ before # Null THEN before \o value ELSE value]

HasRun(failure) == failure \in {Null, "ConversionError"}

CallBack(i, texts) ==
  \E judged \in {ValidateResults(app.options[i], texts)} :
  \E sent \in {Reduced(app.options[i], judged.results)} :
  \E converted \in {Converted(app.options[i], sent)} :
  \E failure \in {CallbackError(app.options[i], judged, converted)} :
    /\ results' = [results EXCEPT ![i] = judged.results]
    /\ callbackRun' = [callbackRun EXCEPT ![i] = HasRun(failure)]
    /\ IF failure # Null THEN Throw(failure) /\ UNCHANGED variables
       ELSE variables' = Called(i, converted.value) /\ UNCHANGED <<phase, error>>

Give(i, given) ==
  \E texts \in {given} :
    \/ app.options[i].trigger /\ CallBack(i, texts)
    \/ /\ ~app.options[i].trigger
       /\ results' = [results EXCEPT ![i] = texts]
       /\ callbackRun' = [callbackRun EXCEPT ![i] = FALSE]
       /\ UNCHANGED <<variables, phase, error>>

-----------------------------------------------------------------------------
(***************************************************************************)
(* _parse_arg: an argument that names an option, with the texts it takes.  *)
(***************************************************************************)

\* _count_remaining_positionals, of required ones, when the options hold `held`.
RemainingPositionals(held) ==
  LET lacks(i) == LET o == app.options[i]
                  IN  IF Positional(o) /\ o.required /\ Len(held[i]) < ItemsMin(o)
                      THEN ItemsMin(o) - Len(held[i]) ELSE 0
  IN  FoldLeft(LAMBDA n, i : n + lacks(i), 0, [i \in Options(app) |-> i])

\* The most an option takes at once.
MostItems(option) ==
  IF ItemsMax(option) >= Unlimited \div 16 /\ ~option.allowExtra
  THEN Times(option.typeSize.max, option.expected.min) ELSE ItemsMax(option)
FewestItems(option) ==
  IF ItemsMin(option) < option.typeSize.min THEN ItemsMin(option) ELSE option.typeSize.min

\* Mutant: the arguments that required positionals need are taken.
OptionalItems_Greedy(option, collected, left, needed) ==
  LET takes(j) ==
        /\ collected + j <= MostItems(option) \/ option.allowExtra
        /\ Recognized(left[j]) = "NONE"
        /\ app.validateOptional => Validates(option, left[j])
  IN  CHOOSE n \in 0 .. Len(left) :
        /\ \A j \in 1 .. n : takes(j)
        /\ n < Len(left) => ~takes(n + 1)

\* How many of the arguments `left` an option takes beyond what it must: up to the
\* next one that looks like an option, and none that a required positional needs.
OptionalItems(option, collected, left, needed) ==
  LET takes(j) ==
        /\ collected + j <= MostItems(option) \/ option.allowExtra
        /\ Recognized(left[j]) = "NONE"
        /\ needed < Len(left) - (j - 1)
        /\ app.validateOptional => Validates(option, left[j])
  IN  CHOOSE n \in 0 .. Len(left) :
        /\ \A j \in 1 .. n : takes(j)
        /\ n < Len(left) => ~takes(n + 1)

\* What comes with the name itself: --name=value, -Nrest, or the value of a flag.
Attached(option, part) ==
  IF MostItems(option) = 0 THEN <<FlagValue(option, part.name, part.value)>>
  ELSE IF part.value # Empty THEN <<part.value>>
  ELSE IF part.rest # Empty THEN <<part.rest>>
  ELSE Empty

\* Mutant: the whole argument is put back.
Rest_Whole(option, part) ==
  IF MostItems(option) = 0 /\ part.rest # Empty THEN << <<"-">> \o part.name \o part.rest >> ELSE Empty

\* What follows a short flag in one argument becomes an argument of its own.
Rest(option, part) ==
  IF MostItems(option) = 0 /\ part.rest # Empty THEN << <<"-">> \o part.rest >> ELSE Empty

\* With the arguments `left` after the name: some come with it, some must follow, and
\* some may.  "\E x \in {e}" gives e a name.
MayTake(option, count) == MostItems(option) > count \/ option.allowExtra
PartialType(option, count) ==
  FewestItems(option) > 0 /\ count % option.typeSize.max # 0
Unfit(option, part, count) ==
  \/ MostItems(option) = 0 /\ FlagOverride(option, part.name, part.value)
  \/ PartialType(option, count) /\ option.typeSize.max = option.typeSize.min

\* What follows the texts: the default of an option that has got none, and an empty
\* text after half a pair.
Ending(option, name, mayTake, count) ==
  (IF mayTake /\ FewestItems(option) = 0 /\ MostItems(option) > 0 /\ count = 0
   THEN <<FlagValue(option, name, Empty)>> ELSE Empty)
  \o (IF PartialType(option, count) THEN <<Empty>> ELSE Empty)

TakeArg(option, i, part, left) ==
  \E attached \in {Attached(option, part)} :
  \E came \in {IF MostItems(option) = 0 THEN 0 ELSE Len(attached)} :
  \E must \in {IF FewestItems(option) > came THEN FewestItems(option) - came ELSE 0} :
    \/ /\ must > Len(left)
       /\ Throw("ArgumentMismatch")
       /\ UNCHANGED <<args, results, callbackRun, variables>>
    \/ /\ must <= Len(left)
       /\ \E soFar \in {Collected(i) \o attached \o SubSeq(left, 1, must)} :
          \E after \in {SubSeq(left, must + 1, Len(left))} :
          \E needed \in {RemainingPositionals([results EXCEPT ![i] = soFar])} :
          \E n \in {IF MayTake(option, came + must)
                    THEN OptionalItems(option, came + must, after, needed) ELSE 0} :
            IF Unfit(option, part, came + must + n)
            THEN Throw("ArgumentMismatch") /\ UNCHANGED <<args, results, callbackRun, variables>>
            ELSE \E last \in {SubSeq(after, n + 1, Len(after))} :
                   /\ \E ending \in {Ending(option, part.name, MayTake(option, came + must),
                                            came + must + n)} :
                        Give(i, soFar \o SubSeq(after, 1, n) \o ending)
                   /\ args' = Rest(option, part)
                        \o (IF MayTake(option, came + must) /\ last # Empty /\ last[1] = <<"-", "-">>
                            THEN Tail(last) ELSE last)

ParseArg ==
  /\ ~positionalOnly
  /\ \E kind \in {"LONG", "SHORT"} \cap {Recognized(args[1])} :
     \E part \in {IF kind = "LONG" THEN SplitLong(args[1]) ELSE SplitShort(args[1])} :
     \E i \in {IF kind = "LONG" THEN LongOption(part.name) ELSE ShortOption(part.name)} :
       \/ /\ i # 0
          /\ TakeArg(app.options[i], i, part, Tail(args))
          /\ UNCHANGED missing
       \/ /\ i = 0
          /\ missing' = Append(missing, [kind |-> kind, text |-> args[1]])
          /\ args' = Tail(args)
          /\ UNCHANGED <<results, callbackRun, variables, phase, error>>
  /\ UNCHANGED positionalOnly

ParseMark ==
  /\ ~positionalOnly /\ Recognized(args[1]) = "POSITIONAL_MARK"
  /\ positionalOnly' = TRUE
  /\ missing' = Append(missing, [kind |-> "POSITIONAL_MARK", text |-> args[1]])
  /\ args' = Tail(args)
  /\ UNCHANGED <<results, callbackRun, variables, phase, error>>

(***************************************************************************)
(* _parse_positional.                                                      *)
(***************************************************************************)

\* Of the options that may take the text, the first: the required ones, if at the
\* end they need all arguments that are left, then any that has room.
Room(i) == Len(results[i]) < ItemsMin(app.options[i])
Fits(i) == app.validatePositionals => Validates(app.options[i], args[1])
Takers ==
  LET at(P(_)) == {i \in Options(app) : Positional(app.options[i]) /\ P(i) /\ Fits(i)}
      atEnd    == at(LAMBDA i : app.options[i].required /\ Room(i))
  IN  IF app.positionalsAtEnd /\ Len(args) <= RemainingPositionals(results) /\ atEnd # {}
      THEN atEnd ELSE at(LAMBDA i : Room(i) \/ app.options[i].allowExtra)

ParsePositional ==
  /\ positionalOnly \/ Recognized(args[1]) = "NONE"
  /\ \/ \E i \in Takers :
          /\ \A j \in Takers : i <= j
          /\ Give(i, Append(Collected(i), args[1]))
          /\ args' = Tail(args)
          /\ UNCHANGED missing
     \/ /\ Takers = {} /\ app.positionalsAtEnd
        /\ Throw("ExtrasError")
        /\ UNCHANGED <<args, results, callbackRun, variables, missing>>
     \/ /\ Takers = {} /\ ~app.positionalsAtEnd
        /\ LET left == IF app.prefixCommand THEN args ELSE <<args[1]>>
           IN  /\ missing' = missing \o [k \in 1 .. Len(left) |-> [kind |-> "NONE", text |-> left[k]]]
               /\ args' = SubSeq(args, Len(left) + 1, Len(args))
        /\ UNCHANGED <<results, callbackRun, variables, phase, error>>
  /\ positionalOnly' = (positionalOnly \/ app.positionalsAtEnd)

\* One turn of _parse's loop.
ParseSingle ==
  /\ phase = "parse" /\ args # Empty
  /\ ParseArg \/ ParseMark \/ ParsePositional
  /\ UNCHANGED <<app, argv, opt>>

-----------------------------------------------------------------------------
(***************************************************************************)
(* _process: the environment, the callbacks in the order of the options,   *)
(* help, the requirements.                                                 *)
(***************************************************************************)

ProcessEnv ==
  /\ phase = "parse" /\ args = Empty
  /\ LET set == {i \in Options(app) :
                   /\ results[i] = Empty /\ app.options[i].envname \in DOMAIN Environment
                   /\ Environment[app.options[i].envname] # Empty}
     IN  /\ results' = [i \in Options(app) |->
                          IF i \in set THEN <<Environment[app.options[i].envname]>> ELSE results[i]]
         /\ callbackRun' = [i \in Options(app) |-> callbackRun[i] /\ i \notin set]
  /\ phase' = "callbacks"
  /\ UNCHANGED <<app, argv, args, positionalOnly, opt, variables, missing, error>>

\* Each option is looked at once.
ToRun == {i \in Options(app) :
  i >= opt /\ ~callbackRun[i] /\ (results[i] # Empty \/ app.options[i].force)}

FirstToRun(i) == i \in ToRun /\ \A j \in ToRun : i <= j
TextsOf(i) == IF results[i] = Empty THEN <<app.options[i].defaultStr>> ELSE results[i]

RunCallback ==
  /\ phase = "callbacks"
  /\ \E i \in Options(app) : FirstToRun(i) /\ CallBack(i, TextsOf(i)) /\ opt' = i + 1
  /\ UNCHANGED <<app, argv, args, positionalOnly, missing>>

ProcessHelp ==
  /\ phase = "callbacks" /\ ToRun = {}
  /\ IF results[app.help] # Empty THEN Throw("CallForHelp")
     ELSE phase' = "requirements" /\ UNCHANGED error
  /\ UNCHANGED <<app, argv, args, positionalOnly, results, callbackRun, opt, variables, missing>>

Used(i) == results[i] # Empty

\* What the options from the first to the last complain about, in this order.
Complaint(i) ==
  IF app.options[i].required /\ ~Used(i) THEN "RequiredError"
  ELSE IF Used(i) /\ \E j \in app.options[i].needs : ~Used(j) THEN "RequiresError"
  ELSE IF Used(i) /\ \E j \in app.options[i].excludes : Used(j) THEN "ExcludesError"
  ELSE Null

ProcessRequirements ==
  /\ phase = "requirements"
  /\ LET complaining == {i \in Options(app) : Complaint(i) # Null}
         used        == Cardinality({i \in Options(app) : Used(i)})
         require     == app.requireOption
     IN  IF complaining # {}
         THEN Throw(Complaint(CHOOSE i \in complaining : \A j \in complaining : i <= j))
         ELSE IF require.min > used \/ (require.max > 0 /\ require.max < used)
         THEN Throw("RequiredError")
         ELSE phase' = "extras" /\ UNCHANGED error
  /\ UNCHANGED <<app, argv, args, positionalOnly, results, callbackRun, opt, variables, missing>>

\* _process_extras; remaining_size does not count "--".
Remaining == SelectSeq(missing, LAMBDA m : m.kind # "POSITIONAL_MARK")

ProcessExtras ==
  /\ phase = "extras"
  /\ IF ~(app.allowExtras \/ app.prefixCommand) /\ Remaining # Empty THEN Throw("ExtrasError")
     ELSE phase' = "parsed" /\ UNCHANGED error
  /\ UNCHANGED <<app, argv, args, positionalOnly, results, callbackRun, opt, variables, missing>>

Parse ==
  \/ Validate
  \/ ParseSingle
  \/ ProcessEnv
  \/ RunCallback
  \/ ProcessHelp
  \/ ProcessRequirements
  \/ ProcessExtras

-----------------------------------------------------------------------------
CliTypeOK ==
  /\ args \in Seq(Text) /\ positionalOnly \in BOOLEAN
  /\ results \in [Options(app) -> Seq(Text)]
  /\ callbackRun \in [Options(app) -> BOOLEAN]
  /\ opt \in 1 .. (Len(app.options) + 1)
  /\ \A i \in Options(app) :
       LET v == app.options[i].variable
       IN  (v # Null /\ variables[v] # Null) => HasType(variables[v], app.options[i].type)
  /\ missing \in Seq([kind : {"POSITIONAL_MARK", "LONG", "SHORT", "NONE"}, text : Text])

\* App::exit: the codes of ExitCodes.
ExitCode(e) ==
  CASE e = "CallForHelp"      -> 0
    [] e = "ConversionError"  -> 104
    [] e = "ValidationError"  -> 105
    [] e = "RequiredError"    -> 106
    [] e = "RequiresError"    -> 107
    [] e = "ExcludesError"    -> 108
    [] e = "ExtrasError"      -> 109
    [] e = "InvalidError"     -> 111
    [] e = "ArgumentMismatch" -> 114
=============================================================================
