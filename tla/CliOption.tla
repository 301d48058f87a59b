----------------------------- MODULE CliOption -----------------------------
(***************************************************************************)
(* Class Option of src/CLI11.hpp: how an option is made from its names and *)
(* the type of its variable, what belongs to it on a command line, and     *)
(* what becomes of the texts it has collected.                             *)
(*                                                                         *)
(* Left out are delimiters within a text, texts of the form [a,b], and     *)
(* names that ignore case or underscores.                                  *)
(***************************************************************************)
EXTENDS CliValidator

-----------------------------------------------------------------------------
(***************************************************************************)
(* Arguments: split_long and split_short.                                  *)
(***************************************************************************)

ValidFirst(c) == c \notin {"-", "!", " ", "\n"}
ValidLater(c) == c \notin {"=", ":", "{", " ", "\n"}

PlaceOf(c, text) == SelectInSeq(text, LAMBDA x : x = c)

IsLong(arg)  == Len(arg) > 2 /\ arg[1] = "-" /\ arg[2] = "-" /\ ValidFirst(arg[3])
IsShort(arg) == Len(arg) > 1 /\ arg[1] = "-" /\ ValidFirst(arg[2])

SplitLong(arg) ==
  LET sign == PlaceOf("=", arg)
  IN  IF sign = 0 THEN [name |-> SubSeq(arg, 3, Len(arg)), value |-> Empty, rest |-> Empty]
      ELSE [name |-> SubSeq(arg, 3, sign - 1), value |-> SubSeq(arg, sign + 1, Len(arg)),
            rest |-> Empty]

SplitShort(arg) == [name |-> <<arg[2]>>, value |-> Empty, rest |-> SubSeq(arg, 3, Len(arg))]

-----------------------------------------------------------------------------
(***************************************************************************)
(* Making an option.  `names` is the string the application gives, split at*)
(* its commas.                                                             *)
(***************************************************************************)

IsShortName(n) == Len(n) > 1 /\ n[1] = "-" /\ n[2] # "-"
IsLongName(n)  == Len(n) > 2 /\ n[1] = "-" /\ n[2] = "-"
Positionals(names) ==
  {n \in ToSet(names) : n # Empty /\ ~IsShortName(n) /\ ~IsLongName(n)}

\* get_names throws BadNameString unless:
GoodNames(names) ==
  /\ \A n \in ToSet(names) :
       /\ IsShortName(n) => Len(n) = 2 /\ ValidFirst(n[2])
       /\ IsLongName(n)  => ValidFirst(n[3]) /\ \A k \in 4 .. Len(n) : ValidLater(n[k])
       /\ n \notin {<<"-">>, <<"-", "-">>}
  /\ Cardinality({k \in 1 .. Len(names) : names[k] \in Positionals(names)}) <= 1

\* Option and OptionBase as they are constructed: no type, no callback.
Bare(names) ==
  [snames       |-> {Tail(n) : n \in {m \in ToSet(names) : IsShortName(m)}},
   lnames       |-> {Tail(Tail(n)) : n \in {m \in ToSet(names) : IsLongName(m)}},
   pname        |-> IF Positionals(names) = {} THEN Empty
                    ELSE CHOOSE n \in Positionals(names) : TRUE,
   flagDefaults |-> <<>>, flagLike |-> FALSE, disableOverride |-> FALSE,
   typeSize     |-> [min |-> 1, max |-> 1], expected |-> [min |-> 1, max |-> 1],
   allowExtra   |-> FALSE, injectSeparator |-> FALSE, policy |-> "Throw", defaultStr |-> Empty,
   required     |-> FALSE, needs |-> {}, excludes |-> {}, envname |-> Empty,
   trigger      |-> FALSE, force |-> FALSE, validators |-> <<>>,
   type         |-> Null, casts |-> FALSE, variable |-> Null]

\* Option::expected(int)
Expected(option, value) ==
  CASE value < 0 ->
         [option EXCEPT !.expected = [min |-> -value, max |-> IF @.max < -value THEN -value ELSE @.max],
                        !.allowExtra = TRUE, !.flagLike = FALSE]
    [] value = Unlimited ->
         [option EXCEPT !.expected = [min |-> 1, max |-> Unlimited],
                        !.allowExtra = TRUE, !.flagLike = FALSE]
    [] OTHER ->
         [option EXCEPT !.expected = [min |-> value, max |-> value], !.flagLike = (value = 0)]

\* Option::type_size(min, max)
TypeSize(option, min, max) ==
  [option EXCEPT !.typeSize = [min |-> min, max |-> max],
                 !.injectSeparator = @ \/ max >= Unlimited]

\* App::add_option for a variable of this type.
NewOption(names, type, variable) ==
  Expected(TypeSize([Bare(names) EXCEPT !.type = type, !.variable = variable],
                    TypeCountMin(type), TypeCount(type)),
           ExpectedCount(type))

\* check, transform and multi_option_policy.
Check(option, v)     == [option EXCEPT !.validators = Append(@, [v EXCEPT !.modifying = FALSE])]
Transform(option, v) == [option EXCEPT !.validators = <<v>> \o @]
WithPolicy(option, policy) ==
  [option EXCEPT
     !.policy = policy,
     !.expected.max = IF option.policy = "Throw" /\ policy # "Throw" /\ @ = Unlimited /\ option.expected.min > 1
                      THEN option.expected.min ELSE @]

\* {def} and !: the text a flag stands for where it has no value of its own.
HasFlagDefault(n) == n # Empty /\ ((PlaceOf("{", n) > 0 /\ n[Len(n)] = "}") \/ n[1] = "!")
FlagDefault(n) ==
  IF PlaceOf("{", n) > 0 /\ n[Len(n)] = "}" THEN SubSeq(n, PlaceOf("{", n) + 1, Len(n) - 1)
  ELSE False

\* remove_default_flag_values: what is left of the name.
Stripped(n) ==
  SelectSeq(IF PlaceOf("{", n) > 2 /\ n[Len(n)] = "}" THEN SubSeq(n, 1, PlaceOf("{", n) - 1) ELSE n,
            LAMBDA c : c # "!")
Undashed(n) == SubSeq(n, SelectInSeq(n, LAMBDA c : c # "-"), Len(n))

FlagOf(names, policy) ==
  LET marked == {n \in ToSet(names) : HasFlagDefault(n)}
  IN  [Expected(Bare([k \in 1 .. Len(names) |-> Stripped(names[k])]), 0) EXCEPT
         !.flagDefaults = [t \in {Undashed(Stripped(n)) : n \in marked} |->
            FlagDefault(CHOOSE n \in marked : Undashed(Stripped(n)) = t)],
         !.policy = policy]

\* Mutant: a flag keeps the policy of options.
InternalFlag_Throws(names) == FlagOf(names, "Throw")

\* _add_flag_internal
InternalFlag(names) == FlagOf(names, "TakeLast")

\* add_flag for a variable of this type: numbers add up, a list takes all texts.
NewFlag(names, type, variable) ==
  LET flag == [InternalFlag(names) EXCEPT !.type = type, !.variable = variable, !.casts = TRUE]
  IN  CASE type \in {Integer, Natural} ->
             [WithPolicy(flag, "Sum") EXCEPT !.defaultStr = <<"0">>, !.force = TRUE]
        [] type.is = "vector"          -> WithPolicy(flag, "TakeAll")
        [] OTHER                       -> flag

-----------------------------------------------------------------------------
(***************************************************************************)
(* Looking an option up, and how many texts it takes.                      *)
(***************************************************************************)

Positional(option) == option.pname # Empty

\* matching_name: names are compared as they are, since no option ignores case.
SameName(x, y) == x.snames \cap y.snames # {} \/ x.lnames \cap y.lnames # {}

Times(x, y) == IF x * y > Unlimited THEN Unlimited ELSE x * y
ItemsMin(option) == option.typeSize.min * option.expected.min
ItemsMax(option) == Times(option.typeSize.max, option.expected.max)

-----------------------------------------------------------------------------
(***************************************************************************)
(* The texts of flags: get_flag_value.                                     *)
(***************************************************************************)

NotGiven(value) == value \in {Empty, Braces}

\* disable_flag_override: a value that is not the one the flag stands for.
FlagOverride(option, name, value) ==
  /\ option.disableOverride /\ ~NotGiven(value)
  /\ value # (IF name \in DOMAIN option.flagDefaults THEN option.flagDefaults[name] ELSE True)

FlagValue(option, name, value) ==
  LET marked == name \in DOMAIN option.flagDefaults
      number == ToFlagValue(value)
  IN  CASE NotGiven(value) /\ marked    -> option.flagDefaults[name]
        [] NotGiven(value) /\ ~marked   -> IF option.flagLike THEN True ELSE option.defaultStr
        [] ~NotGiven(value) /\ marked /\ option.flagDefaults[name] = False /\ number # Null ->
             IF number = 1 THEN False ELSE IF number = -1 THEN True
             ELSE NumberText(-number)
        [] OTHER -> value

-----------------------------------------------------------------------------
(***************************************************************************)
(* Option::run_callback.  Each step yields an error, or Null.              *)
(***************************************************************************)

\* _validate
ValidatedAt(option, text, index) ==
  IF text = Empty /\ option.expected.min = 0 THEN Verdict(TRUE, text)
  ELSE Validated(option.validators, text, index)

\* Where only the first text is looked at, as while arguments are parsed.
Validates(option, text) == ValidatedAt(option, text, 0).ok

\* _validate_results, when the index starts with `first`.  The index of a text is its
\* place in a value of the type, or among all texts where the type takes one, and each
\* separator starts a value anew; it is below 0 for what the policy TakeLast drops.
\* The first text that fails ends it.
Separates(option, results, first) ==
  {j \in DOMAIN results :
     /\ option.typeSize.max > 1 /\ option.typeSize.max # option.typeSize.min
     /\ IsSeparator(results[j]) /\ first + j - 1 >= 0}

IndexOf(option, results, first, k) ==
  LET before == {j \in Separates(option, results, first) : j < k}
      index  == IF before = {} THEN first + k - 1 ELSE k - 1 - CHOOSE j \in before : \A h \in before : h <= j
  IN  IF option.typeSize.max > 1 /\ index >= 0 THEN index % option.typeSize.max ELSE index

ValidatedFrom(option, results, first) ==
  LET judged == [k \in DOMAIN results |->
                   IF k \in Separates(option, results, first) THEN Verdict(TRUE, results[k])
                   ELSE ValidatedAt(option, results[k], IndexOf(option, results, first, k))]
      failing == {k \in DOMAIN results : ~judged[k].ok}
  IN  IF option.validators = <<>> THEN [ok |-> TRUE, results |-> results]
      ELSE [ok      |-> failing = {},
            results |-> [k \in DOMAIN results |->
                           IF \E j \in failing : j < k THEN results[k] ELSE judged[k].text]]

\* Mutant: the index counts from the first text, although that may be dropped.
ValidateResults_FromFirst(option, results) == ValidatedFrom(option, results, 0)

MostTexts(option) == IF option.typeSize.max > 1 THEN ItemsMax(option) ELSE option.expected.max
ValidateResults(option, results) ==
  ValidatedFrom(option, results,
    IF option.policy = "TakeLast" /\ MostTexts(option) < Len(results)
    THEN MostTexts(option) - Len(results) ELSE 0)

Trim(option) == IF ItemsMax(option) = 0 THEN 1 ELSE ItemsMax(option)
LastOf(n, seq)  == IF n < Len(seq) THEN SubSeq(seq, Len(seq) - n + 1, Len(seq)) ELSE seq
FirstOf(n, seq) == IF n < Len(seq) THEN SubSeq(seq, 1, n) ELSE seq

\* _reduce_results, and of its outcome what the callback is given: {} for an empty
\* container becomes the text {} of an option that must have one.
Reduced(option, results) ==
  LET kept ==
        CASE option.policy = "TakeLast"  -> LastOf(Trim(option), results)
          [] option.policy = "TakeFirst" -> FirstOf(Trim(option), results)
          [] option.policy = "Join"      -> <<FlattenSeq([k \in 1 .. Len(results) |->
                                                IF k = 1 THEN results[k] ELSE <<"\n">> \o results[k]])>>
          [] option.policy = "Sum"       -> <<SumText(results)>>
          [] option.policy \in {"TakeAll", "Throw"} -> results
  IN  IF kept = <<Braces>> /\ ItemsMin(option) > 0 THEN <<Braces, <<"%", "%">> >> ELSE kept

WrongCount(option, results) ==
  /\ option.policy = "Throw"
  /\ \/ Len(results) < (IF ItemsMin(option) = 0 THEN 1 ELSE ItemsMin(option))
     \/ Len(results) > Trim(option)

\* The callback: none, of a flag, of an option.
Converted(option, sent) ==
  CASE option.type = Null                        -> Gives(Null)
    [] option.casts /\ option.type.is = "vector" ->
         All([k \in DOMAIN sent |-> Cast(option.type.type, sent[k])])
    [] option.casts /\ option.type.is # "vector" -> Cast(option.type, sent[1])
    [] OTHER                                     -> Convert(option.type, sent)

\* What run_callback throws, for the outcomes of its steps.
CallbackError(option, judged, converted) ==
  IF ~judged.ok THEN "ValidationError"
  ELSE IF WrongCount(option, judged.results) THEN "ArgumentMismatch"
  ELSE IF ~converted.ok THEN "ConversionError"
  ELSE Null
=============================================================================
