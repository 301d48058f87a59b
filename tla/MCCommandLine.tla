--------------------------- MODULE MCCommandLine ---------------------------
(***************************************************************************)
(* Instances of CommandLine for TLC.                                       *)
(***************************************************************************)
EXTENDS CommandLine

Lines(words, n) == UNION {[1 .. k -> words] : k \in 0 .. n}

A == <<"a">>
B == <<"b">>
Mark == <<"-", "-">>
NumberAndMore == <<"1", "2", "more">>
Hex == <<"0", "x", "1">>
Short(c)       == <<"-", c>>
Long(word)     == <<"-", "-", word>>
Long2(word, v) == <<"-", "-", word, "=">> \o v

-----------------------------------------------------------------------------
(* rvls: every form of its options, and what no option is.                 *)

CoreWords == {A, Mark, Short("f"), Long2("file", A), <<"-", "h", "f">>,
              Long("spike-debug"), Long2("spike-debug", <<"0">>)}
RvlsWords == CoreWords \cup
  {Empty, B, Long("file"), Long2("file", Empty), Long2("file", <<"a", "=", "b">>),
   <<"-", "f", "a">>, Short("h"), Long("help"), Long2("help", A), <<"-", "h", "-", "file">>,
   <<"-", "h", "1">>, Short("x"), Short("1"), Long("spike-log"),
   Long2("spike-log", <<"2">>), Long2("spike-log", <<"-", "2">>), Long2("spike-log", A),
   Long2("spike-log", NumberAndMore), Long2("spike-log", Hex)}

RvlsGiven == {RvlsApp} \X (Lines(RvlsWords, 3) \cup Lines(CoreWords, 4))

-----------------------------------------------------------------------------
(* Applications that use what rvls leaves alone.                           *)

App(options)   == FoldLeft(AddOption, NewApp, options)
Name(c)        == << <<"-", c>> >>
Place(word)    == << <<word>> >>
Typed(names, type) == NewOption(names, type, names[1])
Option(names)  == Typed(names, String)
ListOf(names)  == Typed(names, Vector(String))
Pair           == Tuple(<<String, String>>)
Pairs(names)   == Typed(names, Vector(Pair))
Required(o)    == [o EXCEPT !.required = TRUE]
Trigger(o)     == [o EXCEPT !.trigger = TRUE]
Flag(names, type) == NewFlag(names, type, names[1])
Switch(name)   == NewFlag(<<name>>, Bool, name)

OnlyA    == IsMember(<<A>>, NoFilter)
At(k, v) == [v EXCEPT !.index = k]

PlainWords == {A, B, Mark, Short("i"), Short("o")}

ListApps ==
  {App(<<ListOf(Name("i")), Required(Option(Place("out")))>>),
   App(<<Typed(Name("i"), Pair), Required(Option(Place("out")))>>),
   App(<<Expected(ListOf(Name("i")), -2), Required(Option(Place("in"))), Required(Option(Place("out")))>>),
   [App(<<Check(ListOf(Name("i")), OnlyA), Option(Place("out"))>>)
      EXCEPT !.validateOptional = TRUE],
   App(<<[ListOf(Name("i")) EXCEPT !.allowExtra = FALSE], ListOf(Place("out"))>>),
   App(<<Pairs(Name("i")), TypeSize(Pairs(Name("o")), 1, 2)>>),
   App(<<[Option(Name("i")) EXCEPT !.expected.min = 0, !.defaultStr = <<"d">>]>>)}

PlaceApps ==
  {[App(<<Expected(ListOf(Place("in")), -1), Required(Option(Place("out")))>>)
      EXCEPT !.positionalsAtEnd = TRUE],
   [App(<<Option(Name("i")), Required(Option(Place("in")))>>) EXCEPT !.positionalsAtEnd = TRUE],
   [App(<<Check(Option(Place("in")), OnlyA), Option(Place("out"))>>)
      EXCEPT !.validatePositionals = TRUE],
   [App(<<Option(Place("in"))>>) EXCEPT !.prefixCommand = TRUE],
   [App(<<Option(Name("i"))>>) EXCEPT !.allowExtras = TRUE],
   App(<<Trigger(Check(ListOf(Place("in")), OnlyA))>>)}

PolicyApps ==
  {App(<<WithPolicy(Option(Name("i")), p), Trigger(WithPolicy(Option(Name("o")), q))>>) :
     p, q \in {"TakeFirst", "TakeLast", "Join", "TakeAll"}}

RuleApps ==
  {[App(<<[Option(Name("i")) EXCEPT !.needs = {3}, !.envname = <<"E">>],
          Check(Option(Name("o")), OnlyA),
          [Option(Place("in")) EXCEPT !.force = f, !.defaultStr = <<"d">>]>>)
      EXCEPT !.requireOption = r] : f \in BOOLEAN, r \in {[min |-> 0, max |-> 0], [min |-> 2, max |-> 2]}}
  \cup
  {App(<<[Option(Name("i")) EXCEPT !.excludes = {3}], [Option(Name("o")) EXCEPT !.excludes = {2}]>>),
   App(<<Trigger(Required(Option(Name("i")))), Option(Place("in"))>>)}

BadApps ==
  {App(<<ListOf(Place("in")), ListOf(Place("out"))>>),
   [App(<<Option(Name("i"))>>) EXCEPT !.requireOption = [min |-> 3, max |-> 0]],
   [App(<<Option(Name("i"))>>) EXCEPT !.requireOption = [min |-> 2, max |-> 1]]}

FlagApps ==
  {App(<<Switch(<<"!", "-", "-", "quiet">>), Switch(<<"-", "-", "level", "{", "2", "}">>)>>),
   App(<<[Switch(<<"!", "-", "-", "quiet">>) EXCEPT !.disableOverride = TRUE],
         [Switch(<<"-", "-", "level">>) EXCEPT !.disableOverride = TRUE, !.trigger = TRUE]>>)}
FlagWords ==
  {A} \cup {Long(w) : w \in {"quiet", "level"}}
  \cup {Long2(w, v) : w \in {"quiet", "level"}, v \in {True, False, <<"2">>, <<"-", "2">>, A, NumberAndMore, Hex}}

\* Structured types, whose texts may be ended by an empty argument.
TypeApps ==
  {App(<<Typed(Name("i"), Vector(Vector(String))), Option(Name("o"))>>),
   App(<<Typed(Name("i"), Vector(Tuple(<<String, String, String>>)))>>),
   App(<<Typed(Name("i"), Wrapper(Vector(String))), Typed(Place("out"), Pair)>>),
   App(<<Trigger(Typed(Name("i"), Vector(Vector(String))))>>),
   App(<<Typed(Place("in"), Vector(Vector(String)))>>),
   App(<<Pairs(Place("in"))>>)}
TypeWords == {A, B, Empty, Short("i"), Short("o")}

\* Numbers: flags that add up, ranges, and what a variable of a pair holds at last.
Three == <<"3">>
Six   == <<"6">>
NumberApps ==
  {App(<<Flag(Name("i"), Integer), Typed(Place("in"), Vector(Tuple(<<String, Integer>>)))>>),
   App(<<Flag(<< <<"-", "i", "{", "2", "}">> >>, Natural), Typed(Name("o"), Wrapper(Integer))>>),
   App(<<Flag(Name("i"), Vector(Bool)), Check(Typed(Name("o"), Integer), InRange(Integer, 1, 3))>>),
   App(<<Transform(Typed(Name("o"), Vector(Natural)), Bound(Natural, 1, 4)),
         Check(WithPolicy(Typed(Name("i"), Vector(Integer)), "Sum"), Not(InRange(Integer, 0, 2)))>>)}
NumberWords == {Three, Six, A, <<"-", "3">>, Short("i"), Short("o"), <<"{", "}">>}

\* Checks of one place of a value, under the policies that drop texts.
DroppedApps(type, policies) ==
  {App(<<Check(WithPolicy(Typed(Name("i"), type), p), At(k, OnlyA))>>) : p \in policies, k \in {-1, 0, 1}}
DroppedWords == {A, B, Short("i")}
CheckApps ==
  {App(<<Check(Expected(TypeSize(Pairs(Name("i")), 1, 2), 1), At(1, OnlyA))>>),
   App(<<Check(Transform(Option(Name("i")), Transformer(<< <<B, A>> >>, NoFilter)), OnlyA)>>),
   App(<<Check(ListOf(Name("i")), Either(OnlyA, Not(CheckedTransformer(<< <<B, A>> >>, NoFilter))))>>),
   App(<<Transform(ListOf(Name("i")), Both(Transformer(<< <<B, A>> >>, [t \in {<<"c">>} |-> B]), OnlyA))>>)}
CheckWords == DroppedWords \cup {<<"c">>}

SmallGiven ==
  RvlsGiven
  \cup (ListApps \X Lines(PlainWords, 4))
  \cup ((PlaceApps \cup PolicyApps \cup RuleApps) \X Lines(PlainWords, 4))
  \cup (BadApps \X Lines({A}, 1))
  \cup (FlagApps \X Lines(FlagWords, 2))
  \cup (TypeApps \X Lines(TypeWords, 4))
  \cup (NumberApps \X Lines(NumberWords, 3))
  \cup (CheckApps \X Lines(CheckWords, 4))
  \cup (DroppedApps(Pair, {"TakeLast"}) \X Lines(DroppedWords, 6))
  \cup (DroppedApps(String, {"TakeFirst", "TakeLast"}) \X Lines(DroppedWords, 4))

\* -18 .. 18, the sums of three of these words.
Figure == <<"1", "2", "3", "4", "5", "6", "7", "8", "9", "10", "11", "12", "13", "14", "15",
            "16", "17", "18">>
Decimals ==
  [t \in {<<"0">>} \cup {<<d>> : d \in ToSet(Figure)} \cup {<<"-", d>> : d \in ToSet(Figure)} |->
     CASE t = <<"0">> -> 0
       [] Len(t) = 1 /\ t # <<"0">> -> PlaceOf(t[1], Figure)
       [] Len(t) = 2 -> -PlaceOf(t[2], Figure)]
SmallNumbers == Decimals @@ (Hex :> 1)
SmallLeading == Decimals @@ (Hex :> 0) @@ (NumberAndMore :> 12)
SmallEnvironment == [name \in {<<"E">>} |-> <<"e">>]
SmallReadable == {A, <<"-", "h", "f">>}
=============================================================================
