------------------------------ MODULE CliTypes ------------------------------
(***************************************************************************)
(* The templates at the beginning of src/CLI11.hpp: the types of variables *)
(* that an option may set, how many texts a type takes, and the conversion *)
(* of texts to a value.                                                    *)
(*                                                                         *)
(* A text is a sequence of characters.  A word that nothing looks into is  *)
(* one character: "--file=a" is <<"-", "-", "file", "=", "a">>.            *)
(*                                                                         *)
(* Left out are enumerations, characters, floating point and complex       *)
(* numbers, types that read themselves from a stream, tuples whose         *)
(* elements take other than one text, and numbers beyond 64 bits.          *)
(***************************************************************************)
EXTENDS Integers, Sequences, FiniteSets, SequencesExt

CONSTANTS
  Unlimited,  \* expected_max_vector_size, 2^29
  Numbers,    \* what strtoll and strtold make of a text that is a number, in any base
  Leading,    \* what std::stoll makes of a text that begins with a decimal number
  MaxInt,     \* the greatest int
  Null,
  Wild        \* the value of a variable that nothing has initialised

Text  == Seq(STRING)
Empty == <<>>
True  == <<"true">>
False == <<"false">>

\* is_separator
IsSeparator(text) == text \in {Empty, <<"%", "%">>}
Braces == <<"{", "}">>

ASSUME TypesAssumption ==
  /\ Unlimited \in Nat /\ Unlimited >= 16 /\ MaxInt \in Nat
  /\ DOMAIN Numbers \subseteq Text /\ Empty \notin DOMAIN Numbers
  /\ \A t \in DOMAIN Numbers : Numbers[t] \in Int /\ (t[1] = "-" <=> Numbers[t] < 0)
  /\ DOMAIN Leading \subseteq Text \ {Empty}
  /\ \A t \in DOMAIN Leading :
       Leading[t] \in Int /\ IF t[1] = "-" THEN Leading[t] <= 0 ELSE Leading[t] >= 0

\* value_string: the text of a number, which is a decimal number and nothing after it.
NumberText(n) ==
  CHOOSE t \in DOMAIN Numbers \cap DOMAIN Leading : Numbers[t] = n /\ Leading[t] = n

-----------------------------------------------------------------------------
(***************************************************************************)
(* Types, by their object_category.                                        *)
(***************************************************************************)

Scalar  == [is : {"string", "bool", "int", "unsigned"}]
String  == [is |-> "string"]
Bool    == [is |-> "bool"]
Integer == [is |-> "int"]
Natural == [is |-> "unsigned"]

Wrapper(type) == [is |-> "wrapper", type |-> type]
Tuple(types)  == [is |-> "tuple", types |-> types]
Vector(type)  == [is |-> "vector", type |-> type]

RECURSIVE TypeCountBase(_), TypeCount(_), TypeCountMin(_), ExpectedCount(_)

TypeCountBase(type) ==
  CASE type.is = "tuple"  -> Len(type.types)
    [] type.is = "vector" -> TypeCountBase(type.type)
    [] OTHER              -> 1

\* A tuple has the sum of its elements, each of which takes one text.
SubtypeCount(type) == IF type.is = "vector" THEN Unlimited ELSE TypeCount(type)
TypeCount(type) ==
  CASE type.is = "tuple"   -> Len(type.types)
    [] type.is = "vector"  -> SubtypeCount(type.type)
    [] type.is = "wrapper" -> TypeCount(type.type)
    [] OTHER               -> 1

SubtypeCountMin(type) ==
  IF type.is = "vector" THEN IF TypeCount(type) < Unlimited THEN TypeCount(type) ELSE 0
  ELSE TypeCountMin(type)
TypeCountMin(type) ==
  CASE type.is = "tuple"               -> Len(type.types)
    [] type.is \in {"vector", "wrapper"} -> SubtypeCountMin(type.type)
    [] OTHER                           -> 1

ExpectedCount(type) ==
  CASE type.is = "vector"  -> Unlimited
    [] type.is = "wrapper" -> ExpectedCount(type.type)
    [] OTHER               -> 1

RECURSIVE Initial(_), HasType(_, _)

\* T{}
Initial(type) ==
  CASE type.is = "string"            -> Empty
    [] type.is = "bool"              -> FALSE
    [] type.is \in {"int", "unsigned"} -> 0
    [] type.is = "wrapper"           -> Null
    [] type.is = "tuple"             -> [k \in DOMAIN type.types |-> Initial(type.types[k])]
    [] type.is = "vector"            -> <<>>

\* T v;
Declared(type) == IF type.is \in {"bool", "int", "unsigned"} THEN Wild ELSE Initial(type)

HasType(value, type) ==
  CASE type.is = "string"   -> value \in Text
    [] type.is = "bool"     -> value \in BOOLEAN \cup {Wild}
    [] type.is = "int"      -> value \in (-MaxInt - 1) .. MaxInt \cup {Wild}
    [] type.is = "unsigned" -> value \in 0 .. (2 * MaxInt + 1) \cup {Wild}
    [] type.is = "wrapper"  -> value = Null \/ HasType(value.some, type.type)
    [] type.is = "tuple"    -> /\ DOMAIN value = DOMAIN type.types
                               /\ \A k \in DOMAIN value : HasType(value[k], type.types[k])
    [] type.is = "vector"   -> /\ DOMAIN value = 1 .. Len(value)
                               /\ \A k \in DOMAIN value : HasType(value[k], type.type)

-----------------------------------------------------------------------------
(***************************************************************************)
(* One text: lexical_cast and lexical_assign.  A conversion gives a value, *)
(* or fails.                                                               *)
(***************************************************************************)

Gives(value) == [ok |-> TRUE, value |-> value]
Fails        == [ok |-> FALSE]
GivesIf(ok, value) == IF ok THEN Gives(value) ELSE Fails

\* Where letters count for upper and lower case, one stands for both.
Affirmative == {True, <<"t">>, <<"y">>, <<"+">>, <<"on">>, <<"yes">>, <<"enable">>}
Negative    == {False, <<"f">>, <<"n">>, <<"-">>, <<"0">>, <<"off">>, <<"no">>, <<"disable">>}

\* Null: std::invalid_argument.  What follows the number does not matter, so that 0x1,
\* which is 1 for an int, is 0 here.
ToFlagValue(text) ==
  CASE text \in Affirmative     -> 1
    [] text \in Negative        -> -1
    [] text \in DOMAIN Leading \ (Affirmative \cup Negative) -> Leading[text]
    [] OTHER                    -> Null

\* Mutant: the number is not compared with what the variable holds of it.
SignedConversion_AnySize(text) ==
  IF text \in DOMAIN Numbers THEN Gives(Numbers[text]) ELSE GivesIf(text = True, 1)

\* integral_conversion, twice.
SignedConversion(text) ==
  IF text \in DOMAIN Numbers
  THEN GivesIf(Numbers[text] \in (-MaxInt - 1) .. MaxInt, Numbers[text])
  ELSE GivesIf(text = True, 1)
UnsignedConversion(text) ==
  IF text \in DOMAIN Numbers /\ text[1] # "-"
  THEN GivesIf(Numbers[text] \in 0 .. (2 * MaxInt + 1), Numbers[text]) ELSE Fails

\* A wrapper of a scalar, such as std::optional, holds [some |-> value] or nothing.
RECURSIVE Cast(_, _)
Cast(type, text) ==
  CASE type.is = "string"   -> Gives(text)
    [] type.is = "bool"     -> IF ToFlagValue(text) = Null THEN Fails ELSE Gives(ToFlagValue(text) > 0)
    [] type.is = "int"      -> SignedConversion(text)
    [] type.is = "unsigned" -> UnsignedConversion(text)
    [] type.is = "wrapper"  -> IF Cast(type.type, text).ok
                               THEN Gives([some |-> Cast(type.type, text).value]) ELSE Fails

Assign(type, text) ==
  IF type # String /\ text = Empty THEN Gives(Initial(type)) ELSE Cast(type, text)

-----------------------------------------------------------------------------
(***************************************************************************)
(* Many texts: lexical_conversion.                                         *)
(***************************************************************************)

\* The values of a sequence of conversions, if none fails.
All(conversions) ==
  IF \A k \in DOMAIN conversions : conversions[k].ok
  THEN Gives([k \in DOMAIN conversions |-> conversions[k].value]) ELSE Fails

\* Elements that get no text keep what they are: in a pair, whose elements are
\* variables of the conversion, what they were declared with.
ConvertTuple(types, texts) ==
  All([k \in 1 .. Len(types) |->
    IF k <= Len(texts) THEN Assign(types[k], texts[k])
    ELSE Gives(IF Len(types) = 2 THEN Declared(types[k]) ELSE Initial(types[k]))])

\* {} alone is the empty list; {} and a separator are the text {}.
ConvertList(type, texts) ==
  IF texts = <<Braces>> THEN Gives(<<>>)
  ELSE IF texts = <<>> THEN Fails
  ELSE IF Len(texts) = 2 /\ texts[1] = Braces /\ IsSeparator(texts[2])
  THEN All(<<Assign(type, Braces)>>)
  ELSE All([k \in 1 .. Len(texts) |-> Assign(type, texts[k])])

\* Mutant: a separator closes an element without being taken out of it.
Chunks_SeparatorKept(n, dropsEnd, texts) ==
  LET ends(start, k) == k - start + 1 = n \/ IsSeparator(texts[k]) \/ k = Len(texts)
      chunks[start \in 1 .. (Len(texts) + 1)] ==
        IF start > Len(texts) THEN <<>>
        ELSE LET last == CHOOSE k \in start .. Len(texts) :
                           ends(start, k) /\ \A j \in start .. (k - 1) : ~ends(start, j)
             IN  <<SubSeq(texts, start, last)>> \o chunks[last + 1]
  IN  chunks[1]

\* The texts of the elements of a vector: n texts each, or up to a separator, which
\* belongs to the element unless elements may have different sizes.
Chunks(n, dropsEnd, texts) ==
  LET ends(start, k) == k - start + 1 = n \/ IsSeparator(texts[k]) \/ k = Len(texts)
      chunks[start \in 1 .. (Len(texts) + 1)] ==
        IF start > Len(texts) THEN <<>>
        ELSE LET last == CHOOSE k \in start .. Len(texts) :
                           ends(start, k) /\ \A j \in start .. (k - 1) : ~ends(start, j)
             IN  <<SubSeq(texts, start, IF dropsEnd /\ IsSeparator(texts[last]) THEN last - 1 ELSE last)>>
                 \o chunks[last + 1]
  IN  chunks[1]

Blocks(n, texts) ==
  [k \in 1 .. ((Len(texts) + n - 1) \div n) |->
     SubSeq(texts, (k - 1) * n + 1, IF k * n < Len(texts) THEN k * n ELSE Len(texts))]

RECURSIVE Convert(_, _)
Convert(type, texts) ==
  CASE type.is = "tuple"   -> ConvertTuple(type.types, texts)
    [] type.is = "wrapper" ->
         IF texts = <<>> \/ texts[1] = Empty THEN Gives(Null)
         ELSE LET inner == Convert(type.type, texts)
              IN  IF inner.ok THEN Gives([some |-> inner.value]) ELSE Fails
    [] type.is = "vector" /\ TypeCount(type) = 1 -> ConvertList(type.type, texts)
    [] type.is = "vector" /\ TypeCount(type) # 1 /\ TypeCountBase(type) = 2 ->
         IF texts = <<>> THEN Fails
         ELSE All([k \in DOMAIN Blocks(2, texts) |-> Convert(type.type, Blocks(2, texts)[k])])
    [] type.is = "vector" /\ TypeCount(type) # 1 /\ TypeCountBase(type) # 2 ->
         LET chunks == Chunks(TypeCount(type), TypeCount(type) > TypeCountMin(type), texts)
         IN  All([k \in DOMAIN chunks |-> Convert(type.type, chunks[k])])
    [] OTHER -> Assign(type, texts[1])

\* sum_string_vector: the sum of numbers and flags, or else the texts themselves.
SumText(texts) ==
  LET number(t) == IF t \in DOMAIN Numbers THEN Numbers[t] ELSE ToFlagValue(t)
  IN  IF \A k \in DOMAIN texts : number(texts[k]) # Null
      THEN NumberText(FoldLeft(LAMBDA n, t : n + number(t), 0, texts))
      ELSE FlattenSeq(texts)
=============================================================================
