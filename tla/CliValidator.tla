---------------------------- MODULE CliValidator ----------------------------
(***************************************************************************)
(* Class Validator of src/CLI11.hpp, the validators it comes with that     *)
(* look at a text alone, and their combinations.  A validator judges a     *)
(* text and may put another in its place.                                  *)
(***************************************************************************)
EXTENDS CliTypes

(***************************************************************************)
(* Validators.  `active` and `modifying` are asked by operator() only, not *)
(* where a validator is part of another one; `index` is the place in a     *)
(* value the validator is for, or -1.  A filter is a function on some      *)
(* texts, which leaves all others alone.                                   *)
(***************************************************************************)
Validator(is) == [is |-> is, active |-> TRUE, modifying |-> TRUE, index |-> -1]

InRange(type, least, most) ==
  Validator("range") @@ [type |-> type, least |-> least, most |-> most]
Bound(type, least, most) ==
  Validator("bound") @@ [type |-> type, least |-> least, most |-> most]
IsMember(items, filter)            == Validator("member") @@ [items |-> items, filter |-> filter]
Transformer(pairs, filter)         == Validator("transform") @@ [pairs |-> pairs, filter |-> filter]
CheckedTransformer(pairs, filter)  == Validator("checked") @@ [pairs |-> pairs, filter |-> filter]

Both(v, w) == [Validator("and") EXCEPT !.active = v.active /\ w.active, !.index = v.index]
                @@ [left |-> v, right |-> w]
Either(v, w) == [Validator("or") EXCEPT !.active = v.active /\ w.active, !.index = v.index]
                  @@ [left |-> v, right |-> w]
Not(v) == [Validator("not") EXCEPT !.active = v.active, !.index = v.index] @@ [left |-> v]

NoFilter == [t \in {} |-> t]
Filtered(filter, text) == IF text \in DOMAIN filter THEN filter[text] ELSE text

\* search: the place of the text itself, or else the first that the filter makes equal.
Search(keys, text, filter) ==
  IF text \in ToSet(keys) THEN SelectInSeq(keys, LAMBDA k : k = text)
  ELSE SelectInSeq(keys, LAMBDA k : Filtered(filter, k) = text)

Firsts(pairs)  == [k \in DOMAIN pairs |-> pairs[k][1]]
Seconds(pairs) == [k \in DOMAIN pairs |-> pairs[k][2]]

Verdict(ok, text) == [ok |-> ok, text |-> text]

\* func_ of the validators: the verdict, and what the text is afterwards.
RECURSIVE Judge(_, _)
Judge(v, text) ==
  CASE v.is = "range" ->
         LET number == Cast(v.type, text)
         IN  Verdict(number.ok /\ number.value \in v.least .. v.most, text)
    [] v.is = "bound" ->
         LET number == Cast(v.type, text)
         IN  Verdict(number.ok, IF ~number.ok THEN text
                                ELSE IF number.value < v.least THEN NumberText(v.least)
                                ELSE IF number.value > v.most THEN NumberText(v.most) ELSE text)
    [] v.is = "member" ->
         LET place == Search(v.items, Filtered(v.filter, text), v.filter)
         IN  Verdict(place # 0, IF place = 0 THEN text ELSE v.items[place])
    [] v.is \in {"transform", "checked"} ->
         LET place == Search(Firsts(v.pairs), Filtered(v.filter, text), v.filter)
         IN  Verdict(v.is = "transform" \/ place # 0 \/ text \in ToSet(Seconds(v.pairs)),
                     IF place = 0 THEN text ELSE v.pairs[place][2])
    [] v.is = "and" ->
         LET left  == Judge(v.left, text)
             right == Judge(v.right, left.text)
         IN  Verdict(left.ok /\ right.ok, right.text)
    [] v.is = "or" ->
         LET left  == Judge(v.left, text)
             right == Judge(v.right, left.text)
         IN  Verdict(left.ok \/ right.ok, right.text)
    [] v.is = "not" -> LET left == Judge(v.left, text) IN Verdict(~left.ok, left.text)

\* operator()
Apply(v, text) ==
  IF ~v.active THEN Verdict(TRUE, text)
  ELSE IF v.modifying THEN Judge(v, text) ELSE Verdict(Judge(v, text).ok, text)

\* Option::_validate for the text with this index: the first that complains ends it.
Validated(validators, text, index) ==
  FoldLeft(LAMBDA judged, v :
             IF ~judged.ok \/ v.index \notin {-1, index} THEN judged ELSE Apply(v, judged.text),
           Verdict(TRUE, text), validators)
=============================================================================
