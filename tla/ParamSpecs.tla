----------------------------- MODULE ParamSpecs -----------------------------
(***************************************************************************)
(* The parameters of a function, as the compiler keeps them, and a call's  *)
(* arguments: the positional ones, then the values of the names in         *)
(* kwnames.                                                                *)
(***************************************************************************)
EXTENDS Integers, Sequences, FiniteSets

PositionalKinds == {"PosOnly", "Any"}
KeywordKinds == {"Any", "KwOnly"}
Param(name, kind, has_default) == [name |-> name, kind |-> kind, has_default |-> has_default]

\* Positional parameters come first, then *args, keyword-only ones and **kwargs.
Order == [PosOnly |-> 1, Any |-> 2, VarArg |-> 3, KwOnly |-> 4, KwArg |-> 5]
collect_param_spec(spec) ==
  /\ \E n \in 0..Len(spec) : \A i \in DOMAIN spec : i <= n <=> spec[i].kind \in PositionalKinds
  /\ \A i, j \in DOMAIN spec :
       i < j => /\ Order[spec[i].kind] <= Order[spec[j].kind]
                /\ spec[i].kind \in {"VarArg", "KwArg"} => spec[i].kind # spec[j].kind
                /\ spec[i].name # spec[j].name
  /\ \A i \in DOMAIN spec : spec[i].kind \in {"VarArg", "KwArg"} => ~spec[i].has_default

\* How many arguments can be positional; argument i is then for parameter i.
positional_capacity(spec) ==
  CHOOSE n \in 0..Len(spec) : \A i \in DOMAIN spec : i <= n <=> spec[i].kind \in PositionalKinds
Takes(spec, kind) == \E i \in DOMAIN spec : spec[i].kind = kind
IndexOf(spec, kind) == CHOOSE i \in DOMAIN spec : spec[i].kind = kind
param_index(spec, name) == CHOOSE i \in DOMAIN spec : spec[i].name = name

\* Where the default of parameter i is: a place in __defaults__, counted from
\* the first parameter that has one, or its name in __kwdefaults__.
NoDefault == [from |-> "nowhere", index |-> 0]
FirstDefault(spec, i) ==
  IF ~spec[i].has_default THEN NoDefault
  ELSE [from |-> IF spec[i].kind = "KwOnly" THEN "kwdefaults" ELSE "defaults", index |-> 1]
DefaultSource(spec, i) ==
  IF ~spec[i].has_default THEN NoDefault
  ELSE [from |-> IF spec[i].kind = "KwOnly" THEN "kwdefaults" ELSE "defaults",
        index |-> IF spec[i].kind = "KwOnly" THEN 0
                  ELSE Cardinality({j \in 1..i : spec[j].has_default})]

Request(spec, args, kwnames, kwvalues) ==
  [spec |-> spec, args |-> args, kwnames |-> kwnames, kwvalues |-> kwvalues]
=============================================================================
