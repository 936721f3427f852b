----------------------------- MODULE PythonCall -----------------------------
(***************************************************************************)
(* The rule of the Python language for what a call gives each parameter of *)
(* a function, and for which calls are a TypeError.                        *)
(***************************************************************************)
EXTENDS ParamSpecs

Names(spec, kinds) == {spec[i].name : i \in {j \in DOMAIN spec : spec[j].kind \in kinds}}
Keyword(r, name) == \E j \in DOMAIN r.kwnames : r.kwnames[j] = name
KeywordValue(r, name) == r.kwvalues[CHOOSE j \in DOMAIN r.kwnames : r.kwnames[j] = name]

FromPosition(r, i) == r.spec[i].kind \in PositionalKinds /\ i <= Len(r.args)
FromKeyword(r, i) == r.spec[i].kind \in KeywordKinds /\ Keyword(r, r.spec[i].name)
Given(r, i) == FromPosition(r, i) \/ FromKeyword(r, i)
ValueOf(r, i) == IF FromPosition(r, i) THEN r.args[i] ELSE KeywordValue(r, r.spec[i].name)

\* __defaults__ is for the last positional parameters: that of parameter i is
\* as far from its end as i is from theirs.  __kwdefaults__ goes by name.
PositionalDefaults(spec) == {j \in 1..positional_capacity(spec) : spec[j].has_default}
DefaultsAtEnd(spec) ==
  \A i, j \in 1..positional_capacity(spec) : i < j /\ spec[i].has_default => spec[j].has_default
PythonDefaultSource(spec, i) ==
  CASE ~spec[i].has_default -> NoDefault
    [] spec[i].has_default /\ spec[i].kind = "KwOnly" -> [from |-> "kwdefaults", index |-> 0]
    [] OTHER -> [from |-> "defaults",
                 index |-> Cardinality(PositionalDefaults(spec)) - (positional_capacity(spec) - i)]

\* What is left for *args and for **kwargs.
Surplus(r) == SubSeq(r.args, positional_capacity(r.spec) + 1, Len(r.args))
Unclaimed(r) == {n \in {r.kwnames[j] : j \in DOMAIN r.kwnames} : n \notin Names(r.spec, KeywordKinds)}

Legal(r) ==
  /\ Takes(r.spec, "VarArg") \/ Len(r.args) <= positional_capacity(r.spec)
  /\ Takes(r.spec, "KwArg") \/ Unclaimed(r) = {}
  /\ \A i \in DOMAIN r.spec : ~(FromPosition(r, i) /\ FromKeyword(r, i))
  /\ \A i \in DOMAIN r.spec :
       r.spec[i].kind \notin {"VarArg", "KwArg"} => Given(r, i) \/ r.spec[i].has_default
=============================================================================
