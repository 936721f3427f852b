-------------------------- MODULE JitFrames_proofs --------------------------
(***************************************************************************)
(* Proofs about ArgumentBinding, and about the frames of compiled code.    *)
(* The first half shows that arguments are bound as Python binds them, for *)
(* every signature and every call.  The second shows that a null pointer   *)
(* means an exception, for any program whose code keeps to the convention: *)
(* what is known at each point of the code (Known) stays true of the frame *)
(* on top, and the frames below wait where they test what they are given.  *)
(***************************************************************************)
EXTENDS JitFrames, FiniteSetTheorems, TLAPS

Kinds == {"PosOnly", "Any", "VarArg", "KwOnly", "KwArg"}
Rest == {"VarArg", "KwArg"}
Params == [name : STRING, has_default : BOOLEAN, kind : Kinds]

\* A signature has a kind and a name for each parameter, and no name twice.
LEMMA SpecFacts ==
  ASSUME NEW spec \in Specs
  PROVE  /\ spec \in Seq(Params)
         /\ collect_param_spec(spec)
         /\ \A i, j \in DOMAIN spec : spec[i].name = spec[j].name => i = j
<1>1. spec \in Seq(Params) /\ collect_param_spec(spec)
  BY SpecsAssumption DEF Params, Kinds
<1>2. \A i, j \in DOMAIN spec : i < j => spec[i].name # spec[j].name
  BY <1>1 DEF collect_param_spec
<1>3. DOMAIN spec \subseteq Nat
  BY <1>1
<1> QED BY <1>1, <1>2, <1>3

\* The first parameters, up to the capacity, are the positional ones.
LEMMA Capacity ==
  ASSUME NEW spec \in Specs
  PROVE  /\ positional_capacity(spec) \in 0..Len(spec)
         /\ \A i \in DOMAIN spec : i <= positional_capacity(spec) <=> spec[i].kind \in PositionalKinds
BY SpecFacts DEF positional_capacity, collect_param_spec

\* The size of two sets together that share nothing.
LEMMA DisjointCardinality ==
  ASSUME NEW S, NEW T, IsFiniteSet(S), IsFiniteSet(T), S \cap T = {}
  PROVE  Cardinality(S \cup T) = Cardinality(S) + Cardinality(T)
<1>1. Cardinality(S \cup T) = Cardinality(S) + Cardinality(T) - Cardinality({})
  BY FS_Union
<1>2. Cardinality({}) = 0 /\ Cardinality(S) \in Nat /\ Cardinality(T) \in Nat
  BY FS_EmptySet, FS_CardinalityType
<1> QED BY <1>1, <1>2

\* Of the positional parameters with a default, all after parameter i have one,
\* when it has one: so counting from the first is counting from the last.
LEMMA DefaultsCounted ==
  ASSUME NEW spec \in Specs, NEW i \in DOMAIN spec,
         spec[i].has_default, spec[i].kind \in PositionalKinds
  PROVE  Cardinality({j \in 1..i : spec[j].has_default})
           = Cardinality(PositionalDefaults(spec)) - (positional_capacity(spec) - i)
<1> DEFINE n == positional_capacity(spec)
           Upto == {j \in 1..i : spec[j].has_default}
<1>1. spec \in Seq(Params) /\ n \in Nat /\ i \in 1..n /\ n <= Len(spec)
  BY SpecFacts, Capacity
<1>2. \A j \in (i + 1)..n : spec[j].has_default
  BY <1>1, SpecsAssumption DEF DefaultsAtEnd
<1>3. PositionalDefaults(spec) = Upto \cup (i + 1)..n
  BY <1>1, <1>2 DEF PositionalDefaults
<1>4. IsFiniteSet(1..i) /\ IsFiniteSet((i + 1)..n) /\ Cardinality((i + 1)..n) = n - i
  <2>1. n \in Int /\ i \in Int /\ i + 1 \in Int /\ 1 \in Int /\ i <= n
    BY <1>1
  <2> HIDE DEF n
  <2>2. IsFiniteSet(1..i)
    BY <2>1, FS_Interval
  <2>3. /\ IsFiniteSet((i + 1)..n)
        /\ Cardinality((i + 1)..n) = IF i + 1 > n THEN 0 ELSE n - (i + 1) + 1
    BY <2>1, FS_Interval
  <2> QED BY <2>1, <2>2, <2>3
<1>5. IsFiniteSet(Upto) /\ Cardinality(Upto) \in Nat
  BY <1>4, FS_Subset, FS_CardinalityType
<1>6. Upto \cap (i + 1)..n = {}
  BY <1>1
<1>7. Cardinality(Upto \cup (i + 1)..n) = Cardinality(Upto) + Cardinality((i + 1)..n)
  BY <1>4, <1>5, <1>6, DisjointCardinality
<1> QED BY <1>1, <1>3, <1>4, <1>5, <1>7

\* A default is taken from where Python takes it from, in every signature.
THEOREM DefaultsLikePython ==
  ASSUME NEW spec \in Specs, NEW i \in DOMAIN spec
  PROVE  DefaultSource(spec, i) = PythonDefaultSource(spec, i)
<1>1. CASE ~spec[i].has_default
  BY <1>1 DEF DefaultSource, PythonDefaultSource
<1>2. CASE spec[i].has_default /\ spec[i].kind = "KwOnly"
  BY <1>2 DEF DefaultSource, PythonDefaultSource
<1>3. CASE spec[i].has_default /\ spec[i].kind # "KwOnly"
  <2>1. spec[i] \in Params
    BY SpecFacts
  <2>2. spec[i].kind \in PositionalKinds
    BY <1>3, <2>1, SpecFacts DEF collect_param_spec, Params, Kinds, PositionalKinds
  <2> QED BY <1>3, <2>2, DefaultsCounted DEF DefaultSource, PythonDefaultSource
<1> QED BY <1>1, <1>2, <1>3

\* A name stands for one parameter.
LEMMA ParamIndex ==
  ASSUME NEW spec \in Specs, NEW i \in DOMAIN spec
  PROVE  param_index(spec, spec[i].name) = i
BY SpecFacts DEF param_index

\* A keyword has one value.
LEMMA KeywordOnce ==
  ASSUME NEW r \in Requests, NEW j \in DOMAIN r.kwnames
  PROVE  KeywordValue(r, r.kwnames[j]) = r.kwvalues[j]
BY DEF Requests, KeywordValue

-----------------------------------------------------------------------------
\* What an ordinary parameter has when the keywords before k have been bound.
Expected(i, k) ==
  IF FromPosition(request, i) THEN request.args[i]
  ELSE IF \E j \in 1..(k - 1) : request.kwnames[j] = Spec0[i].name /\ Spec0[i].kind \in KeywordKinds
  THEN KeywordValue(request, Spec0[i].name) ELSE NULL
Collected(k) ==
  {n \in {request.kwnames[j] : j \in 1..(k - 1)} : n \notin Names(Spec0, KeywordKinds)}
\* Keyword j is for nothing, or for a parameter that has no argument yet.
Accepted(j) ==
  /\ request.kwnames[j] \notin Names(Spec0, KeywordKinds) => Takes(Spec0, "KwArg")
  /\ \A i \in DOMAIN Spec0 :
       Spec0[i].kind \in KeywordKinds /\ Spec0[i].name = request.kwnames[j] => ~FromPosition(request, i)

Begun == {"positionals", "varargs", "varkw", "keywords", "bound"}
Following == Begun \ {"positionals"}
TypeInv ==
  /\ stage \in Begun \cup Failed \cup {"idle"}
  /\ stage # "idle" => request \in Requests
  /\ stage \in Begun => bound \in [DOMAIN Spec0 -> Values \cup {NULL}]
  /\ stage \in Begun => next \in 1..(Len(request.kwnames) + 1)
PositionInv ==
  /\ stage \in Begun \ {"keywords", "bound"} => next = 1
  /\ stage \in Following =>
       /\ ~TooManyPositionals
       /\ \A i \in DOMAIN Spec0 : Spec0[i].kind \notin Rest => bound[i] = Expected(i, next)
RestInv ==
  /\ stage \in Following \ {"varargs"} /\ Takes(Spec0, "VarArg") => extras = Surplus(request)
  /\ stage \in Begun => named = [n \in Collected(next) |-> KeywordValue(request, n)]
KeywordInv ==
  /\ stage \in Begun => \A j \in 1..(next - 1) : Accepted(j)
  /\ stage = "bound" => next = Len(request.kwnames) + 1 /\ \A i \in DOMAIN Spec0 : ~Missing(i)
  /\ stage = "TypeError" => ~Legal(request)
BindingInv == TypeInv /\ PositionInv /\ RestInv /\ KeywordInv

\* What the type of a request says of its parts.
LEMMA RequestFacts ==
  ASSUME NEW r \in Requests
  PROVE  /\ r.spec \in Specs
         /\ r.args \in Seq(Values)
         /\ r.kwnames \in Seq(STRING)
         /\ r.kwvalues \in Seq(Values)
         /\ DOMAIN r.kwnames = 1..Len(r.kwnames)
         /\ \A j \in DOMAIN r.kwnames : r.kwvalues[j] \in Values
         /\ \A i, j \in DOMAIN r.kwnames : r.kwnames[i] = r.kwnames[j] => i = j
         /\ Len(r.kwnames) \in Nat
BY DEF Requests

\* Nothing has happened to a new request.
LEMMA Beginning == BindingInv /\ (\E r \in Requests : Begin(r)) => BindingInv'
<1> SUFFICES ASSUME BindingInv, NEW r \in Requests, Begin(r) PROVE BindingInv'
  OBVIOUS
<1>1. /\ request' = r /\ stage' = "positionals" /\ next' = 1
      /\ bound' = [i \in DOMAIN r.spec |-> NULL] /\ named' = <<>>
  BY DEF Begin
<1>2. TypeInv'
  BY <1>1, RequestFacts DEF TypeInv, Begun, Failed, Spec0
<1>3. PositionInv'
  BY <1>1 DEF PositionInv, Begun, Following
<1>4. Collected(1)' = {}
  BY DEF Collected
<1>5. <<>> = [n \in {} |-> KeywordValue(request, n)]'
  OBVIOUS
<1>6. RestInv'
  BY <1>1, <1>4, <1>5 DEF RestInv, Begun, Following, Collected
<1>7. KeywordInv'
  BY <1>1 DEF KeywordInv
<1> QED BY <1>2, <1>3, <1>6, <1>7 DEF BindingInv

\* Each positional argument is for the parameter of its place.
LEMMA Positions == BindingInv /\ BindPositionals => BindingInv'
<1> SUFFICES ASSUME BindingInv, BindPositionals PROVE BindingInv'
  OBVIOUS
<1>1. /\ stage = "positionals" /\ stage' = "varargs" /\ ~TooManyPositionals
      /\ bound' = [i \in DOMAIN Spec0 |-> IF i <= positional_capacity(Spec0) /\ i <= Len(request.args)
                                         THEN request.args[i] ELSE NULL]
      /\ UNCHANGED <<request, next, extras, named>>
  BY DEF BindPositionals
<1>2. request \in Requests /\ next = 1 /\ Spec0 \in Specs /\ DOMAIN Spec0 = 1..Len(Spec0)
  BY <1>1, RequestFacts, SpecFacts DEF BindingInv, TypeInv, PositionInv, Begun, Spec0
<1>3. TypeInv'
  <2>1. \A i \in DOMAIN Spec0 : bound'[i] \in Values \cup {NULL}
    BY <1>1, <1>2, RequestFacts
  <2> QED BY <1>1, <1>2, <2>1 DEF BindingInv, TypeInv, Begun, Spec0
<1>4. PositionInv'
  <2>1. \A i \in DOMAIN Spec0 : bound'[i] = Expected(i, 1)
    BY <1>1, <1>2, Capacity DEF Expected, FromPosition, Spec0
  <2> QED BY <1>1, <1>2, <2>1 DEF PositionInv, Expected, FromPosition, Spec0, TooManyPositionals, Begun, Following
<1>5. RestInv'
  BY <1>1 DEF BindingInv, RestInv, Begun, Following, Collected, Spec0
<1>6. KeywordInv'
  BY <1>1 DEF BindingInv, KeywordInv, Begun, Accepted, Spec0, FromPosition
<1> QED BY <1>3, <1>4, <1>5, <1>6 DEF BindingInv

\* The parameters for the other arguments are never those for one of them.
LEMMA OthersKept ==
  ASSUME BindingInv, NEW kind \in Rest, NEW t \in Values, stage \in Begun,
         bound' = IF Takes(Spec0, kind) THEN [bound EXCEPT ![IndexOf(Spec0, kind)] = t] ELSE bound
  PROVE  /\ bound' \in [DOMAIN Spec0 -> Values \cup {NULL}]
         /\ \A i \in DOMAIN Spec0 : Spec0[i].kind \notin Rest => bound'[i] = bound[i]
<1>1. bound \in [DOMAIN Spec0 -> Values \cup {NULL}]
  BY DEF BindingInv, TypeInv
<1>2. Takes(Spec0, kind) => IndexOf(Spec0, kind) \in DOMAIN Spec0 /\ Spec0[IndexOf(Spec0, kind)].kind = kind
  BY DEF Takes, IndexOf
<1> QED BY <1>1, <1>2

\* The tuple of extra positional arguments is put in its place (BindVarArgs).
LEMMA VarArgs == \A t \in Values : BindingInv /\ BindVarArgs(t) => BindingInv'
<1> SUFFICES ASSUME NEW t \in Values, BindingInv, BindVarArgs(t) PROVE BindingInv'
  OBVIOUS
<1>1. /\ stage = "varargs" /\ stage' = "varkw"
      /\ bound' = IF Takes(Spec0, "VarArg") THEN [bound EXCEPT ![IndexOf(Spec0, "VarArg")] = t] ELSE bound
      /\ Takes(Spec0, "VarArg") => extras' = Surplus(request)
      /\ UNCHANGED <<request, next, named>>
  BY DEF BindVarArgs, Surplus, Spec0
<1>2. /\ bound' \in [DOMAIN Spec0 -> Values \cup {NULL}]
      /\ \A i \in DOMAIN Spec0 : Spec0[i].kind \notin Rest => bound'[i] = bound[i]
  BY <1>1, OthersKept DEF Begun, Rest
<1>3. TypeInv'
  BY <1>1, <1>2 DEF BindingInv, TypeInv, Begun, Spec0
<1>4. PositionInv'
  BY <1>1, <1>2 DEF BindingInv, PositionInv, Begun, Following, Expected, FromPosition, Spec0, TooManyPositionals
<1>5. RestInv'
  BY <1>1 DEF BindingInv, RestInv, Begun, Following, Collected, Spec0
<1>6. KeywordInv'
  BY <1>1 DEF BindingInv, KeywordInv, Begun, Accepted, Spec0, FromPosition
<1> QED BY <1>3, <1>4, <1>5, <1>6 DEF BindingInv

\* The dict of extra keywords is put in its place, still empty (BindVarKw).
LEMMA VarKw == \A t \in Values : BindingInv /\ BindVarKw(t) => BindingInv'
<1> SUFFICES ASSUME NEW t \in Values, BindingInv, BindVarKw(t) PROVE BindingInv'
  OBVIOUS
<1>1. /\ stage = "varkw" /\ stage' = "keywords"
      /\ bound' = IF Takes(Spec0, "KwArg") THEN [bound EXCEPT ![IndexOf(Spec0, "KwArg")] = t] ELSE bound
      /\ UNCHANGED <<request, next, extras, named>>
  BY DEF BindVarKw
<1>2. /\ bound' \in [DOMAIN Spec0 -> Values \cup {NULL}]
      /\ \A i \in DOMAIN Spec0 : Spec0[i].kind \notin Rest => bound'[i] = bound[i]
  BY <1>1, OthersKept DEF Begun, Rest
<1>3. TypeInv'
  BY <1>1, <1>2 DEF BindingInv, TypeInv, Begun, Spec0
<1>4. PositionInv'
  BY <1>1, <1>2 DEF BindingInv, PositionInv, Begun, Following, Expected, FromPosition, Spec0, TooManyPositionals
<1>5. RestInv'
  BY <1>1 DEF BindingInv, RestInv, Begun, Following, Collected, Spec0, Surplus
<1>6. KeywordInv'
  BY <1>1 DEF BindingInv, KeywordInv, Begun, Accepted, Spec0, FromPosition
<1> QED BY <1>3, <1>4, <1>5, <1>6 DEF BindingInv

\* The next keyword is claimed when it names a parameter that can be given so.
LEMMA ClaimedFacts ==
  ASSUME request \in Requests
  PROVE  /\ Claimed <=> NextName \in Names(Spec0, KeywordKinds)
         /\ \A i \in DOMAIN Spec0 : Spec0[i].name = NextName => HasParam /\ param_index(Spec0, NextName) = i
<1>1. Spec0 \in Specs
  BY RequestFacts DEF Spec0
<1>2. \A i \in DOMAIN Spec0 : Spec0[i].name = NextName => HasParam /\ param_index(Spec0, NextName) = i
  BY <1>1, ParamIndex DEF HasParam
<1> QED BY <1>2 DEF Claimed, Names, HasParam

\* What any step over a keyword finds.
LEMMA NextKeyword ==
  ASSUME BindingInv, KeywordsLeft
  PROVE  /\ stage = "keywords" /\ request \in Requests
         /\ next \in DOMAIN request.kwnames /\ next + 1 \in 1..(Len(request.kwnames) + 1)
         /\ 1..next = 1..(next - 1) \cup {next} /\ (next + 1) - 1 = next
         /\ \A j \in 1..(next - 1) : j \in DOMAIN request.kwnames /\ request.kwnames[j] # NextName
         /\ KeywordValue(request, NextName) = request.kwvalues[next]
         /\ request.kwvalues[next] \in Values
<1>1. stage = "keywords" /\ request \in Requests /\ next \in 1..(Len(request.kwnames) + 1)
      /\ next <= Len(request.kwnames)
  BY DEF KeywordsLeft, BindingInv, TypeInv, Begun
<1>2. Len(request.kwnames) \in Nat /\ DOMAIN request.kwnames = 1..Len(request.kwnames)
  BY <1>1, RequestFacts
<1>3. next \in DOMAIN request.kwnames
  BY <1>1, <1>2
<1>4. \A j \in 1..(next - 1) : j \in DOMAIN request.kwnames /\ request.kwnames[j] # NextName
  BY <1>1, <1>2, <1>3, RequestFacts DEF NextName
<1>5. KeywordValue(request, NextName) = request.kwvalues[next] /\ request.kwvalues[next] \in Values
  BY <1>1, <1>3, KeywordOnce, RequestFacts DEF NextName
<1> QED BY <1>1, <1>2, <1>3, <1>4, <1>5

\* A parameter without a value has no argument at its place.
LEMMA NullIsFree ==
  ASSUME request \in Requests, NEW i \in DOMAIN Spec0, NEW k \in Nat, Expected(i, k) = NULL
  PROVE  ~FromPosition(request, i)
<1> SUFFICES ASSUME FromPosition(request, i) PROVE FALSE
  OBVIOUS
<1>1. i \in 1..Len(request.args)
  BY RequestFacts, SpecFacts DEF FromPosition, Spec0
<1>2. request.args[i] \in Values
  BY <1>1, RequestFacts
<1> QED BY <1>2, NullAssumption DEF Expected

\* A keyword that names an unfilled parameter fills it (BindKeyword).
LEMMA Keywords == BindingInv /\ BindKeyword => BindingInv'
<1> SUFFICES ASSUME BindingInv, BindKeyword PROVE BindingInv'
  OBVIOUS
<1> DEFINE p == param_index(Spec0, NextName)
<1>1. /\ KeywordsLeft /\ Claimed /\ bound[p] = NULL
      /\ bound' = [bound EXCEPT ![p] = request.kwvalues[next]]
      /\ next' = next + 1
      /\ UNCHANGED <<request, stage, extras, named>>
  BY DEF BindKeyword
<1>2. /\ stage = "keywords" /\ request \in Requests
      /\ next \in DOMAIN request.kwnames /\ next + 1 \in 1..(Len(request.kwnames) + 1)
      /\ 1..next = 1..(next - 1) \cup {next} /\ (next + 1) - 1 = next
      /\ \A j \in 1..(next - 1) : j \in DOMAIN request.kwnames /\ request.kwnames[j] # NextName
      /\ KeywordValue(request, NextName) = request.kwvalues[next]
      /\ request.kwvalues[next] \in Values
  BY <1>1, NextKeyword
<1>3. /\ p \in DOMAIN Spec0 /\ Spec0[p].name = NextName /\ Spec0[p].kind \in KeywordKinds
      /\ \A i \in DOMAIN Spec0 : Spec0[i].name = NextName => i = p
  BY <1>1, <1>2, ClaimedFacts DEF Claimed, HasParam
<1>4. bound \in [DOMAIN Spec0 -> Values \cup {NULL}]
  BY <1>2 DEF BindingInv, TypeInv, Begun
<1>5. \A i \in DOMAIN Spec0 : Spec0[i].kind \notin Rest => bound[i] = Expected(i, next)
  BY <1>2 DEF BindingInv, PositionInv, Begun, Following
<1>6. ~FromPosition(request, p)
  <2>1. Expected(p, next) = NULL
    BY <1>1, <1>3, <1>5 DEF KeywordKinds, Rest
  <2>2. next \in Nat
    BY <1>2, RequestFacts
  <2> QED BY <1>2, <1>3, <2>1, <2>2, NullIsFree
<1>7. TypeInv'
  BY <1>1, <1>2, <1>3, <1>4 DEF BindingInv, TypeInv, Begun, Spec0
<1>8. PositionInv'
  <2>1. Expected(p, next + 1) = request.kwvalues[next]
    <3>1. NextName = request.kwnames[next] /\ next \in 1..next
      BY <1>2, RequestFacts DEF NextName
    <3> QED BY <1>2, <1>3, <1>6, <3>1 DEF Expected
  <2>2. \A i \in DOMAIN Spec0 \ {p} : Expected(i, next + 1) = Expected(i, next)
    BY <1>2, <1>3 DEF Expected, NextName
  <2>3. \A i \in DOMAIN Spec0 : Spec0[i].kind \notin Rest => bound'[i] = Expected(i, next + 1)
    BY <1>1, <1>3, <1>4, <1>5, <1>6, <2>1, <2>2
  <2> QED BY <1>1, <1>2, <2>3 DEF BindingInv, PositionInv, Begun, Following, Expected, FromPosition, Spec0, TooManyPositionals
<1>9. RestInv'
  <2>1. Collected(next + 1) = Collected(next)
    BY <1>1, <1>2, ClaimedFacts DEF Collected, NextName
  <2>2. named' = [n \in Collected(next + 1) |-> KeywordValue(request, n)]
    BY <1>1, <1>2, <2>1 DEF BindingInv, RestInv, Begun
  <2>3. RestInv' = (/\ stage \in Following \ {"varargs"} /\ Takes(Spec0, "VarArg") => extras = Surplus(request)
                    /\ stage \in Begun => named' = [n \in Collected(next + 1) |-> KeywordValue(request, n)])
    BY <1>1 DEF RestInv, Collected, Spec0, Surplus, KeywordValue
  <2> QED BY <2>2, <2>3 DEF BindingInv, RestInv
<1>10. KeywordInv'
  <2>1. Accepted(next)
    BY <1>1, <1>2, <1>3, <1>6, ClaimedFacts DEF Accepted, NextName
  <2>2. \A j \in 1..next : Accepted(j)
    BY <1>2, <2>1 DEF BindingInv, KeywordInv, Begun
  <2> QED BY <1>1, <1>2, <2>2 DEF BindingInv, KeywordInv, Begun, Accepted, Spec0, FromPosition
<1> QED BY <1>7, <1>8, <1>9, <1>10 DEF BindingInv

\* A keyword that names no parameter goes to the dict (CollectKeyword).
LEMMA Collecting == BindingInv /\ CollectKeyword => BindingInv'
<1> SUFFICES ASSUME BindingInv, CollectKeyword PROVE BindingInv'
  OBVIOUS
<1>1. /\ KeywordsLeft /\ ~Claimed /\ Takes(Spec0, "KwArg")
      /\ named' = [n \in DOMAIN named \cup {NextName} |-> IF n = NextName THEN request.kwvalues[next] ELSE named[n]]
      /\ next' = next + 1
      /\ UNCHANGED <<request, stage, bound, extras>>
  BY DEF CollectKeyword
<1>2. /\ stage = "keywords" /\ request \in Requests
      /\ next \in DOMAIN request.kwnames /\ next + 1 \in 1..(Len(request.kwnames) + 1)
      /\ 1..next = 1..(next - 1) \cup {next} /\ (next + 1) - 1 = next
      /\ \A j \in 1..(next - 1) : j \in DOMAIN request.kwnames /\ request.kwnames[j] # NextName
      /\ KeywordValue(request, NextName) = request.kwvalues[next]
      /\ request.kwvalues[next] \in Values
  BY <1>1, NextKeyword
<1>3. /\ NextName \notin Names(Spec0, KeywordKinds)
      /\ \A i \in DOMAIN Spec0 : Spec0[i].name = NextName => Spec0[i].kind \notin KeywordKinds
  BY <1>1, <1>2, ClaimedFacts DEF Names
<1>4. TypeInv'
  BY <1>1, <1>2 DEF BindingInv, TypeInv, Begun, Spec0
<1>5. PositionInv'
  <2>1. \A i \in DOMAIN Spec0 : Expected(i, next + 1) = Expected(i, next)
    BY <1>2, <1>3 DEF Expected, NextName
  <2> QED BY <1>1, <1>2, <2>1 DEF BindingInv, PositionInv, Begun, Following, Expected, FromPosition, Spec0, TooManyPositionals
<1>6. RestInv'
  <2>1. Collected(next + 1) = Collected(next) \cup {NextName}
    BY <1>2, <1>3 DEF Collected, NextName
  <2>2. named = [n \in Collected(next) |-> KeywordValue(request, n)]
    BY <1>2 DEF BindingInv, RestInv, Begun
  <2>3. named' = [n \in Collected(next + 1) |-> KeywordValue(request, n)]
    BY <1>1, <1>2, <2>1, <2>2
  <2>4. RestInv' = (/\ stage \in Following \ {"varargs"} /\ Takes(Spec0, "VarArg") => extras = Surplus(request)
                    /\ stage \in Begun => named' = [n \in Collected(next + 1) |-> KeywordValue(request, n)])
    BY <1>1 DEF RestInv, Collected, Spec0, Surplus, KeywordValue
  <2> QED BY <2>3, <2>4 DEF BindingInv, RestInv
<1>7. KeywordInv'
  <2>1. Accepted(next)
    BY <1>1, <1>2, <1>3 DEF Accepted, NextName
  <2>2. \A j \in 1..next : Accepted(j)
    BY <1>2, <2>1 DEF BindingInv, KeywordInv, Begun
  <2> QED BY <1>1, <1>2, <2>2 DEF BindingInv, KeywordInv, Begun, Accepted, Spec0, FromPosition
<1> QED BY <1>4, <1>5, <1>6, <1>7 DEF BindingInv

-----------------------------------------------------------------------------
\* A call that is refused is not legal.
LEMMA PositionalsIllegal == BindingInv /\ RefusePositionals => ~Legal(request)
<1> SUFFICES ASSUME BindingInv, RefusePositionals PROVE ~Legal(request)
  OBVIOUS
<1>1. request \in Requests
  BY DEF RefusePositionals, BindingInv, TypeInv, Begun
<1>2. positional_capacity(request.spec) \in Int /\ Len(request.args) \in Int
  BY <1>1, RequestFacts, SpecFacts, Capacity
<1> QED BY <1>2 DEF RefusePositionals, TooManyPositionals, Legal, Spec0

\* A keyword is refused only in a call that Python refuses.
LEMMA KeywordIllegal == BindingInv /\ RefuseKeyword => ~Legal(request)
<1> SUFFICES ASSUME BindingInv, RefuseKeyword PROVE ~Legal(request)
  OBVIOUS
<1> DEFINE p == param_index(Spec0, NextName)
<1>1. KeywordsLeft /\ (IF Claimed THEN bound[p] # NULL ELSE ~Takes(Spec0, "KwArg"))
  BY DEF RefuseKeyword
<1>2. /\ stage = "keywords" /\ request \in Requests
      /\ next \in DOMAIN request.kwnames
      /\ \A j \in 1..(next - 1) : request.kwnames[j] # NextName
  BY <1>1, NextKeyword
<1>3. CASE Claimed
  <2>1. p \in DOMAIN Spec0 /\ Spec0[p].name = NextName /\ Spec0[p].kind \in KeywordKinds
    BY <1>2, <1>3, ClaimedFacts DEF Claimed, HasParam
  <2>2. Expected(p, next) # NULL
    BY <1>1, <1>2, <1>3, <2>1 DEF BindingInv, PositionInv, Begun, Following, KeywordKinds, Rest
  <2>3. FromPosition(request, p)
    BY <1>2, <2>1, <2>2 DEF Expected
  <2>4. FromKeyword(request, p)
    BY <1>2, <2>1 DEF FromKeyword, Keyword, NextName, Spec0
  <2> QED BY <2>1, <2>3, <2>4 DEF Legal, Spec0
<1>4. CASE ~Claimed
  <2>1. NextName \in Unclaimed(request)
    BY <1>2, <1>4, ClaimedFacts DEF Unclaimed, NextName, Spec0
  <2> QED BY <1>1, <1>4, <2>1 DEF Legal, Spec0
<1> QED BY <1>3, <1>4

\* When all keywords are bound, a parameter has no value only if the call
\* gives it none.
LEMMA GivenWhenBound ==
  ASSUME request \in Requests, next = Len(request.kwnames) + 1, NEW i \in DOMAIN Spec0
  PROVE  Expected(i, next) = IF Given(request, i) THEN ValueOf(request, i) ELSE NULL
<1>1. 1..(next - 1) = DOMAIN request.kwnames
  BY RequestFacts
<1> QED BY <1>1 DEF Expected, Given, FromKeyword, Keyword, ValueOf, Spec0

\* What a call gives is a value.
LEMMA GivenIsValue ==
  ASSUME request \in Requests, NEW i \in DOMAIN Spec0, Given(request, i)
  PROVE  ValueOf(request, i) \in Values
<1>1. CASE FromPosition(request, i)
  <2>1. i \in 1..Len(request.args)
    BY <1>1, RequestFacts, SpecFacts DEF FromPosition, Spec0
  <2> QED BY <1>1, <2>1, RequestFacts DEF ValueOf
<1>2. CASE ~FromPosition(request, i)
  <2>1. PICK j \in DOMAIN request.kwnames : request.kwnames[j] = Spec0[i].name
    BY <1>2 DEF Given, FromKeyword, Keyword, Spec0
  <2>2. KeywordValue(request, Spec0[i].name) = request.kwvalues[j]
    BY <2>1, KeywordOnce
  <2> QED BY <1>2, <2>1, <2>2, RequestFacts DEF ValueOf, Spec0
<1> QED BY <1>1, <1>2

\* A missing argument is reported only in a call that Python refuses.
LEMMA MissingIllegal == BindingInv /\ RefuseMissing => ~Legal(request)
<1> SUFFICES ASSUME BindingInv, RefuseMissing PROVE ~Legal(request)
  OBVIOUS
<1>1. PICK i \in DOMAIN Spec0 : Missing(i)
  BY DEF RefuseMissing
<1>2. stage = "keywords" /\ request \in Requests /\ next \in 1..(Len(request.kwnames) + 1)
      /\ next > Len(request.kwnames)
  BY DEF RefuseMissing, KeywordsDone, BindingInv, TypeInv, Begun
<1>3. next = Len(request.kwnames) + 1
  BY <1>2, RequestFacts
<1>4. Expected(i, next) = NULL
  BY <1>1, <1>2 DEF Missing, Rest, BindingInv, PositionInv, Begun, Following
<1>5. ~Given(request, i)
  BY <1>2, <1>3, <1>4, GivenWhenBound, GivenIsValue, NullAssumption
<1> QED BY <1>1, <1>5 DEF Legal, Missing, Spec0

\* The way out of an error, or to the caller, keeps nothing.
LEMMA Refusing ==
  ASSUME BindingInv, NEW error \in Failed, RefuseWith(error), stage \in Begun,
         error = "TypeError" => ~Legal(request)
  PROVE  BindingInv'
<1>1. /\ stage' = error /\ error \notin Begun /\ error # "idle" /\ request' = request
  BY DEF RefuseWith, Failed, Begun
<1>2. request \in Requests
  BY DEF BindingInv, TypeInv, Begun
<1>3. TypeInv'
  BY <1>1, <1>2 DEF TypeInv
<1>4. PositionInv' /\ RestInv'
  BY <1>1 DEF PositionInv, RestInv, Following, Begun
<1>5. KeywordInv'
  BY <1>1 DEF KeywordInv, Begun
<1> QED BY <1>3, <1>4, <1>5 DEF BindingInv

\* Every way to fail keeps the invariant.
LEMMA Refusals ==
  BindingInv /\ (RefusePositionals \/ NoMemory \/ RefuseKeyword \/ RefuseMissing) => BindingInv'
<1> SUFFICES ASSUME BindingInv, RefusePositionals \/ NoMemory \/ RefuseKeyword \/ RefuseMissing
             PROVE  BindingInv'
  OBVIOUS
<1>1. CASE RefusePositionals
  <2>1. stage \in Begun /\ RefuseWith("TypeError")
    BY <1>1 DEF RefusePositionals, Begun
  <2> QED BY <1>1, <2>1, PositionalsIllegal, Refusing DEF Failed
<1>2. CASE NoMemory
  <2>1. stage \in Begun /\ RefuseWith("MemoryError")
    BY <1>2 DEF NoMemory, KeywordsLeft, Begun
  <2> QED BY <2>1, Refusing DEF Failed
<1>3. CASE RefuseKeyword
  <2>1. stage \in Begun /\ RefuseWith("TypeError")
    BY <1>3 DEF RefuseKeyword, KeywordsLeft, Begun
  <2> QED BY <1>3, <2>1, KeywordIllegal, Refusing DEF Failed
<1>4. CASE RefuseMissing
  <2>1. stage \in Begun /\ RefuseWith("TypeError")
    BY <1>4 DEF RefuseMissing, KeywordsDone, Begun
  <2> QED BY <1>4, <2>1, MissingIllegal, Refusing DEF Failed
<1> QED BY <1>1, <1>2, <1>3, <1>4

\* Following the last keyword, each parameter has its argument or its default (Complete).
LEMMA Completing == BindingInv /\ Complete => BindingInv'
<1> SUFFICES ASSUME BindingInv, Complete PROVE BindingInv'
  OBVIOUS
<1>1. /\ stage = "keywords" /\ stage' = "bound" /\ next > Len(request.kwnames)
      /\ \A i \in DOMAIN Spec0 : ~Missing(i)
      /\ UNCHANGED <<request, next, bound, extras, named>>
  BY DEF Complete, KeywordsDone
<1>2. request \in Requests /\ next \in 1..(Len(request.kwnames) + 1)
  BY <1>1 DEF BindingInv, TypeInv, Begun
<1>3. next = Len(request.kwnames) + 1
  BY <1>1, <1>2, RequestFacts
<1>4. TypeInv'
  BY <1>1 DEF BindingInv, TypeInv, Begun, Spec0
<1>5. PositionInv'
  BY <1>1 DEF BindingInv, PositionInv, Begun, Following, Expected, FromPosition, Spec0, TooManyPositionals
<1>6. RestInv'
  BY <1>1 DEF BindingInv, RestInv, Begun, Following, Collected, Spec0
<1>7. KeywordInv'
  BY <1>1, <1>3 DEF BindingInv, KeywordInv, Begun, Accepted, Spec0, Missing
<1> QED BY <1>4, <1>5, <1>6, <1>7 DEF BindingInv

\* When the caller takes the result, the arrays are put back as before a call (Take).
LEMMA Taking == BindingInv /\ Take => BindingInv'
BY DEF Take, BindingInv, TypeInv, PositionInv, RestInv, KeywordInv, Begun, Following, Failed

\* A step that leaves binding alone keeps the invariant.
LEMMA Unchanged == BindingInv /\ UNCHANGED bindingVars => BindingInv'
<1> SUFFICES ASSUME BindingInv, UNCHANGED bindingVars PROVE BindingInv'
  OBVIOUS
<1>1. UNCHANGED <<request, stage, next, bound, extras, named>>
  BY DEF bindingVars
<1>2. TypeInv'
  BY <1>1 DEF BindingInv, TypeInv, Spec0
<1>3. PositionInv'
  BY <1>1 DEF BindingInv, PositionInv, Expected, FromPosition, Spec0, TooManyPositionals
<1>4. RestInv'
  BY <1>1 DEF BindingInv, RestInv, Collected, Spec0
<1>5. KeywordInv'
  BY <1>1 DEF BindingInv, KeywordInv, Accepted, Missing, Spec0
<1> QED BY <1>2, <1>3, <1>4, <1>5 DEF BindingInv

-----------------------------------------------------------------------------
\* What build_function_bound_args has bound at every point is what Python
\* gives the parameters, of the arguments and keywords seen so far.
THEOREM BindingInvariant == BindingSpec => []BindingInv
<1>1. BindingInit => BindingInv
  BY DEF BindingInit, BindingInv, TypeInv, PositionInv, RestInv, KeywordInv, Begun, Following, Failed
<1>2. BindingInv /\ [BindingNext]_bindingVars => BindingInv'
  BY Beginning, Positions, VarArgs, VarKw, Keywords, Collecting, Refusals, Completing, Taking, Unchanged
     DEF BindingNext
<1> QED BY <1>1, <1>2, PTL DEF BindingSpec

\* Bound arguments are those of a legal call, as Python binds them.
LEMMA InvariantGivesBound == BindingInv => BoundLikePython
<1> SUFFICES ASSUME BindingInv PROVE BoundLikePython
  OBVIOUS
<1>1. stage = "TypeError" => ~Legal(request)
  BY DEF BindingInv, KeywordInv
<1>2. SUFFICES ASSUME stage = "bound"
               PROVE /\ Legal(request)
                     /\ \A i \in DOMAIN Spec0 :
                          CASE Spec0[i].kind = "VarArg" -> extras = Surplus(request)
                            [] Spec0[i].kind = "KwArg" ->
                                 named = [n \in Unclaimed(request) |-> KeywordValue(request, n)]
                            [] OTHER -> /\ bound[i] = IF Given(request, i) THEN ValueOf(request, i) ELSE NULL
                                        /\ bound[i] = NULL =>
                                             DefaultSource(Spec0, i) = PythonDefaultSource(Spec0, i)
  BY <1>1 DEF BoundLikePython
<1>3. /\ request \in Requests /\ next = Len(request.kwnames) + 1 /\ ~TooManyPositionals
      /\ \A i \in DOMAIN Spec0 : Spec0[i].kind \notin Rest => bound[i] = Expected(i, next)
      /\ \A j \in 1..(next - 1) : Accepted(j)
      /\ \A i \in DOMAIN Spec0 : ~Missing(i)
  BY <1>2 DEF BindingInv, TypeInv, PositionInv, KeywordInv, Begun, Following
<1>4. 1..(next - 1) = DOMAIN request.kwnames /\ Spec0 \in Specs /\ Len(request.args) \in Int
      /\ positional_capacity(Spec0) \in Int
  BY <1>3, RequestFacts, Capacity, SpecFacts DEF Spec0
<1>5. \A i \in DOMAIN Spec0 : Spec0[i].kind \notin Rest =>
        bound[i] = IF Given(request, i) THEN ValueOf(request, i) ELSE NULL
  BY <1>3, GivenWhenBound
<1>6. Collected(next) = Unclaimed(request)
  BY <1>4 DEF Collected, Unclaimed, Spec0
<1>7. Legal(request)
  <2>1. Takes(Spec0, "VarArg") \/ Len(request.args) <= positional_capacity(Spec0)
    BY <1>3, <1>4 DEF TooManyPositionals
  <2>2. Takes(Spec0, "KwArg") \/ Unclaimed(request) = {}
    BY <1>3, <1>4 DEF Accepted, Unclaimed, Spec0
  <2>3. \A i \in DOMAIN Spec0 : ~(FromPosition(request, i) /\ FromKeyword(request, i))
    BY <1>3, <1>4 DEF Accepted, FromKeyword, Keyword, Spec0
  <2>4. \A i \in DOMAIN Spec0 : Spec0[i].kind \notin Rest => Given(request, i) \/ Spec0[i].has_default
    BY <1>3, <1>5 DEF Missing, Rest
  <2> QED BY <2>1, <2>2, <2>3, <2>4 DEF Legal, Spec0, Rest
<1>8. /\ Takes(Spec0, "VarArg") => extras = Surplus(request)
      /\ named = [n \in Unclaimed(request) |-> KeywordValue(request, n)]
  BY <1>2, <1>6 DEF BindingInv, RestInv, Begun, Following
<1> QED BY <1>4, <1>5, <1>7, <1>8, DefaultsLikePython DEF Takes, Rest

\* For any function and any call of it, the binding of arguments gives each
\* parameter what Python gives it, and refuses the calls that Python refuses.
THEOREM ArgumentsBoundLikePython == BindingSpec => []BoundLikePython
BY BindingInvariant, InvariantGivesBound, PTL

-----------------------------------------------------------------------------
LEMMA SeqFacts ==
  ASSUME NEW s, IsSeq(s)
  PROVE  Len(s) \in Nat /\ DOMAIN s = 1..Len(s) /\ s \in Seq({s[k] : k \in DOMAIN s})
<1> DEFINE T == {s[k] : k \in DOMAIN s}
<1>1. Len(s) \in Nat /\ s = [k \in 1..Len(s) |-> s[k]]
  BY DEF IsSeq
<1>2. DOMAIN s = 1..Len(s) /\ \A k \in 1..Len(s) : s[k] \in T
  BY <1>1
<1> HIDE DEF T
<1>3. s \in Seq(T)
  BY <1>1, <1>2
<1> QED BY <1>1, <1>2, <1>3 DEF T

LEMMA SeqIsSeq ==
  ASSUME NEW S, NEW s \in Seq(S)
  PROVE  IsSeq(s)
BY DEF IsSeq

\* Other elements at the same places.
LEMMA SameLength ==
  ASSUME NEW s, IsSeq(s), NEW t, t = [k \in DOMAIN s |-> t[k]]
  PROVE  IsSeq(t) /\ Len(t) = Len(s) /\ DOMAIN t = DOMAIN s
<1> DEFINE T == {t[k] : k \in DOMAIN s}
<1>1. Len(s) \in Nat /\ DOMAIN s = 1..Len(s)
  BY SeqFacts
<1>2. DOMAIN t = 1..Len(s) /\ t \in [1..Len(s) -> T]
  BY <1>1
<1>3. t \in Seq(T)
  BY <1>1, <1>2
<1>4. Len(t) = Len(s)
  BY <1>1, <1>2, <1>3
<1> QED BY <1>1, <1>2, <1>3, <1>4 DEF IsSeq

LEMMA UpToLast ==
  ASSUME NEW n \in Nat
  PROVE  /\ (n + 1) - 1 = n
         /\ \A k \in 1..n : k = n \/ (k \in 1..(n - 1) /\ k # n)
         /\ \A k \in 1..(n + 1) : k = n + 1 \/ k \in 1..n
         /\ \A k \in 1..(n - 1) : k # n /\ k \in 1..n
         /\ n # 0 => n \in 1..n
OBVIOUS

LEMMA LastReplaced ==
  ASSUME NEW s, IsSeq(s), Len(s) # 0, NEW e, NEW t, t = [s EXCEPT ![Len(s)] = e]
  PROVE  /\ IsSeq(t) /\ Len(t) = Len(s) /\ DOMAIN t = DOMAIN s
         /\ t[Len(s)] = e /\ \A k \in 1..(Len(s) - 1) : t[k] = s[k]
<1>1. Len(s) \in Nat /\ DOMAIN s = 1..Len(s)
  BY SeqFacts
<1> DEFINE n == Len(s)
<1>2. n \in Nat /\ n # 0 /\ DOMAIN s = 1..n /\ t = [s EXCEPT ![n] = e]
  BY <1>1
<1>3. t = [k \in DOMAIN s |-> t[k]]
  BY <1>2
<1>4. IsSeq(t) /\ Len(t) = Len(s) /\ DOMAIN t = DOMAIN s
  BY <1>3, SameLength
<1> HIDE DEF n
<1>5. n \in 1..n /\ \A k \in 1..(n - 1) : k # n /\ k \in 1..n
  BY <1>2
<1>6. t[n] = e /\ \A k \in 1..(n - 1) : t[k] = s[k]
  BY <1>2, <1>5
<1> QED BY <1>4, <1>6 DEF n

LEMMA AppendFacts ==
  ASSUME NEW s, IsSeq(s), NEW e
  PROVE  /\ IsSeq(Append(s, e))
         /\ Len(Append(s, e)) = Len(s) + 1
         /\ DOMAIN Append(s, e) = 1..(Len(s) + 1)
         /\ Append(s, e)[Len(s) + 1] = e
         /\ \A k \in 1..Len(s) : Append(s, e)[k] = s[k]
<1> DEFINE S == {s[k] : k \in DOMAIN s} \cup {e}
           t == Append(s, e)
<1>1. Len(s) \in Nat /\ DOMAIN s = 1..Len(s) /\ s \in Seq(S)
  <2>1. Len(s) \in Nat /\ DOMAIN s = 1..Len(s) /\ s \in Seq({s[k] : k \in DOMAIN s})
    BY SeqFacts
  <2> QED BY <2>1
<1>2. /\ t \in Seq(S) /\ Len(t) = Len(s) + 1 /\ DOMAIN t = 1..(Len(s) + 1)
      /\ t[Len(s) + 1] = e /\ \A k \in 1..Len(s) : t[k] = s[k]
  BY <1>1
<1> QED BY <1>2, SeqIsSeq

LEMMA FrontFacts ==
  ASSUME NEW s, IsSeq(s), Len(s) > 0
  PROVE  LET t == SubSeq(s, 1, Len(s) - 1)
         IN  /\ IsSeq(t) /\ Len(t) = Len(s) - 1
             /\ \A k \in 1..(Len(s) - 1) : t[k] = s[k]
<1> DEFINE S == {s[k] : k \in DOMAIN s}
           t == SubSeq(s, 1, Len(s) - 1)
<1>1. Len(s) \in Nat /\ DOMAIN s = 1..Len(s) /\ s \in Seq(S)
  BY SeqFacts
<1>2. /\ t \in Seq(S) /\ Len(t) = Len(s) - 1 /\ \A k \in 1..(Len(s) - 1) : t[k] = s[k]
  BY <1>1
<1> QED BY <1>2, SeqIsSeq

-----------------------------------------------------------------------------
\* A heap whose function objects are of the functions N; a world with one, in
\* which each name of the module has an object.
WorldOK(w, N) ==
  /\ w = [heap |-> w.heap, globals |-> w.globals, raised |-> w.raised]
  /\ IsHeap(w.heap, N)
  /\ \A x \in DOMAIN w.globals : w.globals[x] # NULL

\* Objects may change and be freed, but become no functions.
Like(o, old) == IsObject(o) /\ (o.kind = "function" => old.kind = "function" /\ o.name = old.name)
LEMMA HeapKept ==
  ASSUME NEW N, NEW h, IsHeap(h, N), NEW g, g = [r \in DOMAIN h |-> g[r]],
         \A r \in DOMAIN h : Like(g[r], h[r])
  PROVE  IsHeap(g, N)
<1>1. IsSeq(g) /\ DOMAIN g = DOMAIN h
  BY SameLength DEF IsHeap
<1>2. \A r \in DOMAIN h : IsObject(g[r]) /\ (g[r].kind = "function" => g[r].name \in N)
  BY DEF IsHeap, Like
<1> QED BY <1>1, <1>2 DEF IsHeap

\* One object changes, other than in its kind and name.
LEMMA ObjectChanges ==
  ASSUME NEW N, NEW h, IsHeap(h, N), NEW r, NEW o,
         r \in DOMAIN h => Like(o, h[r])
  PROVE  IsHeap([h EXCEPT ![r] = o], N)
<1> DEFINE g == [h EXCEPT ![r] = o]
<1>1. \A k \in DOMAIN h : Like(h[k], h[k])
  BY DEF IsHeap, Like
<1>2. g = [k \in DOMAIN h |-> g[k]] /\ \A k \in DOMAIN h : Like(g[k], h[k])
  <2>1. IsSeq(h) /\ DOMAIN h = 1..Len(h)
    BY SeqFacts DEF IsHeap
  <2> QED BY <1>1, <2>1
<1> HIDE DEF g
<1>3. IsHeap(g, N)
  BY <1>2, HeapKept
<1> QED BY <1>3 DEF g

LEMMA ItemsChange ==
  ASSUME NEW N, NEW h, IsHeap(h, N), NEW r, NEW x
  PROVE  IsHeap([h EXCEPT ![r].items = x], N) /\ IsHeap([h EXCEPT ![r].count = x], N)
<1>1. ASSUME r \in DOMAIN h
      PROVE  Like([h[r] EXCEPT !.items = x], h[r]) /\ Like([h[r] EXCEPT !.count = x], h[r])
  <2>1. IsObject(h[r])
    BY <1>1 DEF IsHeap
  <2> QED BY <2>1 DEF IsObject, Like
<1> QED BY <1>1, ObjectChanges

LEMMA CountsChange ==
  ASSUME NEW N, NEW h, IsHeap(h, N), NEW r, NEW rs
  PROVE  IsHeap(Incref(h, r), N) /\ IsHeap(IncrefAll(h, rs), N)
<1>1. IsHeap(Incref(h, r), N)
  BY ItemsChange DEF Incref
<1>2. IsHeap(IncrefAll(h, rs), N)
  <2> DEFINE g == IncrefAll(h, rs)
  <2>1. g = [k \in DOMAIN h |-> g[k]]
    BY DEF IncrefAll
  <2>2. ASSUME NEW k \in DOMAIN h
        PROVE  Like(g[k], h[k])
    <3>1. g[k] = [h[k] EXCEPT !.count = @ + Times(k, rs)] /\ IsObject(h[k])
      BY DEF IncrefAll, IsHeap
    <3> QED BY <3>1 DEF IsObject, Like
  <2> HIDE DEF g
  <2>3. IsHeap(g, N)
    BY <2>1, <2>2, HeapKept
  <2> QED BY <2>3 DEF g
<1> QED BY <1>1, <1>2

LEMMA ReferencesGivenUp ==
  ASSUME NEW N, NEW h, IsHeap(h, N), NEW rs, NEW r
  PROVE  IsHeap(DecrefAll(h, rs), N) /\ IsHeap(Decref(h, r), N)
<1>1. ASSUME NEW refs
      PROVE  IsHeap(DecrefAll(h, refs), N)
  <2> DEFINE dead == FreedBy(h, refs)
             left(k) == h[k].count - Times(k, refs) - TimesIn(h, dead, k)
             g == DecrefAll(h, refs)
  <2>1. g = [k \in DOMAIN h |-> [(IF k \in dead THEN Freed ELSE h[k]) EXCEPT !.count = left(k)]]
    BY DEF DecrefAll
  <2> HIDE DEF dead, left, g
  <2>2. ASSUME NEW k \in DOMAIN h
        PROVE  Like(g[k], h[k])
    <3>1. IsObject(h[k])
      BY DEF IsHeap
    <3>2. IsObject(Freed) /\ Freed.kind # "function"
      BY DEF IsObject, Freed
    <3>3. CASE k \in dead
      <4>1. g[k] = [Freed EXCEPT !.count = left(k)]
        BY <2>1, <3>3
      <4> QED BY <3>2, <4>1 DEF IsObject, Like
    <3>4. CASE k \notin dead
      <4>1. g[k] = [h[k] EXCEPT !.count = left(k)]
        BY <2>1, <3>4
      <4> QED BY <3>1, <4>1 DEF IsObject, Like
    <3> QED BY <3>3, <3>4
  <2>3. g = [k \in DOMAIN h |-> g[k]]
    BY <2>1
  <2>4. IsHeap(g, N)
    BY <2>2, <2>3, HeapKept
  <2> QED BY <2>4 DEF g
<1>2. IsHeap(Decref(h, r), N)
  <2>1. IsHeap([h EXCEPT ![r].count = @ - 1], N)
    BY ItemsChange
  <2> QED BY <1>1, <2>1 DEF Decref
<1> QED BY <1>1, <1>2

LEMMA BothChange ==
  ASSUME NEW old, IsObject(old), NEW names, NEW items
  PROVE  Like([old EXCEPT !.names = names, !.items = items], old)
<1> DEFINE o1 == [old EXCEPT !.names = names]
<1>1. IsObject(o1) /\ o1.kind = old.kind /\ o1.name = old.name
  BY DEF IsObject
<1> HIDE DEF o1
<1>2. Like([o1 EXCEPT !.items = items], old)
  BY <1>1 DEF IsObject, Like
<1>3. [old EXCEPT !.names = names, !.items = items] = [o1 EXCEPT !.items = items]
  BY DEF o1
<1> QED BY <1>2, <1>3

LEMMA ItemsSet ==
  ASSUME NEW N, NEW h, IsHeap(h, N), NEW r, NEW k, NEW v, NEW items, NEW names
  PROVE  /\ IsHeap(SetItem(h, r, k, v), N)
         /\ IsHeap(SetItems(h, r, items), N)
         /\ IsHeap(SetAllNamed(h, r, names, items), N)
<1>1. IsHeap(SetItem(h, r, k, v), N)
  <2>1. IsHeap([h EXCEPT ![r].items[k] = v], N)
    BY ItemsChange
  <2> QED BY <2>1, ReferencesGivenUp DEF SetItem
<1>2. IsHeap(SetItems(h, r, items), N)
  BY ItemsChange, ReferencesGivenUp DEF SetItems
<1>3. IsHeap(SetAllNamed(h, r, names, items), N)
  <2> DEFINE new == Updated(h[r], names, items) \o At(items, Added(h[r], names))
             all == h[r].names \o At(names, Added(h[r], names))
             o == [h[r] EXCEPT !.names = all, !.items = new]
  <2>1. ASSUME r \in DOMAIN h
        PROVE  Like(o, h[r])
    <3>1. IsObject(h[r])
      BY <2>1 DEF IsHeap
    <3> HIDE DEF new, all
    <3> QED BY <3>1, BothChange
  <2>2. IsHeap([h EXCEPT ![r] = o], N)
    BY <2>1, ObjectChanges
  <2>3. [h EXCEPT ![r].names = @ \o At(names, Added(h[r], names)), ![r].items = new] = [h EXCEPT ![r] = o]
    OBVIOUS
  <2>4. SetAllNamed(h, r, names, items)
          = DecrefAll([h EXCEPT ![r] = o], At(h[r].items, Replaced(h[r], names)))
    BY <2>3 DEF SetAllNamed
  <2> HIDE DEF o
  <2> QED BY <2>2, <2>4, ReferencesGivenUp
<1> QED BY <1>1, <1>2, <1>3

\* One more object.
LEMMA ObjectAdded ==
  ASSUME NEW N, NEW h, IsHeap(h, N), NEW o, IsObject(o), o.kind # "function"
  PROVE  IsHeap(Append(h, o), N) /\ Len(Append(h, o)) \in Nat \ {0}
<1>1. Len(h) \in Nat /\ DOMAIN h = 1..Len(h)
  BY SeqFacts DEF IsHeap
<1>2. /\ IsSeq(Append(h, o)) /\ Len(Append(h, o)) = Len(h) + 1
      /\ DOMAIN Append(h, o) = 1..(Len(h) + 1)
      /\ Append(h, o)[Len(h) + 1] = o
      /\ \A k \in 1..Len(h) : Append(h, o)[k] = h[k]
  BY AppendFacts DEF IsHeap
<1>3. \A r \in 1..(Len(h) + 1) : r \in 1..Len(h) \/ r = Len(h) + 1
  BY <1>1
<1> QED BY <1>1, <1>2, <1>3 DEF IsHeap

-----------------------------------------------------------------------------
LEMMA ConstantFacts ==
  /\ NULL = 0 /\ Constant("null") = NULL
  /\ \A c \in ConstantNames : Constant(c) # NULL
  /\ {"None", "True", "False", "deleted"} \subseteq ConstantNames
<1>1. NULL = 0 /\ Constant("null") = NULL
  BY NullIsZero DEF Constant
<1>2. DOMAIN Immortals = 1..12
  BY DEF Immortals
<1>3. {"None", "True", "False", "deleted"} \subseteq ConstantNames
  <2>1. Immortals[1] = "None" /\ Immortals[2] = "True" /\ Immortals[3] = "False" /\ Immortals[4] = "deleted"
    BY DEF Immortals
  <2> QED BY <1>2, <2>1 DEF ConstantNames
<1>4. ASSUME NEW c \in ConstantNames
      PROVE  Constant(c) # NULL
  <2>1. PICK k \in 1..12 : Immortals[k] = c
    BY <1>2, <1>4 DEF ConstantNames
  <2>2. "null" \notin ConstantNames
    BY <1>2 DEF ConstantNames, Immortals
  <2>3. c # "null"
    BY <1>4, <2>2
  <2> DEFINE place == CHOOSE j \in DOMAIN Immortals : Immortals[j] = c
  <2>4. place \in 1..12
    BY <1>2, <2>1
  <2>5. Constant(c) = -place
    BY <2>3 DEF Constant
  <2> HIDE DEF place
  <2> QED BY <1>1, <2>4, <2>5
<1> QED BY <1>1, <1>3, <1>4

\* The helpers that read a place which may have nothing in it: a cell, or an
\* item of a tuple or dict.
Reading == {"load_cell", "function_closure_cell", "defaults", "kwdefaults"} \cup Calls

\* The ways in which a helper can end: it gives an object, or raises; some may
\* find nothing to give.
Gives(w, o, N) == WorldOK(o.world, N) /\ o.value # NULL /\ o.world.raised = w.raised
Raises(o, N) == WorldOK(o.world, N) /\ o.value = NULL /\ o.world.raised # NULL
Ends(w, o, N) == Gives(w, o, N) \/ Raises(o, N)
EndsOrFindsNone(w, o, N) == WorldOK(o.world, N) /\ (o.value = NULL \/ o.world.raised = w.raised)

LEMMA HeapChanges ==
  ASSUME NEW N, NEW w, WorldOK(w, N), NEW h, IsHeap(h, N)
  PROVE  /\ WorldOK([w EXCEPT !.heap = h], N)
         /\ [w EXCEPT !.heap = h].heap = h
         /\ [w EXCEPT !.heap = h].raised = w.raised
         /\ [w EXCEPT !.heap = h].globals = w.globals
BY DEF WorldOK

LEMMA GiveFacts ==
  ASSUME NEW N, NEW w, WorldOK(w, N), NEW r, NEW o \in Give(w, r)
  PROVE  WorldOK(o.world, N) /\ o.value = r /\ o.world.raised = w.raised
<1>1. IsHeap(Incref(w.heap, r), N)
  BY CountsChange DEF WorldOK
<1>2. o.value = r /\ o.world = [w EXCEPT !.heap = Incref(w.heap, r)]
  BY DEF Give, Outcome
<1> QED BY <1>1, <1>2, HeapChanges

LEMMA DoneFacts ==
  ASSUME NEW N, NEW w, WorldOK(w, N), NEW h, IsHeap(h, N), NEW o \in Done(h, w)
  PROVE  Gives(w, o, N)
<1>1. o.value = Constant("None") /\ o.world = [w EXCEPT !.heap = h]
  BY DEF Done, Outcome
<1> QED BY <1>1, HeapChanges, ConstantFacts DEF Gives

\* A world with one more object.
LEMMA AllocateFacts ==
  ASSUME NEW N, NEW w, WorldOK(w, N), NEW object, IsObject(object), object.kind # "function"
  PROVE  LET v == Allocate(w, object)
         IN  /\ WorldOK(v, N) /\ v.raised = w.raised /\ v.globals = w.globals
             /\ Newest(v) # NULL
<1> DEFINE h == Append(w.heap, object)
<1>1. IsHeap(h, N) /\ Len(h) \in Nat \ {0}
  BY ObjectAdded DEF WorldOK
<1>2. Allocate(w, object) = [w EXCEPT !.heap = h]
  BY DEF Allocate
<1> HIDE DEF h
<1> QED BY <1>1, <1>2, HeapChanges, ConstantFacts DEF Newest

LEMMA GiveNewFacts ==
  ASSUME NEW N, NEW w, WorldOK(w, N), NEW object, IsObject(object), object.kind # "function",
         NEW o \in GiveNew(w, object)
  PROVE  Gives(w, o, N)
<1> DEFINE v == [w EXCEPT !.heap = IncrefAll(@, object.items)]
<1>1. WorldOK(v, N) /\ v.raised = w.raised
  BY CountsChange, HeapChanges DEF WorldOK
<1>2. o.world = Allocate(v, object) /\ o.value = Newest(Allocate(v, object))
  BY DEF GiveNew, Outcome
<1> HIDE DEF v
<1> QED BY <1>1, <1>2, AllocateFacts DEF Gives

LEMMA ExceptionSet ==
  ASSUME NEW N, NEW w, WorldOK(w, N), NEW r, r # NULL
  PROVE  WorldOK(SetException(w, r), N) /\ SetException(w, r).raised # NULL
<1>1. IsHeap(Decref(w.heap, w.raised), N)
  BY ReferencesGivenUp DEF WorldOK
<1> DEFINE v == [w EXCEPT !.heap = Decref(w.heap, w.raised)]
<1>2. WorldOK(v, N)
  BY <1>1, HeapChanges
<1>3. SetException(w, r) = [v EXCEPT !.raised = r]
  BY DEF SetException
<1> HIDE DEF v
<1>4. WorldOK([v EXCEPT !.raised = r], N) /\ [v EXCEPT !.raised = r].raised = r
  BY <1>2 DEF WorldOK
<1> QED BY <1>3, <1>4

LEMMA ErrorFacts ==
  ASSUME NEW N, NEW w, WorldOK(w, N), NEW o \in Error(w)
  PROVE  Raises(o, N)
<1> DEFINE object == Object("exception", "", <<>>, <<>>)
           v == Allocate(w, object)
<1>1. IsObject(object) /\ object.kind # "function"
  BY DEF IsObject, Object
<1>2. Error(w) = {Outcome(SetException(v, Newest(v)), Constant("null"))}
  BY DEF Error
<1> HIDE DEF object
<1>3. WorldOK(v, N) /\ Newest(v) # NULL
  BY <1>1, AllocateFacts
<1> HIDE DEF v
<1>4. o.world = SetException(v, Newest(v)) /\ o.value = NULL
  BY <1>2, ConstantFacts DEF Outcome
<1> QED BY <1>3, <1>4, ExceptionSet DEF Raises

LEMMA LoadGlobal ==
  ASSUME NEW N, NEW w, WorldOK(w, N), NEW name, NEW o \in load_global(w, name)
  PROVE  Ends(w, o, N)
<1>1. CASE name \in DOMAIN w.globals
  <2>1. o \in Give(w, w.globals[name]) /\ w.globals[name] # NULL
    BY <1>1 DEF load_global, WorldOK
  <2> QED BY <2>1, GiveFacts DEF Ends, Gives
<1>2. CASE name \notin DOMAIN w.globals /\ name \in ConstantNames
  <2>1. o \in Give(w, Constant(name))
    BY <1>2 DEF load_global, ConstantNames
  <2> QED BY <1>2, <2>1, GiveFacts, ConstantFacts DEF Ends, Gives
<1>3. CASE name \notin DOMAIN w.globals /\ name \notin ConstantNames
  <2>1. o \in Error(w)
    BY <1>3 DEF load_global, ConstantNames
  <2> QED BY <2>1, ErrorFacts DEF Ends
<1> QED BY <1>1, <1>2, <1>3

LEMMA UnbindFacts ==
  ASSUME NEW N, NEW w, WorldOK(w, N), NEW name
  PROVE  WorldOK(Unbind(w, name), N) /\ Unbind(w, name).raised = w.raised
<1> DEFINE h == Decref(w.heap, w.globals[name])
           v == [w EXCEPT !.heap = h]
           g == [n \in DOMAIN w.globals \ {name} |-> w.globals[n]]
<1>1. IsHeap(h, N)
  BY ReferencesGivenUp DEF WorldOK
<1> HIDE DEF h
<1>2. WorldOK(v, N) /\ v.raised = w.raised /\ v.globals = w.globals
  BY <1>1, HeapChanges
<1>3. Unbind(w, name) = [v EXCEPT !.globals = g]
  BY DEF Unbind, h
<1>4. \A n \in DOMAIN g : g[n] # NULL
  BY DEF WorldOK
<1> HIDE DEF v, g
<1> QED BY <1>2, <1>3, <1>4 DEF WorldOK

LEMMA StoreGlobalFacts ==
  ASSUME NEW N, NEW w, WorldOK(w, N), NEW name, NEW v, v # NULL, NEW o \in store_global(w, name, v)
  PROVE  Gives(w, o, N)
<1> DEFINE w1 == [w EXCEPT !.heap = Incref(w.heap, v)]
           w2 == IF name \in DOMAIN w.globals THEN Unbind(w1, name) ELSE w1
           g == With(w2.globals, name, v)
<1>1. IsHeap(Incref(w.heap, v), N)
  BY CountsChange DEF WorldOK
<1>2. WorldOK(w1, N) /\ w1.raised = w.raised
  BY <1>1, HeapChanges
<1>3. o.world = [w2 EXCEPT !.globals = g] /\ o.value = Constant("None")
  BY DEF store_global, Outcome
<1> HIDE DEF w1
<1>4. WorldOK(w2, N) /\ w2.raised = w.raised
  BY <1>2, UnbindFacts
<1> HIDE DEF w2
<1>5. \A n \in DOMAIN g : g[n] # NULL
  BY <1>4 DEF WorldOK, With
<1> HIDE DEF g
<1>6. WorldOK([w2 EXCEPT !.globals = g], N) /\ [w2 EXCEPT !.globals = g].raised = w.raised
  BY <1>4, <1>5 DEF WorldOK
<1> QED BY <1>3, <1>6, ConstantFacts DEF Gives

LEMMA DelGlobal ==
  ASSUME NEW N, NEW w, WorldOK(w, N), NEW name, NEW h, NEW o \in del_global(w, name, h)
  PROVE  Ends(w, o, N)
<1>1. CASE name \in DOMAIN w.globals
  <2>1. o.world = Unbind(w, name) /\ o.value = Constant("None")
    BY <1>1 DEF del_global, Outcome
  <2> QED BY <2>1, UnbindFacts, ConstantFacts DEF Ends, Gives
<1>2. CASE name \notin DOMAIN w.globals /\ h = "del_global_quietly"
  <2>1. o \in Give(w, Constant("None"))
    BY <1>2 DEF del_global
  <2> QED BY <2>1, GiveFacts, ConstantFacts DEF Ends, Gives
<1>3. CASE name \notin DOMAIN w.globals /\ h # "del_global_quietly"
  <2>1. o \in Error(w)
    BY <1>3 DEF del_global
  <2> QED BY <2>1, ErrorFacts DEF Ends
<1> QED BY <1>1, <1>2, <1>3

LEMMA CellHelpers ==
  ASSUME NEW N, NEW w, WorldOK(w, N), NEW cell, NEW o
  PROVE  /\ o \in load_cell(w, cell) => EndsOrFindsNone(w, o, N)
         /\ \A v : v # NULL /\ o \in store_cell(w, cell, v) => Gives(w, o, N)
         /\ o \in del_deref(w, cell) => Gives(w, o, N)
<1>1. ASSUME o \in load_cell(w, cell)
      PROVE  EndsOrFindsNone(w, o, N)
  <2>1. CASE w.heap[cell].items = <<>>
    <3>1. o.world = w /\ o.value = NULL
      BY <1>1, <2>1, ConstantFacts DEF load_cell, Outcome
    <3> QED BY <3>1 DEF EndsOrFindsNone
  <2>2. CASE w.heap[cell].items # <<>>
    <3>1. o \in Give(w, w.heap[cell].items[1])
      BY <1>1, <2>2 DEF load_cell
    <3> QED BY <3>1, GiveFacts DEF EndsOrFindsNone
  <2> QED BY <2>1, <2>2
<1>2. ASSUME NEW v, v # NULL, o \in store_cell(w, cell, v)
      PROVE  Gives(w, o, N)
  <2> DEFINE h == SetItems(IncrefAll(w.heap, <<v, v>>), cell, <<v>>)
  <2>1. IsHeap(h, N)
    BY CountsChange, ItemsSet DEF WorldOK
  <2>2. o.world = [w EXCEPT !.heap = h] /\ o.value = v
    BY <1>2 DEF store_cell, Outcome
  <2> HIDE DEF h
  <2> QED BY <1>2, <2>1, <2>2, HeapChanges DEF Gives
<1>3. ASSUME o \in del_deref(w, cell)
      PROVE  Gives(w, o, N)
  <2>1. IsHeap(SetItems(w.heap, cell, <<>>), N)
    BY ItemsSet DEF WorldOK
  <2>2. o \in Done(SetItems(w.heap, cell, <<>>), w)
    BY <1>3 DEF del_deref
  <2> QED BY <2>1, <2>2, DoneFacts
<1> QED BY <1>1, <1>2, <1>3

LEMMA GivesOrRaises ==
  ASSUME NEW N, NEW w, WorldOK(w, N), NEW o, NEW r, o \in Give(w, r) \/ o \in Error(w)
  PROVE  EndsOrFindsNone(w, o, N)
BY GiveFacts, ErrorFacts DEF EndsOrFindsNone, Raises

LEMMA FunctionReads ==
  ASSUME NEW N, NEW w, WorldOK(w, N), NEW callable, NEW k, NEW o,
         \/ o \in function_closure_cell(w, callable, k)
         \/ o \in function_positional_default(w, callable, k)
         \/ o \in function_kwonly_default(w, callable, k)
  PROVE  EndsOrFindsNone(w, o, N)
<1>1. o \in Error(w) \/ \E r : o \in Give(w, r)
  BY DEF function_closure_cell, function_positional_default, function_kwonly_default
<1> QED BY <1>1, GivesOrRaises

LEMMA EndsFacts ==
  ASSUME NEW N, NEW w, WorldOK(w, N), NEW o
  PROVE  /\ Ends(w, o, N) => EndsOrFindsNone(w, o, N)
         /\ Gives(w, o, N) => Ends(w, o, N) /\ EndsOrFindsNone(w, o, N)
BY DEF Ends, Gives, Raises, EndsOrFindsNone

LEMMA NewObjects ==
  /\ \A kind, name, names, items :
       LET object == Object(kind, name, names, items) IN IsObject(object) /\ object.kind = kind
  /\ IsObject(Plain) /\ Plain.kind = "object"
  /\ \A items : IsObject(NewTuple(items)) /\ NewTuple(items).kind = "tuple"
BY DEF Object, Plain, NewTuple, IsObject

LEMMA MethodCalls ==
  ASSUME NEW N, NEW w, WorldOK(w, N), NEW method, NEW v, NEW o \in CallMethodOf(w, method, v)
  PROVE  EndsOrFindsNone(w, o, N)
<1> DEFINE self == w.heap[method].items[1]
           name == w.heap[method].name
           h1 == [Incref(w.heap, v) EXCEPT ![self].items = Append(@, v)]
           h2 == [IncrefAll(w.heap, w.heap[v].items) EXCEPT ![self].items = @ \o w.heap[v].items]
           h3 == SetAllNamed(IncrefAll(w.heap, w.heap[v].items), self, w.heap[v].names, w.heap[v].items)
<1>1. IsHeap(h1, N) /\ IsHeap(h2, N) /\ IsHeap(h3, N)
  <2>1. IsHeap(Incref(w.heap, v), N) /\ IsHeap(IncrefAll(w.heap, w.heap[v].items), N)
    BY CountsChange DEF WorldOK
  <2> QED BY <2>1, ItemsChange, ItemsSet
<1>2. o \in Done(h1, w) \/ o \in Done(h2, w) \/ o \in Done(h3, w) \/ o \in Error(w)
  <2>1. CASE name = "append"
    BY <2>1 DEF CallMethodOf
  <2>2. CASE name = "extend"
    BY <2>2 DEF CallMethodOf
  <2>3. CASE name \notin {"append", "extend"}
    BY <2>3 DEF CallMethodOf
  <2> QED BY <2>1, <2>2, <2>3
<1> HIDE DEF h1, h2, h3
<1> QED BY <1>1, <1>2, DoneFacts, ErrorFacts, EndsFacts DEF Ends

LEMMA Operations ==
  ASSUME NEW N, NEW w, WorldOK(w, N), NEW args, NEW o \in Operate(w, args)
  PROVE  Gives(w, o, N) \/ (args # <<>> /\ o \in Give(w, args[1]))
<1>1. o \in GiveNew(w, Plain) \/ (args # <<>> /\ o \in Give(w, args[1]))
  BY DEF Operate
<1> QED BY <1>1, GiveNewFacts, NewObjects

LEMMA OtherCalls ==
  ASSUME NEW N, NEW w, WorldOK(w, N), NEW h, NEW args, NEW o \in CallOther(w, h, args)
  PROVE  EndsOrFindsNone(w, o, N)
<1> DEFINE passed == Passed(w.heap, h, args)
<1>1. \/ o \in GiveNew(w, Object("list", "", <<>>, <<>>))
      \/ o \in GiveNew(w, Object("dict", "", <<>>, <<>>))
      \/ o \in GiveNew(w, NewTuple(w.heap[passed[1]].items))
      \/ o \in GiveNew(w, Object("exception", "", <<>>, <<>>))
      \/ o \in Give(w, passed[1])
      \/ o \in CallMethodOf(w, args[1], passed[1])
      \/ o \in Operate(w, passed)
  BY DEF CallOther
<1> HIDE DEF passed
<1>2. ASSUME NEW object, IsObject(object), object.kind # "function", o \in GiveNew(w, object)
      PROVE  EndsOrFindsNone(w, o, N)
  BY <1>2, GiveNewFacts, EndsFacts
<1>3. ASSUME NEW r, o \in Give(w, r)
      PROVE  EndsOrFindsNone(w, o, N)
  BY <1>3, GivesOrRaises
<1>4. ASSUME o \in Operate(w, passed)
      PROVE  EndsOrFindsNone(w, o, N)
  BY <1>3, <1>4, Operations, EndsFacts
<1>5. ASSUME o \in CallMethodOf(w, args[1], passed[1])
      PROVE  EndsOrFindsNone(w, o, N)
  BY <1>5, MethodCalls
<1>6. ASSUME NEW kind \in {"list", "dict", "exception"}, o \in GiveNew(w, Object(kind, "", <<>>, <<>>))
      PROVE  EndsOrFindsNone(w, o, N)
  BY <1>2, <1>6, NewObjects
<1>7. ASSUME NEW items, o \in GiveNew(w, NewTuple(items))
      PROVE  EndsOrFindsNone(w, o, N)
  BY <1>2, <1>7, NewObjects
<1> QED BY <1>1, <1>3, <1>4, <1>5, <1>6, <1>7

\* What can be said of what a helper does, by its name.
HelperEnds(w, h, o, N) ==
  /\ h = "get_raised_exception" =>
       WorldOK(o.world, N) /\ o.value = w.raised /\ o.world.raised = NULL
  /\ h \in {"set_raised", "raise_deleted_name_error"} => Raises(o, N)
  /\ h \in {"tuple_set_item", "is"} => Gives(w, o, N)
  /\ h \in Reading => EndsOrFindsNone(w, o, N)
  /\ h \in Helpers \ (Reading \cup NeverRaise) => Ends(w, o, N)
LEMMA HelpersEnd ==
  ASSUME NEW N, NEW w, WorldOK(w, N), NEW callable, NEW instr, NEW args,
         instr.h \in Helpers,
         instr.h = "load_runtime" => instr.x \in ConstantNames,
         instr.h \in {"store_global", "set_raised", "to_i64"} => args[1] # NULL,
         instr.h = "operate" => args = <<>> \/ args[1] # NULL,
         instr.h = "store_cell" => args[2] # NULL,
         NEW o \in HelperOutcomes(w, callable, instr, args)
  PROVE  HelperEnds(w, instr.h, o, N)
<1> DEFINE h == instr.h
           x == instr.x
           n == instr.n
           Goal == HelperEnds(w, h, o, N)
<1>a. \A r : r # NULL /\ o \in Give(w, r) => Gives(w, o, N)
  BY GiveFacts DEF Gives
<1>b. \A object : IsObject(object) /\ object.kind # "function" /\ o \in GiveNew(w, object) => Gives(w, o, N)
  BY GiveNewFacts
<1>c. Constant("True") # NULL /\ Constant("False") # NULL
  BY ConstantFacts
<1>d. Gives(w, o, N) => Ends(w, o, N) /\ EndsOrFindsNone(w, o, N)
  BY EndsFacts
<1>1. CASE h = "load_global"
  <2>1. o \in load_global(w, x)
    BY <1>1 DEF HelperOutcomes, VariableHelpers, VariableOutcomes
  <2> QED BY <1>1, <2>1, LoadGlobal DEF HelperEnds, Reading, Calls
<1>2. CASE h = "load_runtime"
  <2>1. o \in Give(w, Constant(x))
    BY <1>2 DEF HelperOutcomes, VariableHelpers, VariableOutcomes
  <2> QED BY <1>2, <1>a, <1>d, <2>1, ConstantFacts DEF HelperEnds, Reading, Calls
<1>3. CASE h = "store_global"
  <2>1. o \in store_global(w, x, args[1])
    BY <1>3 DEF HelperOutcomes, VariableHelpers, VariableOutcomes
  <2> QED BY <1>3, <1>d, <2>1, StoreGlobalFacts DEF HelperEnds, Reading, Calls
<1>4. CASE h \in {"del_global", "del_global_quietly"}
  <2>1. o \in del_global(w, x, h)
    BY <1>4 DEF HelperOutcomes, VariableHelpers, VariableOutcomes
  <2> QED BY <1>4, <2>1, DelGlobal DEF HelperEnds, Reading, Calls
<1>5. CASE h = "make_cell"
  <2>1. o \in GiveNew(w, Object("cell", "", <<>>, args))
    BY <1>5 DEF HelperOutcomes, VariableHelpers, VariableOutcomes
  <2>2. IsObject(Object("cell", "", <<>>, args)) /\ Object("cell", "", <<>>, args).kind # "function"
    BY NewObjects
  <2>3. Gives(w, o, N)
    BY <1>b, <2>1, <2>2
  <2> QED BY <1>5, <1>d, <2>3 DEF HelperEnds, Reading, Calls, NeverRaise
<1>6. CASE h = "load_cell"
  <2>1. o \in load_cell(w, args[1])
    BY <1>6 DEF HelperOutcomes, VariableHelpers, VariableOutcomes
  <2> QED BY <1>6, <2>1, CellHelpers DEF HelperEnds, Reading, Calls
<1>7. CASE h = "store_cell"
  <2>1. o \in store_cell(w, args[1], args[2])
    BY <1>7 DEF HelperOutcomes, VariableHelpers, VariableOutcomes
  <2> QED BY <1>7, <1>d, <2>1, CellHelpers DEF HelperEnds, Reading, Calls
<1>8. CASE h \in {"del_deref", "del_deref_quietly"}
  <2>1. o \in del_deref(w, args[1])
    BY <1>8 DEF HelperOutcomes, VariableHelpers, VariableOutcomes
  <2> QED BY <1>8, <1>d, <2>1, CellHelpers DEF HelperEnds, Reading, Calls
<1>9. CASE h \in {"function_closure_cell", "defaults", "kwdefaults"}
  <2>1. \E k : \/ o \in function_closure_cell(w, callable, k)
               \/ o \in function_positional_default(w, callable, k)
               \/ o \in function_kwonly_default(w, callable, k)
    BY <1>9 DEF HelperOutcomes, VariableHelpers, VariableOutcomes
  <2> QED BY <1>9, <2>1, FunctionReads DEF HelperEnds, Reading, Calls
<1>10. CASE h = "tuple_new"
  <2>1. \E items : o \in GiveNew(w, NewTuple(items))
    BY <1>10 DEF HelperOutcomes, VariableHelpers, ObjectHelpers, ObjectOutcomes
  <2> QED BY <1>10, <1>b, <1>d, <2>1, NewObjects DEF HelperEnds, Reading, Calls
<1>11. CASE h = "tuple_set_item"
  <2>1. o \in Done([w.heap EXCEPT ![args[1]].items[n] = args[2]], w)
    BY <1>11 DEF HelperOutcomes, VariableHelpers, ObjectHelpers, ObjectOutcomes, tuple_set_item
  <2>2. IsHeap([w.heap EXCEPT ![args[1]].items[n] = args[2]], N)
    BY ItemsChange DEF WorldOK
  <2> QED BY <1>11, <2>1, <2>2, DoneFacts DEF HelperEnds, Reading, Calls, NeverRaise
<1>12. CASE h = "setitem"
  <2> DEFINE h1 == SetNamed(Incref(w.heap, args[2]), args[1], x, args[2])
  <2>1. o \in Done(h1, w)
    BY <1>12 DEF HelperOutcomes, VariableHelpers, ObjectHelpers, ObjectOutcomes, setitem
  <2>2. IsHeap(h1, N)
    BY CountsChange, ItemsSet DEF SetNamed, WorldOK
  <2> HIDE DEF h1
  <2> QED BY <1>12, <1>d, <2>1, <2>2, DoneFacts DEF HelperEnds, Reading, Calls
<1>13. CASE h = "getattr"
  <2>1. o \in GiveNew(w, Object("method", x, <<>>, <<args[1]>>))
    BY <1>13 DEF HelperOutcomes, VariableHelpers, ObjectHelpers, ObjectOutcomes, bound_method
  <2> QED BY <1>13, <1>b, <1>d, <2>1, NewObjects DEF HelperEnds, Reading, Calls
<1>14. CASE h = "raise_deleted_name_error"
  <2>1. o \in Error(w)
    BY <1>14 DEF HelperOutcomes, VariableHelpers, ObjectHelpers, ObjectOutcomes, raise_deleted_name_error
  <2> QED BY <1>14, <2>1, ErrorFacts DEF HelperEnds, Reading, Calls, NeverRaise
<1>15. CASE h = "set_raised"
  <2> DEFINE v == [w EXCEPT !.heap = Incref(@, args[1])]
  <2>1. o.world = SetException(v, args[1]) /\ o.value = NULL
    BY <1>15, ConstantFacts DEF HelperOutcomes, VariableHelpers, ObjectHelpers, ObjectOutcomes, set_raised, Outcome
  <2>2. WorldOK(v, N)
    BY CountsChange, HeapChanges DEF WorldOK
  <2> HIDE DEF v
  <2>3. Raises(o, N)
    BY <1>15, <2>1, <2>2, ExceptionSet DEF Raises
  <2> QED BY <1>15, <2>3 DEF HelperEnds, Reading, Calls, NeverRaise
<1>16. CASE h = "get_raised_exception"
  <2>1. o.world = [w EXCEPT !.raised = NULL] /\ o.value = w.raised
    BY <1>16, ConstantFacts DEF HelperOutcomes, VariableHelpers, ObjectHelpers, ObjectOutcomes, get_raised_exception, Outcome
  <2>2. WorldOK([w EXCEPT !.raised = NULL], N) /\ [w EXCEPT !.raised = NULL].raised = NULL
    BY DEF WorldOK
  <2> QED BY <1>16, <2>1, <2>2 DEF HelperEnds, Reading, Calls, NeverRaise
<1>17. CASE h = "is"
  <2>1. o \in Give(w, Constant("True")) \/ o \in Give(w, Constant("False"))
    BY <1>17 DEF HelperOutcomes, VariableHelpers, ObjectHelpers, ObjectOutcomes
  <2> QED BY <1>17, <1>a, <1>c, <2>1 DEF HelperEnds, Reading, Calls, NeverRaise
<1>18. CASE h \in {"is_true", "test"}
  <2>1. o \in Give(w, Constant("True")) \/ o \in Give(w, Constant("False"))
    BY <1>18 DEF HelperOutcomes, VariableHelpers, ObjectHelpers, ObjectOutcomes
  <2> QED BY <1>18, <1>a, <1>c, <1>d, <2>1 DEF HelperEnds, Reading, Calls, NeverRaise
<1>19. CASE h = "to_i64"
  <2>1. o \in Give(w, args[1])
    BY <1>19 DEF HelperOutcomes, VariableHelpers, ObjectHelpers, ObjectOutcomes
  <2> QED BY <1>19, <1>a, <1>d, <2>1 DEF HelperEnds, Reading, Calls
<1>20. CASE h = "operate"
  <2>1. o \in Operate(w, args)
    BY <1>20 DEF HelperOutcomes, VariableHelpers, ObjectHelpers, ObjectOutcomes
  <2>2. Gives(w, o, N)
    BY <1>20, <1>a, <2>1, Operations
  <2> QED BY <1>20, <1>d, <2>2 DEF HelperEnds, Reading, Calls
<1>21. CASE h \in Calls
  <2>1. o \in CallOther(w, h, args)
    BY <1>21 DEF HelperOutcomes, VariableHelpers, ObjectHelpers, Calls
  <2> QED BY <1>21, <2>1, OtherCalls DEF HelperEnds, Reading, Calls
<1> QED
  BY <1>1, <1>2, <1>3, <1>4, <1>5, <1>6, <1>7, <1>8, <1>9, <1>10, <1>11, <1>12, <1>13, <1>14,
     <1>15, <1>16, <1>17, <1>18, <1>19, <1>20, <1>21 DEF Helpers, VariableHelpers, ObjectHelpers

-----------------------------------------------------------------------------
\* The points of a function's code that show that it keeps to the convention.
Cert(fn) == CHOOSE points : Certified(fn, points)
HasPoints(fn) == \E points : Certified(fn, points)

\* A frame; one on top is at a point of its code, and what is known there is
\* true; one below is at a call, after which the register for its value is
\* tested.
FrameOK(f, fns) ==
  /\ f = [fn |-> f.fn, callable |-> f.callable, block |-> f.block,
          regs |-> f.regs, todo |-> f.todo, slots |-> f.slots]
  /\ f.fn \in DOMAIN fns
  /\ DOMAIN f.slots = SlotNames(fns[f.fn])
  /\ \A x \in DOMAIN f.slots : f.slots[x] # NULL
Have(objects, params, regs) ==
  /\ objects \cup params \subseteq DOMAIN regs
  /\ \A r \in objects : regs[r] # NULL
IsTrue(s, regs, raised) ==
  /\ Have(s.objects, s.params, regs)
  /\ s.exc = "clear" => raised = NULL
  /\ s.exc = "set" => raised # NULL
  /\ s.exc = "tested" => s.r \in DOMAIN regs /\ (regs[s.r] = NULL <=> raised # NULL)
AtPoint(f, s, fns) == Point(f.block, f.todo, s) \in Cert(fns[f.fn])
Waits(f, fns) ==
  \E r, objects, params :
    /\ Point(f.block, Tail(f.todo), Known("tested", r, objects, params)) \in Cert(fns[f.fn])
    /\ r = Head(f.todo).d /\ r \notin objects
    /\ Have(objects, params, f.regs)
Stack(fs, fns) ==
  /\ IsSeq(fs)
  /\ \A k \in 1..Len(fs) : FrameOK(fs[k], fns)
  /\ \A k \in 1..(Len(fs) - 1) : Waits(fs[k], fns)

\* The exception that is on its way: the one that is set; or one that nobody
\* set, for which any object may stand.
Pending == IF bare = {} THEN world.raised ELSE Constant("None")
LEMMA PendingSame ==
  ASSUME world'.raised = world.raised, bare' = bare
  PROVE  Pending' = Pending
BY DEF Pending
LEMMA PendingFacts == bare # {} => Pending # NULL
BY ConstantFacts DEF Pending

\* While the arguments of a call of fn are bound.
BindingOK(fn, req, at, values, raised) ==
  /\ req.spec = fn.spec
  /\ DOMAIN values = DOMAIN fn.spec
  /\ at \in Failed <=> raised # NULL
  /\ at \in {"varkw", "keywords"} =>
       \A i \in DOMAIN fn.spec : fn.spec[i].kind = "VarArg" => values[i] # NULL
  /\ at = "keywords" => \A i \in DOMAIN fn.spec : fn.spec[i].kind = "KwArg" => values[i] # NULL
  /\ at = "bound" => \A i \in Required(fn) : values[i] # NULL
TopOK ==
  \E exc, r, objects, params :
    LET s == Known(exc, r, objects, params)
    IN  /\ AtPoint(Top, s, Functions)
        /\ IsTrue(s, Top.regs, Pending)
        /\ exc = "binding" => BindingOK(Functions[Top.fn], request, stage, bound, Pending)

ConventionInv ==
  /\ program \in Programs
  /\ WorldOK(world, DOMAIN Functions)
  /\ Stack(frames, Functions)
  /\ Running => TopOK
  /\ (~Running /\ result = <<>>) =>
       world = [heap |-> program.heap, globals |-> program.globals, raised |-> NULL] /\ bare = {}

\* Every function of every program has such points.
CodeKeepsConvention == \A p \in Programs : \A n \in DOMAIN p.functions : HasPoints(p.functions[n])

IsKnown(s) == s = Known(s.exc, s.r, s.objects, s.params)
\* What s says is true of the frame on top, and its next instruction may be
\* done.
Knows(s) ==
  LET fn == Functions[Top.fn]  p == Point(Top.block, Top.todo, s)
  IN  /\ IsKnown(s)
      /\ IsTrue(s, Top.regs, Pending)
      /\ s.exc = "binding" => BindingOK(fn, request, stage, bound, Pending)
      /\ Keeps(fn, p) /\ After(fn, p) \subseteq Cert(fn)

LEMMA CertFacts ==
  ASSUME NEW fn, HasPoints(fn)
  PROVE  Certified(fn, Cert(fn))
BY DEF HasPoints, Cert

LEMMA FunctionsHavePoints ==
  ASSUME CodeKeepsConvention, program \in Programs, NEW n \in DOMAIN Functions
  PROVE  Certified(Functions[n], Cert(Functions[n]))
BY CertFacts DEF CodeKeepsConvention, Functions

LEMMA TopFacts ==
  ASSUME ConventionInv, Running
  PROVE  /\ Len(frames) \in Nat /\ Len(frames) \in 1..Len(frames) /\ DOMAIN frames = 1..Len(frames)
         /\ FrameOK(Top, Functions)
<1>1. IsSeq(frames)
  BY DEF ConventionInv, Stack
<1>2. Len(frames) \in Nat /\ DOMAIN frames = 1..Len(frames)
  BY <1>1, SeqFacts
<1>3. Len(frames) # 0
  BY <1>1, SeqFacts DEF Running
<1>4. Len(frames) \in 1..Len(frames)
  BY <1>2, <1>3
<1> QED BY <1>2, <1>4 DEF ConventionInv, Stack, Top

LEMMA Here ==
  ASSUME CodeKeepsConvention, ConventionInv, Running
  PROVE  \E s : Knows(s)
<1>1. PICK exc, r, objects, params :
        LET s == Known(exc, r, objects, params)
        IN  /\ AtPoint(Top, s, Functions)
            /\ IsTrue(s, Top.regs, Pending)
            /\ exc = "binding" => BindingOK(Functions[Top.fn], request, stage, bound, Pending)
  BY DEF ConventionInv, TopOK
<1> DEFINE s == Known(exc, r, objects, params)
           fn == Functions[Top.fn]
<1>2. IsKnown(s) /\ s.exc = exc
  BY DEF IsKnown, Known
<1> HIDE DEF s
<1>3. Certified(fn, Cert(fn))
  BY TopFacts, FunctionsHavePoints DEF ConventionInv, FrameOK
<1>4. Keeps(fn, Point(Top.block, Top.todo, s)) /\ After(fn, Point(Top.block, Top.todo, s)) \subseteq Cert(fn)
  BY <1>1, <1>3 DEF Certified, AtPoint, s
<1> QED BY <1>1, <1>2, <1>4 DEF Knows, s

-----------------------------------------------------------------------------
\* What the next instruction may do, and where it goes on.
Onward(s) == Point(Top.block, Tail(Top.todo), s) \in Cert(Functions[Top.fn])
LEMMA Points_ ==
  ASSUME NEW s, Knows(s), NEW fn, fn = Functions[Top.fn]
  PROVE  /\ Instr.i = "load_slot" =>
              Instr.x \in SlotNames(fn) /\ ~Decides(s, Instr.d) /\ Onward(Gets(s, Instr.d))
         /\ Instr.i = "store_slot" => Instr.x \in SlotNames(fn) /\ Instr.r \in s.objects /\ Onward(s)
         /\ Instr.i = "const" =>
              /\ Instr.c \in ConstantNames \cup {"null"} /\ ~Decides(s, Instr.d)
              /\ Onward(AfterConst(Instr, s))
         /\ Instr.i \in {"incref", "decref"} => Onward(s)
         /\ Instr.i = "when" =>
              /\ \A t \in WhenNull(Instr, s) : Point(Top.block, Instr.then \o Tail(Top.todo), t) \in Cert(fn)
              /\ Point(Top.block, Instr.else \o Tail(Top.todo), WhenNot(Instr, s)) \in Cert(fn)
         /\ Instr.i = "goto" =>
              /\ s.exc = "clear" /\ 1..Instr.n \subseteq s.objects
              /\ Point(Instr.label, Body(fn, fn.blocks[Instr.label]), Known("clear", 0, 1..Instr.n, {})) \in Cert(fn)
         /\ Instr.i = "fail" =>
              s.exc = "set" /\ Point(Top.block, FailureCode(fn, Top.block), Known("set", 0, {}, {})) \in Cert(fn)
         /\ Instr.i = "ret" => Decides(s, Instr.r) \/ (s.exc = "clear" /\ Instr.r \in s.objects)
         /\ Instr.i = "helper" => MayCall(Instr, s) /\ Onward(AfterCall(Instr, s))
         /\ Instr.i = "bind" =>
              /\ s.exc = "binding"
              /\ Onward(Known("clear", 0, Required(fn), DOMAIN fn.spec))
              /\ Point(Top.block, ReturnFirst, Known("tested", 1, {}, {})) \in Cert(fn)
         /\ Instr.i = "enter" =>
              s.exc = "clear" /\ Onward(Tests(s, Instr.d)) /\ Point(InEntry, Entry(fn), s) \in Cert(fn)
<1> DEFINE p == Point(Top.block, Top.todo, s)
<1>1. p.block = Top.block /\ p.todo = Top.todo /\ p.known = s /\ Instr = Head(p.todo)
  BY DEF Point, Instr
<1>2. Keeps(fn, p) /\ \A q \in After(fn, p) : q \in Cert(fn)
  BY DEF Knows
<1> HIDE DEF p
<1> QED BY <1>1, <1>2 DEF Keeps, After, Onward

-----------------------------------------------------------------------------
\* A register is set.
LEMMA RegisterSet ==
  ASSUME NEW s, IsKnown(s), NEW regs, NEW raised, IsTrue(s, regs, raised), NEW d, NEW v
  PROVE  LET new == SetRegister(regs, d, v)
         IN  /\ v # NULL /\ ~Decides(s, d) => IsTrue(Gets(s, d), new, raised)
             /\ ~Decides(s, d) => IsTrue(Loses(s, d), new, raised)
             /\ \A after : (v = NULL <=> after # NULL) => IsTrue(Tests(s, d), new, after)
             /\ \A after : after # NULL => IsTrue(Raised(Loses(s, d)), new, after)
             /\ v # NULL => IsTrue(Known("clear", 0, s.objects \cup {d}, s.params), new, NULL)
<1> DEFINE new == SetRegister(regs, d, v)
<1>0. new = With(regs, d, v)
  BY DEF SetRegister
<1> HIDE DEF new
<1>1. /\ DOMAIN new = DOMAIN regs \cup {d}
      /\ new[d] = v
      /\ \A y \in DOMAIN regs : y # d => new[y] = regs[y]
  BY <1>0 DEF With
<1>2. Have(s.objects, s.params, regs)
  BY DEF IsTrue
<1>3. Have(s.objects \ {d}, s.params, new)
  BY <1>1, <1>2 DEF Have
<1>4. v # NULL => Have(s.objects \cup {d}, s.params, new)
  BY <1>1, <1>2 DEF Have
<1>5. ASSUME ~Decides(s, d), s.exc = "tested"
      PROVE  s.r \in DOMAIN new /\ (new[s.r] = NULL <=> raised # NULL)
  BY <1>1, <1>5 DEF Decides, IsTrue
<1>6. v # NULL /\ ~Decides(s, d) => IsTrue(Gets(s, d), new, raised)
  BY <1>4, <1>5 DEF IsTrue, Gets, Known
<1>7. ~Decides(s, d) => IsTrue(Loses(s, d), new, raised)
  BY <1>3, <1>5 DEF IsTrue, Loses, Known
<1>8. \A after : (v = NULL <=> after # NULL) => IsTrue(Tests(s, d), new, after)
  BY <1>1, <1>3 DEF IsTrue, Tests, Known
<1>9. \A after : after # NULL => IsTrue(Raised(Loses(s, d)), new, after)
  BY <1>3 DEF IsTrue, Raised, Loses, Known
<1>10. v # NULL => IsTrue(Known("clear", 0, s.objects \cup {d}, s.params), new, NULL)
  BY <1>4 DEF IsTrue, Known
<1> QED BY <1>6, <1>7, <1>8, <1>9, <1>10 DEF new

LEMMA KnownAgain ==
  ASSUME NEW s, IsKnown(s)
  PROVE  /\ \A d : /\ IsKnown(Gets(s, d)) /\ IsKnown(Loses(s, d)) /\ IsKnown(Tests(s, d))
                   /\ IsKnown(Raised(Loses(s, d)))
                   /\ Gets(s, d).exc = s.exc /\ Loses(s, d).exc = s.exc
                   /\ Tests(s, d).exc = "tested" /\ Raised(Loses(s, d)).exc = "set"
         /\ \A exc, r, objects, params : IsKnown(Known(exc, r, objects, params)) /\ Known(exc, r, objects, params).exc = exc
BY DEF IsKnown, Known, Gets, Loses, Tests, Raised

\* A step that replaces the frame on top.
LEMMA LocalStep ==
  ASSUME ConventionInv, Running, program' = program, WorldOK(world', DOMAIN Functions),
         NEW g, frames' = [frames EXCEPT ![Len(frames)] = g], FrameOK(g, Functions),
         NEW t, IsKnown(t), AtPoint(g, t, Functions), IsTrue(t, g.regs, Pending'),
         t.exc = "binding" => BindingOK(Functions[g.fn], request', stage', bound', Pending')
  PROVE  ConventionInv'
<1>1. /\ Len(frames) \in Nat /\ Len(frames) \in 1..Len(frames) /\ DOMAIN frames = 1..Len(frames)
      /\ IsSeq(frames)
  BY TopFacts DEF ConventionInv, Stack
<1>2. Len(frames) # 0
  BY <1>1
<1>3. IsSeq(frames') /\ Len(frames') = Len(frames) /\ DOMAIN frames' = DOMAIN frames
  BY <1>1, <1>2, LastReplaced
<1>4. frames'[Len(frames)] = g /\ \A k \in 1..(Len(frames) - 1) : frames'[k] = frames[k]
  BY <1>1, <1>2, LastReplaced
<1>5. Functions' = Functions
  BY DEF Functions
<1>6. Stack(frames', Functions)
  <2>1. \A k \in 1..Len(frames) : k = Len(frames) \/ k \in 1..(Len(frames) - 1)
    BY <1>1, UpToLast
  <2>2. \A k \in 1..Len(frames) : FrameOK(frames'[k], Functions)
    BY <1>1, <1>4, <2>1 DEF ConventionInv, Stack
  <2>3. \A k \in 1..(Len(frames) - 1) : Waits(frames'[k], Functions)
    BY <1>4 DEF ConventionInv, Stack
  <2> QED BY <1>3, <2>2, <2>3 DEF Stack
<1>7. Running' /\ Top' = g
  <2>1. Top' = g
    BY <1>3, <1>4 DEF Top
  <2>2. frames' # <<>>
    BY <1>1, <1>3
  <2> QED BY <2>1, <2>2 DEF Running
<1>8. TopOK'
  <2>1. t = Known(t.exc, t.r, t.objects, t.params)
    BY DEF IsKnown
  <2>2. AtPoint(g, Known(t.exc, t.r, t.objects, t.params), Functions) /\ IsTrue(Known(t.exc, t.r, t.objects, t.params), g.regs, Pending')
    BY <2>1
  <2> QED BY <1>5, <1>7, <2>2 DEF TopOK
<1> QED BY <1>5, <1>6, <1>7, <1>8 DEF ConventionInv

\* A step that adds a frame; the one that was on top waits for it.
LEMMA PushStep ==
  ASSUME ConventionInv, program' = program, world' = world, Pending' = Pending,
         Running => Waits(Top, Functions),
         NEW g, frames' = Append(frames, g), FrameOK(g, Functions),
         NEW t, IsKnown(t), AtPoint(g, t, Functions), IsTrue(t, g.regs, Pending),
         t.exc = "binding" => BindingOK(Functions[g.fn], request', stage', bound', Pending')
  PROVE  ConventionInv'
<1>1. IsSeq(frames) /\ Len(frames) \in Nat
  BY SeqFacts DEF ConventionInv, Stack
<1>2. /\ IsSeq(frames') /\ Len(frames') = Len(frames) + 1
      /\ frames'[Len(frames) + 1] = g
      /\ \A k \in 1..Len(frames) : frames'[k] = frames[k]
  BY <1>1, AppendFacts
<1>3. Functions' = Functions
  BY DEF Functions
<1>4. Stack(frames', Functions)
  <2>1. \A k \in 1..(Len(frames) + 1) : k = Len(frames) + 1 \/ k \in 1..Len(frames)
    BY <1>1, UpToLast
  <2>2. \A k \in 1..Len(frames) : k = Len(frames) \/ k \in 1..(Len(frames) - 1)
    BY <1>1, UpToLast
  <2>3. \A k \in 1..(Len(frames) + 1) : FrameOK(frames'[k], Functions)
    BY <1>2, <2>1 DEF ConventionInv, Stack
  <2>4. ASSUME NEW k \in 1..Len(frames)
        PROVE  Waits(frames'[k], Functions)
    <3>1. frames # <<>>
      BY <1>1
    <3> QED BY <1>2, <2>2, <3>1 DEF ConventionInv, Stack, Top, Running
  <2>5. (Len(frames) + 1) - 1 = Len(frames)
    BY <1>1, UpToLast
  <2> QED BY <1>2, <2>3, <2>4, <2>5 DEF Stack
<1>5. Running' /\ Top' = g
  <2>1. Top' = g
    BY <1>2 DEF Top
  <2>2. frames' # <<>>
    BY <1>1, <1>2
  <2> QED BY <2>1, <2>2 DEF Running
<1>6. TopOK'
  <2>1. t = Known(t.exc, t.r, t.objects, t.params)
    BY DEF IsKnown
  <2>2. AtPoint(g, Known(t.exc, t.r, t.objects, t.params), Functions) /\ IsTrue(Known(t.exc, t.r, t.objects, t.params), g.regs, Pending)
    BY <2>1
  <2> QED BY <1>3, <1>5, <2>2 DEF TopOK
<1> QED BY <1>3, <1>4, <1>5, <1>6 DEF ConventionInv

\* A step that gives a value to the frame below, and removes the one on top.
LEMMA PopStep ==
  ASSUME ConventionInv, Running, Len(frames) # 1, program' = program, WorldOK(world', DOMAIN Functions),
         NEW caller, caller = frames[Len(frames) - 1],
         NEW g, frames' = [SubSeq(frames, 1, Len(frames) - 1) EXCEPT ![Len(frames) - 1] = g],
         FrameOK(g, Functions),
         NEW t, IsKnown(t), AtPoint(g, t, Functions), IsTrue(t, g.regs, Pending'), t.exc # "binding"
  PROVE  ConventionInv'
<1> DEFINE n == Len(frames)
           below == SubSeq(frames, 1, n - 1)
<1>1. n \in Nat /\ n # 0 /\ n # 1 /\ IsSeq(frames)
  BY TopFacts DEF ConventionInv, Stack
<1>2. IsSeq(below) /\ Len(below) = n - 1 /\ \A k \in 1..(n - 1) : below[k] = frames[k]
  BY <1>1, FrontFacts
<1>3. /\ IsSeq(frames') /\ Len(frames') = n - 1
      /\ frames'[n - 1] = g /\ \A k \in 1..((n - 1) - 1) : frames'[k] = below[k]
  <2> DEFINE m == n - 1
  <2>1. m \in Nat /\ m # 0 /\ frames' = [below EXCEPT ![m] = g]
    BY <1>1
  <2>2. DOMAIN below = 1..m /\ Len(below) = m
    BY <1>2, SeqFacts
  <2> HIDE DEF below, m
  <2>3. frames' = [k \in DOMAIN below |-> frames'[k]]
    BY <2>1
  <2>4. IsSeq(frames') /\ Len(frames') = m
    BY <1>2, <2>2, <2>3, SameLength
  <2>5. frames'[m] = g /\ \A k \in 1..(m - 1) : frames'[k] = below[k]
    BY <2>1, <2>2
  <2> QED BY <2>4, <2>5 DEF m
<1>4. Functions' = Functions
  BY DEF Functions
<1> HIDE DEF n, below
<1>5. \A k \in 1..((n - 1) - 1) : k \in 1..(n - 1) /\ frames'[k] = frames[k]
  BY <1>1, <1>2, <1>3
<1>6. \A k \in 1..(n - 1) : k \in 1..n /\ (k = n - 1 \/ k \in 1..((n - 1) - 1))
  BY <1>1
<1>7. Stack(frames', Functions)
  <2>1. \A k \in 1..(n - 1) : FrameOK(frames'[k], Functions)
    BY <1>3, <1>5, <1>6 DEF ConventionInv, Stack, n
  <2>2. \A k \in 1..((n - 1) - 1) : Waits(frames'[k], Functions)
    BY <1>5 DEF ConventionInv, Stack, n
  <2> QED BY <1>3, <2>1, <2>2 DEF Stack
<1>8. Running' /\ Top' = g
  <2>1. Top' = g
    BY <1>3 DEF Top
  <2>2. frames' # <<>>
    BY <1>1, <1>3
  <2> QED BY <2>1, <2>2 DEF Running
<1>9. TopOK'
  <2>1. t = Known(t.exc, t.r, t.objects, t.params)
    BY DEF IsKnown
  <2>2. /\ AtPoint(g, Known(t.exc, t.r, t.objects, t.params), Functions)
        /\ IsTrue(Known(t.exc, t.r, t.objects, t.params), g.regs, Pending')
    BY <2>1
  <2> QED BY <1>4, <1>8, <2>2 DEF TopOK
<1> QED BY <1>4, <1>7, <1>8, <1>9 DEF ConventionInv

\* The frame on top goes on, in the same function.
LEMMA OnTopStep ==
  ASSUME ConventionInv, Running, program' = program, WorldOK(world', DOMAIN Functions),
         NEW block, NEW regs, NEW slots, NEW todo, OnTop(block, regs, slots, todo),
         NEW fn, fn = Functions[Top.fn],
         DOMAIN slots = SlotNames(fn), \A x \in DOMAIN slots : slots[x] # NULL,
         NEW t, IsKnown(t), Point(block, todo, t) \in Cert(fn), IsTrue(t, regs, Pending'),
         t.exc = "binding" => BindingOK(fn, request', stage', bound', Pending')
  PROVE  ConventionInv'
<1> DEFINE g == Moved(Top, block, regs, slots, todo)
<1>1. frames' = [frames EXCEPT ![Len(frames)] = g]
  BY DEF OnTop
<1>2. FrameOK(Top, Functions)
  BY TopFacts
<1>3. FrameOK(g, Functions) /\ g.fn = Top.fn /\ g.regs = regs
  BY <1>2 DEF FrameOK, Moved
<1>4. AtPoint(g, t, Functions)
  BY DEF AtPoint, Moved
<1> HIDE DEF g
<1>5. Functions' = Functions
  BY DEF Functions
<1>6. t.exc = "binding" => BindingOK(Functions[g.fn], request', stage', bound', Pending')
  BY <1>3, <1>5
<1> QED BY <1>1, <1>3, <1>4, <1>6, LocalStep

LEMMA Continues ==
  ASSUME ConventionInv, Running, program' = program, WorldOK(world', DOMAIN Functions),
         NEW regs, NEW slots, Continue(regs, slots),
         NEW fn, fn = Functions[Top.fn],
         DOMAIN slots = SlotNames(fn), \A x \in DOMAIN slots : slots[x] # NULL,
         NEW t, IsKnown(t), Onward(t), IsTrue(t, regs, Pending'),
         t.exc = "binding" => BindingOK(fn, request', stage', bound', Pending')
  PROVE  ConventionInv'
BY OnTopStep DEF Continue, Onward

LEMMA LocalFacts ==
  ASSUME ConventionInv, Local
  PROVE  /\ program' = program /\ world' = world /\ WorldOK(world', DOMAIN Functions)
         /\ Pending' = Pending
         /\ request' = request /\ stage' = stage /\ bound' = bound
BY PendingSame DEF Local, bindingVars, ConventionInv

LEMMA SlotSteps ==
  ASSUME CodeKeepsConvention, ConventionInv, LoadSlot_ \/ StoreSlot_ \/ Const_
  PROVE  ConventionInv'
<1>1. Running /\ Local
  BY DEF LoadSlot_, StoreSlot_, Const_, IsNext
<1>2. PICK s : Knows(s)
  BY <1>1, Here
<1> DEFINE fn == Functions[Top.fn]
           regs == Top.regs
           slots == Top.slots
<1>3. IsKnown(s) /\ IsTrue(s, regs, Pending) /\ (s.exc = "binding" => BindingOK(fn, request, stage, bound, Pending))
  BY <1>2 DEF Knows
<1>4. DOMAIN slots = SlotNames(fn) /\ \A x \in DOMAIN slots : slots[x] # NULL
  BY <1>1, TopFacts DEF FrameOK
<1>5. program' = program /\ Pending' = Pending /\ WorldOK(world', DOMAIN Functions)
  BY <1>1, LocalFacts
<1>6. s.exc = "binding" => BindingOK(fn, request', stage', bound', Pending')
  BY <1>1, <1>3, LocalFacts
<1> HIDE DEF fn, regs, slots
<1>7. CASE LoadSlot_
  <2> DEFINE new == SetRegister(regs, Instr.d, slots[Instr.x])
             t == Gets(s, Instr.d)
  <2>1. Instr.i = "load_slot" /\ Continue(new, slots)
    BY <1>7 DEF LoadSlot_, IsNext, regs, slots
  <2>2. Instr.x \in SlotNames(fn) /\ ~Decides(s, Instr.d) /\ Onward(t)
    BY <1>2, <2>1, Points_ DEF fn
  <2>3. IsTrue(t, new, Pending')
    BY <1>3, <1>4, <1>5, <2>2, RegisterSet
  <2>4. IsKnown(t) /\ t.exc = s.exc
    BY <1>3, KnownAgain
  <2> HIDE DEF t, new
  <2> QED BY <1>1, <1>4, <1>5, <1>6, <2>1, <2>2, <2>3, <2>4, Continues DEF fn
<1>8. CASE StoreSlot_
  <2> DEFINE new == [slots EXCEPT ![Instr.x] = Register(Instr.r)]
  <2>1. Instr.i = "store_slot" /\ Continue(regs, new)
    BY <1>8 DEF StoreSlot_, IsNext, regs, slots
  <2>2. Instr.r \in s.objects /\ Onward(s)
    BY <1>2, <2>1, Points_ DEF fn
  <2>3. Register(Instr.r) # NULL
    BY <1>3, <2>2 DEF IsTrue, Have, Register, regs
  <2>4. DOMAIN new = SlotNames(fn) /\ \A x \in DOMAIN new : new[x] # NULL
    BY <1>4, <2>3
  <2>5. IsTrue(s, regs, Pending')
    BY <1>3, <1>5
  <2> HIDE DEF new
  <2> QED BY <1>1, <1>3, <1>5, <1>6, <2>1, <2>2, <2>4, <2>5, Continues DEF fn
<1>9. CASE Const_
  <2> DEFINE v == Constant(Instr.c)
             new == SetRegister(regs, Instr.d, v)
             t == AfterConst(Instr, s)
  <2>1. Instr.i = "const" /\ Continue(new, slots)
    BY <1>9 DEF Const_, IsNext, regs, slots
  <2>2. Instr.c \in ConstantNames \cup {"null"} /\ ~Decides(s, Instr.d) /\ Onward(t)
    BY <1>2, <2>1, Points_ DEF fn
  <2>3. IsTrue(t, new, Pending') /\ IsKnown(t) /\ (t.exc = s.exc \/ t.exc = "tested")
    <3> HIDE DEF new
    <3>0. new = SetRegister(regs, Instr.d, v)
      BY DEF new
    <3> HIDE DEF v
    <3>1. CASE Instr.c # "null"
      <4>1. v # NULL /\ t = Gets(s, Instr.d)
        BY <2>2, <3>1, ConstantFacts DEF AfterConst, v
      <4> HIDE DEF t
      <4> QED BY <3>0, <1>3, <1>5, <2>2, <4>1, RegisterSet, KnownAgain
    <3>2. CASE Instr.c = "null" /\ s.exc = "set"
      <4>1. v = NULL /\ t = Tests(s, Instr.d)
        BY <3>2, ConstantFacts DEF AfterConst, v
      <4>2. Pending' # NULL
        BY <1>3, <1>5, <3>2 DEF IsTrue
      <4> HIDE DEF t
      <4> QED BY <3>0, <1>3, <2>2, <4>1, <4>2, RegisterSet, KnownAgain
    <3>3. CASE Instr.c = "null" /\ s.exc # "set"
      <4>1. t = Loses(s, Instr.d)
        BY <3>3 DEF AfterConst
      <4> HIDE DEF t
      <4> QED BY <3>0, <1>3, <1>5, <2>2, <4>1, RegisterSet, KnownAgain
    <3> QED BY <3>1, <3>2, <3>3
  <2>4. t.exc = "binding" => BindingOK(fn, request', stage', bound', Pending')
    BY <1>6, <2>3
  <2> HIDE DEF t, new
  <2> QED BY <1>1, <1>4, <1>5, <2>1, <2>2, <2>3, <2>4, Continues DEF fn
<1> QED BY <1>7, <1>8, <1>9

\* The slots of the frame on top, and what is known of its registers.
LEMMA TopSlots ==
  ASSUME ConventionInv, Running
  PROVE  /\ DOMAIN Top.slots = SlotNames(Functions[Top.fn])
         /\ \A x \in DOMAIN Top.slots : Top.slots[x] # NULL
BY TopFacts DEF FrameOK

LEMMA CountSteps ==
  ASSUME CodeKeepsConvention, ConventionInv, Incref_ \/ Decref_
  PROVE  ConventionInv'
<1>1. /\ Running /\ program' = program /\ UNCHANGED bindingVars /\ Continue(Top.regs, Top.slots)
      /\ Instr.i \in {"incref", "decref"} /\ bare' = bare
      /\ world' = [world EXCEPT !.heap = Incref(world.heap, Register(Instr.r))]
         \/ world' = [world EXCEPT !.heap = Decref(world.heap, Register(Instr.r))]
  BY DEF Incref_, Decref_, Count, IsNext
<1>2. PICK s : Knows(s)
  BY <1>1, Here
<1> DEFINE fn == Functions[Top.fn]
<1>3. WorldOK(world', DOMAIN Functions) /\ Pending' = Pending
  <2>1. WorldOK(world, DOMAIN Functions) /\ IsHeap(world.heap, DOMAIN Functions)
    BY DEF ConventionInv, WorldOK
  <2>2. PICK heap : world' = [world EXCEPT !.heap = heap] /\ IsHeap(heap, DOMAIN Functions)
    <3>1. /\ IsHeap(Incref(world.heap, Register(Instr.r)), DOMAIN Functions)
          /\ IsHeap(Decref(world.heap, Register(Instr.r)), DOMAIN Functions)
      BY <2>1, CountsChange, ReferencesGivenUp
    <3> QED BY <1>1, <3>1
  <2> QED BY <1>1, <2>1, <2>2, HeapChanges, PendingSame
<1>4. IsKnown(s) /\ IsTrue(s, Top.regs, Pending') /\ Onward(s)
  BY <1>1, <1>2, <1>3, Points_ DEF Knows
<1>5. s.exc = "binding" => BindingOK(fn, request', stage', bound', Pending')
  BY <1>1, <1>2, <1>3 DEF Knows, bindingVars
<1> HIDE DEF fn
<1> QED BY <1>1, <1>3, <1>4, <1>5, TopSlots, Continues DEF fn

LEMMA WhenSteps ==
  ASSUME CodeKeepsConvention, ConventionInv, When_
  PROVE  ConventionInv'
<1>1. Running /\ Local /\ Instr.i = "when"
  BY DEF When_, IsNext
<1>2. PICK s : Knows(s)
  BY <1>1, Here
<1> DEFINE fn == Functions[Top.fn]
           regs == Top.regs
           onNull == Instr.then \o Tail(Top.todo)
           onNot == Instr.else \o Tail(Top.todo)
<1>3. IsKnown(s) /\ IsTrue(s, regs, Pending) /\ (s.exc = "binding" => BindingOK(fn, request, stage, bound, Pending))
  BY <1>2 DEF Knows
<1>4. /\ program' = program /\ world' = world /\ WorldOK(world', DOMAIN Functions)
      /\ Pending' = Pending /\ request' = request /\ stage' = stage /\ bound' = bound
  BY <1>1, LocalFacts
<1>5. ASSUME NEW t, NEW todo, OnTop(Top.block, regs, Top.slots, todo), IsKnown(t),
             Point(Top.block, todo, t) \in Cert(fn), IsTrue(t, regs, Pending),
             t.exc = s.exc \/ t.exc # "binding"
      PROVE  ConventionInv'
  <2>1. t.exc = "binding" => BindingOK(fn, request', stage', bound', Pending')
    BY <1>3, <1>4, <1>5
  <2> HIDE DEF fn, regs
  <2> QED BY <1>1, <1>4, <1>5, <2>1, TopSlots, OnTopStep DEF fn
<1>6. /\ \A t \in WhenNull(Instr, s) : Point(Top.block, onNull, t) \in Cert(fn)
      /\ Point(Top.block, onNot, WhenNot(Instr, s)) \in Cert(fn)
  BY <1>1, <1>2, Points_
<1>7. CASE regs[Instr.r] = Constant(Instr.c)
  <2>1. OnTop(Top.block, regs, Top.slots, onNull)
    BY <1>7 DEF When_, Register
  <2>2. CASE Instr.c = "null"
    <3>1. regs[Instr.r] = NULL
      BY <1>7, <2>2, ConstantFacts
    <3>2. Instr.r \notin s.objects
      BY <1>3, <3>1 DEF IsTrue, Have
    <3>3. CASE Decides(s, Instr.r)
      <4> DEFINE t == Raised(Loses(s, Instr.r))
      <4>1. t \in WhenNull(Instr, s)
        BY <2>2, <3>3 DEF WhenNull
      <4>2. IsTrue(t, regs, Pending)
        BY <1>3, <3>1, <3>3 DEF IsTrue, Have, Decides, Raised, Loses, Known
      <4>3. IsKnown(t) /\ t.exc = "set"
        BY <1>3, KnownAgain
      <4> HIDE DEF t, fn, regs, onNull
      <4> QED BY <1>5, <1>6, <2>1, <4>1, <4>2, <4>3
    <3>4. CASE ~Decides(s, Instr.r)
      <4>1. s \in WhenNull(Instr, s)
        BY <3>2, <3>4 DEF WhenNull
      <4> HIDE DEF fn, regs, onNull
      <4> QED BY <1>3, <1>5, <1>6, <2>1, <4>1
    <3> QED BY <3>3, <3>4
  <2>3. CASE Instr.c # "null"
    <3>1. s \in WhenNull(Instr, s)
      BY <2>3 DEF WhenNull
    <3> HIDE DEF fn, regs, onNull
    <3> QED BY <1>3, <1>5, <1>6, <2>1, <3>1
  <2> QED BY <2>2, <2>3
<1>8. CASE regs[Instr.r] # Constant(Instr.c)
  <2> DEFINE t == WhenNot(Instr, s)
  <2>1. OnTop(Top.block, regs, Top.slots, onNot)
    BY <1>8 DEF When_, Register
  <2>2. IsTrue(t, regs, Pending) /\ IsKnown(t) /\ (t.exc = s.exc \/ t.exc # "binding")
    <3>1. CASE Instr.c = "null" /\ Decides(s, Instr.r)
      <4>1. t = Known("clear", 0, s.objects \cup {Instr.r}, s.params)
        BY <3>1 DEF WhenNot
      <4>2. regs[Instr.r] # NULL
        BY <1>8, <3>1, ConstantFacts
      <4>3. IsTrue(t, regs, Pending)
        BY <1>3, <3>1, <4>1, <4>2 DEF IsTrue, Have, Decides, Known
      <4>4. IsKnown(t) /\ t.exc # "binding"
        BY <4>1 DEF IsKnown, Known
      <4> QED BY <4>3, <4>4
    <3>2. CASE Instr.c = "null" /\ ~Decides(s, Instr.r) /\ Instr.r \in s.params
      <4>1. t = Gets(s, Instr.r)
        BY <3>2 DEF WhenNot
      <4>2. regs[Instr.r] # NULL
        BY <1>8, <3>2, ConstantFacts
      <4>3. IsTrue(t, regs, Pending)
        BY <1>3, <3>2, <4>1, <4>2 DEF IsTrue, Have, Gets, Known
      <4> QED BY <1>3, <4>1, <4>3, KnownAgain
    <3>3. CASE Instr.c # "null" \/ (~Decides(s, Instr.r) /\ Instr.r \notin s.params)
      <4>1. t = s
        BY <3>3 DEF WhenNot
      <4> QED BY <1>3, <4>1
    <3> QED BY <3>1, <3>2, <3>3
  <2> HIDE DEF t, fn, regs, onNot
  <2>3. Point(Top.block, onNot, t) \in Cert(fn)
    BY <1>6 DEF t
  <2> QED BY <1>5, <2>1, <2>2, <2>3
<1> QED BY <1>7, <1>8

LEMMA GotoSteps ==
  ASSUME CodeKeepsConvention, ConventionInv, Goto_
  PROVE  ConventionInv'
<1> DEFINE fn == Functions[Top.fn]
           regs == [k \in 1..Instr.n |-> Register(k)]
           todo == Body(fn, fn.blocks[Instr.label])
           t == Known("clear", 0, 1..Instr.n, {})
<1>1. Running /\ Local /\ Instr.i = "goto" /\ OnTop(Instr.label, regs, Top.slots, todo)
  BY DEF Goto_, IsNext
<1>2. PICK s : Knows(s)
  BY <1>1, Here
<1>3. s.exc = "clear" /\ 1..Instr.n \subseteq s.objects /\ Point(Instr.label, todo, t) \in Cert(fn)
  BY <1>1, <1>2, Points_
<1>4. program' = program /\ Pending' = Pending /\ WorldOK(world', DOMAIN Functions)
  BY <1>1, LocalFacts
<1>5. IsTrue(t, regs, Pending')
  BY <1>2, <1>3, <1>4 DEF Knows, IsTrue, Have, Register, Known
<1>6. IsKnown(t) /\ t.exc = "clear"
  BY DEF IsKnown, Known
<1> HIDE DEF fn, regs, todo, t
<1> QED BY <1>1, <1>3, <1>4, <1>5, <1>6, TopSlots, OnTopStep DEF fn

LEMMA FailSteps ==
  ASSUME CodeKeepsConvention, ConventionInv, Fail_
  PROVE  ConventionInv'
<1> DEFINE fn == Functions[Top.fn]
           todo == FailureCode(fn, Top.block)
           t == Known("set", 0, {}, {})
<1>1. /\ Running /\ Instr.i = "fail" /\ OnTop(Top.block, <<>>, Top.slots, todo)
      /\ program' = program /\ world' = world /\ Pending' = Pending
  BY PendingSame DEF Fail_, IsNext
<1>2. PICK s : Knows(s)
  BY <1>1, Here
<1>3. s.exc = "set" /\ Point(Top.block, todo, t) \in Cert(fn)
  BY <1>1, <1>2, Points_
<1>4. WorldOK(world', DOMAIN Functions)
  BY <1>1 DEF ConventionInv
<1>5. IsTrue(t, <<>>, Pending')
  BY <1>1, <1>2, <1>3 DEF Knows, IsTrue, Have, Known
<1>6. IsKnown(t) /\ t.exc = "set"
  BY DEF IsKnown, Known
<1> HIDE DEF fn, todo, t
<1> QED BY <1>1, <1>3, <1>4, <1>5, <1>6, TopSlots, OnTopStep DEF fn

-----------------------------------------------------------------------------
\* Calls, and what they give.
LEMMA CallPushed ==
  ASSUME CodeKeepsConvention, ConventionInv, Pending = NULL,
         NEW r, r \in DOMAIN world.heap, world.heap[r].kind = "function",
         NEW args, NEW kwnames, NEW kwvalues, PushCall(r, args, kwnames, kwvalues),
         Running => Waits(Top, Functions)
  PROVE  ConventionInv'
<1> DEFINE n == world.heap[r].name
           fn == Functions[n]
           g == Frame(n, r, InTrampoline, <<>>, Trampoline(fn))
           t == Known("binding", 0, {}, {})
           req == Request(fn.spec, args, kwnames, kwvalues)
<1>1. /\ frames' = Append(frames, g) /\ Begin(req)
      /\ program' = program /\ world' = world /\ Pending' = Pending
  BY PendingSame DEF PushCall
<1>2. n \in DOMAIN Functions
  BY DEF ConventionInv, WorldOK, IsHeap
<1>3. Certified(fn, Cert(fn))
  BY <1>2, FunctionsHavePoints DEF ConventionInv
<1>4. FrameOK(g, Functions) /\ AtPoint(g, t, Functions) /\ g.regs = <<>> /\ g.fn = n
  <2>1. /\ g.fn = n /\ g.regs = <<>> /\ g.block = InTrampoline /\ g.todo = Trampoline(fn)
        /\ DOMAIN g.slots = SlotNames(fn)
        /\ \A x \in DOMAIN g.slots : g.slots[x] = Constant("deleted")
        /\ g = [fn |-> g.fn, callable |-> g.callable, block |-> g.block,
                regs |-> g.regs, todo |-> g.todo, slots |-> g.slots]
    BY DEF Frame
  <2> HIDE DEF g
  <2>2. FrameOK(g, Functions)
    BY <1>2, <2>1, ConstantFacts DEF FrameOK
  <2> QED BY <1>3, <2>1, <2>2 DEF AtPoint, Certified
<1>5. IsTrue(t, <<>>, Pending) /\ IsKnown(t) /\ t.exc = "binding"
  BY DEF IsTrue, Have, Known, IsKnown
<1>6. BindingOK(fn, request', stage', bound', Pending')
  <2>1. request' = req /\ req.spec = fn.spec
    BY <1>1 DEF Begin, Request
  <2>2. stage' = "positionals" /\ bound' = [i \in DOMAIN fn.spec |-> NULL]
    BY <1>1, <2>1 DEF Begin
  <2> QED BY <1>1, <2>1, <2>2 DEF BindingOK, Failed
<1> HIDE DEF g, t, req
<1>7. t.exc = "binding" => BindingOK(Functions[g.fn], request', stage', bound', Pending')
  BY <1>4, <1>6
<1> HIDE DEF fn, n
<1> QED BY <1>1, <1>4, <1>5, <1>7, PushStep

LEMMA CallStep ==
  ASSUME CodeKeepsConvention, ConventionInv, Call
  PROVE  ConventionInv'
<1>1. /\ ~Running /\ world = [heap |-> program.heap, globals |-> program.globals, raised |-> NULL]
      /\ bare = {} /\ PushCall(program.function, program.args, <<>>, <<>>)
  BY DEF Call, ConventionInv
<1>2. program.function \in DOMAIN program.heap /\ program.heap[program.function].kind = "function"
  BY ProgramsAssumption DEF ConventionInv
<1>3. Pending = NULL /\ world.heap = program.heap
  BY <1>1 DEF Pending
<1> QED BY <1>1, <1>2, <1>3, CallPushed

LEMMA WaitsForCall ==
  ASSUME NEW s, Knows(s), Onward(Tests(s, Instr.d))
  PROVE  Waits(Top, Functions)
<1>1. Tests(s, Instr.d) = Known("tested", Instr.d, s.objects \ {Instr.d}, s.params)
  BY DEF Tests
<1>2. Have(s.objects \ {Instr.d}, s.params, Top.regs)
  BY DEF Knows, IsTrue, Have
<1> QED BY <1>1, <1>2 DEF Waits, Onward, Instr

LEMMA CallFunctionStep ==
  ASSUME CodeKeepsConvention, ConventionInv, CallFunction
  PROVE  ConventionInv'
<1>1. /\ Running /\ Instr.i = "helper" /\ Instr.h \in Calls /\ IsFunction(world.heap, Args[1])
      /\ \E args, kwnames, kwvalues : PushCall(Args[1], args, kwnames, kwvalues)
  BY DEF CallFunction, CallsFunction, IsNext
<1>2. PICK s : Knows(s)
  BY <1>1, Here
<1>3. MayCall(Instr, s) /\ Onward(AfterCall(Instr, s))
  BY <1>1, <1>2, Points_
<1>4. s.exc = "clear" /\ AfterCall(Instr, s) = Tests(s, Instr.d)
  BY <1>1, <1>3 DEF MayCall, AfterCall, Calls
<1>5. Pending = NULL
  BY <1>2, <1>4 DEF Knows, IsTrue
<1> QED BY <1>1, <1>2, <1>3, <1>4, <1>5, WaitsForCall, CallPushed DEF IsFunction

LEMMA EnterStep ==
  ASSUME CodeKeepsConvention, ConventionInv, Enter
  PROVE  ConventionInv'
<1> DEFINE fn == Functions[Top.fn]
           g == Frame(Top.fn, Top.callable, InEntry, Top.regs, Entry(fn))
<1>1. Running /\ Instr.i = "enter" /\ frames' = Append(frames, g) /\ Local
  BY DEF Enter, IsNext
<1>2. PICK s : Knows(s)
  BY <1>1, Here
<1>3. s.exc = "clear" /\ Onward(Tests(s, Instr.d)) /\ Point(InEntry, Entry(fn), s) \in Cert(fn)
  BY <1>1, <1>2, Points_
<1>4. FrameOK(g, Functions) /\ AtPoint(g, s, Functions) /\ g.regs = Top.regs
  <2>1. Top.fn \in DOMAIN Functions
    BY <1>1, TopFacts DEF FrameOK
  <2>2. /\ g.fn = Top.fn /\ g.regs = Top.regs /\ g.block = InEntry /\ g.todo = Entry(fn)
        /\ DOMAIN g.slots = SlotNames(fn)
        /\ \A x \in DOMAIN g.slots : g.slots[x] = Constant("deleted")
        /\ g = [fn |-> g.fn, callable |-> g.callable, block |-> g.block,
                regs |-> g.regs, todo |-> g.todo, slots |-> g.slots]
    BY DEF Frame
  <2> HIDE DEF g
  <2>3. FrameOK(g, Functions)
    BY <2>1, <2>2, ConstantFacts DEF FrameOK
  <2> QED BY <1>3, <2>2, <2>3 DEF AtPoint
<1>5. IsKnown(s) /\ IsTrue(s, Top.regs, Pending)
  BY <1>2 DEF Knows
<1>6. program' = program /\ world' = world /\ Pending' = Pending
  BY <1>1, LocalFacts
<1>7. Waits(Top, Functions)
  BY <1>2, <1>3, WaitsForCall
<1> HIDE DEF g
<1> QED BY <1>1, <1>3, <1>4, <1>5, <1>6, <1>7, PushStep

LEMMA ReturnStep ==
  ASSUME CodeKeepsConvention, ConventionInv, Ret_
  PROVE  ConventionInv'
<1>1. Running /\ Instr.i = "ret" /\ program' = program
  BY DEF Ret_, IsNext
<1>2. PICK s : Knows(s)
  BY <1>1, Here
<1> DEFINE v == Register(Instr.r)
<1>3. v = NULL <=> Pending # NULL
  <2>1. Decides(s, Instr.r) \/ (s.exc = "clear" /\ Instr.r \in s.objects)
    BY <1>1, <1>2, Points_
  <2> QED BY <1>2, <2>1 DEF Knows, IsTrue, Have, Decides, Register
<1>4. Functions' = Functions
  BY <1>1 DEF Functions
<1>7. WorldOK(world', DOMAIN Functions) /\ (v = NULL <=> Pending' # NULL)
  <2>1. world' \in CheckedResult(v) /\ bare' = IF Leaving THEN {} ELSE bare
    BY DEF Ret_
  <2>2. WorldOK(world, DOMAIN Functions)
    BY DEF ConventionInv
  <2> HIDE DEF v
  <2>3. CASE Leaving /\ v = NULL /\ world.raised = NULL
    <3>1. PICK o \in Error(world) : world' = o.world
      BY <2>1, <2>3 DEF CheckedResult
    <3>2. Raises(o, DOMAIN Functions)
      BY <2>2, <3>1, ErrorFacts
    <3> QED BY <2>3, <3>1, <3>2, ConstantFacts DEF Raises, Pending
  <2>4. CASE ~(Leaving /\ v = NULL /\ world.raised = NULL)
    <3>1. world' = world
      BY <2>1, <2>4 DEF CheckedResult
    <3>2. CASE Leaving
      BY <1>3, <2>1, <2>2, <2>4, <3>1, <3>2, PendingFacts DEF Pending
    <3>3. CASE ~Leaving
      BY <1>3, <2>1, <2>2, <3>1, <3>3, PendingSame
    <3> QED BY <3>2, <3>3
  <2> QED BY <2>3, <2>4
<1>5. CASE Len(frames) = 1
  <2>1. frames' = <<>> /\ result' = <<v>>
    BY <1>5 DEF Ret_
  <2>2. Stack(frames', Functions)
    BY <2>1 DEF Stack, IsSeq
  <2>3. ~Running' /\ result' # <<>>
    BY <2>1 DEF Running
  <2> QED BY <1>1, <1>4, <1>7, <2>2, <2>3 DEF ConventionInv
<1>6. CASE Len(frames) # 1
  <2> DEFINE caller == frames[Len(frames) - 1]
             d == Head(caller.todo).d
             regs == SetRegister(caller.regs, d, v)
             g == Moved(caller, caller.block, regs, caller.slots, Tail(caller.todo))
  <2>1. frames' = [SubSeq(frames, 1, Len(frames) - 1) EXCEPT ![Len(frames) - 1] = g]
    BY <1>6 DEF Ret_
  <2>2. Len(frames) - 1 \in 1..(Len(frames) - 1) /\ Len(frames) - 1 \in 1..Len(frames)
    BY <1>1, <1>6, TopFacts
  <2>3. FrameOK(caller, Functions) /\ Waits(caller, Functions)
    BY <2>2 DEF ConventionInv, Stack
  <2> HIDE DEF caller
  <2>4. PICK r, objects, params :
          /\ Point(caller.block, Tail(caller.todo), Known("tested", r, objects, params)) \in Cert(Functions[caller.fn])
          /\ r = Head(caller.todo).d /\ r \notin objects
          /\ Have(objects, params, caller.regs)
    BY <2>3 DEF Waits
  <2> DEFINE t == Known("tested", r, objects, params)
  <2>5. FrameOK(g, Functions) /\ AtPoint(g, t, Functions) /\ g.regs = regs
    BY <2>3, <2>4 DEF FrameOK, AtPoint, Moved
  <2>6. IsTrue(t, regs, Pending')
    <3>1. regs = With(caller.regs, d, v) /\ r = d
      BY <2>4 DEF SetRegister
    <3> HIDE DEF regs, v, d
    <3>2. /\ DOMAIN regs = DOMAIN caller.regs \cup {d} /\ regs[d] = v
          /\ \A y \in DOMAIN caller.regs : y # d => regs[y] = caller.regs[y]
      BY <3>1 DEF With
    <3> QED BY <1>7, <2>4, <3>1, <3>2 DEF IsTrue, Have, Known
  <2>7. IsKnown(t) /\ t.exc # "binding"
    BY DEF IsKnown, Known
  <2> HIDE DEF g, t, regs
  <2> QED BY <1>1, <1>6, <1>7, <2>1, <2>5, <2>6, <2>7, PopStep DEF caller
<1> QED BY <1>5, <1>6

-----------------------------------------------------------------------------
\* Other code rebinds what it likes, and raises nothing.
LEMMA ObjectReplaced ==
  ASSUME NEW N, NEW w, WorldOK(w, N), NEW heap, IsHeap(heap, N), NEW v, v = [w EXCEPT !.heap = heap]
  PROVE  WorldOK(v, N) /\ v.raised = w.raised
BY HeapChanges

LEMMA InterferedFacts ==
  ASSUME NEW N, NEW world0, WorldOK(world0, N), NEW v \in Interfered(world0)
  PROVE  WorldOK(v, N) /\ v.raised = world0.raised
<1> DEFINE w == Allocate(world0, Plain)
           new == Newest(w)
<1>1. WorldOK(w, N) /\ w.raised = world0.raised /\ new # NULL /\ IsHeap(w.heap, N)
  BY AllocateFacts, NewObjects DEF WorldOK
<1>2. \/ \E x \in DOMAIN w.globals : v = [w EXCEPT !.heap = Decref(@, w.globals[x]), !.globals[x] = new]
      \/ \E r : v = [w EXCEPT !.heap = SetItems(@, r, <<new>>)]
      \/ \E r, items : v = [w EXCEPT !.heap = SetItem(Append(@, NewTuple(items)), r, 1, new + 1)]
      \/ \E r : v = [world0 EXCEPT !.heap = SetItem(@, r, 1, Constant("None"))]
  BY DEF Interfered
<1> HIDE DEF w, new
<1>3. ASSUME NEW x \in DOMAIN w.globals, v = [w EXCEPT !.heap = Decref(@, w.globals[x]), !.globals[x] = new]
      PROVE  WorldOK(v, N) /\ v.raised = w.raised
  <2> DEFINE h == Decref(w.heap, w.globals[x])
             u == [w EXCEPT !.heap = h]
             g == [w.globals EXCEPT ![x] = new]
  <2>1. IsHeap(h, N)
    BY <1>1, ReferencesGivenUp
  <2>2. v = [u EXCEPT !.globals = g]
    BY <1>3
  <2>3. \A y \in DOMAIN g : g[y] # NULL
    BY <1>1 DEF WorldOK
  <2> HIDE DEF h
  <2>4. WorldOK(u, N) /\ u.raised = w.raised
    BY <1>1, <2>1, HeapChanges
  <2> HIDE DEF u, g
  <2>5. WorldOK([u EXCEPT !.globals = g], N) /\ [u EXCEPT !.globals = g].raised = u.raised
    BY <2>3, <2>4 DEF WorldOK
  <2> QED BY <2>2, <2>4, <2>5
<1>4. ASSUME NEW r, v = [w EXCEPT !.heap = SetItems(@, r, <<new>>)]
      PROVE  WorldOK(v, N) /\ v.raised = w.raised
  <2>1. IsHeap(SetItems(w.heap, r, <<new>>), N)
    BY <1>1, ItemsSet
  <2> QED BY <1>1, <1>4, <2>1, ObjectReplaced
<1>5. ASSUME NEW r, NEW items, v = [w EXCEPT !.heap = SetItem(Append(@, NewTuple(items)), r, 1, new + 1)]
      PROVE  WorldOK(v, N) /\ v.raised = w.raised
  <2>1. IsHeap(Append(w.heap, NewTuple(items)), N)
    BY <1>1, NewObjects, ObjectAdded
  <2>2. IsHeap(SetItem(Append(w.heap, NewTuple(items)), r, 1, new + 1), N)
    BY <2>1, ItemsSet
  <2> QED BY <1>1, <1>5, <2>2, ObjectReplaced
<1>6. ASSUME NEW r, v = [world0 EXCEPT !.heap = SetItem(@, r, 1, Constant("None"))]
      PROVE  WorldOK(v, N) /\ v.raised = world0.raised
  <2>1. IsHeap(SetItem(world0.heap, r, 1, Constant("None")), N)
    BY ItemsSet DEF WorldOK
  <2> QED BY <1>6, <2>1, ObjectReplaced
<1> QED BY <1>1, <1>2, <1>3, <1>4, <1>5, <1>6

-----------------------------------------------------------------------------
\* The operands of a helper have objects.
LEMMA OperandFacts ==
  ASSUME NEW s, IsTrue(s, Top.regs, Pending), MayCall(Instr, s)
  PROVE  /\ Instr.h \in Helpers
         /\ Instr.h = "load_runtime" => Instr.x \in ConstantNames
         /\ Instr.h \in {"store_global", "set_raised", "to_i64"} => Args[1] # NULL
         /\ Instr.h = "operate" => Args = <<>> \/ Args[1] # NULL
         /\ Instr.h = "store_cell" => Args[2] # NULL
<1> DEFINE rs == Instr.rs
<1>1. rs \in Seq(s.objects) /\ Len(rs) \in Nat /\ DOMAIN rs = 1..Len(rs)
  BY DEF MayCall
<1>2. Args = [k \in DOMAIN rs |-> Top.regs[rs[k]]]
  BY DEF Args, Read, Register
<1>3. \A k \in DOMAIN rs : rs[k] \in s.objects
  BY <1>1
<1>4. \A k \in DOMAIN rs : Args[k] # NULL
  BY <1>2, <1>3 DEF IsTrue, Have
<1>5. Len(rs) >= 1 => Args[1] # NULL
  BY <1>1, <1>4
<1>6. Len(rs) >= 2 => Args[2] # NULL
  BY <1>1, <1>4
<1>7. Len(rs) >= 1 \/ Args = <<>>
  BY <1>1, <1>2
<1> QED BY <1>5, <1>6, <1>7 DEF MayCall

\* What a helper gives is as the code that tests it expects.
LEMMA Outcomes ==
  ASSUME NEW s, IsKnown(s), IsTrue(s, Top.regs, Pending), MayCall(Instr, s),
         NEW w, w.raised = world.raised, NEW o, NEW N, HelperEnds(w, Instr.h, o, N),
         world' = o.world,
         bare' = IF o.value = NULL /\ o.world.raised = NULL THEN bare \cup {Instr.h} ELSE {}
  PROVE  LET t == AfterCall(Instr, s)
         IN  /\ IsTrue(t, SetRegister(Top.regs, Instr.d, o.value), Pending')
             /\ IsKnown(t) /\ t.exc # "binding" /\ WorldOK(o.world, N)
<1> DEFINE h == Instr.h
           d == Instr.d
           regs == SetRegister(Top.regs, d, o.value)
           t == AfterCall(Instr, s)
<1>1. h \in Helpers /\ s.exc = IF h = "get_raised_exception" THEN "set" ELSE "clear"
  BY DEF MayCall
<1>2. /\ o.value # NULL => Pending' = o.world.raised
      /\ o.value = NULL => Pending' # NULL
  BY ConstantFacts DEF Pending
<1>3. CASE h \in {"set_raised", "raise_deleted_name_error"}
  <2>1. o.value = NULL /\ WorldOK(o.world, N)
    BY <1>3 DEF HelperEnds, Raises
  <2>2. t = Raised(Loses(s, d))
    BY <1>3 DEF AfterCall
  <2> HIDE DEF t, d, regs
  <2>3. IsTrue(t, regs, Pending')
    BY <1>2, <2>1, <2>2, RegisterSet DEF regs
  <2>4. IsKnown(t) /\ t.exc = "set"
    BY <2>2, KnownAgain
  <2> QED BY <2>1, <2>3, <2>4 DEF t, d, regs
<1>4. ASSUME s.exc = "clear"
      PROVE  w.raised = NULL /\ Pending = NULL /\ ~Decides(s, d)
  BY <1>4, PendingFacts DEF IsTrue, Decides, Pending
<1>5. CASE h \in {"tuple_set_item", "is"}
  <2>1. s.exc = "clear"
    BY <1>1, <1>5
  <2>2. o.value # NULL /\ o.world.raised = w.raised /\ WorldOK(o.world, N)
    BY <1>5 DEF HelperEnds, Gives
  <2>3. t = Gets(s, d)
    BY <1>5 DEF AfterCall
  <2>4. Pending' = Pending
    BY <1>2, <1>4, <2>1, <2>2
  <2> HIDE DEF t, d, regs
  <2>5. IsTrue(t, regs, Pending')
    BY <1>4, <2>1, <2>2, <2>3, <2>4, RegisterSet DEF regs
  <2>6. IsKnown(t) /\ t.exc = "clear"
    BY <2>1, <2>3, KnownAgain
  <2> QED BY <2>2, <2>5, <2>6 DEF t, d, regs
<1>6. CASE h \notin {"set_raised", "raise_deleted_name_error", "tuple_set_item", "is"}
  <2>1. t = Tests(s, d)
    BY <1>6 DEF AfterCall
  <2>2. (o.value # NULL => o.world.raised = NULL) /\ WorldOK(o.world, N)
    <3>1. CASE h = "get_raised_exception"
      BY <3>1 DEF HelperEnds
    <3>2. CASE h \in Reading
      <4>1. w.raised = NULL
        BY <1>1, <1>4, <3>2 DEF Reading, Calls
      <4> QED BY <3>2, <4>1 DEF HelperEnds, EndsOrFindsNone
    <3>3. CASE h # "get_raised_exception" /\ h \notin Reading
      <4>1. w.raised = NULL
        BY <1>1, <1>4, <3>3
      <4>2. h \in Helpers \ (Reading \cup NeverRaise)
        BY <1>1, <1>6, <3>3 DEF NeverRaise
      <4> QED BY <4>1, <4>2 DEF HelperEnds, Ends, Gives, Raises
    <3> QED BY <3>1, <3>2, <3>3
  <2>3. o.value = NULL <=> Pending' # NULL
    BY <1>2, <2>2
  <2> HIDE DEF t, d, regs
  <2>4. IsTrue(t, regs, Pending')
    BY <2>1, <2>3, RegisterSet DEF regs
  <2>5. IsKnown(t) /\ t.exc = "tested"
    BY <2>1, KnownAgain
  <2> QED BY <2>2, <2>4, <2>5 DEF t, d, regs
<1> QED BY <1>3, <1>5, <1>6

LEMMA FinishStep ==
  ASSUME CodeKeepsConvention, ConventionInv, Running, Instr.i = "helper",
         NEW s, Knows(s), MayCall(Instr, s), Onward(AfterCall(Instr, s)),
         NEW w, w.raised = world.raised,
         NEW o, HelperEnds(w, Instr.h, o, DOMAIN Functions), Finishes(o)
  PROVE  ConventionInv'
<1> DEFINE t == AfterCall(Instr, s)
           regs == SetRegister(Top.regs, Instr.d, o.value)
<1>1. /\ world' = o.world /\ program' = program /\ Continue(regs, Top.slots)
      /\ bare' = IF o.value = NULL /\ o.world.raised = NULL THEN bare \cup {Instr.h} ELSE {}
  BY DEF Finishes
<1>2. IsKnown(s) /\ IsTrue(s, Top.regs, Pending)
  BY DEF Knows
<1>3. /\ IsTrue(t, regs, Pending')
      /\ IsKnown(t) /\ t.exc # "binding" /\ WorldOK(o.world, DOMAIN Functions)
  BY <1>1, <1>2, Outcomes
<1>4. Onward(t)
  OBVIOUS
<1> HIDE DEF t, regs
<1> QED BY <1>1, <1>3, <1>4, TopSlots, Continues

\* What a step of a helper does.
LEMMA HelperDoes ==
  ASSUME CodeKeepsConvention, ConventionInv, Helps \/ HelperFails \/ HelpsAndInterferes
  PROVE  /\ Running /\ Instr.i = "helper"
         /\ \E w, o : /\ HelperEnds(w, Instr.h, o, DOMAIN Functions) /\ Finishes(o)
                      /\ w.raised = world.raised /\ WorldOK(w, DOMAIN Functions)
<1>1. Running /\ Instr.i = "helper" /\ CallsHelper
  BY DEF Helps, HelperFails, HelpsAndInterferes, CallsHelper, IsNext
<1>2. PICK s : Knows(s)
  BY <1>1, Here
<1>3. MayCall(Instr, s)
  BY <1>1, <1>2, Points_
<1> DEFINE N == DOMAIN Functions
           Does(w, o) == /\ HelperEnds(w, Instr.h, o, N) /\ Finishes(o)
                         /\ w.raised = world.raised /\ WorldOK(w, N)
<1>4. WorldOK(world, N) /\ IsTrue(s, Top.regs, Pending)
  BY <1>2 DEF ConventionInv, Knows
<1>5. ASSUME NEW w, WorldOK(w, N), w.raised = world.raised,
             w = world \/ (Instr.h \in RunsOtherCode /\ w \in Interfered(world)),
             NEW o \in HelperOutcomes(w, Top.callable, Instr, Args), Finishes(o)
      PROVE  Does(w, o)
  BY <1>3, <1>4, <1>5, OperandFacts, HelpersEnd
<1>6. ASSUME Helps
      PROVE  \E w, o : Does(w, o)
  <2>1. PICK o \in HelperOutcomes(world, Top.callable, Instr, Args) : Finishes(o)
    BY <1>6 DEF Helps
  <2> QED BY <1>4, <1>5, <2>1
<1>7. ASSUME HelpsAndInterferes
      PROVE  \E w, o : Does(w, o)
  <2>1. PICK w \in Interfered(world) : \E o \in HelperOutcomes(w, Top.callable, Instr, Args) : Finishes(o)
    BY <1>7 DEF HelpsAndInterferes
  <2>2. Instr.h \in RunsOtherCode /\ WorldOK(w, N) /\ w.raised = world.raised
    BY <1>4, <1>7, <2>1, InterferedFacts DEF HelpsAndInterferes
  <2> QED BY <1>5, <2>1, <2>2
<1>8. ASSUME HelperFails
      PROVE  \E w, o : Does(w, o)
  <2>1. PICK o \in Error(world) : Finishes(o)
    BY <1>8 DEF HelperFails
  <2>2. Raises(o, N) /\ Instr.h \notin NeverRaise
    BY <1>4, <1>8, <2>1, ErrorFacts DEF HelperFails
  <2>3. HelperEnds(world, Instr.h, o, N)
    BY <2>2 DEF HelperEnds, Ends, EndsOrFindsNone, Raises, NeverRaise
  <2> QED BY <1>4, <2>1, <2>3
<1> QED BY <1>1, <1>6, <1>7, <1>8

LEMMA HelperSteps ==
  ASSUME CodeKeepsConvention, ConventionInv, Helps \/ HelperFails \/ HelpsAndInterferes
  PROVE  ConventionInv'
<1>1. Running /\ Instr.i = "helper"
  BY HelperDoes
<1>2. PICK w, o : /\ HelperEnds(w, Instr.h, o, DOMAIN Functions) /\ Finishes(o)
                  /\ w.raised = world.raised
  BY HelperDoes
<1>3. PICK s : Knows(s)
  BY <1>1, Here
<1>4. MayCall(Instr, s) /\ Onward(AfterCall(Instr, s))
  BY <1>1, <1>3, Points_
<1> QED BY <1>1, <1>2, <1>3, <1>4, FinishStep

-----------------------------------------------------------------------------
\* The binding of arguments.
LEMMA BindingNow ==
  ASSUME CodeKeepsConvention, ConventionInv, IsNext("bind"), NEW fn, fn = Functions[Top.fn]
  PROVE  /\ BindingOK(fn, request, stage, bound, Pending)
         /\ fn.spec \in Specs /\ Spec0 = fn.spec
<1>1. Running /\ Instr.i = "bind"
  BY DEF IsNext
<1>2. PICK s : Knows(s)
  BY <1>1, Here
<1>3. s.exc = "binding"
  BY <1>1, <1>2, Points_
<1>4. BindingOK(fn, request, stage, bound, Pending)
  BY <1>2, <1>3 DEF Knows
<1>5. fn.spec \in Specs
  BY <1>1, TopFacts, ProgramsAssumption DEF ConventionInv, FrameOK, Functions
<1> QED BY <1>4, <1>5 DEF BindingOK, Spec0

LEMMA BindingStep ==
  ASSUME CodeKeepsConvention, ConventionInv, Binding, WorldOK(world', DOMAIN Functions),
         NEW fn, fn = Functions[Top.fn], BindingOK(fn, request', stage', bound', Pending')
  PROVE  ConventionInv'
<1>1. Running /\ Instr.i = "bind" /\ program' = program /\ frames' = frames
  BY DEF Binding, IsNext
<1>2. PICK s : Knows(s)
  BY <1>1, Here
<1>3. s.exc = "binding"
  BY <1>1, <1>2, Points_
<1>4. PICK exc, r, objects, params :
        LET t == Known(exc, r, objects, params)
        IN  /\ AtPoint(Top, t, Functions)
            /\ IsTrue(t, Top.regs, Pending)
            /\ exc = "binding" => BindingOK(Functions[Top.fn], request, stage, bound, Pending)
  BY <1>1 DEF ConventionInv, TopOK
<1> DEFINE t == Known(exc, r, objects, params)
<1>5. Functions' = Functions /\ Top' = Top /\ (Running' <=> Running)
  BY <1>1 DEF Functions, Top, Running
<1>6. t.exc = "binding"
  <2>1. Certified(Functions[Top.fn], Cert(Functions[Top.fn]))
    BY <1>1, TopFacts, FunctionsHavePoints DEF ConventionInv, FrameOK
  <2>2. Keeps(Functions[Top.fn], Point(Top.block, Top.todo, t))
    BY <1>4, <2>1 DEF Certified, AtPoint
  <2> HIDE DEF t
  <2> QED BY <1>1, <2>2 DEF Keeps, Point, Instr
<1>7. IsTrue(t, Top.regs, Pending')
  BY <1>4, <1>6 DEF IsTrue
<1>8. TopOK'
  BY <1>4, <1>5, <1>7 DEF TopOK
<1>9. Stack(frames', Functions)
  BY <1>1 DEF ConventionInv
<1> QED BY <1>1, <1>5, <1>8, <1>9 DEF ConventionInv

\* There is one parameter for the other arguments, and one for the keywords.
LEMMA OneOfAKind ==
  ASSUME NEW spec \in Specs, NEW kind \in {"VarArg", "KwArg"}
  PROVE  Takes(spec, kind) =>
           /\ IndexOf(spec, kind) \in DOMAIN spec /\ spec[IndexOf(spec, kind)].kind = kind
           /\ \A i \in DOMAIN spec : spec[i].kind = kind => i = IndexOf(spec, kind)
<1>1. ASSUME NEW i \in DOMAIN spec, NEW j \in DOMAIN spec, spec[i].kind = kind, spec[j].kind = kind
      PROVE  i = j
  <2>1. DOMAIN spec \subseteq Nat /\ collect_param_spec(spec)
    BY SpecFacts
  <2>2. ~(i < j) /\ ~(j < i)
    BY <1>1, <2>1 DEF collect_param_spec
  <2> QED BY <2>1, <2>2
<1> QED BY <1>1 DEF Takes, IndexOf

LEMMA ChangedWorld ==
  ASSUME ConventionInv, bare' = bare, NEW heap, IsHeap(heap, DOMAIN Functions), world' = [world EXCEPT !.heap = heap]
  PROVE  WorldOK(world', DOMAIN Functions) /\ Pending' = Pending
BY HeapChanges, PendingSame DEF ConventionInv

LEMMA References ==
  ASSUME ConventionInv, bare' = bare, NEW refs, Owning(refs)
  PROVE  WorldOK(world', DOMAIN Functions) /\ Pending' = Pending
<1>1. IsHeap(IncrefAll(world.heap, refs), DOMAIN Functions)
  BY CountsChange DEF ConventionInv, WorldOK
<1>2. world' = [world EXCEPT !.heap = IncrefAll(world.heap, refs)]
  BY DEF Owning
<1> QED BY <1>1, <1>2, ChangedWorld

LEMMA PositionalsBound ==
  ASSUME CodeKeepsConvention, ConventionInv, BindPositional
  PROVE  ConventionInv'
<1> DEFINE fn == Functions[Top.fn]
<1>1. Binding /\ BindPositionals /\ IsNext("bind") /\ Owning(bound') /\ bare' = bare
  BY DEF BindPositional, Binding
<1>2. BindingOK(fn, request, stage, bound, Pending) /\ Spec0 = fn.spec
  BY <1>1, BindingNow
<1>3. WorldOK(world', DOMAIN Functions) /\ Pending' = Pending
  BY <1>1, References
<1>4. stage = "positionals" /\ stage' = "varargs" /\ request' = request /\ DOMAIN bound' = DOMAIN Spec0
  BY <1>1 DEF BindPositionals
<1>5. BindingOK(fn, request', stage', bound', Pending')
  BY <1>2, <1>3, <1>4 DEF BindingOK, Failed
<1> QED BY <1>1, <1>3, <1>5, BindingStep

\* A new object for a parameter has a place that is no null pointer.
LEMMA NextPlace == ConventionInv => Len(world.heap) + 1 # NULL
<1>1. ConventionInv => Len(world.heap) \in Nat
  BY SeqFacts DEF ConventionInv, WorldOK, IsHeap
<1> QED BY <1>1, ConstantFacts

LEMMA NewObject ==
  ASSUME ConventionInv, bare' = bare, NEW object, IsObject(object), object.kind # "function",
         \/ \E o \in GiveNew(world, object) : world' = o.world
         \/ world' = world
  PROVE  WorldOK(world', DOMAIN Functions) /\ Pending' = Pending
<1>1. CASE world' = world
  BY <1>1, PendingSame DEF ConventionInv
<1>2. ASSUME NEW o \in GiveNew(world, object), world' = o.world
      PROVE  WorldOK(world', DOMAIN Functions) /\ Pending' = Pending
  <2>1. Gives(world, o, DOMAIN Functions)
    BY GiveNewFacts DEF ConventionInv
  <2> QED BY <1>2, <2>1, PendingSame DEF Gives
<1> QED BY <1>1, <1>2

LEMMA TupleBound ==
  ASSUME CodeKeepsConvention, ConventionInv, BindTuple
  PROVE  ConventionInv'
<1> DEFINE fn == Functions[Top.fn]
           tuple == Len(world.heap) + 1
           k == IndexOf(Spec0, "VarArg")
<1>1. Binding /\ BindVarArgs(tuple) /\ IsNext("bind") /\ bare' = bare
  BY DEF BindTuple, Binding
<1>2. BindingOK(fn, request, stage, bound, Pending) /\ Spec0 = fn.spec /\ Spec0 \in Specs
  BY <1>1, BindingNow
<1>3. WorldOK(world', DOMAIN Functions) /\ Pending' = Pending
  <2>1. \/ \E o \in GiveNew(world, NewTuple(extras')) : world' = o.world
        \/ world' = world
    BY DEF BindTuple
  <2> QED BY <1>1, <2>1, NewObject, NewObjects
<1>4. /\ stage = "varargs" /\ stage' = "varkw" /\ request' = request
      /\ IF Takes(Spec0, "VarArg") THEN bound' = [bound EXCEPT ![k] = tuple] ELSE bound' = bound
  BY <1>1 DEF BindVarArgs
<1>5. DOMAIN bound' = DOMAIN Spec0 /\ DOMAIN bound = DOMAIN Spec0
  BY <1>2, <1>4 DEF BindingOK
<1>6. \A i \in DOMAIN Spec0 : Spec0[i].kind = "VarArg" => bound'[i] # NULL
  <2>1. CASE Takes(Spec0, "VarArg")
    <3>1. k \in DOMAIN Spec0 /\ \A i \in DOMAIN Spec0 : Spec0[i].kind = "VarArg" => i = k
      BY <1>2, <2>1, OneOfAKind
    <3>2. bound'[k] = tuple /\ tuple # NULL
      BY <1>4, <1>5, <2>1, <3>1, NextPlace
    <3> QED BY <3>1, <3>2
  <2>2. CASE ~Takes(Spec0, "VarArg")
    BY <2>2 DEF Takes
  <2> QED BY <2>1, <2>2
<1>7. BindingOK(fn, request', stage', bound', Pending')
  BY <1>2, <1>3, <1>4, <1>5, <1>6 DEF BindingOK, Failed
<1> QED BY <1>1, <1>3, <1>7, BindingStep

LEMMA DictBound ==
  ASSUME CodeKeepsConvention, ConventionInv, BindDict
  PROVE  ConventionInv'
<1> DEFINE fn == Functions[Top.fn]
           dict == Len(world.heap) + 1
           k == IndexOf(Spec0, "KwArg")
<1>1. Binding /\ BindVarKw(dict) /\ IsNext("bind") /\ bare' = bare
  BY DEF BindDict, Binding
<1>2. BindingOK(fn, request, stage, bound, Pending) /\ Spec0 = fn.spec /\ Spec0 \in Specs
  BY <1>1, BindingNow
<1>3. WorldOK(world', DOMAIN Functions) /\ Pending' = Pending
  <2>1. \/ \E o \in GiveNew(world, Object("dict", "", <<>>, <<>>)) : world' = o.world
        \/ world' = world
    BY DEF BindDict
  <2>2. IsObject(Object("dict", "", <<>>, <<>>)) /\ Object("dict", "", <<>>, <<>>).kind # "function"
    BY NewObjects
  <2> QED BY <1>1, <2>1, <2>2, NewObject
<1>4. /\ stage = "varkw" /\ stage' = "keywords" /\ request' = request
      /\ IF Takes(Spec0, "KwArg") THEN bound' = [bound EXCEPT ![k] = dict] ELSE bound' = bound
  BY <1>1 DEF BindVarKw
<1>5. DOMAIN bound' = DOMAIN Spec0 /\ DOMAIN bound = DOMAIN Spec0
  BY <1>2, <1>4 DEF BindingOK
<1>6. \A i \in DOMAIN Spec0 : Spec0[i].kind = "VarArg" => bound[i] # NULL
  BY <1>2, <1>4 DEF BindingOK
<1>7. \A i \in DOMAIN Spec0 : Spec0[i].kind \in {"VarArg", "KwArg"} => bound'[i] # NULL
  <2>1. CASE Takes(Spec0, "KwArg")
    <3>1. k \in DOMAIN Spec0 /\ \A i \in DOMAIN Spec0 : Spec0[i].kind = "KwArg" => i = k
      BY <1>2, <2>1, OneOfAKind
    <3>2. bound'[k] = dict /\ dict # NULL /\ \A i \in DOMAIN Spec0 : i # k => bound'[i] = bound[i]
      BY <1>4, <1>5, <2>1, <3>1, NextPlace
    <3> QED BY <1>6, <3>1, <3>2
  <2>2. CASE ~Takes(Spec0, "KwArg")
    BY <1>4, <1>6, <2>2 DEF Takes
  <2> QED BY <2>1, <2>2
<1>8. BindingOK(fn, request', stage', bound', Pending')
  BY <1>2, <1>3, <1>4, <1>5, <1>7 DEF BindingOK, Failed
<1> QED BY <1>1, <1>3, <1>8, BindingStep

LEMMA KeywordBound ==
  ASSUME CodeKeepsConvention, ConventionInv, BindNamed
  PROVE  ConventionInv'
<1> DEFINE fn == Functions[Top.fn]
           p == param_index(Spec0, NextName)
           v == request.kwvalues[next]
<1>1. Binding /\ BindKeyword /\ IsNext("bind") /\ Owning(<<request.kwvalues[next]>>) /\ bare' = bare
  BY DEF BindNamed, Binding
<1>2. BindingOK(fn, request, stage, bound, Pending) /\ Spec0 = fn.spec
  BY <1>1, BindingNow
<1>3. WorldOK(world', DOMAIN Functions) /\ Pending' = Pending
  BY <1>1, References
<1>4. /\ stage = "keywords" /\ stage' = stage /\ request' = request
      /\ bound' = [bound EXCEPT ![p] = v] /\ Spec0[p].kind \in KeywordKinds
  BY <1>1 DEF BindKeyword, KeywordsLeft, Claimed
<1>5. DOMAIN bound' = DOMAIN Spec0 /\ DOMAIN bound = DOMAIN Spec0
  BY <1>2, <1>4 DEF BindingOK
<1>6. \A i \in DOMAIN Spec0 : Spec0[i].kind \in {"VarArg", "KwArg"} => bound'[i] # NULL
  <2>1. \A i \in DOMAIN Spec0 : Spec0[i].kind \in {"VarArg", "KwArg"} => i # p /\ bound[i] # NULL
    BY <1>2, <1>4 DEF BindingOK, KeywordKinds
  <2> QED BY <1>4, <1>5, <2>1
<1>7. BindingOK(fn, request', stage', bound', Pending')
  BY <1>2, <1>3, <1>4, <1>5, <1>6 DEF BindingOK, Failed
<1> QED BY <1>1, <1>3, <1>7, BindingStep

LEMMA KeywordCollected ==
  ASSUME CodeKeepsConvention, ConventionInv, CollectNamed
  PROVE  ConventionInv'
<1> DEFINE fn == Functions[Top.fn]
           dict == bound[IndexOf(Spec0, "KwArg")]
           v == request.kwvalues[next]
           heap == SetNamed(Incref(world.heap, v), dict, NextName, v)
<1>1. Binding /\ CollectKeyword /\ IsNext("bind") /\ bare' = bare /\ \E o \in Done(heap, world) : world' = o.world
  BY DEF CollectNamed, Binding, setitem
<1>2. BindingOK(fn, request, stage, bound, Pending)
  BY <1>1, BindingNow
<1>3. WorldOK(world', DOMAIN Functions) /\ Pending' = Pending
  <2>1. IsHeap(heap, DOMAIN Functions)
    BY CountsChange, ItemsSet DEF ConventionInv, WorldOK, SetNamed
  <2> HIDE DEF heap
  <2>2. \A o \in Done(heap, world) : Gives(world, o, DOMAIN Functions)
    BY <2>1, DoneFacts DEF ConventionInv
  <2> QED BY <1>1, <2>2, PendingSame DEF Gives
<1>4. request' = request /\ stage' = stage /\ bound' = bound
  BY <1>1 DEF CollectKeyword
<1>5. BindingOK(fn, request', stage', bound', Pending')
  BY <1>2, <1>3, <1>4 DEF BindingOK
<1> QED BY <1>1, <1>3, <1>5, BindingStep

\* An error gives up what is bound, and is the exception that is set.
LEMMA BindingRefused ==
  ASSUME CodeKeepsConvention, ConventionInv, Refuse \/ BindingFails
  PROVE  ConventionInv'
<1> DEFINE fn == Functions[Top.fn]
           w == [world EXCEPT !.heap = DecrefAll(world.heap, bound)]
<1>1. Binding /\ IsNext("bind") /\ RefuseWith(stage') /\ stage' \in Failed /\ GiveUp
  BY DEF Refuse, BindingFails, Binding, RefusePositionals, RefuseKeyword, RefuseMissing, NoMemory, RefuseWith, Failed
<1>2. BindingOK(fn, request, stage, bound, Pending) /\ Spec0 = fn.spec
  BY <1>1, BindingNow
<1>3. WorldOK(world', DOMAIN Functions) /\ Pending' # NULL
  <2>1. IsHeap(DecrefAll(world.heap, bound), DOMAIN Functions)
    BY ReferencesGivenUp DEF ConventionInv, WorldOK
  <2>2. PICK o \in Error(w) : world' = o.world
    BY <1>1 DEF GiveUp
  <2>3. WorldOK(w, DOMAIN Functions)
    BY <2>1, HeapChanges DEF ConventionInv
  <2> HIDE DEF w
  <2>4. Raises(o, DOMAIN Functions)
    BY <2>2, <2>3, ErrorFacts
  <2> QED BY <2>2, <2>4, ConstantFacts DEF Raises, Pending
<1>4. request' = request /\ bound' = Nulls
  BY <1>1 DEF RefuseWith
<1>5. BindingOK(fn, request', stage', bound', Pending')
  BY <1>1, <1>2, <1>3, <1>4 DEF BindingOK, Failed, Nulls
<1> QED BY <1>1, <1>3, <1>5, BindingStep

LEMMA AllBound ==
  ASSUME CodeKeepsConvention, ConventionInv, BindingEnds
  PROVE  ConventionInv'
<1> DEFINE fn == Functions[Top.fn]
<1>1. Binding /\ Complete /\ IsNext("bind") /\ world' = world /\ Pending' = Pending
  BY PendingSame DEF BindingEnds, Binding
<1>2. BindingOK(fn, request, stage, bound, Pending) /\ Spec0 = fn.spec
  BY <1>1, BindingNow
<1>3. /\ stage = "keywords" /\ stage' = "bound" /\ request' = request /\ bound' = bound
      /\ \A i \in DOMAIN Spec0 : ~Missing(i)
  BY <1>1 DEF Complete, KeywordsDone
<1>4. \A i \in Required(fn) : bound[i] # NULL
  BY <1>2, <1>3 DEF Missing, Required, BindingOK
<1>5. BindingOK(fn, request', stage', bound', Pending')
  BY <1>1, <1>2, <1>3, <1>4 DEF BindingOK, Failed
<1>6. WorldOK(world', DOMAIN Functions)
  BY <1>1 DEF ConventionInv
<1> QED BY <1>1, <1>5, <1>6, BindingStep

LEMMA BoundTaken ==
  ASSUME CodeKeepsConvention, ConventionInv, TakeBound
  PROVE  ConventionInv'
<1> DEFINE fn == Functions[Top.fn]
<1>1. /\ Running /\ Instr.i = "bind" /\ IsNext("bind") /\ Take
      /\ program' = program /\ Pending' = Pending /\ WorldOK(world', DOMAIN Functions)
  BY PendingSame DEF TakeBound, IsNext, ConventionInv
<1>2. PICK s : Knows(s)
  BY <1>1, Here
<1>3. BindingOK(fn, request, stage, bound, Pending)
  BY <1>1, BindingNow
<1>4. CASE stage = "bound"
  <2> DEFINE t == Known("clear", 0, Required(fn), DOMAIN fn.spec)
  <2>1. Continue(bound, Top.slots)
    BY <1>4 DEF TakeBound
  <2>2. Onward(t)
    BY <1>1, <1>2, Points_
  <2>3. Pending' = NULL
    BY <1>1, <1>3, <1>4 DEF BindingOK, Failed
  <2>4. IsTrue(t, bound, Pending')
    BY <1>3, <1>4, <2>3 DEF IsTrue, Have, Known, BindingOK, Required
  <2>5. IsKnown(t) /\ t.exc = "clear"
    BY DEF IsKnown, Known
  <2> HIDE DEF t, fn
  <2> QED BY <1>1, <2>1, <2>2, <2>4, <2>5, TopSlots, Continues
<1>5. CASE stage # "bound"
  <2> DEFINE regs == SetRegister(Top.regs, 1, NULL)
             t == Known("tested", 1, {}, {})
  <2>1. OnTop(Top.block, regs, Top.slots, ReturnFirst)
    BY <1>5 DEF TakeBound
  <2>2. Point(Top.block, ReturnFirst, t) \in Cert(fn)
    BY <1>1, <1>2, Points_
  <2>3. Pending' # NULL
    BY <1>1, <1>3, <1>5 DEF BindingOK, Take
  <2>4. IsTrue(t, regs, Pending')
    <3>1. 1 \in DOMAIN regs /\ regs[1] = NULL
      BY DEF SetRegister, With
    <3> HIDE DEF regs
    <3> QED BY <2>3, <3>1 DEF IsTrue, Have, Known
  <2>5. IsKnown(t) /\ t.exc = "tested"
    BY DEF IsKnown, Known
  <2> HIDE DEF t, fn, regs
  <2> QED BY <1>1, <2>1, <2>2, <2>4, <2>5, TopSlots, OnTopStep DEF fn
<1> QED BY <1>4, <1>5

-----------------------------------------------------------------------------
LEMMA ConventionAtFirst == Init => ConventionInv
<1> SUFFICES ASSUME Init PROVE ConventionInv
  OBVIOUS
<1>1. /\ program \in Programs /\ frames = <<>> /\ ~Running
      /\ world = [heap |-> program.heap, globals |-> program.globals, raised |-> NULL] /\ bare = {}
  BY DEF Init, Running
<1>2. WorldOK(world, DOMAIN Functions)
  BY <1>1, ProgramsAssumption DEF WorldOK, Functions
<1>3. Stack(frames, Functions)
  BY <1>1 DEF Stack, IsSeq
<1> QED BY <1>1, <1>2, <1>3 DEF ConventionInv

LEMMA ConventionUnchanged == ConventionInv /\ UNCHANGED vars => ConventionInv'
<1> SUFFICES ASSUME ConventionInv, UNCHANGED vars PROVE ConventionInv'
  OBVIOUS
<1>1. /\ program' = program /\ world' = world /\ frames' = frames /\ result' = result /\ bare' = bare
      /\ Pending' = Pending /\ request' = request /\ stage' = stage /\ bound' = bound
  BY PendingSame DEF vars, frameVars, bindingVars
<1>2. Functions' = Functions /\ Top' = Top /\ (Running' <=> Running)
  BY <1>1 DEF Functions, Top, Running
<1>3. Running => TopOK'
  BY <1>1, <1>2 DEF ConventionInv, TopOK
<1> QED BY <1>1, <1>2, <1>3 DEF ConventionInv

LEMMA ConventionKept ==
  ASSUME CodeKeepsConvention
  PROVE  ConventionInv /\ [Next]_vars => ConventionInv'
<1> SUFFICES ASSUME ConventionInv, [Next]_vars PROVE ConventionInv'
  OBVIOUS
<1>1. CASE Call
  BY <1>1, CallStep
<1>2. CASE BindPositional \/ BindTuple \/ BindDict \/ BindNamed \/ CollectNamed
  BY <1>2, PositionalsBound, TupleBound, DictBound, KeywordBound, KeywordCollected
<1>3. CASE Refuse \/ BindingFails \/ BindingEnds \/ TakeBound
  BY <1>3, BindingRefused, AllBound, BoundTaken
<1>4. CASE Enter
  BY <1>4, EnterStep
<1>5. CASE LoadSlot_ \/ StoreSlot_ \/ Const_
  BY <1>5, SlotSteps
<1>6. CASE Incref_ \/ Decref_
  BY <1>6, CountSteps
<1>7. CASE When_ \/ Goto_ \/ Fail_ \/ Ret_
  BY <1>7, WhenSteps, GotoSteps, FailSteps, ReturnStep
<1>8. CASE Helps \/ HelperFails \/ HelpsAndInterferes
  BY <1>8, HelperSteps
<1>9. CASE CallFunction
  BY <1>9, CallFunctionStep
<1>10. CASE Finished \/ UNCHANGED vars
  BY <1>10, ConventionUnchanged DEF Finished
<1> QED BY <1>1, <1>2, <1>3, <1>4, <1>5, <1>6, <1>7, <1>8, <1>9, <1>10 DEF Next

LEMMA ConventionShows ==
  ASSUME CodeKeepsConvention
  PROVE  ConventionInv => ErrorIffNull
<1> SUFFICES ASSUME ConventionInv PROVE ErrorIffNull
  OBVIOUS
<1>1. CASE ~Running
  BY <1>1 DEF ErrorIffNull, IsNext
<1>2. CASE Running
  <2>1. PICK s : Knows(s)
    BY <1>2, Here
  <2>2. IsTrue(s, Top.regs, Pending)
    BY <2>1 DEF Knows
  <2>0. Raising <=> Pending # NULL
    BY PendingFacts DEF Raising, Pending
  <2>3. ASSUME Instr.i = "ret"
        PROVE  Register(Instr.r) = NULL <=> Raising
    <3>1. Decides(s, Instr.r) \/ (s.exc = "clear" /\ Instr.r \in s.objects)
      BY <2>1, <2>3, Points_
    <3> QED BY <2>0, <2>2, <3>1 DEF IsTrue, Have, Decides, Register
  <2>4. ASSUME Instr.i = "fail"
        PROVE  Raising
    <3>1. s.exc = "set"
      BY <2>1, <2>4, Points_
    <3> QED BY <2>0, <2>2, <3>1 DEF IsTrue
  <2>5. ASSUME Instr.i = "goto" \/ Instr.i = "enter"
        PROVE  ~Raising
    <3>1. s.exc = "clear"
      BY <2>1, <2>5, Points_
    <3> QED BY <2>0, <2>2, <3>1 DEF IsTrue
  <2> QED BY <2>3, <2>4, <2>5 DEF ErrorIffNull, IsNext
<1> QED BY <1>1, <1>2

\* A null pointer without an exception starts with a helper that reads a place
\* which may be empty; only fetching the exception that is not there gives others.
NullsAreRead ==
  /\ bare \subseteq Reading \cup {"get_raised_exception"}
  /\ bare # {} => bare \cap Reading # {}

LEMMA NullsAreReadKept ==
  ASSUME CodeKeepsConvention, ConventionInv, NullsAreRead, [Next]_vars
  PROVE  NullsAreRead'
<1>1. CASE bare' \in {bare, {}}
  BY <1>1 DEF NullsAreRead
<1>2. CASE Helps \/ HelperFails \/ HelpsAndInterferes
  <2>1. PICK w, o : /\ HelperEnds(w, Instr.h, o, DOMAIN Functions) /\ Finishes(o)
                    /\ w.raised = world.raised
    BY <1>2, HelperDoes
  <2>2. SUFFICES ASSUME o.value = NULL, o.world.raised = NULL
                 PROVE  NullsAreRead'
    BY <1>1, <2>1 DEF Finishes
  <2>3. bare' = bare \cup {Instr.h}
    BY <2>1, <2>2 DEF Finishes
  <2>4. Running /\ Instr.i = "helper"
    BY <1>2, HelperDoes
  <2>5. PICK s : Knows(s)
    BY <2>4, Here
  <2>6. MayCall(Instr, s) /\ IsTrue(s, Top.regs, Pending)
    BY <2>4, <2>5, Points_ DEF Knows
  <2>7. Instr.h \in Reading \cup {"get_raised_exception"}
    BY <2>1, <2>2, <2>6 DEF HelperEnds, Gives, Raises, Ends, NeverRaise, MayCall
  <2>8. Instr.h = "get_raised_exception" => bare # {}
    <3>1. ASSUME Instr.h = "get_raised_exception"
          PROVE  s.exc = "set" /\ world.raised = NULL
      BY <2>1, <2>2, <2>6, <3>1 DEF HelperEnds, MayCall
    <3> QED BY <2>6, <3>1 DEF IsTrue, Pending
  <2> QED BY <2>3, <2>7, <2>8 DEF NullsAreRead
<1>3. CASE Call \/ CallFunction
  BY <1>1, <1>3 DEF Call, CallFunction, PushCall
<1>4. CASE BindPositional \/ BindTuple \/ BindDict \/ BindNamed \/ CollectNamed
  BY <1>1, <1>4 DEF BindPositional, BindTuple, BindDict, BindNamed, CollectNamed, Binding
<1>5. CASE Refuse \/ BindingFails \/ BindingEnds \/ TakeBound
  BY <1>1, <1>5 DEF Refuse, BindingFails, BindingEnds, TakeBound, Binding
<1>6. CASE Enter \/ LoadSlot_ \/ StoreSlot_ \/ Const_ \/ When_ \/ Goto_
  BY <1>1, <1>6 DEF Enter, LoadSlot_, StoreSlot_, Const_, When_, Goto_, Local
<1>7. CASE Incref_ \/ Decref_ \/ Fail_ \/ Ret_
  BY <1>1, <1>7 DEF Incref_, Decref_, Count, Fail_, Ret_
<1>8. CASE Finished \/ UNCHANGED vars
  BY <1>1, <1>8 DEF Finished, vars, frameVars
<1> QED BY <1>2, <1>3, <1>4, <1>5, <1>6, <1>7, <1>8 DEF Next

\* Compiled code returns a null pointer exactly when an exception is on its way,
\* and goes from block to block, to handlers and into other functions
\* accordingly; and a null pointer that comes without an exception comes from
\* the read of an empty place: for every program whose functions have points
\* that keep to the convention (for the emitted code, KeepsConvention shows
\* them), however helpers fail and other code interferes.
THEOREM ErrorsAreNull ==
  ASSUME CodeKeepsConvention
  PROVE  Spec => [](ErrorIffNull /\ NullsAreRead)
<1> DEFINE Inv == ConventionInv /\ NullsAreRead
<1>1. Init => Inv
  BY ConventionAtFirst DEF Init, NullsAreRead
<1>2. Inv /\ [Next]_vars => Inv'
  BY ConventionKept, NullsAreReadKept
<1>3. Inv => ErrorIffNull /\ NullsAreRead
  BY ConventionShows
<1> HIDE DEF Inv
<1> QED BY <1>1, <1>2, <1>3, PTL DEF Spec

-----------------------------------------------------------------------------
\* The variables of ArgumentBinding change as it says, and not otherwise.
LEMMA StepsBind ==
  ASSUME Nat \ {0} \subseteq Values, ConventionInv, [Next]_vars, CallsAreRequests'
  PROVE  [BindingNext]_bindingVars
<1>1. CASE Call \/ CallFunction
  <2>1. ASSUME NEW r, NEW args, NEW kwnames, NEW kwvalues, PushCall(r, args, kwnames, kwvalues)
        PROVE  BindingNext
    <3>1. PICK q : Begin(q)
      BY <2>1 DEF PushCall
    <3>2. request' = q /\ stage' = "positionals"
      BY <3>1 DEF Begin
    <3>3. q \in Requests
      BY <3>2 DEF CallsAreRequests, Requests
    <3> QED BY <3>1, <3>3 DEF BindingNext
  <2> QED BY <1>1, <2>1 DEF Call, CallFunction
<1>2. Len(world.heap) + 1 \in Values
  <2>1. Len(world.heap) \in Nat
    BY DEF ConventionInv, WorldOK, IsHeap, IsSeq
  <2> QED BY <2>1
<1>3. CASE BindPositional \/ BindTuple \/ BindDict \/ BindNamed \/ CollectNamed
  BY <1>2, <1>3 DEF BindPositional, BindTuple, BindDict, BindNamed, CollectNamed, BindingNext
<1>4. CASE Refuse \/ BindingFails \/ BindingEnds \/ TakeBound
  BY <1>4 DEF Refuse, BindingFails, BindingEnds, TakeBound, BindingNext
<1>5. CASE Enter \/ LoadSlot_ \/ StoreSlot_ \/ Const_ \/ When_ \/ Goto_
  BY <1>5 DEF Enter, LoadSlot_, StoreSlot_, Const_, When_, Goto_, Local
<1>6. CASE Incref_ \/ Decref_ \/ Fail_ \/ Ret_
  BY <1>6 DEF Incref_, Decref_, Count, Fail_, Ret_
<1>7. CASE Helps \/ HelperFails \/ HelpsAndInterferes
  BY <1>7 DEF Helps, HelperFails, HelpsAndInterferes, Finishes
<1>8. CASE Finished \/ UNCHANGED vars
  BY <1>8 DEF Finished, vars
<1> QED BY <1>1, <1>3, <1>4, <1>5, <1>6, <1>7, <1>8 DEF Next

\* Code that runs binds the arguments of its calls like Python, in whatever
\* order functions call each other: the frames implement BindingSpec.
THEOREM CallsBindLikePython ==
  ASSUME CodeKeepsConvention, Nat \ {0} \subseteq Values
  PROVE  Spec /\ []CallsAreRequests => BindingSpec /\ []BoundLikePython
<1>1. Init => ConventionInv /\ BindingInit
  BY ConventionAtFirst DEF Init
<1>2. ConventionInv /\ [Next]_vars => ConventionInv'
  BY ConventionKept
<1>3. ConventionInv /\ [Next]_vars /\ CallsAreRequests' => [BindingNext]_bindingVars
  BY StepsBind
<1>4. BindingSpec => []BoundLikePython
  BY ArgumentsBoundLikePython
<1> QED BY <1>1, <1>2, <1>3, <1>4, PTL DEF Spec, BindingSpec
=============================================================================
