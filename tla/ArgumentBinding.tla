-------------------------- MODULE ArgumentBinding --------------------------
(***************************************************************************)
(* How the entry of a compiled function turns the arguments of a call into *)
(* one value for each parameter.  "stage" says how far it is; it ends as   *)
(* "bound" or as the exception.                                            *)
(***************************************************************************)
EXTENDS PythonCall

CONSTANTS Specs,      \* the functions' parameters
          Values,     \* what arguments are
          NULL        \* no value: a default is to be taken

ASSUME SpecsAssumption ==
  \A spec \in Specs :
    /\ spec \in Seq([name : STRING, has_default : BOOLEAN,
                     kind : {"PosOnly", "Any", "VarArg", "KwOnly", "KwArg"}])
    /\ collect_param_spec(spec)
    /\ DefaultsAtEnd(spec)      \* else it is a SyntaxError
ASSUME NullAssumption == NULL \notin Values

VARIABLES request, stage,
          next,       \* the keyword that is next
          bound,      \* what each parameter has
          extras,     \* what the tuple for *args has
          named       \* and the dict for **kwargs
bindingVars == <<request, stage, next, bound, extras, named>>

Spec0 == request.spec
Nulls == [i \in DOMAIN Spec0 |-> NULL]
Failed == {"TypeError", "MemoryError"}

\* Python passes a keyword once in a call (see README).
Requests ==
  {r \in [spec : Specs, args : Seq(Values), kwnames : Seq(STRING), kwvalues : Seq(Values)] :
     /\ Len(r.kwnames) = Len(r.kwvalues)
     /\ \A i, j \in DOMAIN r.kwnames : r.kwnames[i] = r.kwnames[j] => i = j}

\* An error gives up what is bound so far.
RefuseWith(error) ==
  /\ stage' = error
  /\ bound' = Nulls
  /\ UNCHANGED <<request, next, extras, named>>

BindingInit ==
  /\ request = Request(<<>>, <<>>, <<>>, <<>>)
  /\ stage = "idle"
  /\ next = 1
  /\ bound = <<>>
  /\ extras = <<>>
  /\ named = <<>>

Begin(r) ==
  /\ stage = "idle"
  /\ request' = r
  /\ stage' = "positionals"
  /\ next' = 1
  /\ bound' = [i \in DOMAIN r.spec |-> NULL]
  /\ extras' = <<>>
  /\ named' = <<>>

TooManyPositionals ==
  ~Takes(Spec0, "VarArg") /\ Len(request.args) > positional_capacity(Spec0)
BindPositionals ==
  /\ stage = "positionals"
  /\ ~TooManyPositionals
  /\ stage' = "varargs"
  /\ bound' = [i \in DOMAIN Spec0 |->
                 IF i <= positional_capacity(Spec0) /\ i <= Len(request.args)
                 THEN request.args[i] ELSE NULL]
  /\ UNCHANGED <<request, next, extras, named>>
RefusePositionals == stage = "positionals" /\ TooManyPositionals /\ RefuseWith("TypeError")

\* The parameter for the other arguments gets a new tuple, that for the other
\* keywords a new dict.
BindVarArgs(tuple) ==
  /\ stage = "varargs"
  /\ IF Takes(Spec0, "VarArg") THEN bound' = [bound EXCEPT ![IndexOf(Spec0, "VarArg")] = tuple]
     ELSE UNCHANGED bound
  /\ extras' = IF Takes(Spec0, "VarArg")
               THEN SubSeq(request.args, positional_capacity(Spec0) + 1, Len(request.args)) ELSE extras
  /\ stage' = "varkw"
  /\ UNCHANGED <<request, next, named>>
BindVarKw(dict) ==
  /\ stage = "varkw"
  /\ IF Takes(Spec0, "KwArg") THEN bound' = [bound EXCEPT ![IndexOf(Spec0, "KwArg")] = dict]
     ELSE UNCHANGED bound
  /\ stage' = "keywords"
  /\ UNCHANGED <<request, next, extras, named>>

\* A keyword is for the parameter of its name, when that can be given so.
NextName == request.kwnames[next]
HasParam == \E i \in DOMAIN Spec0 : Spec0[i].name = NextName
Claimed == HasParam /\ Spec0[param_index(Spec0, NextName)].kind \in KeywordKinds
KeywordsLeft == stage = "keywords" /\ next <= Len(request.kwnames)
\* There may be no memory for the tuple, for the dict, or for an item of it.
NoMemory ==
  /\ \/ stage = "varargs" /\ Takes(Spec0, "VarArg")
     \/ stage = "varkw" /\ Takes(Spec0, "KwArg")
     \/ KeywordsLeft /\ ~Claimed /\ Takes(Spec0, "KwArg")
  /\ RefuseWith("MemoryError")
BindKeywordAgain ==
  /\ KeywordsLeft
  /\ Claimed
  /\ bound' = [bound EXCEPT ![param_index(Spec0, NextName)] = request.kwvalues[next]]
  /\ next' = next + 1
  /\ UNCHANGED <<request, stage, extras, named>>
BindKeyword ==
  /\ KeywordsLeft
  /\ Claimed
  /\ bound[param_index(Spec0, NextName)] = NULL
  /\ bound' = [bound EXCEPT ![param_index(Spec0, NextName)] = request.kwvalues[next]]
  /\ next' = next + 1
  /\ UNCHANGED <<request, stage, extras, named>>
CollectKeyword ==
  /\ KeywordsLeft
  /\ ~Claimed
  /\ Takes(Spec0, "KwArg")
  /\ named' = [n \in DOMAIN named \cup {NextName} |-> IF n = NextName THEN request.kwvalues[next] ELSE named[n]]
  /\ next' = next + 1
  /\ UNCHANGED <<request, stage, bound, extras>>
RefuseKeyword ==
  /\ KeywordsLeft
  /\ IF Claimed THEN bound[param_index(Spec0, NextName)] # NULL ELSE ~Takes(Spec0, "KwArg")
  /\ RefuseWith("TypeError")

Missing(i) ==
  /\ bound[i] = NULL
  /\ Spec0[i].kind \notin {"VarArg", "KwArg"}
  /\ ~Spec0[i].has_default
KeywordsDone == stage = "keywords" /\ next > Len(request.kwnames)
RefuseMissing == KeywordsDone /\ (\E i \in DOMAIN Spec0 : Missing(i)) /\ RefuseWith("TypeError")
Complete ==
  /\ KeywordsDone
  /\ \A i \in DOMAIN Spec0 : ~Missing(i)
  /\ stage' = "bound"
  /\ UNCHANGED <<request, next, bound, extras, named>>

\* The caller takes the values, or the error.
Take ==
  /\ stage \in Failed \cup {"bound"}
  /\ stage' = "idle"
  /\ bound' = Nulls
  /\ UNCHANGED <<request, next, extras, named>>

BindingNext ==
  \/ \E r \in Requests : Begin(r)
  \/ BindPositionals \/ RefusePositionals
  \/ \E t \in Values : BindVarArgs(t) \/ BindVarKw(t)
  \/ NoMemory
  \/ BindKeyword \/ CollectKeyword \/ RefuseKeyword
  \/ RefuseMissing \/ Complete
  \/ Take
BindingSpec == BindingInit /\ [][BindingNext]_bindingVars

-----------------------------------------------------------------------------
\* The values that a function is entered with are those that Python gives its
\* parameters, and what it gives none takes its default from the place where
\* Python takes it from; a call is refused with a TypeError exactly when Python
\* refuses it, whatever parameters, arguments and keywords there are
\* (build_function_bound_args, iter_with_default_sources).
BoundLikePython ==
  /\ stage = "bound" =>
       /\ Legal(request)
       /\ \A i \in DOMAIN Spec0 :
            CASE Spec0[i].kind = "VarArg" -> extras = Surplus(request)
              [] Spec0[i].kind = "KwArg" ->
                   named = [n \in Unclaimed(request) |-> KeywordValue(request, n)]
              [] OTHER -> /\ bound[i] = IF Given(request, i) THEN ValueOf(request, i) ELSE NULL
                          /\ bound[i] = NULL =>
                               DefaultSource(Spec0, i) = PythonDefaultSource(Spec0, i)
  /\ stage = "TypeError" => ~Legal(request)
=============================================================================
