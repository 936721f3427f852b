---------------------------- MODULE BasicBlocks ----------------------------
(***************************************************************************)
(* The blocks of a function, and what is done to all of them at once that  *)
(* needs no look into their expressions: jumps to a bare return, what each *)
(* edge passes to the parameters of its target, positions for labels, and  *)
(* the test of the result that the compiler makes (validate_function).     *)
(***************************************************************************)
EXTENDS PythonSyntax

EndLabel == 0
NoLabel == 0   \* no handler: the end block never is one

\* How a block ends.
Jump(to, args) == [t |-> "jump", to |-> to, args |-> args]
IfTerm(test, then, else) == [t |-> "if", test |-> test, then |-> then, else |-> else]
Table(index, targets, default) ==
  [t |-> "table", index |-> index, targets |-> targets, default |-> default]
ReturnTerm(a) == [t |-> "return", value |-> a]
RaiseTerm(exc) == [t |-> "raise", exc |-> exc]   \* <<>> or <<expression>>

\* Why a finally body is entered.
Fallthrough == "Fallthrough"
AbruptKinds == <<Fallthrough, "Return", "Exception">>

\* Arguments of a jump.
NameArg(x) == [a |-> "name", name |-> x]
NoneArg == [a |-> "none"]
AbruptKindArg(k) == [a |-> "kind", kind |-> k]
CurrentExceptionArg == [a |-> "current"]

Roles == <<"Exception", "AbruptKind", "AbruptPayload">>
Block(label, body, term, exc) ==
  [label |-> label, body |-> body, term |-> term, params |-> <<>>, exc |-> exc, excArgs |-> <<>>]

ensure_param(b, x, role) ==
  IF \E i \in DOMAIN b.params : b.params[i].name = x THEN b
  ELSE [b EXCEPT !.params = Append(@, [name |-> x, role |-> role])]
SecondException(b, x) == ensure_param(b, x, "Exception")   \* for a mutant
set_exception_param(b, x) ==
  LET kept == SelectSeq(b.params, LAMBDA p : p.role # "Exception" \/ p.name = x)
  IN  IF \E i \in DOMAIN kept : kept[i].name = x
      THEN [b EXCEPT !.params = [i \in DOMAIN kept |->
                                   IF kept[i].name = x THEN [name |-> x, role |-> "Exception"]
                                   ELSE kept[i]]]
      ELSE [b EXCEPT !.params = Append(kept, [name |-> x, role |-> "Exception"])]
ParamsOf(b, role) == SelectSeq(b.params, LAMBDA p : p.role = role)
\* The parameters in the order the block receives them.
bb_params(b) == ParamsOf(b, Roles[1]) \o ParamsOf(b, Roles[2]) \o ParamsOf(b, Roles[3])

-----------------------------------------------------------------------------
Labels(bs) == {bs[i].label : i \in DOMAIN bs}
Labelled(bs, label) == {i \in DOMAIN bs : bs[i].label = label}
At(bs, label) == CHOOSE i \in Labelled(bs, label) : TRUE

blockpy_successors(b) ==
  CASE b.term.t = "jump" -> {b.term.to}
    [] b.term.t = "if" -> {b.term.then, b.term.else}
    [] b.term.t = "table" -> {b.term.targets[i] : i \in DOMAIN b.term.targets} \cup {b.term.default}
    [] OTHER -> {}

implicit_function_return == ReturnTerm(Const(None))
EndBlock == Block(EndLabel, <<>>, implicit_function_return, NoLabel)
needs_end_block(bs, entry) ==
  entry = EndLabel \/ \E i \in DOMAIN bs : EndLabel \in blockpy_successors(bs[i])

fold_jumps_to_trivial_none_return(bs) ==
  LET trivial == {bs[i].label : i \in {j \in DOMAIN bs : bs[j].body = <<>>
                                         /\ bs[j].term = implicit_function_return}}
  IN  [i \in DOMAIN bs |-> IF bs[i].term.t = "jump" /\ bs[i].term.to \in trivial
                           THEN [bs[i] EXCEPT !.term = implicit_function_return] ELSE bs[i]]

\* Names that look like a try's exception and that a block passes on.
PassedOn(target) ==
  IF target.term.t # "jump" THEN {}
  ELSE {target.term.args[i].name :
          i \in {k \in DOMAIN target.term.args : /\ target.term.args[k].a = "name"
                                                 /\ target.term.args[k].name[1] = "try_exc"}}

\* What an exception edge from b to target passes for parameter p.
exception_edge_arg(b, target, p) ==
  CASE p.role = "Exception" \/ p.name \in PassedOn(target) -> CurrentExceptionArg
    [] p.name \in {b.params[i].name : i \in DOMAIN b.params} -> NameArg(p.name)
    [] OTHER -> NoneArg
populate_exception_edge_args(bs) ==
  LET args(b, target) ==
        [i \in DOMAIN target.params |-> exception_edge_arg(b, target, target.params[i])]
  IN  [i \in DOMAIN bs |-> IF bs[i].exc = NoLabel THEN bs[i]
                           ELSE [bs[i] EXCEPT !.excArgs = args(bs[i], bs[At(bs, bs[i].exc)])]]

\* A jump says what it passes for every parameter: what its block keeps under
\* that name, or else in that role.
implicit_edge_arg(b, p) ==
  LET same == ParamsOf(b, p.role) IN
  CASE \E i \in DOMAIN b.params : b.params[i].name = p.name -> NameArg(p.name)
    [] OTHER -> IF same = <<>> THEN NoneArg ELSE NameArg(same[1].name)
jump_edge_args(b, params) ==
  [i \in 1..(Len(params) - Len(b.term.args)) |-> implicit_edge_arg(b, params[i])] \o b.term.args
populate_jump_edge_args(bs) ==
  [i \in DOMAIN bs |->
     IF bs[i].term.t # "jump" THEN bs[i]
     ELSE [bs[i] EXCEPT !.term.args = jump_edge_args(bs[i], bs[At(bs, bs[i].term.to)].params)]]

relabel_term(bs, x) ==
  CASE x.t = "jump" -> [x EXCEPT !.to = At(bs, @)]
    [] x.t = "if" -> [x EXCEPT !.then = At(bs, @), !.else = At(bs, @)]
    [] x.t = "table" -> [x EXCEPT !.targets = [i \in DOMAIN @ |-> At(bs, @[i])],
                                  !.default = At(bs, @)]
    [] OTHER -> x
relabel_dense(bs) ==
  [i \in DOMAIN bs |->
     [bs[i] EXCEPT !.label = i, !.term = relabel_term(bs, @),
                   !.exc = IF @ = NoLabel THEN NoLabel ELSE At(bs, @)]]

-----------------------------------------------------------------------------
(* validate_function *)

validate_explicit_edge_arg(p, arg) ==
  /\ arg.a = "current" => p.role = "Exception"
  /\ arg.a = "kind" => p.role = "AbruptKind"
\* Parameters that an edge does not name keep their value, so the source may
\* not have another one in the same role.
validate_edge_param_forwarding(b, target, args) ==
  LET implicit == Len(target.params) - Len(args) IN
  /\ implicit >= 0
  /\ \A i \in 1..implicit :
       LET same == ParamsOf(b, target.params[i].role)
       IN  same # <<>> => same[1].name = target.params[i].name
  /\ \A i \in DOMAIN args : validate_explicit_edge_arg(target.params[implicit + i], args[i])
validate_exception_edge(b, target) ==
  /\ Len(b.excArgs) = Len(target.params)
  /\ \A i \in DOMAIN b.excArgs : b.excArgs[i].a # "kind"
EdgeArgs(b) == IF b.term.t = "jump" THEN b.term.args ELSE <<>>
validate_function(bs) ==
  \A i \in DOMAIN bs :
    /\ bs[i].label = i
    /\ bs[i].exc # NoLabel => /\ bs[i].exc \in DOMAIN bs
                             /\ validate_exception_edge(bs[i], bs[bs[i].exc])
    /\ \A to \in blockpy_successors(bs[i]) :
         /\ to \in DOMAIN bs
         /\ validate_edge_param_forwarding(bs[i], bs[to], EdgeArgs(bs[i]))

-----------------------------------------------------------------------------
(* What the passes above rely on, and what they leave to the next. *)

IsSeq(s) == s \in Seq({s[i] : i \in DOMAIN s})
IsTerm(x) ==
  \/ x.t = "jump" /\ x = Jump(x.to, x.args) /\ IsSeq(x.args)
  \/ x.t = "if" /\ x = IfTerm(x.test, x.then, x.else)
  \/ x.t = "table" /\ x = Table(x.index, x.targets, x.default) /\ IsSeq(x.targets)
  \/ x.t \in {"return", "raise"}
IsBlock(b) ==
  /\ b = [label |-> b.label, body |-> b.body, term |-> b.term, params |-> b.params,
          exc |-> b.exc, excArgs |-> b.excArgs]
  /\ IsSeq(b.params) /\ IsTerm(b.term)

\* Blocks with a label each, whose edges all end at one of them.
IsGraph(bs) ==
  /\ IsSeq(bs)
  /\ \A i \in DOMAIN bs :
       /\ IsBlock(bs[i])
       /\ blockpy_successors(bs[i]) \subseteq Labels(bs)
       /\ bs[i].exc # NoLabel => bs[i].exc \in Labels(bs)
  /\ \A i, j \in DOMAIN bs : bs[i].label = bs[j].label => i = j

\* What a jump names itself fits the last parameters of its target.
JumpsFit(bs) ==
  \A i \in DOMAIN bs : bs[i].term.t = "jump" =>
    LET args == bs[i].term.args
        params == bs[At(bs, bs[i].term.to)].params
        rest == Len(params) - Len(args)
    IN  rest >= 0 /\ \A k \in DOMAIN args : validate_explicit_edge_arg(params[rest + k], args[k])

\* What a branch to a block keeps fits the parameters of the target.
BranchesFit(bs) ==
  \A i \in DOMAIN bs : bs[i].term.t # "jump" =>
    \A l \in blockpy_successors(bs[i]) :
      validate_edge_param_forwarding(bs[i], bs[At(bs, l)], <<>>)

\* Every edge to a block by its label passes validate_function's test.
EdgesFit(bs) ==
  \A i \in DOMAIN bs : \A l \in blockpy_successors(bs[i]) :
    validate_edge_param_forwarding(bs[i], bs[At(bs, l)], EdgeArgs(bs[i]))

\* A handler is passed the exception and nothing else.
OneValueEach(bs) ==
  \A i \in DOMAIN bs : bs[i].exc # NoLabel => Len(bs[At(bs, bs[i].exc)].params) <= 1
=============================================================================
