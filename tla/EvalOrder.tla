------------------------------ MODULE EvalOrder ------------------------------
(***************************************************************************)
(* The blocks of a generator or coroutine before they are split at their   *)
(* yields: an await becomes a yield from, and a yield inside a statement   *)
(* becomes a statement of its own before it, whose value goes to a name.   *)
(***************************************************************************)
EXTENDS StmtLowering
LOCAL INSTANCE SequencesExt

\* Expressions of one operand, besides an operation's.
HasOperand(a) == a.e \in {"not", "is_complete", "element", "exception_matches"}

RECURSIVE LowerAwaits(_)
LowerAwaits(a) ==
  CASE a.e = "await" -> YieldFrom(AwaitIter(LowerAwaits(a.arg)))
    [] a.e = "op" -> [a EXCEPT !.args = [i \in DOMAIN @ |-> LowerAwaits(@[i])]]
    [] HasOperand(a) -> [a EXCEPT !.arg = LowerAwaits(@)]
    [] OTHER -> a

RECURSIVE expr_contains_yield(_)
expr_contains_yield(a) ==
  \/ Suspends(a)
  \/ a.e = "op" /\ \E i \in DOMAIN a.args : expr_contains_yield(a.args[i])
  \/ HasOperand(a) /\ expr_contains_yield(a.arg)

-----------------------------------------------------------------------------
\* hoist_core_expr_if_contains_yield; a temporary is named when it is needed.
Temp(n) == <<"eval", n>>
KeepYield(e) ==
  IF expr_contains_yield(e.val) THEN KeepIn(Temp(e.n), [e EXCEPT !.n = @ + 1]) ELSE e

RECURSIVE Explicit(_, _)
Hoist(a, n) == KeepYield(Explicit(a, n))
HoistEach(as, n) ==
  FoldLeft(LAMBDA done, a : AddOperand(done, Hoist(a, done.n)), Lowered(<<>>, <<>>, n), as)
WithOperands(a, as) == Lowered(as.setup, [a EXCEPT !.args = as.val], as.n)
WithOperand(a, v) == Lowered(v.setup, [a EXCEPT !.arg = v.val], v.n)

\* make_eval_order_explicit_in_core_expr
ExplicitOutermost(a, n) ==    \* for a mutant: a yield's own value is left as it is
  IF a.e = "op" /\ ~ Suspends(a) THEN WithOperands(a, HoistEach(a.args, n))
  ELSE IF HasOperand(a) THEN WithOperand(a, Hoist(a.arg, n))
  ELSE Lowered(<<>>, a, n)
Explicit(a, n) ==
  CASE a.e = "op" -> WithOperands(a, HoistEach(a.args, n))
    [] HasOperand(a) -> WithOperand(a, Hoist(a.arg, n))
    [] OTHER -> Lowered(<<>>, a, n)

\* A store evaluates its value; the value of any other statement is itself.
\* Afterwards the temporaries, numbered from m up to e.n, go in reverse.
Cleanup(m, n) == [i \in 1..(n - m) |-> Del(Temp(n - i), FALSE)]
Statement(s, e, m) == Lowered(Append(e.setup, [s EXCEPT !.value = e.val]) \o Cleanup(m, e.n), None, e.n)
ExplicitStatement(s, n) ==
  CASE s.i = "store" -> Statement(s, Hoist(s.value, n), n)
    [] s.i = "eval" -> Statement(s, Explicit(s.value, n), n)
    [] OTHER -> Lowered(<<s>>, None, n)

\* The temporaries of a terminator are not deleted.
ExplicitTerm(t, n) ==
  CASE t.t = "if" -> LET e == Hoist(t.test, n) IN [e EXCEPT !.val = [t EXCEPT !.test = e.val]]
    [] t.t = "return" -> LET e == Hoist(t.value, n) IN [e EXCEPT !.val = [t EXCEPT !.value = e.val]]
    [] t.t = "raise" -> LET e == HoistEach(t.exc, n) IN [e EXCEPT !.val = [t EXCEPT !.exc = e.val]]
    [] OTHER -> Lowered(<<>>, t, n)

\* make_eval_order_explicit_in_core_callable_def, for a block: its body, and
\* its terminator.
ExplicitBlock(b, n) ==
  LET body == FoldLeft(LAMBDA done, s : Then(done, ExplicitStatement(s, done.n)),
                       Lowered(<<>>, None, n), b.body)
  IN  Then(body, ExplicitTerm(b.term, body.n))

\* lower_awaits_in_core_blockpy_module, for a block.
AwaitsLowered(b) ==
  LET instr(s) == IF s.i \in {"store", "eval"} THEN [s EXCEPT !.value = LowerAwaits(@)] ELSE s
      term(t) == CASE t.t = "if" -> [t EXCEPT !.test = LowerAwaits(@)]
                   [] t.t = "return" -> [t EXCEPT !.value = LowerAwaits(@)]
                   [] t.t = "raise" -> [t EXCEPT !.exc = [i \in DOMAIN @ |-> LowerAwaits(@[i])]]
                   [] OTHER -> t
  IN  [b EXCEPT !.body = [i \in DOMAIN @ |-> instr(@[i])], !.term = term(@)]
=============================================================================
