----------------------------- MODULE Evaluation -----------------------------
(***************************************************************************)
(* How an expression is evaluated and its value is used: operands from     *)
(* left to right, and only those needed, from the rules of the language    *)
(* reference.  Source and compiled code share it; a step is the work       *)
(* between two points at which something else could be done.               *)
(***************************************************************************)
EXTENDS PythonSyntax

\* A configuration: what to do next, with what, and what to do after it;
\* the variables; and the exception being handled.
Config(do, on, k, env, handled) ==
  [do |-> do, on |-> on, k |-> k, env |-> env, handled |-> handled]

Push(c, frame) == [c EXCEPT !.k = <<frame>> \o @]
Eval(c, a) == [c EXCEPT !.do = "eval", !.on = a]
Give(c, v) == [c EXCEPT !.do = "value", !.on = v]
Run(c, body) == [c EXCEPT !.do = "run", !.on = body]
Ask(c, f, vs) == [c EXCEPT !.do = "ask", !.on = [op |-> f, args |-> vs]]
\* A statement ends: normally, or with a return, raise, break or continue.
Ended(how, v) == [how |-> how, val |-> v]
Normally == Ended("normal", None)
End(c, ending) == [c EXCEPT !.do = "end", !.on = ending]
Throw(c, exc) == End(c, Ended("raise", exc))

Bind(c, x, v) == [c EXCEPT !.env = [y \in DOMAIN @ \cup {x} |->
                                      IF y = x THEN v ELSE @[y]]]
Unbind(c, x) == [c EXCEPT !.env = [y \in DOMAIN @ \ {x} |-> @[y]]]

\* object[index] as a place: its object, then its index, then what is done there.
Locate(c, t, then) ==
  Eval(Push(c, [f |-> "object", index |-> t.index, then |-> then]), t.object)
Update(t, place) ==
  [f |-> "augassign", target |-> t.target, op |-> t.op, value |-> t.value,
   old |-> None, place |-> place]
WithItemFound(c, then, o, i) ==
  CASE then.d = "store" -> Ask(Push(c, [f |-> "expr"]), "setitem", <<o, i, then.val>>)
    [] then.d = "delete" -> Ask(Push(c, [f |-> "expr"]), "delitem", <<o, i>>)
    [] then.d = "update" -> Ask(Push(c, Update(then.stmt, <<o, i>>)), "getitem", <<o, i>>)

\* Targets are assigned one after the other, from left to right.
AssignOne(c, t, v) ==
  CASE t.t = "name" -> End(Bind(c, t.name, v), Normally)
    [] t.t = "item" -> Locate(c, t, [d |-> "store", val |-> v])
    [] t.t = "unpack" -> Ask(Push(c, [f |-> "unpacked", targets |-> t.targets]), "unpack", <<v>>)
AssignEach(c, pairs) ==
  Run(c, [i \in DOMAIN pairs |-> [s |-> "set", target |-> pairs[i][1], val |-> pairs[i][2]]])
AssignTo(c, targets, v) == AssignEach(c, [i \in DOMAIN targets |-> <<targets[i], v>>])

\* Expressions: operands from left to right, and only those needed.
EvalStep(c) ==
  LET a == c.on IN
  CASE a.e = "const" -> Give(c, a.val)
    [] a.e = "load" -> IF a.name \in DOMAIN c.env THEN Give(c, c.env[a.name])
                       ELSE Throw(c, Unbound)
    [] a.e = "op" /\ a.args = <<>> -> Ask(c, a.op, <<>>)
    [] a.e = "op" /\ a.args # <<>> ->
         Eval(Push(c, [f |-> "operands", op |-> a.op, done |-> <<>>,
                       rest |-> Tail(a.args)]), Head(a.args))
    [] a.e = "await" -> Eval(c, YieldFrom(AwaitIter(a.arg)))
    [] a.e = "not" -> Eval(Push(c, [f |-> "not"]), a.arg)
    [] a.e = "boolop" ->
         Eval(Push(c, [f |-> "boolop", and |-> a.and, rest |-> Tail(a.values)]),
              Head(a.values))
    [] a.e = "compare" ->
         Eval(Push(c, [f |-> "compared", ops |-> a.ops, rest |-> a.comparators]),
              a.left)
    [] a.e = "ifexp" ->
         Eval(Push(c, [f |-> "ifexp", body |-> a.body, orelse |-> a.orelse]), a.test)
    [] a.e = "named" -> Eval(Push(c, [f |-> "named", name |-> a.name]), a.value)

\* The value v of an expression reaches what was waiting for it.
ValueStep(c0) ==
  LET v == c0.on  fr == Head(c0.k)  c == [c0 EXCEPT !.k = Tail(@)] IN
  CASE fr.f = "operands" ->
         LET done == Append(fr.done, v) IN
         IF fr.rest = <<>> THEN Ask(c, fr.op, done)
         ELSE Eval(Push(c, [fr EXCEPT !.done = done, !.rest = Tail(@)]), Head(fr.rest))
    [] fr.f = "not" -> Give(c, IF Truthy(v) THEN False ELSE True)
    [] fr.f = "boolop" ->
         IF fr.rest = <<>> \/ Truthy(v) # fr.and THEN Give(c, v)
         ELSE Eval(Push(c, [fr EXCEPT !.rest = Tail(@)]), Head(fr.rest))
    [] fr.f = "compared" ->   \* v is the left operand of the next comparison
         Eval(Push(c, [f |-> "comparing", left |-> v, ops |-> fr.ops, rest |-> Tail(fr.rest)]),
              Head(fr.rest))
    [] fr.f = "comparing" ->
         Ask(Push(c, [f |-> "chain", right |-> v, ops |-> Tail(fr.ops), rest |-> fr.rest]),
             Head(fr.ops), <<fr.left, v>>)
    [] fr.f = "chain" ->
         IF fr.rest = <<>> \/ ~ Truthy(v) THEN Give(c, v)
         ELSE Give(Push(c, [f |-> "compared", ops |-> fr.ops, rest |-> fr.rest]), fr.right)
    [] fr.f = "ifexp" -> Eval(c, IF Truthy(v) THEN fr.body ELSE fr.orelse)
    [] fr.f = "named" -> Give(Bind(c, fr.name, v), v)
    \* statements
    [] fr.f = "expr" -> End(c, Normally)
    [] fr.f = "assign" -> AssignTo(c, fr.targets, v)
    [] fr.f = "object" -> Eval(Push(c, [f |-> "index", then |-> fr.then, object |-> v]),
                               fr.index)
    [] fr.f = "index" -> WithItemFound(c, fr.then, fr.object, v)
    [] fr.f = "unpacked" ->
         AssignEach(c, [i \in DOMAIN fr.targets |-> <<fr.targets[i], ElementOf(i)>>])
    [] fr.f = "augassign" -> Eval(Push(c, [fr EXCEPT !.f = "updating", !.old = v]), fr.value)
    [] fr.f = "updating" -> Ask(Push(c, [fr EXCEPT !.f = "updated"]), fr.op, <<fr.old, v>>)
    [] fr.f = "updated" ->
         IF fr.place = <<>> THEN AssignTo(c, <<fr.target>>, v)
         ELSE Ask(Push(c, [f |-> "expr"]), "setitem", fr.place \o <<v>>)
    [] fr.f = "assert" -> IF Truthy(v) THEN End(c, Normally)
                          ELSE Throw(c, AssertionError)
    [] fr.f = "test" -> Run(c, IF Truthy(v) THEN fr.body ELSE fr.orelse)
    [] fr.f = "while" ->
         IF Truthy(v) THEN Run(Push(c, [f |-> "loop", stmt |-> fr.stmt]), fr.stmt.body)
         ELSE Run(c, fr.stmt.orelse)
    [] fr.f = "return" -> End(c, Ended("return", v))
    [] fr.f = "raise" -> Throw(c, IF v.kind = "exception" THEN v ELSE Exception("TypeError"))
    [] fr.f = "iterable" -> Ask(Push(c, [f |-> "iterator", stmt |-> fr.stmt]), "iter", <<v>>)
    [] fr.f = "iterator" ->
         Ask(Push(c, [f |-> "next", stmt |-> fr.stmt, iter |-> v]), "next", <<v>>)
    [] fr.f = "next" ->
         IF v = ITER_COMPLETE THEN Run(c, fr.stmt.orelse)
         ELSE Run(Push(c, [f |-> "for", stmt |-> fr.stmt, iter |-> fr.iter]),
                  <<AssignAll(<<fr.stmt.target>>, Const(v))>> \o fr.stmt.body)
    [] fr.f = "context" ->
         Ask(Push(c, [f |-> "entered", items |-> fr.items, body |-> fr.body, mgr |-> v]),
             "enter", <<v>>)
    [] fr.f = "entered" ->
         LET it == Head(fr.items)
         IN  Run(Push(c, [f |-> "with", mgr |-> fr.mgr]),
                 (IF it.target = <<>> THEN <<>> ELSE <<AssignAll(it.target, Const(v))>>)
                 \o IF Len(fr.items) = 1 THEN fr.body
                    ELSE <<With(Tail(fr.items), fr.body)>>)
    [] fr.f = "exited" ->     \* __exit__ answered for an exception
         LET c1 == [c EXCEPT !.handled = fr.outer] IN
         IF Truthy(v) THEN End(c1, Normally) ELSE Throw(c1, fr.exc)
    [] fr.f = "left" -> End(c, fr.ending)
    [] fr.f = "subject" -> Run(c, <<[s |-> "cases", val |-> v, cases |-> fr.cases]>>)
    [] fr.f = "matched" ->    \* a value pattern answered
         IF Truthy(v) THEN Run(c, fr.yes) ELSE Run(c, fr.no)

\* What an operation can answer: a value, or an exception that names it.
Answers(q) ==
  {[how |-> "raise", val |-> Exception(q.op)]} \cup
  [how : {"return"},
   val : CASE q.op = "next" -> {True, ITER_COMPLETE}
           [] q.op \in {"iter", "enter", "acquire"} -> {Value("object", q.op)}
           [] OTHER -> {True, False}]
=============================================================================
