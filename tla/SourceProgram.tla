--------------------------- MODULE SourceProgram ---------------------------
(***************************************************************************)
(* What a function means to the Python programmer who wrote it: which      *)
(* operations it performs, in which order, on which values, and how it     *)
(* ends, given what each operation answers.  The program is run by a       *)
(* control point and a stack of what is left to do, from the rules of the  *)
(* language reference; nothing here knows about blocks.                    *)
(***************************************************************************)
EXTENDS Evaluation

\* match: try pattern p against v; bind its names once it has matched as a
\* whole.  yes and no are what to run then.
RECURSIVE MatchPattern(_, _, _, _, _)
MatchPattern(c, p, v, yes, no) ==
  CASE p.p = "value" ->
         Ask(Push(c, [f |-> "matched", yes |-> yes, no |-> no]), "==", <<v, p.value>>)
    [] p.p = "or" ->
         IF Len(p.patterns) = 1 THEN MatchPattern(c, Head(p.patterns), v, yes, no)
         ELSE MatchPattern(c, Head(p.patterns), v, yes,
                <<[s |-> "pattern", pattern |-> OrPattern(Tail(p.patterns)), val |-> v,
                   yes |-> yes, no |-> no]>>)
    [] p.p = "as" ->
         LET bind == [i \in DOMAIN p.name |-> Assign(p.name[i], Const(v))] \o yes IN
         IF p.pattern = <<>> THEN Run(c, bind)
         ELSE MatchPattern(c, Head(p.pattern), v, bind, no)

\* A statement starts.
StatementStep(c, t) ==
  CASE t.s = "pass" -> End(c, Normally)
    [] t.s = "set" -> AssignOne(c, t.target, t.val)
    [] t.s = "expr" -> Eval(Push(c, [f |-> "expr"]), t.value)
    [] t.s = "assign" -> Eval(Push(c, [f |-> "assign", targets |-> t.targets]), t.value)
    [] t.s = "augassign" ->
         IF t.target.t = "name"
         THEN Eval(Push(c, Update(t, <<>>)), Load(t.target.name))
         ELSE Locate(c, t.target, [d |-> "update", stmt |-> t])
    [] t.s = "delete" ->
         IF t.target.t = "item" THEN Locate(c, t.target, [d |-> "delete"])
         ELSE IF t.target.name \in DOMAIN c.env THEN End(Unbind(c, t.target.name), Normally)
         ELSE Throw(c, Unbound)
    [] t.s = "assert" -> Eval(Push(c, [f |-> "assert"]), t.test)
    [] t.s = "if" -> Eval(Push(c, [f |-> "test", body |-> t.body, orelse |-> t.orelse]), t.test)
    [] t.s = "while" -> Eval(Push(c, [f |-> "while", stmt |-> t]), t.test)
    [] t.s = "for" -> Eval(Push(c, [f |-> "iterable", stmt |-> t]), t.iter)
    [] t.s \in {"break", "continue"} -> End(c, Ended(t.s, None))
    [] t.s = "return" -> Eval(Push(c, [f |-> "return"]), t.value)
    [] t.s = "raise" -> IF t.exc = <<>> THEN Throw(c, c.handled)
                        ELSE Eval(Push(c, [f |-> "raise"]), t.exc[1])
    [] t.s = "try" ->
         LET c1 == IF t.finalbody = <<>> THEN c
                   ELSE Push(c, [f |-> "finally", body |-> t.finalbody])
         IN  Run(IF t.handlers = <<>> THEN c1   \* without handlers there is no else
                 ELSE Push(c1, [f |-> "try", handlers |-> t.handlers, orelse |-> t.orelse]),
                 t.body)
    [] t.s = "with" ->
         Eval(Push(c, [f |-> "context", items |-> t.items, body |-> t.body]),
              Head(t.items).context)
    [] t.s = "match" -> Eval(Push(c, [f |-> "subject", cases |-> t.cases]), t.subject)
    [] t.s = "cases" ->
         IF t.cases = <<>> THEN End(c, Normally)
         ELSE LET k == Head(t.cases)
                  next == <<[t EXCEPT !.cases = Tail(@)]>>
              IN  MatchPattern(c, k.pattern, t.val,
                    IF k.guard = <<>> THEN k.body ELSE <<If(k.guard[1], k.body, next)>>, next)
    [] t.s = "pattern" -> MatchPattern(c, t.pattern, t.val, t.yes, t.no)

RunStep(c) ==
  IF c.on = <<>> THEN End(c, Normally)
  ELSE StatementStep(Push(c, [f |-> "seq", rest |-> Tail(c.on)]), Head(c.on))

\* The first handler that catches exc, if any.
Catching(handlers, exc) ==
  LET able == {i \in DOMAIN handlers : CatchesException(handlers[i].typ, exc)}
  IN  {i \in able : \A j \in able : i <= j}

\* A statement has ended; what encloses it decides what happens next.
EndStep(c0) ==
  LET x == c0.on  fr == Head(c0.k)  c == [c0 EXCEPT !.k = Tail(@)] IN
  CASE fr.f = "seq" -> IF x = Normally THEN Run(c, fr.rest) ELSE c
    [] fr.f \in {"loop", "for"} ->
         IF x.how = "break" THEN End(c, Normally)
         ELSE IF x.how \notin {"normal", "continue"} THEN c
         ELSE IF fr.f = "loop" THEN StatementStep(c, fr.stmt)
         ELSE Give(Push(c, [f |-> "iterator", stmt |-> fr.stmt]), fr.iter)
    [] fr.f = "try" ->
         IF x = Normally THEN Run(c, fr.orelse)
         ELSE IF x.how # "raise" \/ Catching(fr.handlers, x.val) = {} THEN c
         ELSE LET h == fr.handlers[CHOOSE i \in Catching(fr.handlers, x.val) : TRUE]
                  c1 == [Push(c, [f |-> "handler", name |-> h.name, outer |-> c.handled])
                           EXCEPT !.handled = x.val]
              IN  Run(IF h.name = <<>> THEN c1 ELSE Bind(c1, h.name[1], x.val), h.body)
    [] fr.f = "handler" ->
         LET c1 == [c EXCEPT !.handled = fr.outer]
         IN  IF fr.name = <<>> THEN c1 ELSE Unbind(c1, fr.name[1])
    [] fr.f = "finally" ->
         Run([Push(c, [f |-> "finished", ending |-> x, outer |-> c.handled])
                EXCEPT !.handled = IF x.how = "raise" THEN x.val ELSE @], fr.body)
    [] fr.f = "finished" ->
         LET c1 == [c EXCEPT !.handled = fr.outer]
         IN  IF x = Normally THEN End(c1, fr.ending) ELSE c1
    [] fr.f = "with" ->
         IF x.how = "raise"
         THEN [Ask(Push(c, [f |-> "exited", exc |-> x.val, outer |-> c.handled]),
                   "exit", <<fr.mgr, x.val>>) EXCEPT !.handled = x.val]
         ELSE Ask(Push(c, [f |-> "left", ending |-> x]), "exit", <<fr.mgr, None>>)
    [] fr.f = "exited" -> [c EXCEPT !.handled = fr.outer]
    \* an exception leaves an expression or a statement that has no say in it
    [] OTHER -> c

\* Run until an operation is needed or the function ends.
RECURSIVE Settle(_)
Settle(c) ==
  CASE c.do = "ask" \/ (c.do = "end" /\ c.k = <<>>) -> c
    [] c.do = "eval" -> Settle(EvalStep(c))
    [] c.do = "value" -> Settle(ValueStep(c))
    [] c.do = "run" -> Settle(RunStep(c))
    [] c.do = "end" /\ c.k # <<>> -> Settle(EndStep(c))

Start(body, env) == Settle(Config("run", body, <<>>, env, None))

\* The source goes on with answer a, if it has asked.
Reply(c, a) == IF c.do # "ask" THEN c ELSE Settle(IF a.how = "raise" THEN Throw(c, a.val) ELSE Give(c, a.val))

\* What is seen of a settled configuration: its question or its result.
Result(how, v) == [how |-> how, val |-> v]
Question(c) == Result("ask", c.on)
Seen(c) ==
  IF c.do = "ask" THEN Question(c)
  ELSE IF c.on.how = "raise" THEN Result("raise", c.on.val)
  ELSE Result("return", c.on.val)
=============================================================================
