---------------------------- MODULE PythonSyntax ----------------------------
(***************************************************************************)
(* Expressions and statements of the functions that soac compiles, as      *)
(* records; the values they compute with; and the names they use.          *)
(* Everything the outside world can see or decide is an operation: a call, *)
(* a comparison, __enter__, __next__ ...  What an operation returns is not *)
(* part of the program, so it is chosen when it runs.                      *)
(***************************************************************************)
EXTENDS Naturals, Sequences, FiniteSets

\* Values.
Value(k, w) == [kind |-> k, what |-> w]
None == Value("None", "")
True == Value("bool", "True")
False == Value("bool", "False")
ITER_COMPLETE == Value("sentinel", "ITER_COMPLETE")
Exception(n) == Value("exception", n)
Unbound == Exception("NameError")
AssertionError == Exception("AssertionError")

\* What a variable of compiled code holds while the source has none.
DELETED == Value("sentinel", "DELETED")

Truthy(v) == v \notin {False, None}

\* Names are pairs, so that a temporary is never a name of the source.
Name(x) == <<x, 0>>

\* Expressions.
Const(v) == [e |-> "const", val |-> v]
Load(x) == [e |-> "load", name |-> x]
Op(f, as) == [e |-> "op", op |-> f, args |-> as]
Call(f) == Op(f, <<>>)
\* To suspend is an operation too: what it answers is what is sent.
Yield(a) == Op("yield", <<a>>)
YieldFrom(a) == Op("yield_from", <<a>>)
Suspends(a) == a.e = "op" /\ a.op \in {"yield", "yield_from"}
AwaitIter(a) == Op("await_iter", <<a>>)
Await(a) == [e |-> "await", arg |-> a]
Not(a) == [e |-> "not", arg |-> a]
IsComplete(a) == [e |-> "is_complete", arg |-> a]
And(es) == [e |-> "boolop", and |-> TRUE, values |-> es]
Or(es) == [e |-> "boolop", and |-> FALSE, values |-> es]
\* left op1 c1 op2 c2 ...
Compare(l, ops, cs) ==
  [e |-> "compare", left |-> l, ops |-> ops, comparators |-> cs]
IfExp(t, a, b) == [e |-> "ifexp", test |-> t, body |-> a, orelse |-> b]
Named(x, a) == [e |-> "named", name |-> x, value |-> a]
\* Helpers that only compiled code contains.
CurrentException == [e |-> "current_exception"]
LoadDeletedName(x) == [e |-> "load_deleted_name", name |-> x]
Matches(exc, typ) == [e |-> "exception_matches", arg |-> exc, typ |-> typ]
Element(a, i) == [e |-> "element", arg |-> a, index |-> i]
NextOrSentinel(it) == Op("next", <<it>>)
ContextExit(mgr, exc) == [e |-> "contextmanager_exit", manager |-> mgr, exc |-> exc]

\* Targets: a name, object[index], and a tuple of targets.
Var(x) == [t |-> "name", name |-> x]
Item(o, i) == [t |-> "item", object |-> o, index |-> i]
Unpack(ts) == [t |-> "unpack", targets |-> ts]

\* Statements.
Pass == [s |-> "pass"]
Expr(a) == [s |-> "expr", value |-> a]
\* t1 = t2 = ... = a
AssignAll(ts, a) == [s |-> "assign", targets |-> ts, value |-> a]
Assign(x, a) == AssignAll(<<Var(x)>>, a)
AugAssign(t, f, a) == [s |-> "augassign", target |-> t, op |-> f, value |-> a]
Delete(t) == [s |-> "delete", target |-> t]
AssertStmt(t) == [s |-> "assert", test |-> t]
If(t, b, o) == [s |-> "if", test |-> t, body |-> b, orelse |-> o]
While(t, b, o) == [s |-> "while", test |-> t, body |-> b, orelse |-> o]
For(t, i, b, o) ==
  [s |-> "for", target |-> t, iter |-> i, body |-> b, orelse |-> o]
Break == [s |-> "break"]
Continue == [s |-> "continue"]
Return(a) == [s |-> "return", value |-> a]
Raise(a) == [s |-> "raise", exc |-> <<a>>]
Reraise == [s |-> "raise", exc |-> <<>>]
\* A handler catches the exceptions in typ; name is <<>> or <<x>>.
Except(typ, name, b) == [typ |-> typ, name |-> name, body |-> b]
AnyException == {"any"}
Try(b, hs, o, f) ==
  [s |-> "try", body |-> b, handlers |-> hs, orelse |-> o, finalbody |-> f]
\* with items: the context expression, and <<>> or <<t>> for `as t`.
WithItem(a, target) == [context |-> a, target |-> target]
With(is, b) == [s |-> "with", items |-> is, body |-> b]
\* match: cases with a pattern, <<>> or <<guard>>, and a body.
Case(p, g, b) == [pattern |-> p, guard |-> g, body |-> b]
Match(a, cs) == [s |-> "match", subject |-> a, cases |-> cs]
ValuePattern(v) == [p |-> "value", value |-> v]
OrPattern(ps) == [p |-> "or", patterns |-> ps]
\* `_`, `x` and `pattern as x`: both parts may be absent.
AsPattern(ps, x) == [p |-> "as", pattern |-> ps, name |-> x]
\* Only in compiled code: unbind a name that may be unbound already.
DelQuietly(x) == [s |-> "del_quietly", name |-> x]

CatchesException(typ, exc) == typ = AnyException \/ exc.what \in typ
\* What unpack returns has its elements in order.
ElementOf(i) == Value("element", <<"0", "1", "2">>[i])
=============================================================================
