---------------------------- MODULE ExprLowering ----------------------------
(***************************************************************************)
(* Expressions and simple statements become instructions of one block.     *)
(* Operands stay where they are; and, or, a chained comparison, a          *)
(* conditional expression and := become instructions that run before the   *)
(* expression they occur in (its setup) and leave their value in a name.   *)
(* n is the next fresh number of the function.                             *)
(***************************************************************************)
EXTENDS PythonSyntax
LOCAL INSTANCE SequencesExt

\* Instructions.  A branch is split into blocks later.
Store(x, a) == [i |-> "store", name |-> x, value |-> a]
Evaluate(a) == [i |-> "eval", value |-> a]
Del(x, quietly) == [i |-> "del", name |-> x, quietly |-> quietly]
Branch(t, b, o) == [i |-> "if", test |-> t, body |-> b, orelse |-> o]

Lowered(setup, val, n) == [setup |-> setup, val |-> val, n |-> n]

\* The expression e, evaluated into a name of its own.
KeepIn(x, e) == Lowered(Append(e.setup, Store(x, e.val)), Load(x), e.n)
\* What two things do one after the other; the second has the value.
Then(first, second) == Lowered(first.setup \o second.setup, second.val, second.n)

RECURSIVE LowerExpr(_, _)

\* Operands are lowered in turn; all their setup comes first.
AddOperand(done, e) == Lowered(done.setup \o e.setup, Append(done.val, e.val), e.n)
LowerExprs(as, n) ==
  FoldLeft(LAMBDA done, a : AddOperand(done, LowerExpr(a, done.n)), Lowered(<<>>, <<>>, n), as)

\* The later values of and/or: each is computed if the ones before ask for it.
LowerStep(done, and, target, e) ==
  LET test == IF and THEN Load(target) ELSE Not(Load(target))
  IN  Lowered(Append(done.setup, Branch(test, KeepIn(target, e).setup, <<>>)), Load(target), e.n)
LowerBoolOp(a, n) ==
  LET target == <<"target", n>>
  IN  FoldLeft(LAMBDA done, v : LowerStep(done, a.and, target, LowerExpr(v, done.n)),
               KeepIn(target, LowerExpr(Head(a.values), n + 1)), Tail(a.values))

\* A comparison of a chain into target: its left operand is the value of what
\* is done before; a right operand that the next one needs again is kept in a
\* name of its own.
LowerComparison(done, i, ops, target, right) ==
  LET kept == <<"compare", done.n>>
      last == i = Len(ops)
      operand == IF last THEN right.val ELSE Load(kept)
      step == right.setup
                \o (IF last THEN <<>> ELSE <<Store(kept, right.val)>>)
                \o <<Store(target, Op(ops[i], <<done.val, operand>>))>>
  IN  Lowered(\* the first comparison is made whatever target holds
              done.setup \o IF i = 1 THEN step ELSE <<Branch(Load(target), step, <<>>)>>,
              operand, right.n)

CompareOnce(op, left, right) ==
  Lowered(left.setup \o right.setup, Op(op, <<left.val, right.val>>), right.n)
LowerCompare(a, n) ==
  LET left == LowerExpr(a.left, n + 2)
      target == <<"target", n + 1>>
      chain == FoldLeft(LAMBDA done, i : LowerComparison(done, i, a.ops, target,
                                                        LowerExpr(a.comparators[i], done.n + 1)),
                        KeepIn(<<"compare", n>>, left), [i \in DOMAIN a.ops |-> i])
  IN  IF Len(a.ops) = 1 THEN CompareOnce(a.ops[1], left, LowerExpr(a.comparators[1], left.n))
      ELSE [chain EXCEPT !.val = Load(target)]

LowerIfExp(a, n) ==
  LET target == <<"tmp", n>>
      test == LowerExpr(a.test, n + 1)
      body == LowerExpr(a.body, test.n)
      orelse == LowerExpr(a.orelse, body.n)
  IN  Lowered(Append(test.setup,
                     Branch(test.val, Append(body.setup, Store(target, body.val)),
                                      Append(orelse.setup, Store(target, orelse.val)))),
              Load(target), orelse.n)

LowerNamed(a, n) == KeepIn(a.name, LowerExpr(a.value, n))

LowerExpr(a, n) ==
  CASE a.e = "op" -> LET as == LowerExprs(a.args, n)
                     IN  Lowered(as.setup, [a EXCEPT !.args = as.val], as.n)
    [] a.e \in {"not", "is_complete", "element", "await"} ->
         LET v == LowerExpr(a.arg, n) IN Lowered(v.setup, [a EXCEPT !.arg = v.val], v.n)
    [] a.e = "boolop" -> LowerBoolOp(a, n)
    [] a.e = "compare" -> LowerCompare(a, n)
    [] a.e = "ifexp" -> LowerIfExp(a, n)
    [] a.e = "named" -> LowerNamed(a, n)
    [] OTHER -> Lowered(<<>>, a, n)

-----------------------------------------------------------------------------
(* Simple statements. *)

bind_temp(a, name, n) == KeepIn(<<name, n>>, LowerExpr(a, n + 1))

\* The object of a place; a name is tested for having a value.
LowerTargetObject(a) == IF a.e = "load" THEN LoadDeletedName(a.name) ELSE a
\* object[index]: both are evaluated and kept before what is done with them.
Place_(object, index) ==
  Lowered(object.setup \o index.setup, <<object.val, index.val>>, index.n)
LowerIndex(object, index) == Place_(object, bind_temp(index, "index", object.n))
LowerPlace(t, n) == LowerIndex(bind_temp(LowerTargetObject(t.object), "obj", n), t.index)
DoAt(place, f, args) ==
  Lowered(Append(place.setup, Evaluate(Op(f, place.val \o args))), None, place.n)

RECURSIVE LowerTargets(_, _, _)
LowerTarget(t, rhs, n) ==
  CASE t.t = "name" -> Lowered(<<Store(t.name, rhs)>>, None, n)
    [] t.t = "item" -> DoAt(LowerPlace(t, n), "setitem", <<rhs>>)
    [] t.t = "unpack" ->
         LET unpacked == <<"unpack", n>>
             elements == [i \in DOMAIN t.targets |-> Element(Load(unpacked), i)]
             each == LowerTargets(t.targets, elements, n + 1)
         IN  Lowered(<<Store(unpacked, Op("unpack", <<rhs>>))>> \o each.setup
                       \o <<Del(unpacked, FALSE)>>, None, each.n)
LowerTargets(ts, values, n) ==
  FoldLeft(LAMBDA done, i : Then(done, LowerTarget(ts[i], values[i], done.n)),
           Lowered(<<>>, None, n), [i \in DOMAIN ts |-> i])

should_bind_assignment_value(ts) == Len(ts) > 1 \/ Head(ts).t # "name"

AssignFrom(value, ts) ==
  Then(value, LowerTargets(ts, [i \in DOMAIN ts |-> value.val], value.n))
LowerAssign(t, n) ==
  AssignFrom(IF should_bind_assignment_value(t.targets)
             THEN bind_temp(t.value, "value", n) ELSE LowerExpr(t.value, n), t.targets)

\* The old value is read, and kept, before the right-hand side is evaluated.
Update_(t, place, old, rhs) ==
  LET new == Op(t.op, <<old.val, rhs.val>>)
  IN  Lowered(place.setup \o old.setup \o rhs.setup
                \o <<IF t.target.t = "item" THEN Evaluate(Op("setitem", Append(place.val, new)))
                     ELSE Store(t.target.name, new)>>, None, rhs.n)
UpdateFrom(t, place, old) == Update_(t, place, old, LowerExpr(t.value, old.n))
UpdateAt(t, place) ==
  UpdateFrom(t, place, bind_temp(IF t.target.t = "item" THEN Op("getitem", place.val)
                                 ELSE Load(t.target.name), "value", place.n))
LowerAugAssign(t, n) ==
  UpdateAt(t, IF t.target.t = "item" THEN LowerPlace(t.target, n) ELSE Lowered(<<>>, <<>>, n))

LowerDelete(t, n) ==
  IF t.target.t = "name" THEN Lowered(<<Del(t.target.name, FALSE)>>, None, n)
  ELSE DoAt(LowerPlace(t.target, n), "delitem", <<>>)

Discarded(e) == Lowered(Append(e.setup, Evaluate(e.val)), None, e.n)
LowerStmt(t, n) ==
  CASE t.s = "pass" -> Lowered(<<>>, None, n)
    [] t.s = "expr" -> Discarded(LowerExpr(t.value, n))
    [] t.s = "assign" -> LowerAssign(t, n)
    [] t.s = "augassign" -> LowerAugAssign(t, n)
    [] t.s = "delete" -> LowerDelete(t, n)
    [] t.s = "del_quietly" -> Lowered(<<Del(t.name, TRUE)>>, None, n)

LowerLinear(ts, n) ==
  FoldLeft(LAMBDA done, t : Then(done, LowerStmt(t, done.n)), Lowered(<<>>, None, n), ts)
=============================================================================
