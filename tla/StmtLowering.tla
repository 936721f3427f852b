---------------------------- MODULE StmtLowering ----------------------------
(***************************************************************************)
(* A sequence of statements becomes blocks.  The lowering works backwards: *)
(* it is told where control goes when the sequence ends, when a loop is    *)
(* broken or continued, and when something raises, and returns the block   *)
(* to enter.  A state st is the blocks made so far and the next fresh      *)
(* number, for labels and for names alike.                                 *)
(***************************************************************************)
EXTENDS ExprLowering, StmtRewrites, BasicBlocks
LOCAL INSTANCE SequencesExt

\* Where control goes.
RegionTargets(next, brk, cont, exc) == [next |-> next, brk |-> brk, cont |-> cont, exc |-> exc]

Fresh(st, k) == [st EXCEPT !.n = @ + k]
Entry(label, st) == [entry |-> label, st |-> st]
\* A new block: straight-line statements, the setup of its terminator, which
\* uses the value v, and the terminator.
EmitCode(st, label, code, v, term, exc) ==
  Entry(label, [bs |-> Append(st.bs, Block(label, code.setup \o v.setup, term, exc)),
                n |-> IF code.n > v.n THEN code.n ELSE v.n])
Emit(st, label, linear, v, term, exc) ==
  EmitCode(st, label, LowerLinear(linear, st.n), v, term, exc)
Nothing(st) == Lowered(<<>>, None, st.n)
EmitJump(st, label, linear, to, exc) == Emit(st, label, linear, Nothing(st), Jump(to, <<>>), exc)

\* The value of a terminator is lowered after the statements before it.
LowerAfter(linear, a, st) == LowerExpr(a, LowerLinear(linear, st.n).n)

-----------------------------------------------------------------------------
(* try: blocks of the finally body, else body, handler and body, and what  *)
(* connects them.  Whatever ends the try enters the finally body with a    *)
(* kind and a payload, and the dispatch block after it acts on them.       *)

build_try_plan(n) ==
  [exc |-> <<"try_exc", n>>, kind |-> <<"abrupt_kind", n>>, payload |-> <<"abrupt_payload", n>>,
   dispatch |-> n + 1, return |-> n + 2, raise |-> n + 3, label |-> n + 4,
   normal |-> n + 5, exception |-> n + 6]

emit_finally_abrupt_dispatch_blocks(bs, plan, rest, exc) ==
  bs \o <<Block(plan.return, <<>>, ReturnTerm(Load(plan.payload)), exc),
          Block(plan.raise, <<>>, RaiseTerm(<<Load(plan.payload)>>), exc),
          Block(plan.dispatch, <<>>,
                Table(Load(plan.kind), <<rest, plan.return, plan.raise>>, rest), exc)>>

\* A return in a part of the try goes through the finally body.
SkipsFinally(b, finally, payload) == b   \* for mutants
ForgetsKind(b, finally, payload) ==
  IF b.term.t # "return" THEN b
  ELSE [b EXCEPT !.body = Append(@, Store(payload, b.term.value)),
                 !.term = Jump(finally, <<NameArg(payload)>>)]
rewrite_region_returns_to_finally(b, finally, payload) ==
  IF b.term.t # "return" THEN b
  ELSE [b EXCEPT !.body = Append(@, Store(payload, b.term.value)),
                 !.term = Jump(finally, <<AbruptKindArg("Return"), NameArg(payload)>>)]

\* Every block of a handler or a finally body keeps the exception under one name.
set_region_exc_param(b, exc) ==
  LET old == ParamsOf(b, "Exception")
      renamed(args) == [i \in DOMAIN args |->
                          IF old # <<>> /\ args[i] = NameArg(old[1].name)
                          THEN NameArg(exc) ELSE args[i]]
      b1 == set_exception_param(b, exc)
  IN  IF b.term.t = "jump" THEN [b1 EXCEPT !.term.args = renamed(@)] ELSE b1

\* F applied to the blocks from first to last.
InRegion(bs, first, last, F(_)) ==
  SubSeq(bs, 1, first - 1) \o [i \in 1..(last - first + 1) |-> F(bs[first + i - 1])]
    \o SubSeq(bs, last + 1, Len(bs))

-----------------------------------------------------------------------------
RECURSIVE LowerSeq(_, _, _, _)

LowerIf(t, rest, linear, tg, st) ==
  LET r == LowerSeq(rest, <<>>, tg, Fresh(st, 1))
      inner == [tg EXCEPT !.next = r.entry]
      then == LowerSeq(t.body, <<>>, inner, r.st)
      else == LowerSeq(t.orelse, <<>>, inner, then.st)
      test == LowerAfter(linear, t.test, else.st)
  IN  Emit(else.st, st.n, linear, test, IfTerm(test.val, then.entry, else.entry), tg.exc)

\* What follows a loop, and its else part.
LowerLoopExits(t, rest, tg, st) ==
  LET r == LowerSeq(rest, <<>>, tg, st)
      else == IF t.orelse = <<>> THEN r
              ELSE LowerSeq(t.orelse, <<>>, [tg EXCEPT !.next = r.entry], r.st)
  IN  [rest |-> r.entry, exhausted |-> else.entry, st |-> else.st]
LowerLoopBody(t, again, exits, tg) ==
  LowerSeq(t.body, <<>>, RegionTargets(again, exits.rest, again, tg.exc), exits.st)

LowerWhile(t, rest, linear, tg, st) ==
  LET test_label == st.n
      exits == LowerLoopExits(t, rest, tg, Fresh(st, 2))
      body == LowerLoopBody(t, test_label, exits, tg)
      test == LowerExpr(t.test, body.st.n)
      check == Emit(body.st, test_label, <<>>, test,
                    IfTerm(test.val, body.entry, exits.exhausted), tg.exc)
  IN  IF linear = <<>> THEN check
      ELSE EmitJump(check.st, st.n + 1, linear, test_label, tg.exc)

\* tmp keeps what the iterator gave until the target has it.
build_for_target_assign_body(target, tmp) ==
  <<Assign(tmp, Load(tmp)), AssignAll(<<target>>, Load(tmp)), Delete(Var(tmp))>>

LowerFor(t, rest, linear, tg, st) ==
  LET iter == <<"iter", st.n>>   tmp == <<"tmp", st.n>>
      check == st.n   assign == st.n + 1   setup == st.n + 2
      exits == LowerLoopExits(t, rest, tg, Fresh(st, 3))
      body == LowerLoopBody(t, check, exits, tg)
      a == EmitJump(body.st, assign, build_for_target_assign_body(t.target, tmp),
                    body.entry, tg.exc)
      c == Emit(a.st, check, <<Assign(tmp, NextOrSentinel(Load(iter)))>>, Nothing(a.st),
                IfTerm(IsComplete(Load(tmp)), exits.exhausted, assign), tg.exc)
  IN  EmitJump(c.st, setup, Append(linear, Assign(iter, Op("iter", <<t.iter>>))), check, tg.exc)

\* A finally body goes on with its dispatch; what it raises leaves the try.
InOwnRegion(plan, tg) == [tg EXCEPT !.next = plan.dispatch, !.exc = plan.exception]   \* for a mutant
FinallyTargets(plan, tg) == [tg EXCEPT !.next = plan.dispatch]

\* The finally body, its two entries, and its dispatch.
LowerFinally(t, plan, rest, tg, st) ==
  LET f == LowerSeq(t.finalbody, <<>>, FinallyTargets(plan, tg), st)
      withParams(b) == IF b.label # f.entry THEN b
                       ELSE ensure_param(ensure_param(b, plan.kind, "AbruptKind"),
                                         plan.payload, "AbruptPayload")
      enter(label, kind, payload) ==
        Block(label, <<>>, Jump(f.entry, <<AbruptKindArg(kind), payload>>), tg.exc)
      bs == [i \in DOMAIN f.st.bs |-> withParams(f.st.bs[i])]
              \o <<enter(plan.normal, Fallthrough, NoneArg),
                   set_exception_param(enter(plan.exception, "Exception", NameArg(plan.exc)),
                                       plan.exc)>>
  IN  [entry |-> f.entry, first |-> Len(st.bs) + 1, last |-> Len(f.st.bs),
       st |-> [f.st EXCEPT !.bs = emit_finally_abrupt_dispatch_blocks(bs, plan, rest, tg.exc)]]

\* The blocks made after the finally body, those of the handlers among them
\* from except_first to except_last, and of the finally body itself.
finalize_try_regions(bs, plan, has_finally, f, except_first, except_last) ==
  LET Returning(b) == rewrite_region_returns_to_finally(b, f.entry, plan.payload)
      Catching(b) == set_region_exc_param(b, plan.exc)
      bs1 == IF has_finally THEN InRegion(bs, Len(f.st.bs) + 1, Len(bs), Returning) ELSE bs
  IN  InRegion(InRegion(bs1, except_first, except_last, Catching), f.first, f.last, Catching)

LowerTry(t, rest, linear, tg, st) ==
  LET plan == build_try_plan(st.n)
      has_finally == t.finalbody # <<>>
      r == LowerSeq(rest, <<>>, tg, Fresh(st, 7))
      f == IF has_finally THEN LowerFinally(t, plan, r.entry, tg, r.st)
           ELSE [entry |-> NoLabel, first |-> 1, last |-> 0, st |-> r.st]
      cleanup == IF has_finally THEN plan.normal ELSE r.entry
      cleanup_exc == IF has_finally THEN plan.exception ELSE tg.exc
      inner == [tg EXCEPT !.next = cleanup, !.exc = cleanup_exc]
      else == IF t.orelse = <<>> THEN Entry(cleanup, f.st)
              ELSE LowerSeq(t.orelse, <<>>, inner, f.st)
      except == IF t.handlers = <<>> THEN Entry(cleanup_exc, else.st)
                ELSE LowerSeq(t.handlers[1].body, <<>>, inner, else.st)
      body == LowerSeq(t.body, <<>>, [tg EXCEPT !.next = else.entry, !.exc = except.entry],
                       except.st)
      bs == finalize_try_regions(body.st.bs, plan, has_finally, f, Len(else.st.bs) + 1,
                                 Len(except.st.bs))
  IN  EmitJump([body.st EXCEPT !.bs = bs], plan.label, linear, body.entry, tg.exc)

\* Statements that stand for t and the rest, after the ones before them.
LowerExpanded(expanded, rest, linear, tg, st) ==
  LET r == LowerSeq(expanded \o rest, <<>>, tg, Fresh(st, 1))
  IN  IF linear = <<>> THEN r ELSE EmitJump(r.st, st.n, linear, r.entry, tg.exc)

Linear == {"pass", "expr", "assign", "augassign", "delete", "del_quietly"}

\* Statements ss after the straight-line statements linear.
LowerSeq(ss, linear, tg, st) ==
  IF ss = <<>>
  THEN IF linear = <<>> THEN Entry(tg.next, st)
       ELSE EmitJump(Fresh(st, 1), st.n, linear, tg.next, tg.exc)
  ELSE LET t == Head(ss)   rest == Tail(ss) IN
  CASE t.s \in Linear -> LowerSeq(rest, Append(linear, t), tg, st)
    [] t.s = "if" -> LowerIf(t, rest, linear, tg, st)
    [] t.s = "while" -> LowerWhile(t, rest, linear, tg, st)
    [] t.s = "for" -> LowerFor(t, rest, linear, tg, st)
    [] t.s = "break" -> EmitJump(Fresh(st, 1), st.n, linear, tg.brk, tg.exc)
    [] t.s = "continue" -> EmitJump(Fresh(st, 1), st.n, linear, tg.cont, tg.exc)
    [] t.s = "return" ->
         LET v == LowerAfter(linear, t.value, Fresh(st, 1))
         IN  Emit(Fresh(st, 1), st.n, linear, v, ReturnTerm(v.val), tg.exc)
    [] t.s = "raise" ->
         LET v == IF t.exc = <<>> THEN Nothing(Fresh(st, 1))
                  ELSE LowerAfter(linear, t.exc[1], Fresh(st, 1))
         IN  Emit(Fresh(st, 1), st.n, linear, v,
                  RaiseTerm([i \in DOMAIN t.exc |-> v.val]), tg.exc)
    [] t.s = "try" -> LowerTry(rewrite_try_stmt(t), rest, linear, tg, st)
    [] t.s = "with" ->
         LowerExpanded(desugar_with_stmt(t, st.n), rest, linear, tg,
                       Fresh(st, Len(t.items) + 1))
    [] t.s = "assert" -> LowerSeq(rewrite_assert_stmt(t) \o rest, linear, tg, st)
    [] t.s = "match" ->
         LowerExpanded(rewrite_match_stmt(t, st.n), rest, linear, tg, Fresh(st, 1))

\* The blocks of a function body, and the one to enter.
LowerBody(ss) ==
  LowerSeq(ss, <<>>, RegionTargets(EndLabel, NoLabel, NoLabel, NoLabel), [bs |-> <<>>, n |-> 1])
=============================================================================
