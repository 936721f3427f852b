---------------------------- MODULE StmtRewrites ----------------------------
(***************************************************************************)
(* Statements that are first rewritten into simpler ones: assert, except   *)
(* clauses with a type, with, and match.  Names made up here are <<what,   *)
(* n>>; n is the next fresh number of the function.                        *)
(***************************************************************************)
EXTENDS PythonSyntax
LOCAL INSTANCE SequencesExt

Debug == True

rewrite_assert_stmt(t) ==
  <<If(Const(Debug), <<If(Not(t.test), <<Raise(Const(AssertionError))>>, <<>>)>>, <<>>)>>

-----------------------------------------------------------------------------
(* except: one handler that tests the types in turn. *)

KeepsName(x, body) == Try(body, <<>>, <<>>, <<Pass>>)   \* for a mutant
wrap_handler_body_with_cleanup(x, body) == Try(body, <<>>, <<>>, <<DelQuietly(x)>>)

Untyped(h) == h.typ = AnyException
has_non_default_handler(t) == \E i \in DOMAIN t.handlers : ~ Untyped(t.handlers[i])
has_default_handler(t) == \E i \in DOMAIN t.handlers : Untyped(t.handlers[i])

\* Handler h, with next for the exceptions it does not catch.
ChainHandler(h, next) ==
  IF Untyped(h) THEN h.body \o next
  ELSE <<If(Matches(CurrentException, h.typ),
            IF h.name = <<>> THEN <<Pass>> \o h.body
            ELSE <<Assign(h.name[1], CurrentException),
                   wrap_handler_body_with_cleanup(h.name[1], h.body)>>,
            next)>>

rewrite_try_stmt(t) ==
  IF ~ has_non_default_handler(t) THEN t
  ELSE LET base == IF has_default_handler(t) THEN <<Pass>> ELSE <<Reraise>>
           chain == FoldRight(ChainHandler, t.handlers, base)
       IN  [t EXCEPT !.handlers = <<Except(AnyException, <<>>, chain)>>]

-----------------------------------------------------------------------------
(* with: the exit is called from the handler, or from the finally body when *)
(* no exception got there.                                                 *)

\* A context expression that is not a name is kept in one.
maybe_placeholder(a, n) ==
  IF a.e = "load" THEN [stmts |-> <<>>, expr |-> a, cleanup |-> <<>>]
  ELSE LET tmp == <<"ctx", n>>
       IN  [stmts |-> <<Assign(tmp, a)>>, expr |-> Load(tmp),
            cleanup |-> <<Assign(tmp, Const(None))>>]

DesugarWithItem(item, body, n) ==
  LET exit == <<"with_exit", n>>
      ok == <<"with_ok", n>>
      ctx == maybe_placeholder(item.context, n)
      enter == Op("enter", <<ctx.expr>>)
  IN  ctx.stmts
        \o <<Assign(exit, ctx.expr)>>       \* the bound __exit__, for its manager
        \o (IF item.target = <<>> THEN <<Expr(enter)>> ELSE <<AssignAll(item.target, enter)>>)
        \o <<Assign(ok, Const(True)),
             Try(body,
                 <<Except(AnyException, <<>>,
                     <<Assign(ok, Const(False)),
                       Expr(ContextExit(Load(exit), CurrentException))>>)>>,
                 <<>>,
                 <<If(Load(ok), <<Expr(ContextExit(Load(exit), Const(None)))>>, <<>>),
                   Assign(exit, Const(None))>> \o ctx.cleanup)>>

desugar_with_stmt(t, n) ==
  FoldRight(LAMBDA i, body : DesugarWithItem(t.items[i], body, n + i),
            [i \in DOMAIN t.items |-> i], t.body)

-----------------------------------------------------------------------------
(* match: tests of the subject, and what to assign once they hold.  A      *)
(* pattern that always matches has no test.                                *)

RECURSIVE test_for_pattern(_, _)
test_for_pattern(p, subject) ==
  CASE p.p = "value" -> [test |-> <<Op("==", <<subject, Const(p.value)>>)>>, assigns |-> <<>>]
    [] p.p = "or" ->
         LET branch(i) == test_for_pattern(p.patterns[i], subject)
             test(i) == IF branch(i).test = <<>> THEN Const(True) ELSE branch(i).test[1]
             choose == FoldRight(LAMBDA i, next : <<If(test(i), branch(i).assigns, next)>>,
                                 [i \in DOMAIN p.patterns |-> i], <<Pass>>)
         IN  [test |-> <<Or([i \in DOMAIN p.patterns |-> test(i)])>>,
              assigns |-> IF \A i \in DOMAIN p.patterns : branch(i).assigns = <<>>
                          THEN <<>> ELSE choose]
    [] p.p = "as" ->
         LET inner == IF p.pattern = <<>> THEN [test |-> <<>>, assigns |-> <<>>]
                      ELSE test_for_pattern(p.pattern[1], subject)
             bind == [i \in DOMAIN p.name |-> Assign(p.name[i], subject)]
         IN  [inner EXCEPT !.assigns = @ \o bind]

\* The names that the assignments in ts bind (not the ones inside an if).
assigned_names(ts) ==
  LET assigns == SelectSeq(ts, LAMBDA t : t.s = "assign")
  IN  [i \in DOMAIN assigns |-> assigns[i].targets[1].name]

RewriteCase(k, subject, next) ==
  LET found == test_for_pattern(k.pattern, subject)
      names == assigned_names(found.assigns)
      cleanup == [i \in DOMAIN names |-> Delete(Var(names[i]))]
      block == found.assigns \o
               (IF k.guard = <<>> THEN k.body
                ELSE <<If(k.guard[1], k.body, cleanup \o next)>>)
  IN  IF found.test = <<>> THEN block ELSE <<If(found.test[1], block, next)>>

rewrite_match_stmt(t, n) ==
  LET subject == <<"match", n>>
      chain == FoldRight(LAMBDA k, next : RewriteCase(k, Load(subject), next), t.cases, <<Pass>>)
  IN  <<Assign(subject, t.subject)>> \o chain
=============================================================================
