------------------------ MODULE MCCompiledFunction ------------------------
(***************************************************************************)
(* Small functions that put each construct inside each other one, and the  *)
(* expressions and targets of a statement inside each other.  Every        *)
(* operation has a name of its own, so a wrong order is seen.              *)
(***************************************************************************)
EXTENDS CompiledFunction

Do(f) == Expr(Call(f))
X == Name("x")   Y == Name("y")   E == Name("e")   P == Load(Name("p"))

\* Ways for a part of a statement to end.
Leave(f) == {<<Do(f)>>, <<Return(Call(f))>>, <<Raise(Const(Exception("raised")))>>}
OnlyA(body) == Except({"a"}, <<>>, body)
Named_e(body) == Except({"a", "b"}, <<E>>, body)
Default(body) == Except(AnyException, <<>>, body)

\* A finally body, which must not start with a while loop (see README).
FinallyBody(part) == IF Head(part).s = "while" THEN <<Pass>> \o part ELSE part

\* try statements with body b and a part that may be anything in parts.
TryAround(parts) ==
  UNION {{Try(part, <<Named_e(<<Do("h")>>)>>, <<Do("o")>>, <<>>),
          Try(part, <<OnlyA(<<Do("h")>>), Default(<<Reraise>>)>>, <<>>, <<Do("f")>>),
          Try(part, <<>>, <<>>, <<Do("f")>>),
          Try(part, <<>>, <<>>, <<Return(Call("f"))>>),
          Try(<<Do("a")>>, <<OnlyA(part)>>, <<>>, <<Do("f")>>),
          Try(<<Do("a")>>, <<Named_e(part)>>, <<>>, <<>>),
          Try(<<Do("a")>>, <<Default(<<Pass>>)>>, part, <<Do("f")>>),
          Try(<<Return(Call("a"))>>, <<>>, <<>>, FinallyBody(part)),
          Try(<<Do("a")>>, <<OnlyA(<<Do("h")>>)>>, <<>>, FinallyBody(part))} : part \in parts}
WithAround(parts) ==
  UNION {{With(<<WithItem(Call("acquire"), <<Var(X)>>)>>, part),
          With(<<WithItem(P, <<>>), WithItem(Call("acquire"), <<>>)>>, part)} : part \in parts}
LoopAround(parts) ==
  UNION {{While(Call("w"), part, <<Do("o")>>),
          For(Var(X), Call("i"), part, <<Do("o")>>)} : part \in parts}
IfAround(parts) == {If(Call("c"), part, <<>>) : part \in parts}
Around(parts) == TryAround(parts) \cup WithAround(parts) \cup LoopAround(parts) \cup IfAround(parts)

Small == UNION {Leave("b")}
Inner == TryAround({<<Return(Call("b"))>>}) \cup WithAround(Leave("b")) \cup LoopAround({<<Do("b")>>})
           \cup IfAround({<<Return(Call("b"))>>})
TwoDeep == Around(Small) \cup Around({<<t>> : t \in Inner})
\* A return that three finally bodies, or a handler on the way, have a say in.
Through(parts) ==
  UNION {{Try(part, <<Named_e(<<Do("h")>>)>>, <<>>, <<Do("f")>>),
          Try(<<Do("a")>>, <<OnlyA(part)>>, <<>>, <<Do("f")>>),
          Try(<<Do("a")>>, <<>>, <<>>, FinallyBody(part))} : part \in parts}
ThreeDeep == Through({<<t>> : t \in Through({<<t>> : t \in Through({<<Return(Call("b"))>>})})})

\* break and continue, from the bodies that they may leave.
Leaving(s) ==
  {<<If(Call("c"), <<s>>, <<Do("b")>>)>>,
   <<Try(<<Do("a")>>, <<OnlyA(<<s>>)>>, <<s>>, <<>>)>>,
   <<Try(<<Do("a"), s>>, <<Default(<<Do("h")>>)>>, <<>>, <<>>)>>}
Loops == LoopAround(Leaving(Break) \cup Leaving(Continue))
           \cup LoopAround({<<t, Break>> : t \in LoopAround(Leaving(Continue))})

\* Expressions, with a part that is evaluated where Python evaluates it.
ExprAround(part) ==
  {And(<<part, Call("q")>>), Or(<<part, Call("q")>>), And(<<Call("q"), part, Call("r")>>),
   Or(<<Call("q"), Not(part)>>), Not(part), Named(X, part), Op("f", <<P, part>>),
   Compare(part, <<"<">>, <<Call("q")>>), Compare(part, <<"<", "in">>, <<Call("q"), Call("r")>>),
   Compare(Call("q"), <<"<", "in", "is">>, <<Call("r"), part, P>>),
   IfExp(part, Call("q"), Call("r")), IfExp(Call("q"), part, Call("r")),
   IfExp(Call("q"), Call("r"), part)}
Exprs(parts) == UNION {ExprAround(part) : part \in parts}
Users(a) ==
  {Expr(a), Return(a), AssertStmt(a), If(a, <<Do("b")>>, <<Do("o")>>),
   While(a, <<Do("b")>>, <<Do("o")>>), For(Var(X), a, <<Do("b")>>, <<>>),
   With(<<WithItem(a, <<Var(X)>>)>>, <<Do("b")>>), Assign(X, a), AugAssign(Var(P.name), "+", a),
   Try(<<Expr(a)>>, <<Named_e(<<Do("h")>>)>>, <<>>, <<Return(a)>>)}
Statements == UNION {Users(a) : a \in Exprs({Call("b")})}
               \cup {Return(a) : a \in Exprs(Exprs({Call("b")}))}
               \cup {If(a, <<Do("b")>>, <<Do("o")>>) : a \in Exprs(Exprs({Call("b")}))}

\* Yields and awaits: in, beside and around one another, in a part that is
\* evaluated sometimes; a yield has no operand with an effect on its left, nor
\* has a part that becomes a statement (those are in OutOfOrder).
Given == {Yield(Const(None)), Await(Call("b")), Yield(Op("f", <<Yield(Const(None)), Call("b")>>))}
Yielding ==
  Given \cup {Op("g", <<a, b>>) : a, b \in Given}
        \cup {Yield(IfExp(Yield(P), Call("q"), Yield(Call("r")))), Await(Yield(Await(Call("b"))))}
        \cup Exprs({Yield(Call("b"))})
Suspended == UNION {Users(a) : a \in Yielding}
               \cup {Raise(Op("f", <<Yield(Call("b")), P>>)), AssignAll(<<Unpack(<<Var(X), Var(Y)>>)>>, Yield(P))}

\* An operation to the left of an operand that is taken out of the expression
\* to stand before it: a yield, or one that becomes a statement.
Overtaken == {Op("f", <<Call("q"), Yield(Const(None))>>), Op("f", <<Call("a"), And(<<Call("b"), Call("c")>>)>>)}
OutOfOrder == {<<t, Do("z")>> : t \in {Expr(a) : a \in Overtaken} \cup {Return(a) : a \in Overtaken}}

\* Targets.
Place(a) == Item(Call("o"), a)
Simple == {Var(X), Place(Call("i")), Place(Or(<<Call("i"), Call("j")>>))}
Targets == Simple \cup {Unpack(<<s, t>>) : s, t \in Simple}
             \cup {Unpack(<<Var(Y), Unpack(<<Var(X), Place(Call("i"))>>)>>)}
Assignments ==
  {AssignAll(<<t>>, Call("a")) : t \in Targets}
    \cup {AssignAll(<<s, t>>, And(<<Call("a"), Call("b")>>)) : s, t \in Simple}
    \cup {AugAssign(t, "+", And(<<Call("a"), Call("b")>>)) : t \in Simple}
    \cup {Delete(t) : t \in Simple}
    \cup {For(t, Call("a"), <<Do("b")>>, <<>>) : t \in Targets}
\* x has no value before these, so they may not delete or read it (see README).
AlwaysBinds(t) == t.s \in {"assign", "augassign"} /\ (t.s = "augassign" => t.target.t # "name")
Both(ts) == {Try(<<t>>, <<Except({"NameError"}, <<E>>, <<Expr(Op("f", <<Load(E)>>))>>)>>,
                 <<Expr(Load(X))>>, <<>>) : t \in ts} \cup ts

\* match.
Values == {ValuePattern(True), OrPattern(<<ValuePattern(True), ValuePattern(None)>>),
           AsPattern(<<ValuePattern(True)>>, <<X>>),
           AsPattern(<<OrPattern(<<ValuePattern(True), ValuePattern(None)>>)>>, <<X>>)}
Matches_ ==
  {Match(Call("s"), <<Case(p, <<>>, <<Do("a")>>), Case(q, <<>>, <<Expr(Load(X))>>)>>) :
     p \in Values, q \in Values \cup {AsPattern(<<>>, <<X>>), AsPattern(<<>>, <<>>)}}
    \cup {Match(Call("s"), <<Case(p, <<And(<<Call("g"), Call("k")>>)>>, <<Return(Call("a"))>>),
                            Case(AsPattern(<<>>, <<X>>), <<>>, <<Expr(Load(X))>>)>>) :
            p \in {q \in Values : q.p # "as"} \cup {AsPattern(<<>>, <<>>)}}

MCPrograms ==
  {<<t, Do("z")>> : t \in TwoDeep \cup ThreeDeep \cup Loops \cup Statements \cup Suspended
                          \cup Both({t \in Assignments : AlwaysBinds(t)})}
    \cup {<<Assign(X, Call("x")), t, Expr(Load(X))>> :
              t \in Both({u \in Assignments : ~ AlwaysBinds(u)}) \cup Matches_}
MCEnv == [x \in {Name("p")} |-> Value("object", "p")]
=============================================================================
