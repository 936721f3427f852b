---------------------------- MODULE MCJitFrames ----------------------------
(***************************************************************************)
(* A function main(a, b, t, m), with two objects, a tuple and a dict, that *)
(* calls f in every form of call, for several signatures of f; and bodies  *)
(* with cells, deleted names, handlers and branches.                       *)
(***************************************************************************)
EXTENDS JitFrames, FunctionEmission

MCValues == Int \ {0}

L(x) == Load("local", x)
Operate1(e) == Op("operate", <<e>>)
F == Load("global", "f")
NoneValue == Load("constant", "None")
Helped(name, args) == CallExpr(Load("runtime", name), args, <<>>)

\* Signatures of f.
Plain2 == <<Param("p", "Any", FALSE), Param("q", "Any", TRUE)>>
Full == <<Param("p", "PosOnly", FALSE), Param("q", "Any", TRUE), Param("r", "VarArg", FALSE),
          Param("k", "KwOnly", TRUE), Param("s", "KwArg", FALSE)>>
Rest == <<Param("r", "VarArg", FALSE)>>
Keyed == <<Param("p", "Any", TRUE), Param("q", "Any", TRUE), Param("k", "KwOnly", FALSE)>>
MainSpec == <<Param("a", "Any", FALSE), Param("b", "Any", FALSE), Param("t", "Any", FALSE), Param("m", "Any", FALSE)>>
Signatures == {Plain2, Full, Rest, Keyed}
MCSpecs == Signatures \cup {MainSpec}

\* Calls of f; t has one item and m the name k.
CallsOfF ==
  {CallExpr(F, <<Arg(L("a")), Arg(Operate1(L("b")))>>, <<>>),
   CallExpr(F, <<Arg(L("a")), Arg(L("b")), Arg(L("a"))>>, <<>>),
   CallExpr(F, <<Arg(Operate1(L("a")))>>, <<Named("k", L("b"))>>),
   CallExpr(F, <<Arg(L("a"))>>, <<Named("p", L("b")), Named("k", Operate1(L("a")))>>),
   CallExpr(F, <<>>, <<Named("q", L("b")), Named("p", Operate1(L("a"))), Named("k", L("a"))>>),
   CallExpr(F, <<StarArg(L("t")), Arg(L("a"))>>, <<StarNamed(L("m"))>>),
   CallExpr(F, <<Arg(L("a")), StarArg(L("t"))>>, <<Named("k", Operate1(L("b")))>>),
   CallExpr(F, <<Arg(Operate1(L("a"))), StarArg(L("t"))>>, <<>>)}

\* Bodies of f; the last reads its cell after it made it empty.
Straight(body, value) == <<Block(<<>>, <<>>, body, Return(value), NoHandler)>>
ReturnsFree == Straight(<<>>, Load("closure", 1))
SetsFree ==
  Straight(<<Store("closure", 1, Operate1(Load("closure", 1))), Del("closure", 1, FALSE)>>, L("p"))
ReadsDeleted == Straight(<<Del("closure", 1, TRUE)>>, Op("operate", <<Load("closure", 1)>>))

\* Bodies of main.
CallsF(e) == Straight(<<>>, e)
CallsLocal ==
  Straight(<<Store("local", "x", F)>>,
           CallExpr(L("x"), <<Arg(Helped("tuple_values", <<Arg(L("a")), Arg(Operate1(L("b")))>>))>>,
                    <<Named("k", Helped("globals", <<>>))>>))
Cells ==
  Straight(<<Store("owned", "x", Op("make_cell", <<L("a")>>)),
             Store("owned", "x", L("b")),
             Store("global", "x", Load("owned", "x")),
             Helped("cell_ref", <<Arg(Load("owned", "x"))>>),
             Del("owned", "x", TRUE), Del("owned", "x", FALSE)>>, L("a"))
Deletes ==
  Straight(<<Store("local", "x", Operate1(L("a"))),
             Helped("load_deleted_name", <<Arg(Load("constant", "0")), Arg(L("x"))>>),
             Del("local", "x", FALSE), Del("global", "x", FALSE), Store("global", "x", L("b"))>>,
           Helped("load_deleted_name", <<Arg(Load("constant", "0")), Arg(L("x"))>>))
\* try: x = operate(a); raise b; except: the module's x is the exception, and
\* it may be raised again.
Handles ==
  <<Block(<<>>, <<>>, <<Store("local", "x", Operate1(L("a")))>>, Raise(L("x")),
          Handler(2, <<FromName("x"), CurrentException>>)),
    Block(<<"y", "e">>, <<"e">>, <<Store("global", "x", L("e"))>>,
          If(Op("is", <<L("y"), L("a")>>), 3, 4), NoHandler),
    Block(<<>>, <<>>, <<Op("test", <<L("y")>>)>>, Raise(L("e")), Handler(4, <<>>)),
    Block(<<>>, <<>>, <<>>, Return(L("y")), NoHandler)>>
\* try: del x; read x; except: the exception is returned (nobody sets one).
ReadsDeletedInTry ==
  <<Block(<<>>, <<>>,
          <<Store("owned", "x", Op("make_cell", <<L("a")>>)), Del("owned", "x", TRUE),
            Store("local", "y", Load("owned", "x"))>>,
          Return(L("y")), Handler(2, <<CurrentException>>)),
    Block(<<"e">>, <<"e">>, <<>>, Return(L("e")), NoHandler)>>
\* try: return operate(a); finally: the way out is kept in parameters.
Finally ==
  <<Block(<<>>, <<>>, <<Store("local", "x", Operate1(L("a")))>>,
          Jump(3, <<FromName("x"), FromConst("0"), FromName("x")>>), Handler(2, <<CurrentException>>)),
    Block(<<"e">>, <<"e">>, <<>>, Jump(3, <<FromConst("None"), FromConst("1"), FromName("e")>>), NoHandler),
    Block(<<"y", "kind", "payload">>, <<"kind", "payload">>, <<Operate1(L("b"))>>,
          BranchTable(L("kind"), <<4, 5>>, 5), NoHandler),
    Block(<<>>, <<>>, <<>>, Return(L("payload")), NoHandler),
    Block(<<>>, <<>>, <<>>, Raise(L("payload")), NoHandler)>>

-----------------------------------------------------------------------------
\* Objects 1 and 2 are a and b, 5 is t, 7 is m; 3 is the module's x, 8 is what
\* is in the cell of f's closure; the defaults of f come next.
Objects == <<Plain, Plain, Plain, Plain, NewTuple(<<4>>), Plain, Object("dict", "", <<"k">>, <<6>>),
             Plain, Object("cell", "", <<>>, <<8>>)>>
FHeap(spec) ==
  LET n == Len(WithDefault(spec))
      defaults == [k \in 1..n |-> 9 + k]
  IN  MakeFunction(Objects \o [k \in 1..n |-> Plain], 2, spec, defaults, <<9>>)
ProgramOf(main, spec, f) ==
  LET heap == MakeFunction(FHeap(spec), 1, MainSpec, <<>>, <<>>)
  IN  [functions |->
         <<[spec |-> MainSpec, slots |-> <<"a", "b", "t", "m", "x", "y", "e", "kind", "payload">>, blocks |-> main],
           [spec |-> spec, slots |-> [i \in DOMAIN spec |-> spec[i].name], blocks |-> f]>>,
       heap |-> heap,
       globals |-> ("f" :> Len(FHeap(spec))) @@ ("x" :> 3),
       function |-> Len(heap), args |-> <<1, 2, 5, 7>>, held |-> <<1, 2, 5, 7, Len(heap)>>]

MCPrograms ==
  {ProgramOf(CallsF(e), spec, ReturnsFree) : e \in CallsOfF, spec \in Signatures}
  \cup {ProgramOf(CallsLocal, Full, f) : f \in {SetsFree, ReadsDeleted}}
  \cup {ProgramOf(main, Rest, ReturnsFree) : main \in {Cells, Deletes, Handles, Finally, ReadsDeletedInTry}}

-----------------------------------------------------------------------------
\* The points of the code of fn that can be reached from these.
RECURSIVE Reached(_, _, _)
Reached(fn, points, new) ==
  IF new = {} THEN points
  ELSE LET all == points \cup new
       IN  Reached(fn, all, UNION {After(fn, p) : p \in new} \ all)
Points(fn) == Reached(fn, {}, {Point(InTrampoline, Trampoline(fn), Known("binding", 0, {}, {}))})

\* The emitted code tests what each helper gives, on every path, before it goes
\* on (emit_codegen_expr and its callers): what ErrorIffNull rests on.  Only the
\* load of a cell, and the fetch of the exception after it, give a null pointer
\* without one.  What code passes to a function is what the binding of arguments
\* is made for.
KeepsConvention ==
  /\ (~Running /\ result = <<>>) => \A n \in DOMAIN Functions : Certified(Functions[n], Points(Functions[n]))
  /\ bare \subseteq {"load_cell", "get_raised_exception"}
  /\ CallsAreRequests
=============================================================================
