---------------------------- MODULE BlockMachine ----------------------------
(***************************************************************************)
(* What the machine code made from the blocks of a function does.  A       *)
(* function has one slot for each name; a block's parameters are slots     *)
(* that a jump sets.                                                       *)
(*                                                                         *)
(* A configuration is one of Evaluation with the position of the block     *)
(* it is in: env holds the slots, "run" has the instructions left to do,   *)
(* and "jump" is about to go to a block with arguments.                    *)
(***************************************************************************)
EXTENDS Evaluation, BasicBlocks

\* The number that stands for a kind in machine code.
abrupt_kind_tag(k) == (CHOOSE i \in DOMAIN AbruptKinds : AbruptKinds[i] = k) - 1
KindValue(k) == Value("kind", k)

Slot(env, x) == IF x \in DOMAIN env THEN env[x] ELSE DELETED
ArgValue(env, arg) ==
  CASE arg.a = "name" -> Slot(env, arg.name)
    [] arg.a = "none" -> None
    [] arg.a = "kind" -> KindValue(arg.kind)

Machine(env) == [do |-> "jump", on |-> [to |-> 1, args |-> <<>>], k |-> <<>>, env |-> env, at |-> 1]
Go(c, to, args) == [c EXCEPT !.do = "jump", !.on = [to |-> to, args |-> args]]

\* Arguments are for the last parameters; the others keep their value.
TargetSlots(env, target, args) ==
  LET names == {target.params[i].name : i \in DOMAIN target.params}
      position(x) == CHOOSE i \in DOMAIN target.params : target.params[i].name = x
      implicit == Len(target.params) - Len(args)
      value(x) == IF position(x) <= implicit THEN Slot(env, x)
                  ELSE ArgValue(env, args[position(x) - implicit])
  IN  [x \in DOMAIN env \cup names |-> IF x \in names THEN value(x) ELSE env[x]]

\* The one value that is passed to a handler is the exception.
EnterHandler(c, to, exc, bs) ==
  LET params == bs[to].params
      c1 == [c EXCEPT !.k = <<>>]
  IN  Go(IF params = <<>> THEN c1 ELSE Bind(c1, params[1].name, exc), to, <<>>)

Enter(c, bs) ==
  LET b == bs[c.on.to]
  IN  [Run(c, b.body) EXCEPT !.at = c.on.to, !.env = TargetSlots(@, b, c.on.args)]

\* An instruction, with the rest of its block after it.
InstrStep(c, s, rest) ==
  CASE s.i = "store" -> Eval(Push(c, [f |-> "store", name |-> s.name, rest |-> rest]), s.value)
    [] s.i = "eval" -> Eval(Push(c, [f |-> "instr", rest |-> rest]), s.value)
    [] s.i = "del" -> Run(Unbind(c, s.name), rest)   \* stores DELETED, whatever is there

TermStep(c, t) ==
  CASE t.t = "jump" -> Go(c, t.to, t.args)
    [] t.t = "if" -> Eval(Push(c, [f |-> "branch", term |-> t]), t.test)
    [] t.t = "table" -> Eval(Push(c, [f |-> "table", term |-> t]), t.index)
    [] t.t = "return" -> Eval(Push(c, [f |-> "return"]), t.value)
    [] t.t = "raise" -> IF t.exc = <<>> THEN Throw(c, Exception("TypeError"))   \* raise_from(None)
                        ELSE Eval(Push(c, [f |-> "raise"]), t.exc[1])

\* A load gives what the slot holds, unless it is one that tests it.
load_deleted_name(c, v) == IF v = DELETED THEN Throw(c, Unbound) ELSE Give(c, v)
\* Helpers of compiled code; the others are as in the source.
HelperStep(c) ==
  LET a == c.on IN
  CASE a.e = "load" -> Give(c, Slot(c.env, a.name))
    [] a.e = "load_deleted_name" -> load_deleted_name(c, Slot(c.env, a.name))
    [] a.e = "exception_matches" -> Eval(Push(c, [f |-> "matching", typ |-> a.typ]), a.arg)
    [] a.e = "is_complete" -> Eval(Push(c, [f |-> "is", val |-> ITER_COMPLETE]), a.arg)
    [] a.e = "element" -> Eval(Push(c, [f |-> "element", index |-> a.index]), a.arg)
    [] a.e = "contextmanager_exit" -> Eval(Push(c, [f |-> "manager", exc |-> a.exc]), a.manager)
    [] OTHER -> EvalStep(c)

Destination(table, tag) ==
  IF tag < Len(table.targets) THEN table.targets[tag + 1] ELSE table.default
Bool(p) == IF p THEN True ELSE False
FrameStep(c0) ==
  LET v == c0.on  fr == Head(c0.k)  c == [c0 EXCEPT !.k = Tail(@)] IN
  CASE fr.f = "store" -> Run(Bind(c, fr.name, v), fr.rest)
    [] fr.f = "instr" -> Run(c, fr.rest)
    [] fr.f = "branch" -> Go(c, IF Truthy(v) THEN fr.term.then ELSE fr.term.else, <<>>)
    [] fr.f = "table" ->
         IF v.kind = "kind" THEN Go(c, Destination(fr.term, abrupt_kind_tag(v.what)), <<>>)
         ELSE Throw(c, Exception("TypeError"))
    [] fr.f = "raise" -> Throw(c, IF v.kind = "exception" THEN v ELSE Exception("TypeError"))
    [] fr.f = "matching" -> Give(c, Bool(CatchesException(fr.typ, v)))
    [] fr.f = "is" -> Give(c, Bool(v = fr.val))
    [] fr.f = "element" -> Give(c, ElementOf(fr.index))
    [] fr.f = "manager" -> Eval(Push(c, [f |-> "exiting", manager |-> v]), fr.exc)
    [] fr.f = "exiting" ->
         Ask(IF v = None THEN c ELSE Push(c, [f |-> "suppressed", exc |-> v]), "exit", <<fr.manager, v>>)
    [] fr.f = "suppressed" -> IF Truthy(v) THEN Give(c, None) ELSE Throw(c, fr.exc)
    [] OTHER -> ValueStep(c0)

Handled(c, bs) == c.do = "end" /\ c.on.how = "raise" /\ bs[c.at].exc # NoLabel

-----------------------------------------------------------------------------
CONSTANT Env     \* the variables that are bound at the start

VARIABLES code,   \* the blocks
          m       \* the machine

\* The machine enters the next block.
EnterBlock ==
  /\ m.do = "jump"
  /\ m' = Enter(m, code)
  /\ UNCHANGED code

\* It starts the next instruction of its block, or ends the block.
Execute ==
  /\ m.do = "run"
  /\ m' = IF m.on = <<>> THEN TermStep(m, code[m.at].term) ELSE InstrStep(m, Head(m.on), Tail(m.on))
  /\ UNCHANGED code

\* It computes an expression, or does something with a value.
Compute ==
  /\ m.do \in {"eval", "value"}
  /\ m' = IF m.do = "eval" THEN HelperStep(m) ELSE FrameStep(m)
  /\ UNCHANGED code

\* An exception leaves a block for its handler.
Dispatch ==
  /\ Handled(m, code)
  /\ m' = EnterHandler(m, code[m.at].exc, m.on.val, code)
  /\ UNCHANGED code

\* The operation that the machine asked for returns or raises.
Answer(a) ==
  /\ m' = IF a.how = "raise" THEN Throw(m, a.val) ELSE Give(m, a.val)
  /\ UNCHANGED code

MachineStep == EnterBlock \/ Execute \/ Compute \/ Dispatch

\* Some blocks run by themselves; operations answer anything they can.
RunInit == m = Machine(Env)
RunNext == MachineStep \/ (m.do = "ask" /\ \E a \in Answers(m.on) : Answer(a))
RunSpec == RunInit /\ [][RunNext]_<<code, m>>

-----------------------------------------------------------------------------
\* A function suspends between two statements: nothing but its slots and the
\* place to go on at is kept while it is suspended, so no yield may be inside
\* an expression that is half evaluated (lower_stmt_no_yield panics at one).
SuspendsBetweenStatements ==
  (m.do = "ask" /\ m.on.op \in {"yield", "yield_from"}) =>
    Len(m.k) = 1 /\ Head(m.k).f \in {"store", "instr"}

\* When a finally body is over, the code still knows why it was entered
\* (abrupt kind and payload, populate_jump_edge_args).
DispatchKnowsWhy ==
  (m.do = "value" /\ Head(m.k).f = "table") => m.on.kind = "kind"

-----------------------------------------------------------------------------
(* What the two rely on: properties of the code, block by block. *)

\* Expressions of code that hold no yield, the operands of each among them.
YieldFree(S) ==
  \A a \in S :
    \/ a.e \in {"const", "load", "load_deleted_name"}
    \/ a.e = "op" /\ ~ Suspends(a) /\ a.args \in Seq(S)
    \/ a.e \in {"not", "is_complete", "element", "exception_matches"} /\ a.arg \in S
    \/ a.e = "contextmanager_exit" /\ a.manager \in S /\ a.exc \in S

\* A yield is the whole value of a statement; all else is in S.
InstrFits(s, S) ==
  \/ s.i \in {"store", "eval"} /\ (s.value \in S \/ (Suspends(s.value) /\ s.value.args \in Seq(S)))
  \/ s.i = "del"
TermFits(x, S) ==
  \/ x.t = "jump"
  \/ x.t = "if" /\ x.test \in S
  \/ x.t = "table" /\ x.index \in S /\ IsSeq(x.targets)
  \/ x.t = "return" /\ x.value \in S
  \/ x.t = "raise" /\ x.exc \in Seq(S)
YieldsStandAlone(bs, S) ==
  /\ YieldFree(S)
  /\ \A i \in DOMAIN bs : /\ IsSeq(bs[i].body) /\ TermFits(bs[i].term, S)
                          /\ \A j \in DOMAIN bs[i].body : InstrFits(bs[i].body[j], S)

\* K: for each block, slots that hold why a finally body was entered when the
\* block begins.  EdgeKeeps: one of them does if the edge from b, which knows
\* such slots, is taken with these arguments.
PassesKind(known, arg) ==
  \/ arg.a = "kind" /\ arg.kind \in {AbruptKinds[i] : i \in DOMAIN AbruptKinds}
  \/ arg.a = "name" /\ arg.name \in known
EdgeKeeps(x, known, target, args) ==
  LET implicit == Len(target.params) - Len(args)
      places == {j \in DOMAIN target.params : target.params[j].name = x}
  IN  /\ places = {} => x \in known
      /\ \A j \in places : IF j <= implicit THEN x \in known
                            ELSE PassesKind(known, args[j - implicit])
HandlerKeeps(x, known, target) ==
  x \in known /\ \A j \in DOMAIN target.params : target.params[j].name # x
BlockKeeps(x, b) == \A j \in DOMAIN b.body : b.body[j].i \in {"store", "del"} => b.body[j].name # x
\* Such a slot is not written in the block, every way to the block sets it or
\* leaves it so, and a table reads one.
KindsFlow(bs, K) ==
  /\ 1 \in DOMAIN bs /\ K[1] = {}
  /\ \A i \in DOMAIN bs :
       /\ IsSeq(bs[i].params)
       /\ \A x \in K[i] : BlockKeeps(x, bs[i])
       /\ bs[i].exc # NoLabel => \A x \in K[bs[i].exc] : HandlerKeeps(x, K[i], bs[bs[i].exc])
       /\ \A to \in blockpy_successors(bs[i]) : \A x \in K[to] :
            EdgeKeeps(x, K[i], bs[to], EdgeArgs(bs[i]))
       /\ bs[i].term.t = "table" =>
            bs[i].term.index.e = "load" /\ bs[i].term.index.name \in K[i]
=============================================================================
