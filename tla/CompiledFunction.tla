-------------------------- MODULE CompiledFunction --------------------------
(***************************************************************************)
(* A function that was compiled to blocks, running next to its source: the *)
(* machine gets from block to block by itself, and every operation it asks *)
(* for is answered to both.                                                *)
(***************************************************************************)
EXTENDS SourceProgram, BlockGraph, BlockMachine

CONSTANT Programs   \* a set of function bodies

VARIABLES program,    \* the body that runs
          src         \* the source: a history variable, read by no action's guard
vars == <<program, code, m, src>>

Init ==
  /\ program \in Programs
  /\ code = Compile(program)
  /\ RunInit
  /\ src = Start(program, Env)

\* The machine goes on by itself.
GoesOn == MachineStep /\ UNCHANGED <<program, src>>

\* What an operation answers reaches the machine and the source.
OperationDone ==
  /\ m.do = "ask"
  /\ \E a \in Answers(m.on) : Answer(a) /\ src' = Reply(src, a)
  /\ UNCHANGED program

Next == GoesOn \/ OperationDone

Spec == Init /\ [][Next]_vars /\ WF_vars(GoesOn)

-----------------------------------------------------------------------------
Resting == m.do = "ask" \/ (m.do = "end" /\ ~ Handled(m, code))
Observed == IF Resting THEN Seen(m) ELSE Result("busy", None)

\* The blocks do what the source says: the same operations on the same
\* values in the same order, for all that operations return and raise, and
\* the same end (lowering of a function body, finalize_try_regions above all).
\* It holds of functions without an operand whose operation stands to the left
\* of an operand that lowering takes out of the expression (LeftToRight).
Python == INSTANCE PythonFunction WITH out <- Observed
Implements == Python!Spec

\* TODO.md:825, "an evaluation-order-explicit pass that hoists composite
\* subexpressions into temps while preserving left-to-right evaluation": what
\* the blocks ask for next is what the source asks for next.
LeftToRight == m.do = "ask" => src.do = "ask" /\ m.on = src.on

\* Blocks that go round without asking for anything would hang the program:
\* the edges between finally bodies, loops and handlers never make such a ring.
GetsToNextOperation == ~ Resting ~> Resting

\* While an operation runs, and at the end, the variables of the source have
\* the values that its author expects, whatever temporaries the rewrites added.
Locals(env) == [x \in {y \in DOMAIN env : y[2] = 0} |-> env[x]]
VariablesAgree == Resting => Locals(m.env) = src.env

\* Lowering and the passes that make new blocks leave to the others what those
\* rely on (BasicBlocks).
SplitFits(bs) == IsGraph(bs) /\ EdgesFit(bs)
ExplicitFits(explicit) ==
  /\ IsGraph(explicit.bs) /\ JumpsFit(explicit.bs) /\ BranchesFit(explicit.bs)
  /\ SplitFits(SplitBlocks(explicit))
LoweringFits(low) == IsGraph(OrderedBlocks(low)) /\ ExplicitFits(ExplicitBlocks(low))
PassesFit == LoweringFits(LowerBody(program))

\* The expressions of code, each with its operands, but for the yields that are
\* the value of a statement.
RECURSIVE WithOperandsOf(_)
WithOperandsOf(a) ==
  {a} \cup CASE a.e = "op" -> UNION {WithOperandsOf(a.args[i]) : i \in DOMAIN a.args}
             [] a.e \in {"not", "is_complete", "element", "exception_matches"} -> WithOperandsOf(a.arg)
             [] a.e = "contextmanager_exit" -> WithOperandsOf(a.manager) \cup WithOperandsOf(a.exc)
             [] OTHER -> {}
Whole(b) ==
  {b.body[i].value : i \in {j \in DOMAIN b.body : b.body[j].i # "del"}}
    \cup CASE b.term.t = "if" -> {b.term.test}
           [] b.term.t = "table" -> {b.term.index}
           [] b.term.t = "return" -> {b.term.value}
           [] b.term.t = "raise" -> {b.term.exc[i] : i \in DOMAIN b.term.exc}
           [] OTHER -> {}
PlainExpressions(bs) ==
  UNION {WithOperandsOf(a) \ (IF Suspends(a) THEN {a} ELSE {}) :
           a \in UNION {Whole(bs[i]) : i \in DOMAIN bs}}

\* The slots that hold why a finally body was entered, found by taking away
\* from all that might those that do not, until none is left to be taken.
KindNames(bs) ==
  {p.name : p \in {q \in UNION {{bs[i].params[j] : j \in DOMAIN bs[i].params} : i \in DOMAIN bs} :
                     q.role = "AbruptKind"}}
RECURSIVE Kept(_, _)
Kept(bs, K) ==
  LET keeps(x, i) ==
        /\ i # 1 /\ BlockKeeps(x, bs[i])
        /\ \A j \in DOMAIN bs :
             /\ bs[j].exc = i => HandlerKeeps(x, K[j], bs[i])
             /\ i \in blockpy_successors(bs[j]) => EdgeKeeps(x, K[j], bs[i], EdgeArgs(bs[j]))
      L == [i \in DOMAIN bs |-> {x \in K[i] : keeps(x, i)}]
  IN  IF L = K THEN K ELSE Kept(bs, L)
KindSlots(bs) == Kept(bs, [i \in DOMAIN bs |-> KindNames(bs)])

\* The code that passes an exception on passes one value: no handler has a
\* second parameter (exception dispatch of the JIT, try_regions.rs).
HandlersTakeOneValue ==
  \A i \in DOMAIN code : code[i].exc # NoLabel => Len(code[code[i].exc].params) <= 1

\* The compiler accepts what it made (validate_function), and would not by
\* chance: before the last two passes each edge fits its target already, no
\* handler needs more than the exception, and the code is such as its machine
\* relies on (BlockMachine).
CodeAccepted ==
  /\ m.at = 1 => validate_function(code) /\ HandlersTakeOneValue
  /\ m = Machine(Env) =>
       PassesFit /\ YieldsStandAlone(code, PlainExpressions(code)) /\ KindsFlow(code, KindSlots(code))
=============================================================================
