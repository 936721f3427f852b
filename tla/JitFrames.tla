----------------------------- MODULE JitFrames -----------------------------
(***************************************************************************)
(* Compiled functions that run: Python calls one through its trampoline,   *)
(* which binds the arguments (ArgumentBinding) and enters the code; that   *)
(* code calls helpers, and through them other functions.  References are   *)
(* numbers (ObjectHeap), so each step shows who owns what.                 *)
(***************************************************************************)
EXTENDS ArgumentBinding, RuntimeHelpers

CONSTANTS Programs,          \* a set of programs
          MaxFailures,       \* a bound on helpers that fail
          MaxInterference,   \* and on what other code rebinds
          \* The code of a function: its trampoline, its entry, a block, what
          \* is done with an exception that leaves a block, or the entry
          \* (FunctionEmission).
          Trampoline(_), Entry(_), Body(_, _), Dispatch(_, _), Unwind(_)

ASSUME NullIsZero == NULL = Constant("null")
ASSUME ProgramsAssumption ==
  \A p \in Programs :
    /\ IsHeap(p.heap, DOMAIN p.functions)
    /\ p.function \in DOMAIN p.heap /\ p.heap[p.function].kind = "function"
    /\ \A x \in DOMAIN p.globals : p.globals[x] # NULL
    /\ \A n \in DOMAIN p.functions : p.functions[n].spec \in Specs

VARIABLES program,       \* functions, what exists at first, the call that is made
          world,
          frames,        \* the frames of running code, the last one on top
          lost,          \* history: references that code forgot when it left a block
          bare,          \* history: helpers whose null pointer came without an
                         \* exception, as long as it is on its way out
          failures, interference,
          result         \* what the call gave, once it did
frameVars == <<program, world, frames, lost, bare, failures, interference, result>>
vars == <<frameVars, bindingVars>>

-----------------------------------------------------------------------------
Functions == program.functions
Top == frames[Len(frames)]
Running == frames # <<>>
Instr == Head(Top.todo)
IsNext(i) == Running /\ Instr.i = i
Register(r) == Top.regs[r]
Read(rs) == [k \in DOMAIN rs |-> Register(rs[k])]
SetRegister(regs, d, v) == With(regs, d, v)

\* The frame on top continues with the code after this instruction.
Moved(frame, block, regs, slots, todo) ==
  [fn |-> frame.fn, callable |-> frame.callable, block |-> block, regs |-> regs, todo |-> todo, slots |-> slots]
OnTop(block, regs, slots, todo) ==
  frames' = [frames EXCEPT ![Len(frames)] = Moved(Top, block, regs, slots, todo)]
Continue(regs, slots) == OnTop(Top.block, regs, slots, Tail(Top.todo))
\* Only the frame on top changes.
Local == UNCHANGED <<program, world, lost, bare, failures, interference, result, bindingVars>>

\* A frame of function number n, which callable is: of its trampoline, or of
\* its body.
SlotNames(fn) == {fn.slots[k] : k \in DOMAIN fn.slots}
Frame(n, callable, block, regs, todo) ==
  [fn |-> n, callable |-> callable, block |-> block, regs |-> regs, todo |-> todo,
   slots |-> [x \in SlotNames(Functions[n]) |-> Constant("deleted")]]
InTrampoline == -1
InEntry == 0

Init ==
  /\ program \in Programs
  /\ world = [heap |-> program.heap, globals |-> program.globals, raised |-> NULL]
  /\ frames = <<>>
  /\ lost = <<>>
  /\ bare = {}
  /\ failures = 0
  /\ interference = 0
  /\ result = <<>>
  /\ BindingInit

-----------------------------------------------------------------------------
\* A call of function object r: its trampoline starts to bind the arguments.
PushCall(r, args, kwnames, kwvalues) ==
  /\ LET n == world.heap[r].name  fn == Functions[n]
     IN  /\ frames' = Append(frames, Frame(n, r, InTrampoline, <<>>, Trampoline(fn)))
         /\ Begin(Request(fn.spec, args, kwnames, kwvalues))
  /\ UNCHANGED <<program, world, lost, bare, failures, interference, result>>

\* The one call that the environment makes.
Call ==
  /\ ~Running /\ result = <<>>
  /\ PushCall(program.function, program.args, <<>>, <<>>)

\* Binding takes references of its own, and gives them up when it fails; what
\* it does is in ArgumentBinding.
Binding == IsNext("bind") /\ UNCHANGED <<program, frames, lost, bare, interference, result>>
Owning(references) == world' = [world EXCEPT !.heap = IncrefAll(@, references)]
BindPositional == Binding /\ BindPositionals /\ Owning(bound') /\ UNCHANGED failures
BindTuple ==
  /\ Binding
  /\ BindVarArgs(Len(world.heap) + 1)
  /\ IF Takes(Spec0, "VarArg")
     THEN \E o \in GiveNew(world, NewTuple(extras')) : world' = o.world ELSE UNCHANGED world
  /\ UNCHANGED failures
BindDict ==
  /\ Binding
  /\ BindVarKw(Len(world.heap) + 1)
  /\ IF Takes(Spec0, "KwArg")
     THEN \E o \in GiveNew(world, Object("dict", "", <<>>, <<>>)) : world' = o.world ELSE UNCHANGED world
  /\ UNCHANGED failures
BindNamed == Binding /\ BindKeyword /\ Owning(<<request.kwvalues[next]>>) /\ UNCHANGED failures
CollectNamed ==
  /\ Binding
  /\ CollectKeyword
  /\ \E o \in setitem(world, bound[IndexOf(Spec0, "KwArg")], NextName, request.kwvalues[next]) : world' = o.world
  /\ UNCHANGED failures
\* cleanup_state_values
GiveUp == \E o \in Error([world EXCEPT !.heap = DecrefAll(@, bound)]) : world' = o.world
Refuse == Binding /\ (RefusePositionals \/ RefuseKeyword \/ RefuseMissing) /\ GiveUp /\ UNCHANGED failures
BindingFails == Binding /\ failures < MaxFailures /\ NoMemory /\ GiveUp /\ failures' = failures + 1
BindingEnds == Binding /\ Complete /\ UNCHANGED <<world, failures>>

\* The trampoline has what was bound, and enters the function; or returns.
ReturnFirst == <<[i |-> "ret", r |-> 1]>>
TakeBound ==
  /\ IsNext("bind") /\ Take
  /\ IF stage = "bound" THEN Continue(bound, Top.slots)
     ELSE OnTop(Top.block, SetRegister(Top.regs, 1, NULL), Top.slots, ReturnFirst)
  /\ UNCHANGED <<program, world, lost, bare, failures, interference, result>>
Enter ==
  /\ IsNext("enter")
  /\ frames' = Append(frames, Frame(Top.fn, Top.callable, InEntry, Top.regs, Entry(Functions[Top.fn])))
  /\ Local

-----------------------------------------------------------------------------
\* What the instructions do on registers and slots.
LoadSlot_ ==
  IsNext("load_slot") /\ Continue(SetRegister(Top.regs, Instr.d, Top.slots[Instr.x]), Top.slots) /\ Local
StoreSlot_ ==
  IsNext("store_slot") /\ Continue(Top.regs, [Top.slots EXCEPT ![Instr.x] = Register(Instr.r)]) /\ Local
Const_ == IsNext("const") /\ Continue(SetRegister(Top.regs, Instr.d, Constant(Instr.c)), Top.slots) /\ Local
Count(heap) ==
  /\ world' = [world EXCEPT !.heap = heap]
  /\ Continue(Top.regs, Top.slots)
  /\ UNCHANGED <<program, lost, bare, failures, interference, result, bindingVars>>
Incref_ == IsNext("incref") /\ Count(Incref(world.heap, Register(Instr.r)))
Decref_ == IsNext("decref") /\ Count(Decref(world.heap, Register(Instr.r)))
When_ ==
  /\ IsNext("when")
  /\ LET code == IF Register(Instr.r) = Constant(Instr.c) THEN Instr.then ELSE Instr.else
     IN  OnTop(Top.block, Top.regs, Top.slots, code \o Tail(Top.todo))
  /\ Local

\* A block is entered with its parameters; it leaves by a jump, or to where
\* its exceptions go, and then forgets what its registers own.
Goto_ ==
  /\ IsNext("goto")
  /\ LET fn == Functions[Top.fn]
     IN  OnTop(Instr.label, [k \in 1..Instr.n |-> Register(k)], Top.slots, Body(fn, fn.blocks[Instr.label]))
  /\ Local
FailureCode(fn, block) == IF block = InEntry THEN Unwind(fn) ELSE Dispatch(fn, fn.blocks[block])
Fail_ ==
  /\ IsNext("fail")
  /\ OnTop(Top.block, <<>>, Top.slots, FailureCode(Functions[Top.fn], Top.block))
  /\ lost' = lost \o Read(SetToSeq(Instr.held))
  /\ UNCHANGED <<program, world, bare, failures, interference, result, bindingVars>>

\* The value goes to the code that made the call.  Where that is Python, or a
\* helper, CPython looks at it: a null pointer without an exception becomes an
\* error (_Py_CheckFunctionResult).
Leaving == Top.block = InTrampoline
CheckedResult(v) ==
  IF Leaving /\ v = NULL /\ world.raised = NULL THEN {o.world : o \in Error(world)} ELSE {world}
Ret_ ==
  /\ IsNext("ret")
  /\ IF Len(frames) = 1 THEN frames' = <<>> /\ result' = <<Register(Instr.r)>>
     ELSE LET caller == frames[Len(frames) - 1]
              regs == SetRegister(caller.regs, Head(caller.todo).d, Register(Instr.r))
          IN  /\ frames' = [SubSeq(frames, 1, Len(frames) - 1) EXCEPT ![Len(frames) - 1] =
                              Moved(caller, caller.block, regs, caller.slots, Tail(caller.todo))]
              /\ UNCHANGED result
  /\ world' \in CheckedResult(Register(Instr.r))
  /\ bare' = IF Leaving THEN {} ELSE bare
  /\ UNCHANGED <<program, lost, failures, interference, bindingVars>>

-----------------------------------------------------------------------------
\* A helper does its work, raises, or lets other code change something first.
Args == Read(Instr.rs)
CallsFunction == IsNext("helper") /\ Instr.h \in Calls /\ IsFunction(world.heap, Args[1])
CallsHelper == IsNext("helper") /\ ~CallsFunction
Finishes(o) ==
  /\ world' = o.world
  /\ bare' = IF o.value = NULL /\ o.world.raised = NULL THEN bare \cup {Instr.h} ELSE {}
  /\ Continue(SetRegister(Top.regs, Instr.d, o.value), Top.slots)
  /\ UNCHANGED <<program, lost, result, bindingVars>>
Helps ==
  /\ CallsHelper
  /\ \E o \in HelperOutcomes(world, Top.callable, Instr, Args) : Finishes(o)
  /\ UNCHANGED <<failures, interference>>
HelperFails ==
  /\ CallsHelper
  /\ Instr.h \notin NeverRaise
  /\ failures < MaxFailures
  /\ \E o \in Error(world) : Finishes(o)
  /\ failures' = failures + 1
  /\ UNCHANGED interference
HelpsAndInterferes ==
  /\ CallsHelper
  /\ Instr.h \in RunsOtherCode
  /\ interference < MaxInterference
  /\ \E w \in Interfered(world) :
       \E o \in HelperOutcomes(w, Top.callable, Instr, Args) : Finishes(o)
  /\ interference' = interference + 1
  /\ UNCHANGED failures
CallFunction ==
  /\ CallsFunction
  /\ PushCall(Args[1], Passed(world.heap, Instr.h, Args),
              PassedNames(world.heap, Instr.h, Args), PassedNamed(world.heap, Instr.h, Args))

Finished == result # <<>> /\ UNCHANGED vars

Next ==
  \/ Call
  \/ BindPositional \/ BindTuple \/ BindDict \/ BindNamed \/ CollectNamed
  \/ Refuse \/ BindingFails \/ BindingEnds
  \/ TakeBound \/ Enter
  \/ LoadSlot_ \/ StoreSlot_ \/ Const_ \/ Incref_ \/ Decref_ \/ When_
  \/ Goto_ \/ Fail_ \/ Ret_
  \/ Helps \/ HelperFails \/ HelpsAndInterferes \/ CallFunction
  \/ Finished

Spec == Init /\ [][Next]_vars

-----------------------------------------------------------------------------
\* What the next instruction reads.
Operands_ ==
  CASE ~Running -> {}
    [] Instr.i \in {"incref", "decref", "store_slot", "ret"} -> {Instr.r}
    [] Instr.i = "helper" -> ToSet(Instr.rs)
    [] Instr.i = "goto" -> 1..Instr.n
    [] OTHER -> {}
\* The slots that are still read: at its end, a function releases each slot.
Returns(todo) == {k \in DOMAIN todo : todo[k].i = "ret"}
SlotsInUse(frame) ==
  IF Returns(frame.todo) = {} THEN Range(frame.slots)
  ELSE LET read == {k \in DOMAIN frame.todo : frame.todo[k].i = "load_slot" /\ \E n \in Returns(frame.todo) : k < n}
       IN  {frame.slots[frame.todo[k].x] : k \in read}
Used == {Register(r) : r \in Operands_}
        \cup UNION {{frames[f].callable} \cup SlotsInUse(frames[f]) : f \in DOMAIN frames}
        \cup Range(world.globals) \cup {world.raised} \cup ToSet(result) \cup ToSet(bound)
        \cup UNION {ToSet(world.heap[r].items) : r \in DOMAIN world.heap}

\* Nothing is used, or can still be reached from a local variable, a container,
\* the module's names or the exception that is set, after it was freed, and
\* nothing is released more often than it is referred to, whichever helper
\* fails and whatever other code rebinds (emit_codegen_expr, its callers, and
\* the entry and clean-up of a function).
NoDangling ==
  /\ \A r \in Used : Live(world.heap, r)
  /\ \A r \in DOMAIN world.heap : world.heap[r].count >= 0

\* How many references to r there are from outside of running code.
Holders(r) ==
  Times(r, program.held) + Times(r, lost) + Times(r, result) + Times(r, <<world.raised>>)
  + Cardinality({x \in DOMAIN world.globals : world.globals[x] = r})
  + MapThenSumSet(LAMBDA k : Times(r, world.heap[k].items), DOMAIN world.heap)

\* When the call is over, each object is counted as often as it is referred
\* to: what compiled code took it gave back, on every path, except for the
\* operands that it forgets when a later operand raises (see README).
Balanced ==
  result # <<>> =>
    \A r \in DOMAIN world.heap :
      world.heap[r].count = IF world.heap[r].kind = "freed" THEN 0 ELSE Holders(r)

-----------------------------------------------------------------------------
\* How code keeps to the convention of null pointers and exceptions: what is
\* known at a point of the code.  The registers in "objects" have an object,
\* those in "params" what a parameter is bound to; no exception is on its way
\* ("clear"), one is ("set"), or one is if and only if register r has a null
\* pointer ("tested"); or the arguments are still being bound.
Known(exc, r, objects, params) == [exc |-> exc, r |-> r, objects |-> objects, params |-> params]
Point(block, todo, known) == [block |-> block, todo |-> todo, known |-> known]
Gets(s, d) == Known(s.exc, s.r, s.objects \cup {d}, s.params)
Loses(s, d) == Known(s.exc, s.r, s.objects \ {d}, s.params)
Tests(s, d) == Known("tested", d, s.objects \ {d}, s.params)
Raised(s) == Known("set", 0, s.objects, s.params)
Decides(s, r) == s.exc = "tested" /\ s.r = r

ConstantNames == {Immortals[k] : k \in DOMAIN Immortals}
\* The parameters that have a value when a function is entered.
Required(fn) == {i \in DOMAIN fn.spec : ~fn.spec[i].has_default}

\* Code may do this with what is known: it tests what a helper gives before it
\* goes on, uses no register that may have a null pointer as an object, and
\* does not lose what tells whether an exception is set.
MayCall(i, s) ==
  /\ i.h \in Helpers
  /\ i.rs \in Seq(s.objects)
  /\ i.h \in {"store_global", "set_raised", "to_i64"} => Len(i.rs) >= 1
  /\ i.h = "store_cell" => Len(i.rs) >= 2
  /\ i.h = "load_runtime" => i.x \in ConstantNames
  /\ s.exc = IF i.h = "get_raised_exception" THEN "set" ELSE "clear"
Keeps(fn, p) ==
  LET i == Head(p.todo)  s == p.known
  IN  CASE i.i = "load_slot" -> i.x \in SlotNames(fn) /\ ~Decides(s, i.d)
        [] i.i = "store_slot" -> i.x \in SlotNames(fn) /\ i.r \in s.objects
        [] i.i = "const" -> i.c \in ConstantNames \cup {"null"} /\ ~Decides(s, i.d)
        [] i.i = "goto" -> s.exc = "clear" /\ 1..i.n \subseteq s.objects
        [] i.i = "fail" -> s.exc = "set"
        [] i.i = "ret" -> Decides(s, i.r) \/ (s.exc = "clear" /\ i.r \in s.objects)
        [] i.i = "helper" -> MayCall(i, s)
        [] i.i = "bind" -> s.exc = "binding"
        [] i.i = "enter" -> s.exc = "clear"
        [] OTHER -> TRUE

\* What is then known when the code goes on.
AfterCall(i, s) ==
  CASE i.h \in {"set_raised", "raise_deleted_name_error"} -> Raised(Loses(s, i.d))
    [] i.h \in {"tuple_set_item", "is"} -> Gets(s, i.d)
    [] OTHER -> Tests(s, i.d)
AfterConst(i, s) ==
  CASE i.c # "null" -> Gets(s, i.d)
    [] i.c = "null" /\ s.exc = "set" -> Tests(s, i.d)
    [] OTHER -> Loses(s, i.d)
\* A test for null finds none in a register that has an object.
WhenNull(i, s) ==
  IF i.c = "null" /\ Decides(s, i.r) THEN {Raised(Loses(s, i.r))}
  ELSE IF i.c = "null" /\ i.r \in s.objects THEN {} ELSE {s}
WhenNot(i, s) ==
  IF i.c = "null" /\ Decides(s, i.r) THEN Known("clear", 0, s.objects \cup {i.r}, s.params)
  ELSE IF i.c = "null" /\ i.r \in s.params THEN Gets(s, i.r) ELSE s
After(fn, p) ==
  LET i == Head(p.todo)  s == p.known
      On(code, known) == Point(p.block, code \o Tail(p.todo), known)
      Onward(known) == Point(p.block, Tail(p.todo), known)
  IN  CASE i.i = "load_slot" -> {Onward(Gets(s, i.d))}
        [] i.i = "const" -> {Onward(AfterConst(i, s))}
        [] i.i = "when" -> {On(i.then, t) : t \in WhenNull(i, s)} \cup {On(i.else, WhenNot(i, s))}
        [] i.i = "goto" -> {Point(i.label, Body(fn, fn.blocks[i.label]), Known("clear", 0, 1..i.n, {}))}
        [] i.i = "fail" -> {Point(p.block, FailureCode(fn, p.block), Known("set", 0, {}, {}))}
        [] i.i = "ret" -> {}
        [] i.i = "helper" -> {Onward(AfterCall(i, s))}
        [] i.i = "bind" -> {Onward(Known("clear", 0, Required(fn), DOMAIN fn.spec)),
                            Point(p.block, ReturnFirst, Known("tested", 1, {}, {}))}
        [] i.i = "enter" -> {Onward(Tests(s, i.d)), Point(InEntry, Entry(fn), s)}
        [] OTHER -> {Onward(s)}

\* The points of a function are enough, and its code may do what it does there.
Certified(fn, points) ==
  /\ Point(InTrampoline, Trampoline(fn), Known("binding", 0, {}, {})) \in points
  /\ \A p \in points : Keeps(fn, p) /\ After(fn, p) \subseteq points

\* An exception is on its way out of the code on top: it is set, or should be,
\* for a null pointer is on its way.
Raising == world.raised # NULL \/ bare # {}

\* Code returns a null pointer exactly when an exception is on its way, goes to
\* a handler or out of the function only with one, and from block to block and
\* into other functions only without.  If the null pointer came without an
\* exception (load_cell_hook of an empty cell), no handler of the function gets
\* to run and its caller finds an error.
ErrorIffNull ==
  /\ IsNext("ret") => (Register(Instr.r) = NULL <=> Raising)
  /\ IsNext("fail") => Raising
  /\ IsNext("goto") \/ IsNext("enter") => ~Raising

\* What the binding of arguments relies on: it is given requests it can have.
CallsAreRequests == stage = "positionals" => request \in Requests

\* What Python evaluates the arguments of call e to, in its frame; NULL stands
\* for a value that is not a local variable's.
Evaluated(e, frame) == IF e.e = "load" /\ e.place = "local" THEN frame.slots[e.x] ELSE NULL
Positionals(e, frame) ==
  FlattenSeq([k \in DOMAIN e.args |->
    LET v == Evaluated(e.args[k].value, frame)
    IN  IF e.args[k].star THEN world.heap[v].items ELSE <<v>>])
KeywordNames(e, frame) ==
  FlattenSeq([k \in DOMAIN e.keywords |->
    LET v == Evaluated(e.keywords[k].value, frame)
    IN  IF e.keywords[k].name = "**" THEN world.heap[v].names ELSE <<e.keywords[k].name>>])
KeywordValues(e, frame) ==
  FlattenSeq([k \in DOMAIN e.keywords |->
    LET v == Evaluated(e.keywords[k].value, frame)
    IN  IF e.keywords[k].name = "**" THEN world.heap[v].items ELSE <<v>>])
Matches(expected, actual) ==
  Len(expected) = Len(actual) /\ \A k \in DOMAIN actual : expected[k] \in {NULL, actual[k]}

\* A call passes to the function the values that its arguments, starred ones
\* and keywords have in Python, in their order, whichever form of call the
\* code uses (emit_positional_vectorcall, and tuples and dicts that are built).
ArgumentsLikePython ==
  (stage = "positionals" /\ Len(frames) > 1) =>
    LET caller == frames[Len(frames) - 1]
        e == Head(caller.todo).of[1]
    IN  /\ Matches(Positionals(e, caller), request.args)
        /\ request.kwnames = KeywordNames(e, caller)
        /\ Matches(KeywordValues(e, caller), request.kwvalues)

\* Python takes the defaults of positional parameters from the end of
\* __defaults__, and those of the others from __kwdefaults__.
PythonDefault(function, i) ==
  LET defaults == world.heap[function.items[1]].items
      kwdefaults == world.heap[function.items[2]]
  IN  IF Spec0[i].kind = "KwOnly"
      THEN kwdefaults.items[CHOOSE k \in DOMAIN kwdefaults.names : kwdefaults.names[k] = Spec0[i].name]
      ELSE defaults[Len(defaults) - (positional_capacity(Spec0) - i)]

\* When the body of a function starts, each parameter's variable has what
\* Python gives it: the argument, a tuple or dict of the others, or the
\* default that the function has at the time of the call.
ParametersLikePython ==
  (IsNext("goto") /\ Top.block = InEntry) =>
    \A i \in DOMAIN Spec0 :
      LET v == Top.slots[Spec0[i].name]
      IN  CASE Spec0[i].kind = "VarArg" -> world.heap[v].items = Surplus(request)
            [] Spec0[i].kind = "KwArg" ->
                 /\ ToSet(world.heap[v].names) = Unclaimed(request)
                 /\ \A k \in DOMAIN world.heap[v].names :
                      world.heap[v].items[k] = KeywordValue(request, world.heap[v].names[k])
            [] OTHER -> v = IF Given(request, i) THEN ValueOf(request, i)
                            ELSE PythonDefault(world.heap[Top.callable], i)
=============================================================================
