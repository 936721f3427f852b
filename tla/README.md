# A TLA+ development of diet-python

diet-python imports ordinary Python modules, lowers their source through a
series of passes to basic blocks, compiles those with Cranelift and runs the
result inside CPython.  This directory models the parts of it whose behaviour
depends on the order of calls, callbacks and threads, checks them with TLC and
proves their invariants with TLAPS.

## 1. The system

| Part | Source | State it keeps | Operations | Talks to |
|---|---|---|---|---|
| Lowering pipeline | `soac-blockpy/src` | none between runs (name counters) | syntax-tree rewrites, scope analysis, statement and expression lowering, try regions, name binding, generator lowering, block clean-up, instrumentation | hands a lowered module to the evaluator |
| Resume function of a generator | built by `passes/blockpy_generators` | cells `_dp_pc`, `_dp_yieldfrom`, `_dp_throw_context`; locals in cells | one call per resume: dispatch, body, yield and yield-from sites, completion | called by the wrappers; calls the iterators it delegates to |
| Generator, coroutine and async generator objects | `soac_py/src/soac/runtime.py` | `_is_closed`; per awaitable `_send_value`, `_exc`, `_done` | `send`, `throw`, `close`, `asend`, `athrow`, `aclose`, and the steps of an awaitable | user code above, resume function below |
| Module global cache | `soac-eval/src/module_globals.rs`, hooks in `jit/specialized_helpers.rs` | a slot per global name, announcements of own writes, registry and dict watchers | load, store and delete hooks; two watchers; construction and drop | CPython dicts call back, destructors re-enter |
| Module objects | `soac-eval/src/module_type.rs`, `session.rs` | lowered code, constants, counters, the global cache, a compile session id | create, execute, clear, free | import system, garbage collector |
| Function entries and contexts | `soac-eval/src/tree_walk/eval.rs`, `soac-pyo3/src/jit_runtime.rs` | a runtime context per function, compiled or not; a stack of contexts per thread | lazy call, compiled call, `make_bb_function`, `exec_module` | module objects, JIT |
| JIT, constants, counters, planning | `soac-eval/src/jit`, `module_constants.rs`, `counter*.rs` | emitted code; tables built once | code generation | called by function entries |
| Tooling | `soac-inspector`, `soac-macros`, `scripts`, `web`, tests | | | |

`PROJECT.json` lists every component with its status, and every hazard (what is
hard to test, at its line) with the properties that cover it.

What makes each part correct:

* **Generators.** Program counter, delegate and exception context must tell the
  same story at every suspension; an input (sent value, exception, close) must
  reach the place that waits for it, once; a finished frame must stay finished.
* **Async generators.** The same, with several awaitables that share one frame:
  answers go to the driver that caused them, an exception is injected once, an
  internal sentinel never becomes visible, the end is told from errors.
* **Global cache.** A slot that compiled code trusts must hold what Python's own
  lookup would find, whatever destructors, other modules or user code write.
* **Modules and functions.** A function runs with the context of the module it
  was lowered in, on any thread and through any nesting of calls; a module has
  one cache and dumps its counters once.
* **Passes.** Each pass preserves the meaning of the program: the lowered blocks
  do the operations of the source in the source's order, with the source's
  values, and leave through the same handlers; a name reaches the variable that
  the language's scoping rule gives it, in one place, through every closure.

## 2. Modules

```
GeneratorResume          the resume function, as a machine
  ^ EXTENDS
ClosureGenerator         + the generator/coroutine object  --implements-->  GeneratorProtocol
AsyncGenerator           + the async generator object and its awaitables
                                                         --implements-->  AsyncProtocol
ModuleGlobalCache        the cache of module globals
ModuleRuntime            module objects, functions, context stacks

PythonSyntax             trees: expressions, targets, patterns, statements
Evaluation               configurations, and the steps of an expression
  ^ SourceProgram        what the language says a tree does, step by step
  ^ PythonFunction       a function running its source            (abstract)
BasicBlocks              blocks, the passes that need no recursion, validation
ExprLowering, StmtRewrites, StmtLowering, EvalOrder, BlockGraph   from a tree to blocks
BlockMachine             a block graph that runs, and what it relies on
                         (EXTENDS Evaluation, BasicBlocks)
  ^ CompiledFunction     a function running its blocks  --implements-->  PythonFunction

ParamSpecs, PythonCall   parameters of a function; what a call gives them (abstract)
  ^ ArgumentBinding      how the entry of a compiled function binds arguments
ObjectHeap               objects and reference counts
CodeEmission             the code emitted for expressions and calls
  ^ FunctionEmission     the code of blocks, exception dispatch, entry, trampoline
RuntimeHelpers           what the helpers do that this code calls
  ^ JitFrames            functions that run code and call each other
                         (EXTENDS ArgumentBinding, RuntimeHelpers)

NestedScopes             functions and classes in one another, and their names
  ^ PythonScoping        variables of the language's activations  (abstract)
ScopeAnalysis            which cell, slot or dict each scope uses
  ^ NameMachine          activations with slots and cells --implements--> PythonScoping

MC*                      instances for TLC
*_proofs                 theorems
```

### GeneratorResume
One model stands for every generator body: the body is the environment and may,
at each point, reach any yield or yield-from site, raise, return, or leave a
handler.  `at` says where control is within one resume (`dispatch`, `body`,
`delegate`, `exit`, or `idle` between resumes).  `pc`, `yieldFrom` and
`throwContext` are the three cells, `handling` the exception of the block being
run.  The `Dispatch...` actions are the entries the lowering emits per site,
`Ask...` and `Delegate...` the blocks around a yield from: choosing between
`send`, `__next__`, `throw` and `close`, and the delegate yielding, ending,
failing or having no such method.  `log` and `ended` are history.

### ClosureGenerator and GeneratorProtocol
`Send`, `Throw`, `Close` begin a call, `Yielded` and `Raised` end it;
`Coroutine` shares this code.  `GeneratorProtocol` is what a caller relies on
(created, running, suspended, closed; the answer to each call; whom the
generator delegates to) and says nothing of cells or sites.
`ImplementsProtocol` is the refinement: the instance `Protocol` computes the
status from `isClosed`, the running call and whether the frame has begun, and the
delegate from `_dp_yieldfrom` while the frame is suspended.

### AsyncGenerator and AsyncProtocol
`Asend`, `Athrow`, `Aclose` make awaitables, `Send`, `Throw`, `AskDone`, `Drop`
are what a driver does to one, `StepYielded` and `StepRaised` translate how the
resume ended.  Awaitables may be driven in any interleaving; nothing in the code
stops a second one from starting while the first is unfinished, and the history
`overlapped` tells the properties whether that has happened.  A step runs to its
end before the next begins, as on an event loop.

`AsyncProtocol` is what the drivers rely on, for any body: one awaitable at a
time is in the frame, a value passed on leaves it pending, all else completes it,
`StopIteration` never comes out as an exception, and while no two overlap a
pending awaitable is only stepped at the iterator whose value it passed on, and
never refused.  `ImplementsAsyncProtocol` maps the cells and the awaitables' fields to
it; the answer a driver was told last is there so that each completion is tied
to a way out of the frame.

### ModuleGlobalCache
`StoreGlobal` and `DelGlobal` are the hooks up to the point where CPython
changes the dict and lets go of the old value; `calls` is the stack of such
unfinished operations, because the old value's destructor may run any Python
code, other stores included.  `Finish` is the rest of the hook.  `SetOutside`,
`DelOutside`, `ReplaceOutside`, `SetBuiltin`, `DelBuiltin`, `ClearBuiltins` are
other code; `Notify` and the builtins actions run the watcher.  Assumed of
CPython: a watcher is called before the change, and not when a key is set to the
object it already holds.

### ModuleRuntime
`CreateModule`, `ExecModule`, `ExecModuleFails`, `ModuleClear`, `ModuleFree` are
the life of a module object.  `CallLazy` is a first call (compile, push the
context, run), `CallCompiled` a later one (the compiled trampoline pushes
nothing), `Return` ends a call normally or by an exception, `MakeBegin`,
`MakeRefused` and `MakeEnd` are `make_bb_function`, in two steps because Python
code runs while the thread's stack is borrowed; a first call then panics, which
is `CallLazyRefused`.  Assumed of CPython: whoever calls a function holds a
reference to it, and only `exec_module` refers to the module init function.

### From a function's text to its blocks
`PythonSyntax` has the constructors of the trees and `SourceProgram` what a tree
does: it runs until the next *operation* (a call to user code: evaluating an
operand, an attribute, an item, a truth test, a context manager's method), and
says how the operation's value or exception carries on.  `PythonFunction` is the
machine that alternates the two.

`ExprLowering` hoists conditional expressions, boolean operators, comparison
chains and named expressions out of an expression into statements;
`StmtRewrites` rewrites `assert`, `del`, augmented and unpacking assignment,
`with` and `match` to simpler statements; `StmtLowering` turns the rest, with
loops and `try`, into blocks with exception edges, a `finally` being entered
with a *kind* and a *payload* that say why.  `BlockGraph` joins them to
`Compile`: clean-up of blocks, the pass of `EvalOrder`, block parameters.
`BasicBlocks` has what needs no recursion: the blocks, folding of jumps and
branches, the passes that complete the arguments of edges and number the labels,
and the repository's own validation (`block_py/validate.rs`).

`BlockMachine` is what a graph does: a block has only the values it is given as
parameters.  `RunInit` and `RunNext` are the machine alone, answered by any
world; `EnterBlock`, `Execute`, `Compute` and `Dispatch` are its own steps,
`Answer` is the outside world.  It states, too, what the machine needs of its
code beyond validation: a yield is a statement or the value of a store
(`YieldsStandAlone`), and what a dispatch table reads is a kind on every way to
it (`KindsFlow`).

`EvalOrder` is the first pass of generator lowering: an `await` becomes a
`yield from`, `Explicit` and `Hoist` give a temporary to each operand that
contains a yield, and the temporaries are deleted after their statement.  To
suspend is an operation like others here, answered by what is sent or by what is
thrown in; the code then splits each block at the statements that are a yield or
store one, which is right if nothing but slots is kept at a yield
(`SuspendsBetweenStatements`).  What a resume does otherwise is in
`GeneratorResume`.

`CompiledFunction` is the function at run time: `code` is `Compile(program)`,
`m` the machine and `src` the abstract state it stands for.  `GoesOn` is a step
of the machine; `OperationDone` is the outside world answering an operation,
with any value or an exception, of which both hear.  The refinement to `PythonFunction`
(`Implements`) says that operations happen in source order with the same operands
whatever the answers are.  It is checked on functions without one shape, for which
it is false: an operation to the left of an operand that lowering takes out of the
expression, which is a yield, an await, or a boolean, comparison, conditional or
named expression that becomes statements.  `OutOfOrder` has that shape, and
`LeftToRight`, what the repository says of it, is violated there (section 5).

### Names
`NestedScopes` is a program as far as its names go: scopes of three kinds (module,
function, class), what each does with a name (parameter, assigned, deleted,
read, `global`, `nonlocal`), and `VariableScope`, the language's rule for whose
variable it is.  `PythonScoping` runs it: each activation of a scope has its
variable or refers to the one of the activation that made it.  `ScopeAnalysis`
is what `semantic`, `scope.rs` and `name_binding.rs` compute: the binding of the
name in each scope, which scopes own a cell, which cells are passed on as free
variables, and where each load, store and delete goes (`Location`,
`StorePlace`, `ClassFallback`).  `NameMachine` runs that layout: `MakeAndCall`
makes a function with the cells its layout captures and calls it; `Load`,
`Store` and `Delete` may come from any activation at any time, since any of them
may be a suspended generator.

A load without a value is only taken where the code tests for it (a class body,
a global, a slot deleted in its own function), and only bound variables are
deleted; `Accepted` and the conditions `GlobalsHideNothing` and `ParametersKept`
leave out the programs of divergences 13 and 16 of section 5.  Without
`GlobalsHideNothing` TLC finds `OneStorage` violated, without `ParametersKept`
the refinement.  The fall-back of a class-body load to the builtins is left out.

### Calls and references
`BlockMachine` says what a compiled block does; the modules here say how.
`CodeEmission` and `FunctionEmission` are the emitters of `jit/mod.rs` and
`jit/intrinsics.rs`: from an expression, a terminator or a function to a sequence
of instructions on registers (`load_slot`, `incref`, `decref`, a helper, a
branch, a way out).  A register is one SSA value; a block's parameters are its
first registers.  `held`, which no instruction reads, records which registers
still own references where the code leaves a block.  A call takes one of four
forms, as in `emit_codegen_expr`: positional, with keywords (tuple and dict),
with stars (list, dict, then a tuple of the list), or as a known helper.

`ObjectHeap` has objects with counts, freed when the count is zero, with all
that they alone refer to.  `RuntimeHelpers` is `specialized_helpers.rs`: a helper
gives a new reference, or null with an exception set.  `JitFrames` runs the code
of any emitter (the constant operators `Trampoline`, `Entry`, `Body`, `Dispatch`
and `Unwind`, to which `MCJitFrames` gives those of `FunctionEmission`): a stack
of frames, each with registers, slots and the code that is left.
`CallFunction` is a helper that calls a compiled function: `PushCall` enters its
trampoline, the `Bind...` actions are those of `ArgumentBinding`
(`build_function_bound_args`, one action per phase and keyword) with the
references they take, `Enter` is the direct call of the function's entry.  A
helper may fail (`HelperFails`), and one that runs other code may find, when it
is back, that a module's name, a cell or a function's defaults were changed
(`HelpsAndInterferes`).

The convention that the code keeps to is `Certified`: a set of points, each a
place in the code of one function with what is known there (`Known`: which
registers have an object, and whether an exception is clear, set, or set if and
only if one register is null).  `Keeps` says what the code may do at a point with
what is known, `After` at which points it goes on.  It speaks of code alone, one
instruction at a time; no state of the machine occurs in it.

`PythonCall` is the language's rule for a call: which are legal, and what each
parameter gets.  A null argument means that the default is taken, in the entry
code, from the place that `ParamSpecs` computed when the function was compiled.

Left out: which helper an operator gets (one `operate` stands for all), literals,
items and attributes (a helper call like others), `make_function` at run time
(functions exist from the start, with the heap `MakeFunction` gives), direct
calls between compiled functions (only the instrumentation tests emit them), the
hit path of a global's slot (it gives what the helper gives, see
`SlotsFollowGlobals`), the folding of `str` of a constant, and the branches for
null arguments of helpers, which no emitted code takes.  Operands whose helper is
`is_true` or `test` are compared with constants in place of numbers.

## 3. Runs

| Run | Instance | Distinct states | Shows |
|---|---|---|---|
| `generator` | 2 yield and 2 yield-from sites, 2 iterators (one without `throw` and `close`), 1 value, 1 user exception | 9 thousand | cells agree at each suspension, inputs and close arrive, the protocol is implemented |
| `async` | 1 yield, 1 await site, 2 iterators, 2 awaitables | 2.2 million | awaitables, also interleaved, keep answers, exceptions and the end apart; what drivers rely on is implemented |
| `globals` | 2 modules, 1 name, 2 objects, 2 nested calls, lists of 2 announcements | 357 thousand | slots follow the module's dict and the builtins |
| `runtime` | 2 modules, 2 threads, 3 functions, calls 2 deep on each thread | 158 thousand | contexts follow calls, functions are at home, one cache, one dump |
| `lowering` | 1194 functions: every compound statement around small bodies and around each other, chains of `finally` three deep, loops left by `break` and `continue`, statements over expressions two deep, yields and awaits in every kind of expression and statement, all targets, `match` | 670 thousand | each pass leaves the next what it relies on, the blocks are accepted by the repository's validation and fit the machine, pass every variable a block needs, know at the end of a `finally` why it was entered, suspend between statements only, and do the operations of the source, yields among them, in its order; no operation stands to the left of an operand that is taken out of its expression |
| `names` | chains of up to three scopes and pairs of siblings in a module, every legal use of one name in each (about 500 programs), 2 values, 4 activations | 326 thousand | closures carry every cell that is used, one variable is stored in one place, and loads see what the language's rule says |
| `calls` | `main` calls `f` in eight forms for each of four signatures, and bodies with cells, cells read after they were emptied, deleted names, handlers, `finally` and branches; 2 failing helpers, 1 change by other code | 177 thousand | nothing is used after it is freed, every reference is given back on every path, null and exception agree, the emitted code of each function tests what helpers give on every path (`KeepsConvention`, with the hypotheses of the theorems about `JitFrames`), arguments arrive as Python evaluates them and parameters as Python binds them |

Each other run checks one statement of the repository that the code does not
keep (section 5).

Bounds.  Two sites of each kind let a frame move from one site to another of the
same kind, and from one kind to the other; two iterators let a delegate be
replaced, and one without `throw` or `close` takes the other branches.  Two
awaitables are what it takes to overlap.  For the cache, the slots of different
names share no state, so one name is enough; two objects let a value be replaced and
come back; two nested calls let a destructor overtake the store it runs in.
`MaxDepth = 2` per thread gives a call inside a call of another module's
function, and on a second thread; `MaxCalls`, `MaxPending`, `MaxDepth` and
`MaxFeeds` (how often a resume's input is counted) are the only bounds
that are not the size of a set.  The proofs have none of these bounds but
`MaxFeeds`, which only caps a history counter.

`runtime` sets `CHECK_DEADLOCK FALSE`: every module may be freed and every
function dropped, and then nothing more happens.  `lowering` and
`order` set it too: a function ends.

For `lowering`, an operation's answer is one of two values or an exception, so
each truth test and each operation goes every way; three levels are what a
`finally` needs to be left through another one by a jump that begins in a third.
For `names`, one name is enough since the analysis treats names one by one; the
values are symmetric; `MaxFrames` (the module and three activations) gives every
scope of a chain an activation, or one function two.
For `calls`, `MaxFailures = 2` lets a helper fail while an earlier exception is
handled, and `MaxInterference = 1` changes one thing between any two
instructions, which is what a borrowed reference can be hurt by.  The signatures
have each kind of parameter with and without a default; the calls give too few,
enough and too many positional arguments, a keyword for a parameter that is
filled, for a positional-only one and for none.

Fairness.  `CompiledFunction` assumes `WF_vars(GoesOn)`: nothing holds up
machine code between two calls of user code, so the machine keeps stepping.  It
says nothing of `OperationDone`, since user code may never return.  From this
`GetsToNextOperation` follows: the blocks reach the next operation or the end,
so no lowered loop spins on its own.  The other specifications assume none: the code
schedules nothing itself, and whether a caller resumes a generator or drives an
awaitable again is up to the caller.

## 4. Proofs

| Module | Theorems |
|---|---|
| `GeneratorResume_proofs` | the lemmas on one run of the resume machine, for both wrappers: `FrameInv` is kept from the dispatch to the exit, and a frame that has ended runs nothing |
| `ClosureGenerator_proofs` | type correctness; `SuspensionAgrees`, `ThrowContextAgrees`, `StartedInputDelivered`, `CloseReachesDelegate`, `DeadFrameStaysDead`; the refinement of `GeneratorProtocol` |
| `AsyncGenerator_proofs` | type correctness; `ExceptionInjectedOnce`, `PendingMeansAwaiting`, `SentinelStaysInside`, `EndIsGenuine`, and that a dead frame is not run; the refinement of `AsyncProtocol`; for any number of awaitables |
| `ModuleGlobalCache_proofs` | type correctness; `SlotsFollowGlobals`, `SlotsFollowBuiltins`, `PendingIsConsumed`; a load gives what Python's lookup would (`LoadsLikePython`) |
| `ModuleRuntime_proofs` | type correctness; `StackFollowsCalls`, `FunctionsAreAtHome`, `OneCachePerModule`, `DumpedOnce`, `FirstCallMakes` |
| `NameMachine_proofs` | `ClosuresComplete`, `OneStorage`, the refinement of `PythonScoping`, for scope trees of any shape and any number of activations |
| `JitFrames_proofs` | `BoundLikePython` and its invariant, and that the compiled order of defaults is Python's (`DefaultsLikePython`), for functions with any parameters and calls with any arguments; `ErrorIffNull`, for any code that keeps to the convention (`ErrorsAreNull`), and that its frames implement `BindingSpec` (`CallsBindLikePython`) |
| `BlockMachine_proofs` | the passes of `BasicBlocks`: folding keeps the meaning of a block, after the last passes each edge fits its target, no edge is lost, validation accepts the result; the machine, on any code that fits: `SuspendsBetweenStatements`, `DispatchKnowsWhy` |

All hold for every value of the constants that meets the modules' assumptions:
names such as `None` and `NO_DEFAULT` are no site, iterator, value or user
exception, and the iterator's end is none of the other exceptions of the code
(`ConstantsDistinct`, `AsyncConstants`), the builtins dict is no
module's and markers are no values (`CacheConstants`), `None` is no module or
function and the depth is a number (`RuntimeConstants`); a signature lists its
parameters in Python's order and no name twice (`SpecsAssumption`), and neither a
null pointer (`NullAssumption`) nor what marks an empty slot, cell or dict entry
(`ValuesAssumption`) is a value; a program starts with a heap whose functions are
its own, and binds no name to null (`ProgramsAssumption`, `NullIsZero`).

Each module proves one inductive invariant (`IInv`, `BindingInv`,
`ConventionInv`, `MachineInv`),
with one lemma per action.

* *Generators.*  Agreement of the cells at suspension is not inductive: it must
  say where it holds during a resume (at the dispatch and at the exit, not in
  the body), that only a closed object or a resume on its way out has `ended`
  set, and, for `CloseReachesDelegate` and `StartedInputDelivered`, where the
  exception or value is on its way between the dispatch and the body
  (`CloseOnItsWay`, `InputOnItsWay`).  The refinement adds that each way out of
  the frame is a step of the protocol and each step inside it a stutter.
* *Async generators.*  That `PendingMeansAwaiting` and `SentinelStaysInside` are
  kept needs all awaitables at once: until two overlap, at most one is unfinished
  (`OneAtATime`), and if it has been stepped it left the frame awaiting, or the
  generator closed (`BegunMeansAwaiting`).  Exceptions and answers are
  tied to the control point of the running `_step` (`ExcAgrees`,
  `AnswerAgrees`).  Of the resume machine inside a step only `FrameInv` is used.
  The refinement of `AsyncProtocol` maps each operation on an awaitable, and each
  way out of the frame, to one step of the protocol; that a lone pending
  awaitable is stepped at the right iterator is `PendingMeansAwaiting` again.
* *Globals.*  The slot of an unfinished store is stale while no user code can
  run, and only then: `Closing` excepts exactly that slot, `OthersOpen` says
  only the last call can be in that state, and `StoresAreCurrent` that what an
  unfinished store will put in its slot is still in the dict unless the name was
  written again.  `LiveIsWatched` ties registration to the watchers.  A load while
  user code runs then finds a slot that is empty or current, which is
  `LoadsLikePython`.
* *Runtime.*  `StackFollowsCalls` needs to know where on the stack each call
  began, for all calls at once (`Follows`), because a return only knows how
  much its own call pushed.  That a function is at home follows from
  sessions being different for different modules: the context in which
  `make_bb_function` finds the running function can only be its own module's.
  So a context that has been pushed always finds it, which is `FirstCallMakes`.

* *Names.*  `IInv` says that the program is accepted, that no `global` hides an
  outer variable (the assumption above), that `layout` is the layout of the
  program, and that each activation is `Linked`: the cells it was made with are
  those of the activations around it.  The lemmas first show that the analysis
  and the language's rule agree on every scope (`SameRule`), by following the
  chain of scopes around a scope, each with a smaller number than the next.
  The refinement needs to know what the places hold (`Held`): a captured
  parameter has a slot and a cell, which agree as long as another scope uses it,
  and only then; a class namespace has nothing under a name of another scope; and
  each cell belongs to an activation.  Each variable of a frame is read from the
  place where its own scope keeps it, so a step that changes one place changes
  one variable (`PutVariable`), the one that Python's rule names (`Owner`).
* *Calls.*  `BoundLikePython` speaks of the end of binding only.  The inductive
  `BindingInv` says of each point what a parameter has (`Expected`: its
  positional argument, else the value of a keyword seen so far, else null), what
  the dict has (`Collected`), and that no keyword seen so far was one to refuse
  (`Accepted`).  Each refusal is then shown to be of an illegal call
  (`KeywordIllegal`, `MissingIllegal`), and at the end `Collected` is all that
  Python leaves over.  `CallsBindLikePython` carries this over to running code:
  each step of `JitFrames` is one of `BindingNext` or leaves the variables of
  `ArgumentBinding` alone, a new tuple or dict being a place behind the end of the
  heap (references are values, as in `MCJitFrames`); its hypothesis
  `CallsAreRequests` (no keyword twice, nothing null among
  the arguments) is checked by the `calls` run.  `DefaultsLikePython` counts:
  the code numbers defaults from the first parameter that has one, Python from
  the end of the tuple, and the two meet because no parameter without a default
  comes after one with.
* *Null and exception.*  `ErrorIffNull` is not inductive: whether a null pointer
  that a function returns comes with an exception depends on what was known at
  each instruction before, and on callers that wait further down.
  `ConventionInv` says that the frame on top is at a point of its code whose
  knowledge is true of its registers and of the exception (`TopOK`), that each
  frame below is at a call after which its code tests the register of the result
  (`Waits`), that slots, names of the module and bound parameters are never null
  where code relies on it, and that every function object in the heap is of a
  function of the program.  The lemmas say of each of the 29 helpers whether it
  gives an object and leaves the exception alone, or gives null and sets one
  (`HelpersEnd`), also after other code has interfered (`InterferedFacts`), and of
  freeing objects that it makes no new functions (`ReferencesGivenUp`).
  The read of an empty place gives null and sets nothing (section 5, 15).  The code
  cannot tell and goes the way of an error, up to the trampoline, where CPython
  makes a `SystemError` of it (`CheckedResult`).  The history `bare` has the
  helpers of which such a null came; an exception is on its way (`Raising`) when
  one is set or `bare` is not empty, and `Pending` is what the invariant speaks of
  in place of the thread's exception.  The theorem adds that these helpers are
  reads of places that may be empty, or the fetch of the exception after one
  (`NullsAreRead`).
  `ErrorsAreNull` has one hypothesis, `CodeKeepsConvention`, that the code of
  each function has certified points: the `calls` run computes them from the
  emitted code of each of its functions and checks them (`KeepsConvention`); for
  all functions it would be an induction over expressions.  The handler that
  fetches an exception does so only where one is on its way, since a point before
  `get_raised_exception` knows it; it tests what it gets, and leaves the function
  when that is null.
* *Passes.*  The hypotheses are what the passes before leave (`IsGraph`: labels
  are unique and every edge has a target; `JumpsFit`, `BranchesFit`, `EdgesFit`:
  names of arguments and parameters agree), which `CodeAccepted` has TLC check for
  each of the 1194 functions as `PassesFit`.  Completing the arguments of jumps
  then leaves `EdgesFit`, completing those of exception edges and numbering the
  labels leaves what `validate_function` tests, and no pass adds or loses an edge.
* *Machine.*  What a yield leaves behind is a question about the stack of a half
  evaluated expression, so the invariant (`ConfigFits`) gives the shape of that
  stack in every configuration: at its bottom the statement or terminator that
  waits, above it the operands of a yield only if that is a statement, and above
  that operations without one.  For `DispatchKnowsWhy` it adds that each block
  finds a kind in the slots `K` names for it (`Holds`), along jumps with and
  without arguments, into handlers, and past every instruction.  `S` (the
  expressions without a yield) and `K` are any sets for which the code meets
  `CodeFits`; `CodeAccepted` has TLC compute them and check `CodeFits` for the
  code of each function, so its hypothesis is met by all code that is checked.
  The steps of `CompiledFunction` on `code` and `m` are those of `RunNext`, by
  its definition.

Only model-checked, and why:

* `VariablesAgree`, `Implements` of `CompiledFunction`, and that what lowering
  makes meets the hypotheses of the theorems above and gives a handler one
  parameter (`CodeAccepted`; `HandlersOfCode` proves the part of the last passes):
  `SourceProgram`, `ExprLowering`, `StmtRewrites`,
  `StmtLowering` and `EvalOrder` are recursive over trees, and induction over
  trees is out of the prover's reach.
* `KeepsConvention`, `ArgumentsLikePython` and `ParametersLikePython`, which are
  about what `CodeEmission` makes of an expression, and it is recursive over
  expressions.
* `NoDangling` and `Balanced` of `JitFrames`: they are sums over the heap, from
  which freeing an object takes whatever it alone refers to (`FreedBy`), a
  recursion whose result would need induction over the heap.
* `GetsToNextOperation`, a liveness property.

## 5. Where the code and its words part

| Run | Statement | What the code does |
|---|---|---|
| `unstarted_throw` | `plans/generators.md:16,68`: a throw re-enters the right exception region | before the first `next`, the body starts and the exception is lost |
| `order` | `TODO.md:825`, among the completed entries: "an evaluation-order-explicit pass that hoists composite subexpressions into temps while preserving left-to-right evaluation" | `f(q(), (yield))` suspends before it calls `q`, `f(a(), b() and c())` calls `b` before `a`: only the operand that has to leave the expression gets a temporary |
| `rebind` | `module_globals.rs:556,585`: a slot follows writes by others, and a store consumes its own callback | a store of the object already bound leaves its announcement, which hides a later write |
| `drop_unwatches` | `specialized_helpers.rs:1658`: a change of builtins invalidates cached slots | dropping one cache unwatches the builtins dict for all |
| `later_call` | `tests/integration_modules/generator_return_yield_expr.py:16-17`: a second call of a generator function works | the compiled entry pushes no context, so the nested resume function is not found |

The properties of the passing runs except exactly these cases, by name:
`StartedInputDelivered` speaks of started generators and counts that the input
arrives, not how often; `seen` records a rebind or a drop; `FirstCallMakes`
speaks of calls that have pushed their context; the programs of `OutOfOrder` are
only in the run `order`.  One more case is excepted that
no text of the repository speaks of: a destructor that writes the very name
whose store is running leaves the older value in the slot (`"reenter"`).

Further divergences met while modelling.  They have no run; the programs of the
passing runs leave them out, by the definition named, where there is one, except
where it says otherwise.  Texts of the repository speak of some: a test of the 15th
(`tests/integration_modules/class_scope_nonlocal_delete.py:8-16`, where a class body
deletes a variable of the function around it, whose handler is to catch
`UnboundLocalError`), a comment of the 16th (`soac-blockpy/src/driver.rs:157-165`,
of cell operations "against a cell stored in local variables") and the code's own
message of the 23rd:

1. `break` and `continue` in a `try ... finally`, `with` or `except E as x` body
   jump to the loop's label past the `finally` or `__exit__` (`stmt_sequences.rs`).
2. A `try` or `with` nested in a handler shares the outer handler's exception
   slot (`try_regions.rs:316`): a later bare `raise` raises the inner exception.
3. `f(a(), b() and c())` runs `b` before `a`: set-up is hoisted.  The same with a
   yield: only operands that contain one get a temporary (`core_eval_order.rs:57`),
   so `f(q(), (yield))` calls `q` after the resume.  Either shape violates
   `LeftToRight` in the run `order`.  `x + (await g())`, which reads `x` after the
   await, is the same with a variable.
4. A bare `raise` outside a handler, or in a `finally` body, is a `TypeError`.
5. `with c as t[i]`: the assignment to the target is before the `try`, so its
   failure skips `__exit__`.
6. `match`: a failed guard deletes captured names, and alternatives with captures
   evaluate value patterns twice.
7. `and`, `or` and comparison chains may test a value's truth more than once (in
   the model the operands of such tests are booleans).
8. Generated code is accepted by `validate.rs` in some of these cases: the
   validation looks at parameters and edges, not at meaning.
9. A `finally` body that begins with a `while`: the back edge passes `None` for
   the kind and payload (`name_binding.rs:2528-2574`); `FinallyBody` excludes it.
10. The compiled code's exception dispatch passes one value only, so a handler
    block with more parameters would be wrong; `CodeAccepted` shows that
    lowering never makes one.
11. A load of a local that is stored somewhere and deleted nowhere is not tested,
    and gives the internal `DELETED` object when it is unbound
    (`name_binding.rs:1437-1462`); likewise a captured cell read before its
    assignment (`706-735`).
12. `del` of an unbound local is silent.
13. `global x` of an enclosing function or class does not hide an outer function's
    `x` from functions inside it (`semantic/mod.rs:769-790`), and its own stores
    then go to the closure cell.
14. `del` of a missing name in a class body is a `KeyError`, not a `NameError`.
15. After `del` of a closure variable, `load_cell_hook`
    (`specialized_helpers.rs:727-741`) returns null without an exception, since
    `PyCell_Get` sets none.  The handler fetches an exception that is not there,
    gets null, and leaves the function; the caller gets `SystemError` where Python
    has `UnboundLocalError`, which a handler around the read would have caught.
    `load_cell` of `RuntimeHelpers` does so, and programs of the `calls` run read
    cells that they have emptied, in a `try` and outside (`ReadsDeleted`,
    `ReadsDeletedInTry`).
16. A captured parameter lives in two places: its function uses the slot, the
    closure a cell initialised once on entry (`name_binding.rs:784-830`);
    `ParametersKept` excludes assignments to it.
17. A value or exception that a resume has delivered to a `yield` is given again
    to a `yield from` reached in the same resume
    (`blockpy_generators/mod.rs:1283`): `log.feeds` counts two.
18. `f(**a, x=1)` with `x` in `a` overrides silently; Python raises `TypeError`
    (`jit/mod.rs:2327-2454`).  `Requests` has no keyword twice.
19. Calls with stars or keywords look up `list`, `dict` and `tuple_from_iter` as
    names of the module (`jit/mod.rs:2145`), which a module may rebind; and a
    function of the module named `globals`, `str`, `tuple_values`, `cell_ref` or
    `load_deleted_name` is taken for the helper (`jit/mod.rs:633`).
20. When an operand raises, the references to the operands before it in the same
    expression are forgotten, not released: the code leaves for
    `step_null_block` with what it owns.  The history `lost` collects these, and
    `Balanced` counts them as referred to.
21. The position of a default is fixed when the code is compiled.  If
    `__defaults__` is replaced by a tuple of another length, Python counts from
    its end, the code from its start (`param_specs/mod.rs:40`), and whether a
    parameter has a default at all does not change.  Replacements in the `calls`
    run keep the length, or leave no defaults.
22. When `PyTuple_SetItem` fails, `build_function_bound_args` releases a value
    that the call has released already (`eval.rs:547-552`); it cannot fail there.
23. `aclose()` on an async generator that is closed raises `RuntimeError`
    (`runtime.py:366`, "async generator ignored GeneratorExit"), although no frame
    has ignored anything: `athrow` on a closed one ends normally
    (`runtime.py:393`), and `aclose` takes that for a yield.  `AsyncGenerator`
    does so, and `AsyncProtocol` admits it.

## 6. Not modelled, and why

* Of JIT code generation: the choice of helper for an operator, literals,
  rendering, counters in the code, and the build of Cranelift functions around
  the emitted instructions.  Constants, macros, viewers and scripts: translation
  or I/O.
* The syntax-tree rewrites before lowering (comprehensions, class bodies,
  decorators, annotations, f-strings) rewrite to the statements that are
  modelled; of class bodies only the scoping is modelled.
* The cache of direct-call runners (`module_type.rs:91-146`), whose caller does
  not fit it at this commit.
* A generator that resumes itself is a hazard with the reason no property covers
  it.  The capsule that ties compiled data to a function lives in its
  `__dict__`, which `functools.update_wrapper` copies (`eval.rs:306`); a call
  first made while `make_bb_function` runs Python code panics (`eval.rs:145`, the
  action `CallLazyRefused`); `return expr` of a generator is evaluated outside
  the `try` it stands in (`blockpy_generators/mod.rs:773`): nothing in the
  repository says what should happen there.  `StopIteration` raised in
  a generator body (`runtime.py:223`) and the wrap of session ids
  (`session.rs`) are left out: the first is one missing conversion, the second
  needs 2^64 modules.

## 7. Plan

Done, in the order of how much of the system rests on them: generators, the
global cache, modules and functions, lowering of statements, names, calls and
references, evaluation order around yields.  Left:

1. **Reference counts, proved about.**  The points of `Certified` could also say
   which registers own a reference, and `Balanced` follow for any code that keeps
   to it, once what `FreedBy` leaves is stated without recursion.
2. **Counters** - definition, dump and read-back.
3. **NameMachine** extended by comprehensions and `__class__` cells.
