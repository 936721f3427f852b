--------------------------- MODULE ModuleRuntime ---------------------------
(***************************************************************************)
(* Transformed modules at run time: the state of a module object           *)
(* (soac-eval/src/module_type.rs), the functions made from its lowered     *)
(* code (soac-pyo3/src/jit_runtime.rs), their vectorcall entries, and the  *)
(* per-thread stack of active module runtime contexts that tells           *)
(* make_bb_function which module's code is running                         *)
(* (soac-eval/src/tree_walk/eval.rs).                                      *)
(*                                                                         *)
(* User code is the environment: any thread may call any function that     *)
(* exists, and a running function may make a function nested in its code,  *)
(* return or raise.  A context is abstracted to its module and the global  *)
(* cache it has; constants and globals come with the module.  Compilation  *)
(* is one step; one that fails changes nothing modelled here.              *)
(***************************************************************************)
EXTENDS Naturals, Sequences

CONSTANTS
  Modules,     (* module objects                                             *)
  Threads,     (* Python threads                                             *)
  Objs,        (* function objects                                           *)
  MaxDepth     (* bound: the calls of transformed functions on one thread    *)

None == "None"

ASSUME RuntimeConstants ==
  None \notin Modules /\ None \notin Objs /\ MaxDepth \in Nat

VARIABLES
  eager,         (* DIET_PYTHON_JIT_COMPILE_MODE=eager                       *)
  nextSession,   (* NEXT_COMPILE_SESSION_ID                                  *)
  session,       (* the compile session in a module's FunctionIds, 0 if none *)
  state,         (* SoacExtModuleState of each module object                 *)
  caches,        (* how many global caches were built on a module's dict     *)
  dumps,         (* how often a module's counters were dumped                *)
  object,        (* the function objects                                     *)
  frames,        (* the transformed functions each thread is inside          *)
  stack,         (* ACTIVE_MODULE_RUNTIME_STACK of each thread               *)
  refused        (* history: contexts pushed by frames whose request for a   *)
                 (* nested function was refused                              *)

modules == <<nextSession, session, state, caches, dumps>>
vars    == <<eager, modules, object, frames, stack, refused>>

\* A ModuleRuntimeContext: its module, and which cache built there it has.
Context   == [home : Modules, cache : Nat]
NoContext == [home |-> None, cache |-> 0]

\* What a function object holds: the module whose lowered code it runs, the
\* session in its FunctionId, its own clone of a runtime context, and whether
\* its entry is compiled.
Function == [code : Modules \cup {None}, id : Nat,
             context : Context \cup {NoContext}, compiled : BOOLEAN]
NoFunction == [code |-> None, id |-> 0, context |-> NoContext, compiled |-> FALSE]

\* A call: the function, the height of the context stack when it began, the
\* contexts pushed for it, whether exec_module makes it, and the context that
\* make_bb_function has borrowed for it.
Frame == [callee : Objs, base : Nat, pushed : 0..2, exec : BOOLEAN,
          making : Context \cup {NoContext}]

NewFrameAbsolute(o, b, n, x) ==     \* mutant: the height, not what was pushed
  [callee |-> o, base |-> b, pushed |-> b + n, exec |-> x, making |-> NoContext]

NewFrame(o, b, n, x) ==
  [callee |-> o, base |-> b, pushed |-> n, exec |-> x, making |-> NoContext]

TypeOK ==
  /\ eager \in BOOLEAN
  /\ nextSession \in Nat
  /\ session \in [Modules -> Nat]
  /\ state \in [Modules -> {"absent", "initialized", "cleared", "freed"}]
  /\ caches \in [Modules -> Nat] /\ dumps \in [Modules -> Nat]
  /\ object \in [Objs -> Function]
  /\ frames \in [Threads -> Seq(Frame)]
  /\ stack \in [Threads -> Seq(Context)]
  /\ refused \subseteq 0..2

Init ==
  /\ eager \in BOOLEAN
  /\ nextSession = 1
  /\ session = [m \in Modules |-> 0]
  /\ state = [m \in Modules |-> "absent"]
  /\ caches = [m \in Modules |-> 0] /\ dumps = [m \in Modules |-> 0]
  /\ object = [o \in Objs |-> NoFunction]
  /\ frames = [t \in Threads |-> <<>>]
  /\ stack = [t \in Threads |-> <<>>]
  /\ refused = {}

-----------------------------------------------------------------------------
Exists(o)  == object[o].code # None
Depth(t)   == Len(frames[t])
Top(t)     == frames[t][Depth(t)]
Callees(t) == {frames[t][i].callee : i \in 1..Depth(t)}

\* exec_module alone refers to the module init function it runs.
IsInit(o) ==
  \E t \in Threads : \E i \in 1..Depth(t) : frames[t][i].exec /\ frames[t][i].callee = o
Callable(o) == Exists(o) /\ ~IsInit(o)

\* make_bb_function keeps the thread's stack borrowed while it works.
Borrowed(t) == \E i \in 1..Depth(t) : frames[t][i].making # NoContext

Executing(m) ==
  \E t \in Threads : \E i \in 1..Depth(t) :
    frames[t][i].exec /\ object[frames[t][i].callee].code = m

-----------------------------------------------------------------------------
CreateModuleSameSession(m) ==     \* mutant: every module is compiled in session 1
  /\ state[m] = "absent"
  /\ session' = [session EXCEPT ![m] = nextSession]
  /\ state' = [state EXCEPT ![m] = "initialized"]
  /\ UNCHANGED <<eager, nextSession, caches, dumps, object, frames, stack, refused>>

\* create_module: lower the source under a fresh session and store the result
\* in the state of a new module object.
CreateModule(m) ==
  /\ state[m] = "absent"
  /\ session' = [session EXCEPT ![m] = nextSession]
  /\ nextSession' = nextSession + 1
  /\ state' = [state EXCEPT ![m] = "initialized"]
  /\ UNCHANGED <<eager, caches, dumps, object, frames, stack, refused>>

CachesForEachRun(m) ==     \* mutant: global_cache_initialized is not set
  [caches EXCEPT ![m] = IF @ < 2 THEN @ + 1 ELSE @]

\* clone_or_init_global_cache: the module's one cache, built when first asked for.
CachesFor(m) == [caches EXCEPT ![m] = 1]

Runtime(m) == [home |-> m, cache |-> CachesFor(m)[m]]

\* exec_module: build a context, instantiate _dp_module_init from it, push the
\* context and call that function, whose lazy entry pushes its own.  It may be
\* run again (reload), and inside other calls (import).
ExecModule(t, m, o) ==
  /\ state[m] = "initialized"
  /\ ~Exists(o) /\ Depth(t) < MaxDepth /\ ~Borrowed(t)
  /\ caches' = CachesFor(m)
  /\ object' = [object EXCEPT ![o] =
       [code |-> m, id |-> session[m], context |-> Runtime(m), compiled |-> TRUE]]
  /\ frames' = [frames EXCEPT ![t] =
       Append(@, NewFrame(o, Len(stack[t]), IF eager THEN 1 ELSE 2, TRUE))]
  /\ stack' = [stack EXCEPT ![t] =
       IF eager THEN Append(@, Runtime(m)) ELSE Append(Append(@, Runtime(m)), Runtime(m))]
  /\ UNCHANGED <<eager, nextSession, session, state, dumps, refused>>

\* It fails before the call: the cache it has built stays with the module.
ExecModuleFails(m) ==
  /\ state[m] = "initialized"
  /\ caches' = CachesFor(m)
  /\ UNCHANGED <<eager, nextSession, session, state, dumps, object, frames, stack, refused>>

ClearStateAgain(m) ==     \* mutant: clear() leaves `initialized` set
  dumps' = [dumps EXCEPT ![m] = @ + 1]

\* SoacExtModuleState::clear: dump the counters and drop the state, once.
ClearState(m) ==
  dumps' = [dumps EXCEPT ![m] = IF state[m] = "initialized" THEN @ + 1 ELSE @]

\* The collector clears the module object, or its last reference goes.  A
\* module that is being executed is referenced; its functions are not enough.
Release(m, after) ==
  /\ state[m] \in {"initialized", "cleared"} /\ state[m] # after
  /\ ~Executing(m)
  /\ ClearState(m)
  /\ state' = [state EXCEPT ![m] = after]
  /\ UNCHANGED <<eager, nextSession, session, caches, object, frames, stack, refused>>

ModuleClear(m) == Release(m, "cleared")
ModuleFree(m)  == Release(m, "freed")

-----------------------------------------------------------------------------
\* A first call, through lazy_clif_vectorcall: compile, set the function's
\* entry, push its context, and run.
CallLazy(t, o) ==
  /\ Callable(o) /\ ~object[o].compiled
  /\ Depth(t) < MaxDepth /\ ~Borrowed(t)
  /\ object' = [object EXCEPT ![o].compiled = TRUE]
  /\ frames' = [frames EXCEPT ![t] = Append(@, NewFrame(o, Len(stack[t]), 1, FALSE))]
  /\ stack' = [stack EXCEPT ![t] = Append(@, object[o].context)]
  /\ UNCHANGED <<eager, modules, refused>>

\* A first call that gets no further than compilation: the stack is borrowed
\* and the push panics, or Py_EnterRecursiveCall refuses.
CallLazyRefused(t, o) ==
  /\ Callable(o) /\ ~object[o].compiled
  /\ object' = [object EXCEPT ![o].compiled = TRUE]
  /\ UNCHANGED <<eager, modules, frames, stack, refused>>

\* A later call, through the compiled trampoline: it pushes nothing.
CallCompiled(t, o) ==
  /\ Callable(o) /\ object[o].compiled
  /\ Depth(t) < MaxDepth
  /\ frames' = [frames EXCEPT ![t] = Append(@, NewFrame(o, Len(stack[t]), 0, FALSE))]
  /\ UNCHANGED <<eager, modules, object, stack, refused>>

PopKeeping(t) ==     \* mutant: the guard is not dropped when a request fails
  [stack EXCEPT ![t] = IF Top(t).making = NoContext
                       THEN SubSeq(@, 1, Len(@) - Top(t).pushed) ELSE @]

\* Each guard pops what it pushed.
Pop(t) == [stack EXCEPT ![t] = SubSeq(@, 1, Len(@) - Top(t).pushed)]

\* The function on top returns or raises, also out of an unfinished request
\* for a nested function.  Module init is dropped with exec_module's call.
Return(t) ==
  /\ Depth(t) > 0
  /\ frames' = [frames EXCEPT ![t] = SubSeq(@, 1, Len(@) - 1)]
  /\ stack' = Pop(t)
  /\ object' = IF Top(t).exec THEN [object EXCEPT ![Top(t).callee] = NoFunction] ELSE object
  /\ UNCHANGED <<eager, modules, refused>>

\* The last reference to a function goes; its callers hold one.
FreeFunction(o) ==
  /\ Exists(o) /\ \A t \in Threads : o \notin Callees(t)
  /\ object' = [object EXCEPT ![o] = NoFunction]
  /\ UNCHANGED <<eager, modules, frames, stack, refused>>

-----------------------------------------------------------------------------
CurrentIsFirst(t) ==     \* mutant: the oldest context, not the newest
  stack[t][1]

Current(t) == stack[t][Len(stack[t])]

\* lookup_function by FunctionId in the module whose context is on top.
Found(t) == stack[t] # <<>> /\ session[Current(t).home] = object[Top(t).callee].id

\* make_bb_function begins, for a function nested in the running one.
MakeBegin(t) ==
  /\ Depth(t) > 0 /\ Top(t).making = NoContext
  /\ Found(t)
  /\ frames' = [frames EXCEPT ![t][Depth(t)].making = Current(t)]
  /\ UNCHANGED <<eager, modules, object, stack, refused>>

\* "missing active module runtime context", or the module on top does not
\* have the function: RuntimeError in the running function.
MakeRefused(t) ==
  /\ Depth(t) > 0 /\ Top(t).making = NoContext
  /\ ~Found(t)
  /\ refused' = refused \cup {Top(t).pushed}
  /\ UNCHANGED <<eager, modules, object, frames, stack>>

\* It ends, with a clone of the borrowed context registered on the function.
MakeEnd(t, o) ==
  /\ Depth(t) > 0 /\ Top(t).making # NoContext
  /\ ~Exists(o)
  /\ object' = [object EXCEPT ![o] =
       [code |-> object[Top(t).callee].code, id |-> object[Top(t).callee].id,
        context |-> Top(t).making, compiled |-> eager]]
  /\ frames' = [frames EXCEPT ![t][Depth(t)].making = NoContext]
  /\ UNCHANGED <<eager, modules, stack, refused>>

Next ==
  \/ \E m \in Modules : CreateModule(m) \/ ExecModuleFails(m) \/ ModuleClear(m) \/ ModuleFree(m)
  \/ \E t \in Threads, m \in Modules, o \in Objs : ExecModule(t, m, o)
  \/ \E t \in Threads, o \in Objs :
       CallLazy(t, o) \/ CallLazyRefused(t, o) \/ CallCompiled(t, o) \/ MakeEnd(t, o)
  \/ \E t \in Threads : Return(t) \/ MakeBegin(t) \/ MakeRefused(t)
  \/ \E o \in Objs : FreeFunction(o)

Spec == Init /\ [][Next]_vars

-----------------------------------------------------------------------------
\* The context stack of a thread follows its calls: what each call pushed lies
\* between what was there before it and the next call, and is of the module
\* whose code the call runs.  So a thread that is in no call has no context,
\* however the calls ended.
StackFollowsCalls ==
  \A t \in Threads :
    /\ Depth(t) = 0 => stack[t] = <<>>
    /\ \A i \in 1..Depth(t) :
         LET f == frames[t][i]
             after == IF i = Depth(t) THEN Len(stack[t]) ELSE frames[t][i + 1].base IN
         /\ f.base + f.pushed = after
         /\ \A k \in f.base + 1 .. after : stack[t][k].home = object[f.callee].code

\* A function runs with the globals, constants and cache of the module its
\* code was lowered in, although the module that makes it is found on a stack
\* where calls of other modules' functions have left theirs.
FunctionsAreAtHome ==
  \A o \in Objs : Exists(o) => object[o].context.home = object[o].code

\* All functions of a module share one global cache, also when the module is
\* executed again after a reload or after an execution that failed.
OneCachePerModule ==
  \A o, p \in Objs :
    Exists(o) /\ Exists(p) /\ object[o].code = object[p].code
      => object[o].context = object[p].context

\* The counters of a module that is freed were dumped, and once: the collector
\* may or may not have cleared the module before.
DumpedOnce ==
  \A m \in Modules : dumps[m] = IF state[m] \in {"cleared", "freed"} THEN 1 ELSE 0

\* A call that has pushed its context (every first call) is given the nested
\* functions it asks for.
FirstCallMakes == refused \subseteq {0}

\* tests/integration_modules/generator_return_yield_expr.py:16, `g2 =
\* module.gen("x")`, and :17, `assert next(g2) == "x"`: a second call of a
\* function from code that is not transformed can make its nested functions.
LaterCallMakes == ~eager => 0 \notin refused
=============================================================================
