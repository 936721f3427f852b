-------------------------- MODULE FunctionEmission --------------------------
(***************************************************************************)
(* The code that the JIT emits for a function: its blocks, what each does  *)
(* when an exception leaves it, the entry that puts the arguments into     *)
(* their slots, and the trampoline by which Python calls the entry.        *)
(*                                                                         *)
(* A function has params (see ParamSpecs), slots, and blocks.  The last of *)
(* a block's "full" parameters get the arguments of a jump; those that are *)
(* among its "params" come in registers.  Its exc says which block handles *)
(* an exception, none if 0, and what is written to slots on the way.       *)
(***************************************************************************)
EXTENDS CodeEmission, ParamSpecs

NoHandler == [target |-> 0, args |-> <<>>]
Block(full, params, body, term, exc) ==
  [full |-> full, params |-> params, body |-> body, term |-> term, exc |-> exc]
Jump(target, args) == [t |-> "jump", target |-> target, args |-> args]
If(test, then, else) == [t |-> "if", test |-> test, then |-> then, else |-> else]
BranchTable(index, targets, default) == [t |-> "table", index |-> index, targets |-> targets, default |-> default]
Return(value) == [t |-> "return", value |-> value]
Raise(exc) == [t |-> "raise", exc |-> <<exc>>]
ReRaise == [t |-> "raise", exc |-> <<>>]

\* The argument of a jump, or of an exception edge: a name, a constant, or the
\* exception.
FromName(x) == [a |-> "name", x |-> x]
FromConst(c) == [a |-> "const", x |-> c]
CurrentException == [a |-> "exception", x |-> ""]

Handler(target, args) == [target |-> target, args |-> args]
Among(x, names) == \E k \in DOMAIN names : names[k] = x

-----------------------------------------------------------------------------
\* The argument for parameter x of a block, if the jump names one.
Explicit(block, args, x) ==
  {k \in DOMAIN args : block.full[Len(block.full) - Len(args) + k] = x}

\* emit_explicit_target_slot_writes_codegen: one after the other.
SlotWrites(block, args) ==
  FlattenSeq([k \in DOMAIN args |->
    LET x == block.full[Len(block.full) - Len(args) + k]
    IN  IF Among(x, block.params) THEN <<>>
        ELSE (IF args[k].a = "name" THEN LoadSlot(1, args[k].x) ELSE Const(1, args[k].x)) \o Replace(x, 1, 2)])

\* emit_prepare_target_args_codegen: register k owns what is for parameter k.
TargetArgs(block, args) ==
  FlattenSeq([k \in DOMAIN block.params |->
    LET given == Explicit(block, args, block.params[k])
        arg == IF given = {} THEN FromName(block.params[k]) ELSE args[CHOOSE j \in given : TRUE]
    IN  (IF arg.a = "name" THEN LoadSlot(k, arg.x) ELSE Const(k, arg.x)) \o Inc(k)])
Leave(fn, target, args) ==
  TargetArgs(fn.blocks[target], args) \o Goto(target, Len(fn.blocks[target].params))

\* Every slot gives up its object.
ReleaseSlots(fn, t) == FlattenSeq([k \in DOMAIN fn.slots |-> LoadSlot(t, fn.slots[k]) \o Dec(t)])
Cleanup(fn) == ReleaseSlots(fn, 1) \o Const(1, "null") \o Ret(1)

\* emit_truthy_from_owned, emit_branch_index_i64
Truthy(r, d) == Helper(d, "is_true", "", <<r>>) \o Dec(r) \o Check(d, {})
BranchIndex(index, d) == Emit(index, 1, FALSE, {}) \o Helper(d, "to_i64", "", <<1>>) \o Dec(1)

EmitIf(fn, term) ==
  Emit(term.test, 1, FALSE, {}) \o Truthy(1, 2)
  \o When(2, "True", Leave(fn, term.then, <<>>), Leave(fn, term.else, <<>>))
\* The tags of the targets are the numbers from 0.
EmitTable(fn, term) ==
  BranchIndex(term.index, 2) \o Check(2, {})
  \o FlattenSeq([k \in DOMAIN term.targets |->
       When(2, <<"0", "1">>[k], Leave(fn, term.targets[k], <<>>), <<>>)])
  \o Leave(fn, term.default, <<>>)
EmitRaise(term) ==
  Helper(1, "load_runtime", "raise_from", <<>>) \o Check(1, {})
  \o (IF term.exc = <<>> THEN NoneTo(2) ELSE Emit(term.exc[1], 2, FALSE, {1}))
  \o NoneTo(3)
  \o Helper(4, "call_positional", "", <<1, 2, 3>>) \o Decs(<<3, 2, 1>>) \o Check(4, {})
  \o Helper(0, "set_raised", "", <<4>>) \o Dec(4) \o Fail({})
EmitTerm(fn, term) ==
  CASE term.t = "jump" ->
         SlotWrites(fn.blocks[term.target], term.args) \o Leave(fn, term.target, term.args)
    [] term.t = "if" -> EmitIf(fn, term)
    [] term.t = "table" -> EmitTable(fn, term)
    [] term.t = "return" -> Emit(term.value, 1, FALSE, {}) \o ReleaseSlots(fn, 2) \o Ret(1)
    [] term.t = "raise" -> EmitRaise(term)

\* emit_codegen_ops: what a statement gives is released.
Ops(body) == FlattenSeq([k \in DOMAIN body |-> Emit(body[k], 1, FALSE, {}) \o Dec(1)])
BlockCode(fn, block) ==
  LET params == block.params
  IN  FlattenSeq([k \in DOMAIN params |-> Replace(params[k], k, Len(params) + 1) \o Dec(k)])
      \o Ops(block.body)
      \o EmitTerm(fn, block.term)

\* exc_dispatch_plan, emit_exception_dispatch_slot_writes
DispatchWrites(target, args) ==
  FlattenSeq([k \in DOMAIN args |->
    IF Among(target.full[k], target.params) THEN <<>>
    ELSE CASE args[k].a = "exception" -> Replace(target.full[k], 1, 3)
           [] args[k].a = "name" -> LoadSlot(2, args[k].x) \o Replace(target.full[k], 2, 3)
           [] args[k].a = "const" -> Const(2, args[k].x) \o Replace(target.full[k], 2, 3)])
\* Where an exception goes that leaves the block.
DispatchCode(fn, block) ==
  LET target == fn.blocks[block.exc.target]
  IN  IF block.exc.target = 0 THEN Cleanup(fn)
      ELSE Helper(1, "get_raised_exception", "", <<>>) \o When(1, "null", Cleanup(fn), <<>>)
           \o DispatchWrites(target, block.exc.args)
           \o (IF target.params = <<>> THEN Dec(1) ELSE <<>>)
           \o Goto(block.exc.target, Len(target.params))

-----------------------------------------------------------------------------
\* A parameter takes its argument, or its default when there is none.
BindParam(spec, i, t) ==
  LET name == spec[i].name
      source == DefaultSource(spec, i)
      default == HelperFor(t, source.from, name, source.index, <<>>, <<>>)
                 \o Check(t, {}) \o Replace(name, t, t + 1) \o Dec(t)
  IN  IF source.from = "nowhere" THEN Replace(name, i, t)
      ELSE When(i, "null", default, Replace(name, i, t))
EntryCode(fn) ==
  FlattenSeq([i \in DOMAIN fn.spec |-> BindParam(fn.spec, i, Len(fn.spec) + 1)]) \o Leave(fn, 1, <<>>)

\* compile_cranelift_vectorcall_direct_trampoline
TrampolineCode(fn) ==
  LET n == Len(fn.spec)
  IN  <<[i |-> "bind"]>> \o <<[i |-> "enter", d |-> n + 1]>>
      \o FlattenSeq([k \in 1..n |-> Dec(k)]) \o Ret(n + 1)
=============================================================================
