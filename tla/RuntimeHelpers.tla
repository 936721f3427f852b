--------------------------- MODULE RuntimeHelpers ---------------------------
(***************************************************************************)
(* What the helpers do that compiled code calls: each borrows its operands *)
(* and gives a new reference, or a null pointer when it set an exception.  *)
(* A world is the heap, what the module's names are bound to, and the      *)
(* exception that is set, if any.                                          *)
(***************************************************************************)
EXTENDS ObjectHeap, ParamSpecs

Outcome(world, value) == [world |-> world, value |-> value]
Allocate(world, object) == [world EXCEPT !.heap = Append(@, object)]
Newest(world) == Len(world.heap)
With(f, x, v) == [y \in DOMAIN f \cup {x} |-> IF y = x THEN v ELSE f[y]]

\* A new reference to r; to a new object, which refers to its items.
Give(world, r) == {Outcome([world EXCEPT !.heap = Incref(@, r)], r)}
GiveNew(world, object) ==
  LET w == Allocate([world EXCEPT !.heap = IncrefAll(@, object.items)], object)
  IN  {Outcome(w, Newest(w))}

\* An exception is set in place of the one that is.
SetException(world, r) == [world EXCEPT !.heap = Decref(@, world.raised), !.raised = r]
Error(world) ==
  LET w == Allocate(world, Object("exception", "", <<>>, <<>>))
  IN  {Outcome(SetException(w, Newest(w)), Constant("null"))}

\* What changes r in the heap and gives None.
Done(heap, world) == {Outcome([world EXCEPT !.heap = heap], Constant("None"))}

-----------------------------------------------------------------------------
\* Names of the module, and builtins.
load_global(world, name) ==
  IF name \in DOMAIN world.globals THEN Give(world, world.globals[name])
  ELSE IF \E k \in DOMAIN Immortals : Immortals[k] = name THEN Give(world, Constant(name))
  ELSE Error(world)
Unbind(world, name) ==
  [world EXCEPT !.heap = Decref(@, world.globals[name]),
                !.globals = [n \in DOMAIN world.globals \ {name} |-> world.globals[n]]]
store_global(world, name, v) ==
  LET w == IF name \in DOMAIN world.globals THEN Unbind([world EXCEPT !.heap = Incref(@, v)], name)
           ELSE [world EXCEPT !.heap = Incref(@, v)]
  IN  {Outcome([w EXCEPT !.globals = With(@, name, v)], Constant("None"))}
del_global(world, name, h) ==
  IF name \in DOMAIN world.globals THEN {Outcome(Unbind(world, name), Constant("None"))}
  ELSE IF h = "del_global_quietly" THEN Give(world, Constant("None")) ELSE Error(world)

\* Cells; a function has its defaults, keyword defaults and closure.
\* PyCell_Get of an empty cell gives a null pointer and sets no exception.
load_cell(world, cell) ==
  IF world.heap[cell].items = <<>> THEN {Outcome(world, Constant("null"))} ELSE Give(world, world.heap[cell].items[1])
\* The value is given back, not None.
store_cell(world, cell, v) ==
  {Outcome([world EXCEPT !.heap = SetItems(IncrefAll(@, <<v, v>>), cell, <<v>>)], v)}
\* An empty cell may be emptied again, quietly or not.
del_deref(world, cell) == Done(SetItems(world.heap, cell, <<>>), world)
function_closure_cell(world, callable, k) ==
  LET closure == world.heap[callable].items[3]
  IN  IF closure < 0 \/ k > Len(world.heap[closure].items) THEN Error(world)
      ELSE Give(world, world.heap[closure].items[k])
function_positional_default(world, callable, k) ==
  LET defaults == world.heap[callable].items[1]
  IN  IF defaults < 0 THEN Error(world)
      ELSE IF k > Len(world.heap[defaults].items) THEN Error(world)
      ELSE Give(world, world.heap[defaults].items[k])
function_kwonly_default(world, callable, name) ==
  LET kwdefaults == world.heap[callable].items[2]
      at == IF kwdefaults < 0 THEN {}
            ELSE {k \in DOMAIN world.heap[kwdefaults].names : world.heap[kwdefaults].names[k] = name}
  IN  IF at = {} THEN Error(world)
      ELSE Give(world, world.heap[kwdefaults].items[CHOOSE k \in at : TRUE])

\* The tuple takes the reference over.
tuple_set_item(world, tuple, k, v) == Done([world.heap EXCEPT ![tuple].items[k] = v], world)
setitem(world, dict, name, v) == Done(SetNamed(Incref(world.heap, v), dict, name, v), world)
bound_method(world, name, r) == GiveNew(world, Object("method", name, <<>>, <<r>>))

raise_deleted_name_error(world) == Error(world)
\* raise_from_exc_hook; PyErr_GetRaisedException hands the exception over.
set_raised(world, exc) ==
  {Outcome(SetException([world EXCEPT !.heap = Incref(@, exc)], exc), Constant("null"))}
PyErr_Occurred(world) == {Outcome(world, world.raised)}   \* for a mutant
get_raised_exception(world) == {Outcome([world EXCEPT !.raised = Constant("null")], world.raised)}

-----------------------------------------------------------------------------
\* What a call of a callable passes: its arguments, and names with values.
Calls == {"vectorcall", "call_positional", "call_object", "call_with_kw"}
Passed(heap, h, args) ==
  IF h \in {"call_object", "call_with_kw"}
  THEN IF args[2] < 0 THEN <<>> ELSE heap[args[2]].items
  ELSE Tail(args)
PassedNames(heap, h, args) == IF h = "call_with_kw" THEN heap[args[3]].names ELSE <<>>
PassedNamed(heap, h, args) == IF h = "call_with_kw" THEN heap[args[3]].items ELSE <<>>
IsFunction(heap, r) == r \in DOMAIN heap /\ heap[r].kind = "function"

\* Other code, of which it is only known that it keeps counts right: it gives
\* something new, or an argument of its own.
Operate(world, args) ==
  GiveNew(world, Plain) \cup (IF args = <<>> THEN {} ELSE Give(world, args[1]))

CallMethodOf(world, method, v) ==
  LET heap == world.heap  self == heap[method].items[1]
  IN  CASE heap[method].name = "append" ->
             Done([Incref(heap, v) EXCEPT ![self].items = Append(@, v)], world)
        [] heap[method].name = "extend" ->
             IF v > 0 /\ heap[v].kind \in {"tuple", "list"}
             THEN Done([IncrefAll(heap, heap[v].items) EXCEPT ![self].items = @ \o heap[v].items], world)
             ELSE Error(world)
        [] OTHER ->   \* update
             IF v > 0 /\ heap[v].kind = "dict"
             THEN Done(SetAllNamed(IncrefAll(heap, heap[v].items), self, heap[v].names, heap[v].items), world)
             ELSE Error(world)

\* A call of anything but a compiled function.
CallOther(world, h, args) ==
  LET callable == args[1]  passed == Passed(world.heap, h, args)
  IN  CASE callable = Constant("list") -> GiveNew(world, Object("list", "", <<>>, <<>>))
        [] callable = Constant("dict") -> GiveNew(world, Object("dict", "", <<>>, <<>>))
        [] callable = Constant("tuple_from_iter") ->
             GiveNew(world, NewTuple(world.heap[passed[1]].items))
        [] callable = Constant("raise_from") ->
             GiveNew(world, Object("exception", "", <<>>, <<>>))
             \cup (IF passed[1] > 0 THEN Give(world, passed[1]) ELSE {})
        [] callable > 0 /\ world.heap[callable].kind = "method" -> CallMethodOf(world, callable, passed[1])
        [] OTHER -> Operate(world, passed)

\* What the helper of an instruction can do, in a call of callable, if nothing
\* goes wrong: with a variable or a default, with other objects, with a call.
VariableHelpers ==
  {"load_global", "load_runtime", "store_global", "del_global", "del_global_quietly", "make_cell",
   "load_cell", "store_cell", "del_deref", "del_deref_quietly",
   "function_closure_cell", "defaults", "kwdefaults"}
VariableOutcomes(world, callable, instr, args) ==
  LET h == instr.h  x == instr.x  n == instr.n
  IN  CASE h = "load_global" -> load_global(world, x)
        [] h = "load_runtime" -> Give(world, Constant(x))
        [] h = "store_global" -> store_global(world, x, args[1])
        [] h \in {"del_global", "del_global_quietly"} -> del_global(world, x, h)
        [] h = "make_cell" -> GiveNew(world, Object("cell", "", <<>>, args))
        [] h = "load_cell" -> load_cell(world, args[1])
        [] h = "store_cell" -> store_cell(world, args[1], args[2])
        [] h \in {"del_deref", "del_deref_quietly"} -> del_deref(world, args[1])
        [] h = "function_closure_cell" -> function_closure_cell(world, callable, n)
        [] h = "defaults" -> function_positional_default(world, callable, n)
        [] h = "kwdefaults" -> function_kwonly_default(world, callable, x)
ObjectHelpers ==
  {"tuple_new", "tuple_set_item", "setitem", "getattr", "raise_deleted_name_error", "set_raised",
   "get_raised_exception", "is", "is_true", "test", "to_i64", "operate"}
ObjectOutcomes(world, instr, args) ==
  LET h == instr.h  x == instr.x  n == instr.n
  IN  CASE h = "tuple_new" -> GiveNew(world, NewTuple([k \in 1..n |-> Constant("null")]))
        [] h = "tuple_set_item" -> tuple_set_item(world, args[1], n, args[2])
        [] h = "setitem" -> setitem(world, args[1], x, args[2])
        [] h = "getattr" -> bound_method(world, x, args[1])
        [] h = "raise_deleted_name_error" -> raise_deleted_name_error(world)
        [] h = "set_raised" -> set_raised(world, args[1])
        [] h = "get_raised_exception" -> get_raised_exception(world)
        [] h = "is" -> Give(world, IF args[1] = args[2] THEN Constant("True") ELSE Constant("False"))
        [] h \in {"is_true", "test"} -> Give(world, Constant("True")) \cup Give(world, Constant("False"))
        [] h = "to_i64" -> Give(world, args[1])
        [] h = "operate" -> Operate(world, args)
Helpers == VariableHelpers \cup ObjectHelpers \cup Calls
HelperOutcomes(world, callable, instr, args) ==
  IF instr.h \in VariableHelpers THEN VariableOutcomes(world, callable, instr, args)
  ELSE IF instr.h \in ObjectHelpers THEN ObjectOutcomes(world, instr, args)
  ELSE CallOther(world, instr.h, args)

\* The helpers that never raise, and those that run other code, which may
\* rebind a name of the module, what a cell holds, or a function's defaults.
NeverRaise == {"tuple_set_item", "set_raised", "get_raised_exception", "is", "raise_deleted_name_error"}
RunsOtherCode == {"operate", "test", "is_true"} \cup Calls
Interfered(world) ==
  LET w == Allocate(world, Plain)  new == Newest(w)
      Kind(kind) == {r \in DOMAIN w.heap : w.heap[r].kind = kind}
      WithDefaults == {r \in Kind("function") : w.heap[r].items[1] > 0}
      OtherDefaults(r) == [k \in DOMAIN w.heap[w.heap[r].items[1]].items |-> IF k = 1 THEN new ELSE Constant("None")]
  IN  {[w EXCEPT !.heap = Decref(@, w.globals[x]), !.globals[x] = new] : x \in DOMAIN w.globals}
      \cup {[w EXCEPT !.heap = SetItems(@, r, <<new>>)] : r \in Kind("cell")}
      \cup {[w EXCEPT !.heap = SetItem(Append(@, NewTuple(OtherDefaults(r))), r, 1, new + 1)] : r \in WithDefaults}
      \cup {[world EXCEPT !.heap = SetItem(@, r, 1, Constant("None"))] : r \in WithDefaults}

-----------------------------------------------------------------------------
\* split_param_defaults: the values of all defaults, in the parameters' order,
\* into those for __defaults__ and those for __kwdefaults__.
WithDefault(spec) == SelectSeq([i \in DOMAIN spec |-> i], LAMBDA i : spec[i].has_default)
split_param_defaults(spec, values, kinds) ==
  LET at == WithDefault(spec)
      chosen == SelectSeq([k \in DOMAIN at |-> k], LAMBDA k : spec[at[k]].kind \in kinds)
  IN  [names |-> [k \in DOMAIN chosen |-> spec[at[chosen[k]]].name],
       items |-> [k \in DOMAIN chosen |-> values[chosen[k]]]]

\* make_bb_function: function number n of the module, whose items are moved in.
MakeFunction(heap, n, spec, values, cells) ==
  LET positional == split_param_defaults(spec, values, PositionalKinds)
      keyword == split_param_defaults(spec, values, {"KwOnly"})
      first == Len(heap)
      Used(items, object) == IF items = <<>> THEN Freed ELSE object
      Ref(items, r) == IF items = <<>> THEN Constant("None") ELSE r
  IN  heap \o
      <<Used(positional.items, NewTuple(positional.items)),
        Used(keyword.items, Object("dict", "", keyword.names, keyword.items)),
        Used(cells, NewTuple(cells)),
        Object("function", n, <<>>,
               <<Ref(positional.items, first + 1), Ref(keyword.items, first + 2), Ref(cells, first + 3)>>)>>
=============================================================================
