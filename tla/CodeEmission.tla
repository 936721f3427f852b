---------------------------- MODULE CodeEmission ----------------------------
(***************************************************************************)
(* The code that the JIT emits for expressions: a sequence of instructions *)
(* on registers.  A register owns a reference to its object, unless it was *)
(* borrowed from a local variable.  A helper gives a null pointer when it  *)
(* raised an exception, and the code then leaves the block.                *)
(***************************************************************************)
EXTENDS Integers, Sequences, FiniteSetsExt, SequencesExt

\* Expressions.  An argument has a star, a keyword the name "**".
Load(place, x) == [e |-> "load", place |-> place, x |-> x]
Op(helper, args) == [e |-> "op", helper |-> helper, args |-> args]
Store(place, x, value) == [e |-> "store", place |-> place, x |-> x, value |-> value]
Del(place, x, quietly) == [e |-> "del", place |-> place, x |-> x, quietly |-> quietly]
CellRef(place, x) == [e |-> "cell_ref", place |-> place, x |-> x]
CallExpr(func, args, keywords) == [e |-> "call", func |-> func, args |-> args, keywords |-> keywords]
Arg(value) == [star |-> FALSE, value |-> value]
StarArg(value) == [star |-> TRUE, value |-> value]
Named(name, value) == [name |-> name, value |-> value]
StarNamed(value) == Named("**", value)

\* Instructions, each as a sequence of one.
LoadSlot(d, x) == <<[i |-> "load_slot", d |-> d, x |-> x]>>
StoreSlot(x, r) == <<[i |-> "store_slot", r |-> r, x |-> x]>>
Const(d, c) == <<[i |-> "const", d |-> d, c |-> c]>>
Inc(r) == <<[i |-> "incref", r |-> r]>>
Dec(r) == <<[i |-> "decref", r |-> r]>>
\* The helper h for name x or place n, on what is in the registers rs; of is the
\* call that it is for, if any.
HelperFor(d, h, x, n, rs, of) == <<[i |-> "helper", d |-> d, h |-> h, x |-> x, n |-> n, rs |-> rs, of |-> of]>>
Helper(d, h, x, rs) == HelperFor(d, h, x, 0, rs, <<>>)
PlaceHelper(d, h, n, rs) == HelperFor(d, h, "", n, rs, <<>>)
CallHelper(d, h, rs, of) == HelperFor(d, h, "", 0, rs, <<of>>)
When(r, c, then, else) == <<[i |-> "when", r |-> r, c |-> c, then |-> then, else |-> else]>>
\* "held" is a history variable of the emission: the registers of enclosing
\* expressions that own references when control leaves.
Fail(held) == <<[i |-> "fail", held |-> held]>>
Goto(label, n) == <<[i |-> "goto", label |-> label, n |-> n]>>
Ret(r) == <<[i |-> "ret", r |-> r]>>

Decs(rs) == FlattenSeq([k \in DOMAIN rs |-> Dec(rs[k])])
CheckKeeping(r, drop, held) == When(r, "null", Fail(held), <<>>)
CheckDropping(r, drop, held) == When(r, "null", Decs(drop) \o Fail(held), <<>>)
Check(r, held) == CheckDropping(r, <<>>, held)

\* replace_cloned_value, through register t
Replace(x, r, t) == LoadSlot(t, x) \o Inc(r) \o StoreSlot(x, r) \o Dec(t)
NoneTo(d) == Const(d, "None") \o Inc(d)

\* codegen_expr_is_borrowable
Borrowable(e) == e.e = "load" /\ e.place = "local"
OwnedOf(es, d) == {d + k - 1 : k \in {k \in DOMAIN es : ~Borrowable(es[k])}}
\* release_arg_values: the registers from d on that own what es gave.
Releases(es, d) == FlattenSeq([k \in DOMAIN es |-> IF Borrowable(es[k]) THEN <<>> ELSE Dec(d + k - 1)])
Registers(d, n) == [k \in 1..n |-> d + k - 1]

Values_(args) == [k \in DOMAIN args |-> args[k].value]
helper_name(e) == IF e.e = "load" /\ e.place \in {"global", "runtime"} THEN e.x ELSE ""

StolenCell(place, x, d, held) == IF place = "owned" THEN LoadSlot(d, x) ELSE <<>>
\* The cell itself, owned: from the slot that keeps it, or of the closure.
RawCell(place, x, d, held) ==
  IF place = "owned" THEN LoadSlot(d, x) \o Inc(d)
  ELSE PlaceHelper(d, "function_closure_cell", x, <<>>) \o Check(d, held)

LoadCell(place, x, d, held) ==
  RawCell(place, x, d + 1, held) \o Helper(d, "load_cell", "", <<d + 1>>) \o Dec(d + 1) \o Check(d, held)
LoadName(e, d, borrowed, held) ==
  CASE e.place = "local" -> LoadSlot(d, e.x) \o (IF borrowed THEN <<>> ELSE Inc(d))
    [] e.place \in {"owned", "closure"} -> LoadCell(e.place, e.x, d, held)
    [] e.place = "constant" -> Const(d, e.x)
    [] e.place = "global" -> Helper(d, "load_global", e.x, <<>>) \o Check(d, held)
    [] e.place = "runtime" -> Helper(d, "load_runtime", e.x, <<>>) \o Check(d, held)

\* The value of e into register d, owned unless borrowed; those above d are free.
RECURSIVE Emit(_, _, _, _)

\* emit_arg_values: each into the next register.
Operands(es, d, held) ==
  FlattenSeq([k \in DOMAIN es |->
    Emit(es[k], d + k - 1, Borrowable(es[k]), held \cup OwnedOf(SubSeq(es, 1, k - 1), d))])

NeverChecked(e, d, held) == Inc(d)
\* A truth value becomes an object; an identity comparison cannot fail.
OwnedBool(e, d, held) == (IF e.helper = "is" THEN <<>> ELSE Check(d, held)) \o Inc(d)
\* emit_owned_func_call, emit_bool_func_call
Operation(e, d, held) ==
  Operands(e.args, d + 1, held)
  \o Helper(d, e.helper, "", Registers(d + 1, Len(e.args)))
  \o Releases(e.args, d + 1)
  \o (IF e.helper \in {"is", "test"} THEN OwnedBool(e, d, held) ELSE Check(d, held))

\* bind_local_value
BindLocal(x, value, d, held) ==
  Emit(value, d, FALSE, held) \o Replace(x, d, d + 1) \o Dec(d) \o NoneTo(d)
StoreCell(e, d, held) ==
  RawCell(e.place, e.x, d + 1, held)
  \o Operands(<<e.value>>, d + 2, held \cup {d + 1})
  \o Helper(d, "store_cell", "", <<d + 1, d + 2>>)
  \o Dec(d + 1) \o Releases(<<e.value>>, d + 2) \o Check(d, held)
StoreGlobal(e, d, held) ==
  Operands(<<e.value>>, d + 1, held)
  \o Helper(d, "store_global", e.x, <<d + 1>>) \o Releases(<<e.value>>, d + 1) \o Check(d, held)
StoreName(e, d, held) ==
  CASE e.place = "local" -> BindLocal(e.x, e.value, d, held)
    [] e.place = "owned" /\ e.value.e = "op" /\ e.value.helper = "make_cell" ->
         BindLocal(e.x, e.value, d, held)
    [] e.place = "global" -> StoreGlobal(e, d, held)
    [] OTHER -> StoreCell(e, d, held)

DeleteName(e, d, held) ==
  CASE e.place = "local" -> Const(d, "deleted") \o Replace(e.x, d, d + 1) \o NoneTo(d)
    [] e.place = "global" ->
         Helper(d, IF e.quietly THEN "del_global_quietly" ELSE "del_global", e.x, <<>>) \o Check(d, held)
    [] OTHER ->
         RawCell(e.place, e.x, d + 1, held)
         \o Helper(d, IF e.quietly THEN "del_deref_quietly" ELSE "del_deref", "", <<d + 1>>)
         \o Dec(d + 1) \o Check(d, held)

-----------------------------------------------------------------------------
\* Calls.  The registers of one: the callable, the tuple or list of arguments
\* and the dict of keywords, then free ones.
PositionalCall(e, d, held) ==
  LET es == Values_(e.args)
  IN  Operands(<<e.func>> \o es, d + 1, held)
      \o CallHelper(d, "vectorcall", Registers(d + 1, Len(es) + 1), e)
      \o Releases(es, d + 2) \o Releases(<<e.func>>, d + 1) \o Check(d, held)

\* What the module calls by this name, called without arguments.
NewByName(d, name, held) ==
  Helper(d + 1, "load_global", name, <<>>) \o Check(d + 1, held)
  \o Const(d + 2, "empty_tuple")
  \o Helper(d, "call_object", "", <<d + 1, d + 2>>) \o Dec(d + 1) \o Check(d, held)
\* The same with a tuple made for this call.
NewDict(d, held) ==
  Helper(d + 1, "load_global", "dict", <<>>) \o Check(d + 1, held)
  \o PlaceHelper(d + 2, "tuple_new", 0, <<>>) \o Check(d + 2, held \cup {d + 1})
  \o Helper(d, "call_object", "", <<d + 1, d + 2>>) \o Decs(<<d + 2, d + 1>>) \o Check(d, held)

\* One keyword into the dict; dropped is what is released when that fails.
SetKeyword(keyword, dict, d, dropped, held) ==
  LET all == held \cup {dropped[k] : k \in DOMAIN dropped}
  IN  Operands(<<keyword.value>>, d, all)
      \o Helper(d + 1, "setitem", keyword.name, <<dict, d>>)
      \o Releases(<<keyword.value>>, d) \o CheckDropping(d + 1, dropped, held) \o Dec(d + 1)

\* The operands are moved into a new tuple.
MoveIntoTuple(es, d, tuple, held) ==
  PlaceHelper(tuple, "tuple_new", Len(es), <<>>) \o Check(tuple, held)
  \o Operands(es, d, held \cup {tuple})
  \o FlattenSeq([k \in DOMAIN es |->
       (IF Borrowable(es[k]) THEN Inc(d + k - 1) ELSE <<>>) \o PlaceHelper(0, "tuple_set_item", k, <<tuple, d + k - 1>>)])
KeywordCall(e, d, held) ==
  LET callable == d + 1  tuple == d + 2  dict == d + 3
      inner == held \cup OwnedOf(<<e.func>>, callable)
      free == IF Borrowable(e.func) THEN <<>> ELSE <<callable>>
  IN  Operands(<<e.func>>, callable, held)
      \o MoveIntoTuple(Values_(e.args), d + 4, tuple, inner)
      \o NewDict(dict, inner \cup {tuple})
      \o FlattenSeq([k \in DOMAIN e.keywords |->
           SetKeyword(e.keywords[k], dict, d + 4, <<dict, tuple>> \o free, held)])
      \o CallHelper(d, "call_with_kw", <<callable, tuple, dict>>, e)
      \o Decs(<<dict, tuple>> \o free) \o Check(d, held)

\* The method of obj, called with one value.
CallMethod(obj, method, value, d, held) ==
  Helper(d, "getattr", method, <<obj>>) \o Check(d, held)
  \o Operands(<<value>>, d + 1, held \cup {d})
  \o Helper(d + 2, "call_positional", "", <<d, d + 1>>)
  \o Releases(<<value>>, d + 1) \o Dec(d) \o Check(d + 2, held) \o Dec(d + 2)
UpdateFrom(dict, value, d, held) == CallMethod(dict, "update", value, d, held)
\* The list becomes the tuple of arguments.
ListToTuple(d, list, held) ==
  Helper(d, "load_global", "tuple_from_iter", <<>>) \o Check(d, held)
  \o Helper(d + 1, "call_positional", "", <<d, list>>) \o Decs(<<d, list>>)
  \o Check(d + 1, held \ {list})
AddKeyword(keyword, dict, d, dropped, all, held) ==
  IF keyword.name = "**" THEN UpdateFrom(dict, keyword.value, d, all)
  ELSE SetKeyword(keyword, dict, d, dropped, held)
\* The call itself, of d + 1, with the dict in d + 3 if there are keywords.
CallUnpacked(e, d, tuple, free, held) ==
  (IF e.keywords = <<>> THEN CallHelper(d, "call_object", <<d + 1, tuple>>, e)
   ELSE CallHelper(d, "call_with_kw", <<d + 1, tuple, d + 3>>, e) \o Dec(d + 3))
  \o Decs(<<tuple>> \o free) \o Check(d, held)
AlwaysAppend(arg) == "append"
Adding(arg) == IF arg.star THEN "extend" ELSE "append"
UnpackCall(e, d, held) ==
  LET callable == d + 1  list == d + 2  dict == d + 3
      free == IF Borrowable(e.func) THEN <<>> ELSE <<callable>>
      all == held \cup OwnedOf(<<e.func>>, callable) \cup {list}
             \cup (IF e.keywords = <<>> THEN {} ELSE {dict})
  IN  Operands(<<e.func>>, callable, held)
      \o NewByName(list, "list", all \ {list, dict})
      \o (IF e.keywords = <<>> THEN <<>> ELSE NewByName(dict, "dict", all \ {dict}))
      \o FlattenSeq([k \in DOMAIN e.args |->
           CallMethod(list, Adding(e.args[k]), e.args[k].value, d + 4, all)])
      \o FlattenSeq([k \in DOMAIN e.keywords |->
           AddKeyword(e.keywords[k], dict, d + 4, <<dict, list>> \o free, all, held)])
      \o ListToTuple(d + 4, list, all)
      \o CallUnpacked(e, d, d + 5, free, held)

\* emit_pack_current_values_tuple, then the operands are released.
PackTuple(es, d, held) ==
  IF es = <<>> THEN Const(d, "empty_tuple") \o Inc(d)
  ELSE Operands(es, d + 1, held)
       \o PlaceHelper(d, "tuple_new", Len(es), <<>>) \o Check(d, held \cup OwnedOf(es, d + 1))
       \o FlattenSeq([k \in DOMAIN es |-> Inc(d + k) \o PlaceHelper(0, "tuple_set_item", k, <<d, d + k>>)])
       \o Releases(es, d + 1)

LoadDeletedName(value, d, held) ==
  Operands(<<value>>, d, held)
  \o When(d, "deleted",
          Helper(d + 1, "raise_deleted_name_error", "", <<>>) \o Releases(<<value>>, d) \o Fail(held),
          IF Borrowable(value) THEN Inc(d) ELSE <<>>)

\* A call of some of the runtime's names is emitted as what it does.
EmitCall(e, d, held) ==
  LET name == helper_name(e.func)  es == Values_(e.args)  plain == e.keywords = <<>>
  IN  CASE (\E k \in DOMAIN e.args : e.args[k].star) \/ (\E k \in DOMAIN e.keywords : e.keywords[k].name = "**") ->
             UnpackCall(e, d, held)
        [] plain /\ name = "globals" /\ es = <<>> -> Const(d, "globals") \o Inc(d)
        [] plain /\ name = "tuple_values" -> PackTuple(es, d, held)
        [] plain /\ name = "load_deleted_name" /\ Len(es) = 2 -> LoadDeletedName(es[2], d, held)
        [] plain /\ name = "cell_ref" /\ Len(es) = 1 -> RawCell(es[1].place, es[1].x, d, held)
        [] ~plain -> KeywordCall(e, d, held)
        [] OTHER -> PositionalCall(e, d, held)

Emit(e, d, borrowed, held) ==
  CASE e.e = "load" -> LoadName(e, d, borrowed, held)
    [] e.e = "op" -> Operation(e, d, held)
    [] e.e = "store" -> StoreName(e, d, held)
    [] e.e = "del" -> DeleteName(e, d, held)
    [] e.e = "cell_ref" -> RawCell(e.place, e.x, d, held)
    [] e.e = "call" -> EmitCall(e, d, held)
=============================================================================
