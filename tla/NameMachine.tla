---------------------------- MODULE NameMachine ----------------------------
(***************************************************************************)
(* Compiled code at the places where it reads, binds and deletes names.    *)
(* An activation of a callable has slots, cells of its own, the cells of   *)
(* its closure, and the namespace if it is a class body.                   *)
(***************************************************************************)
EXTENDS ScopeAnalysis

CONSTANTS Values,
          Programs,     \* a set of programs
          MaxFrames     \* a bound on how many callables are called

DELETED == "deleted"    \* the sentinel that a slot or a new cell holds
Empty == "empty"        \* a cell, the module or a class has nothing there
NameError == "unbound"
Nothing == "nothing"    \* no name was loaded yet

\* What marks a place without a value is no value.
ASSUME ValuesAssumption == Values \cap {DELETED, Empty, NameError} = {}

VARIABLES program,
          layout,     \* where each callable has its names
          acts,       \* the activations; at, a history variable, has the
                      \* activation of each scope around one and of its own
          cells,      \* what each cell holds
          globals,
          out         \* what the last load gave: a value, or NameError
vars == <<program, layout, acts, cells, globals, out>>

-----------------------------------------------------------------------------
\* The cell for x that code in activation a refers to.
cell_ref(a, x) == IF x \in DOMAIN a.owned THEN a.owned[x] ELSE a.closure[x]

\* make_function passes a cell for each free variable of the callee.
captures(a, c) == [x \in layout[c].freevars |-> cell_ref(a, x)]

\* Activation number f, of callable c made in activation a: parameters have
\* their slots, and owned cells are made when it starts.
Activation(c, a, args, f) ==
  [scope |-> c,
   at |-> Extend(a.at, [s \in {c} |-> f]),
   slots |-> [x \in Names |-> IF x \in DOMAIN args THEN args[x] ELSE DELETED],
   owned |-> [x \in layout[c].cellvars |-> <<f, x>>],
   closure |-> captures(a, c),
   namespace |-> [x \in Names |-> Empty]]
MakeEmptyCells(c, args, f) ==   \* for a mutant
  [id \in {<<f, x>> : x \in layout[c].cellvars} |-> DELETED]
\* The cell of a parameter starts with its value.
MakeCells(c, args, f) ==
  [id \in {<<f, x>> : x \in layout[c].cellvars} |->
     IF id[2] \in DOMAIN args THEN args[id[2]] ELSE DELETED]

ModuleActivation ==
  [scope |-> Module, at |-> [s \in {Module} |-> 1], slots |-> [x \in Names |-> DELETED],
   owned |-> <<>>, closure |-> <<>>, namespace |-> [x \in Names |-> Empty]]

\* What is in a place that code in activation f refers to.
Content(f, place, x) ==
  CASE place = "slot" -> acts[f].slots[x]
    [] place \in {"owned", "closure"} -> cells[cell_ref(acts[f], x)]
    [] place = "namespace" -> acts[f].namespace[x]
    [] place = "global" -> globals[x]
IsClass(f) == program[acts[f].scope].kind = "class"
StoresIn(f, x) == layout[acts[f].scope].place[x]
Deletes(f, x) == x \in program[acts[f].scope].dels

\* A load gives a value or raises NameError; a slot that is never deleted in
\* its function, and a cell, are not tested (see README).
HasValue(f, place, x) == Content(f, place, x) \in Values
Tested(f, x) == IsClass(f) \/ StoresIn(f, x) = "global" \/ (StoresIn(f, x) = "slot" /\ Deletes(f, x))
LoadFrom(f, place, x) == IF HasValue(f, place, x) THEN Content(f, place, x) ELSE NameError

\* class_lookup_global, class_lookup_cell
class_lookup(f, x) ==
  IF HasValue(f, "namespace", x) THEN acts[f].namespace[x]
  ELSE LoadFrom(f, layout[acts[f].scope].fallback[x], x)

-----------------------------------------------------------------------------
\* Programs for which the compiler does something else are left out (see
\* README): a global declaration between a function and the variable that it
\* would see further out, and a captured parameter that does not keep its value.
Sees(p, s, x) == x \in Bound(p, s) \cup p[s].loads
GlobalsHideNothing(p) ==
  \A s \in DOMAIN p : \A t \in p[s].around \ {Module}, u \in Outer(p, s) :
    p[t].globals \cap Own(p, u) = {}
ParametersKept(p) ==
  \A t \in DOMAIN p : \A x \in p[t].params :
    LET users == {s \in DOMAIN p : Sees(p, s, x) /\ VariableScope(p, s, x) = t}
    IN  users = {t} \/ \A s \in users : x \notin p[s].stores \cup p[s].dels

Init ==
  /\ program \in Programs /\ Accepted(program)
  /\ GlobalsHideNothing(program) /\ ParametersKept(program)
  /\ layout = Layout(program)
  /\ acts = <<ModuleActivation>>
  /\ cells = <<>>
  /\ globals = [x \in Names |-> Empty]
  /\ out = Nothing

\* Activation f makes a function, or a class body, and it is called.
MakeAndCall(f) ==
  /\ Len(acts) < MaxFrames
  /\ \E c \in DOMAIN program : \E args \in [program[c].params -> Values] :
       /\ Child(program, acts[f].scope, c)
       /\ acts' = Append(acts, Activation(c, acts[f], args, Len(acts) + 1))
       /\ cells' = Extend(cells, MakeCells(c, args, Len(acts) + 1))
  /\ UNCHANGED <<program, layout, globals, out>>

Load(f) ==
  /\ \E x \in program[acts[f].scope].loads :
       /\ HasValue(f, StoresIn(f, x), x) \/ Tested(f, x)
       /\ out' = IF IsClass(f) THEN class_lookup(f, x) ELSE LoadFrom(f, StoresIn(f, x), x)
  /\ UNCHANGED <<program, layout, acts, cells, globals>>

\* What is in the place where activation f keeps x becomes v.
Put(f, x, v) ==
  /\ \/ /\ StoresIn(f, x) = "slot"
        /\ acts' = [acts EXCEPT ![f].slots[x] = v]
        /\ UNCHANGED <<cells, globals>>
     \/ /\ StoresIn(f, x) = "namespace"
        /\ acts' = [acts EXCEPT ![f].namespace[x] = v]
        /\ UNCHANGED <<cells, globals>>
     \/ /\ StoresIn(f, x) \in {"owned", "closure"}
        /\ cells' = [cells EXCEPT ![cell_ref(acts[f], x)] = v]
        /\ UNCHANGED <<acts, globals>>
     \/ /\ StoresIn(f, x) = "global"
        /\ globals' = [globals EXCEPT ![x] = v]
        /\ UNCHANGED <<acts, cells>>
  /\ UNCHANGED <<program, layout, out>>

Store(f) == \E x \in program[acts[f].scope].stores : \E v \in Values : Put(f, x, v)

\* Only what has a value is deleted here (see README).
Delete(f) ==
  \E x \in program[acts[f].scope].dels :
    /\ HasValue(f, StoresIn(f, x), x)
    /\ Put(f, x, IF StoresIn(f, x) = "slot" THEN DELETED ELSE Empty)

\* Any activation may go on at any time: generators do.
Next == \E f \in DOMAIN acts : MakeAndCall(f) \/ Load(f) \/ Store(f) \/ Delete(f)

Spec == Init /\ [][Next]_vars

-----------------------------------------------------------------------------
\* The frames of the language: each variable has the value that is in the
\* place where the code of its own scope keeps it.
Variable(f, x) ==
  IF acts[f].scope = Module \/ x \in Own(program, acts[f].scope)
  THEN LoadFrom(f, StoresIn(f, x), x) ELSE NameError
frames == [f \in DOMAIN acts |->
             [scope |-> acts[f].scope, at |-> acts[f].at, vars |-> [x \in Names |-> Variable(f, x)]]]

\* Every name means what Python's scoping rule says, however the functions and
\* classes of the program call, outlive and delete from each other.
Python == INSTANCE PythonScoping
ImplementsScoping == Python!Spec

\* No function is made whose closure lacks a cell: whatever a callable needs
\* from outside, its maker has (resolve_raw_cell_location finds it).
ClosuresComplete ==
  \A f \in DOMAIN acts : \A c \in DOMAIN program :
    Child(program, acts[f].scope, c) =>
      layout[c].freevars \subseteq DOMAIN acts[f].owned \cup DOMAIN acts[f].closure

\* The place of a name, for all activations.
Storage(f, x) ==
  IF StoresIn(f, x) \in {"owned", "closure"} THEN cell_ref(acts[f], x)
  ELSE IF StoresIn(f, x) = "global" THEN <<Module, x>> ELSE <<f, x>>
\* A variable that two activations reach is in one place: they share the cell
\* of the very activation that Python's rule names.
OneStorage ==
  \A f \in DOMAIN acts : \A x \in Names :
    Sees(program, acts[f].scope, x) =>
      Storage(f, x) = <<Python!FrameOf(f, x), x>>
=============================================================================
