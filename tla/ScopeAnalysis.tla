--------------------------- MODULE ScopeAnalysis ---------------------------
(***************************************************************************)
(* How the compiler decides where each name of a scope is stored: the      *)
(* semantic state of the syntax tree, the binding kinds of a callable, and *)
(* the storage layout and locations of name binding.  A cell is known by   *)
(* the name in the source here; storage names only tell apart the cell and *)
(* the value it holds.                                                     *)
(***************************************************************************)
EXTENDS NestedScopes

\* Semantic state.

local_defs(p, s) == Bound(p, s) \ (p[s].globals \cup p[s].nonlocals)

\* A function around s has x, or gets it from outside.  One that gets it
\* implicitly adds nothing: what it gets it from is around s too.
enclosing_function_captures(p, s, x) ==
  \E t \in Outer(p, s) : x \in local_defs(p, t) \cup p[t].nonlocals

LocalWins(p, s, x) ==   \* for a mutant
  IF x \in Bound(p, s) THEN "Local"
  ELSE IF enclosing_function_captures(p, s, x) THEN "Nonlocal" ELSE "Global"
SemanticBinding(p, s, x) ==
  IF x \in p[s].globals THEN "Global"
  ELSE IF x \in p[s].nonlocals THEN "Nonlocal"
  ELSE IF x \in local_defs(p, s) THEN "Local"
  ELSE IF x \in p[s].loads /\ enclosing_function_captures(p, s, x) THEN "Nonlocal" ELSE "Global"

descendant_uses_nonlocal(p, s, x) ==
  \E d \in Within(p, s) : SemanticBinding(p, d, x) = "Nonlocal"

\* The binding kind of a name in a callable.  What belongs to the module is
\* global in its body; what belongs to a class is in its namespace, whatever
\* the functions in it use.  (propagate_nonlocal_roots marks some owners as
\* nonlocal: they stay owners.)
BindingKind(p, s, x) ==
  LET binding == SemanticBinding(p, s, x) IN
  IF s = Module \/ binding = "Global" THEN "Global"
  ELSE IF binding = "Nonlocal" THEN "Capture"
  ELSE IF p[s].kind = "function" /\ descendant_uses_nonlocal(p, s, x) THEN "Owner" ELSE "Local"

-----------------------------------------------------------------------------
(* Storage layout. *)

owned_cells(p, s) == {x \in Names : BindingKind(p, s, x) = "Owner"}
captured_cells(p, s) == {x \in Names : BindingKind(p, s, x) = "Capture"}

\* The scopes from s down to d, both included.
Path(p, s, d) == ({d} \cup p[d].around) \cap ({s} \cup Within(p, s))
OnlyCaptured(p, s) == captured_cells(p, s)   \* for a mutant
\* What a callable gets from outside: what it or a callable that it makes, at
\* any depth, captures, except what is owned on the way.
freevars(p, s) ==
  {x \in Names : \E d \in {s} \cup Within(p, s) :
     x \in captured_cells(p, d) /\ \A t \in Path(p, s, d) : x \notin owned_cells(p, t)}

\* Where a name of the source is in a callable.  A parameter has a slot of its
\* own even if a function in this one gets a cell for it.
Location(p, s, x) ==
  IF x \in owned_cells(p, s) THEN (IF x \in p[s].params THEN "slot" ELSE "owned")
  ELSE IF x \in freevars(p, s) THEN "closure"
  ELSE IF BindingKind(p, s, x) = "Local" THEN "slot" ELSE "global"

\* What a load or a store of a name does in the end: a class body has its own
\* names in a namespace, and looks there for the others first.
StorePlace(p, s, x) ==
  IF p[s].kind = "class" /\ BindingKind(p, s, x) = "Local" THEN "namespace" ELSE Location(p, s, x)
ClassFallback(p, s, x) ==
  IF BindingKind(p, s, x) = "Capture" THEN "closure" ELSE "global"

\* All this is worked out once, for each callable.
Layout(p) ==
  [s \in DOMAIN p |->
     [cellvars |-> owned_cells(p, s), freevars |-> freevars(p, s),
      place |-> [x \in Names |-> StorePlace(p, s, x)],
      fallback |-> [x \in Names |-> ClassFallback(p, s, x)]]]
=============================================================================
