--------------------------- MODULE MCNameMachine ---------------------------
(***************************************************************************)
(* One name in every combination of roles: down a chain of three nested    *)
(* functions and classes, and in two that are side by side in a third.     *)
(***************************************************************************)
EXTENDS NameMachine, TLC

CONSTANTS x, v, w

None == [params |-> {}, stores |-> {}, dels |-> {}, loads |-> {}, globals |-> {}, nonlocals |-> {}]
Reads == [None EXCEPT !.loads = {x}]
Writes == [Reads EXCEPT !.stores = {x}]
BindsAndDeletes == [Writes EXCEPT !.dels = {x}]
DeclaresGlobal == [Writes EXCEPT !.globals = {x}]
DeclaresNonlocal == [BindsAndDeletes EXCEPT !.nonlocals = {x}]
Parameter == {[Reads EXCEPT !.params = {x}], [BindsAndDeletes EXCEPT !.params = {x}]}

Owners == {Writes, BindsAndDeletes}
Users == {Reads, Writes, DeclaresGlobal, DeclaresNonlocal}

In(around, kind, roles) ==
  {Scope(kind, around, r.params, r.stores, r.dels, r.loads, r.globals, r.nonlocals) : r \in roles}
MCModule == In({}, "module", {Writes})

Chains ==
  MCModule \X (In({1}, "function", Owners \cup Parameter \cup {Reads}) \cup In({1}, "class", {BindsAndDeletes}))
           \X (In({1, 2}, "function", Users \cup Parameter \cup {None}) \cup In({1, 2}, "class", Users \cup {None}))
           \X (In({1, 2, 3}, "function", Users) \cup In({1, 2, 3}, "class", Users))
Siblings ==
  MCModule \X In({1}, "function", Owners \cup Parameter)
           \X In({1, 2}, "function", Users) \X (In({1, 2}, "function", Users) \cup In({1, 2}, "class", Users))
MCPrograms == Chains \cup Siblings

Symmetric == Permutations(Values)
=============================================================================
