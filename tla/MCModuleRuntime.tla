-------------------------- MODULE MCModuleRuntime --------------------------
(***************************************************************************)
(* Two modules, two threads and three function objects: a first and a      *)
(* later call, of either module's functions, inside each other, on one     *)
(* thread and on two, while a module is executed, reloaded or released.    *)
(***************************************************************************)
EXTENDS ModuleRuntime, TLC

CONSTANTS m1, m2, t1, t2, o1, o2, o3

Symmetry == Permutations({m1, m2}) \cup Permutations({t1, t2}) \cup Permutations({o1, o2, o3})
=============================================================================
