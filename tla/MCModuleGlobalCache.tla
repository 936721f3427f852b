------------------------ MODULE MCModuleGlobalCache ------------------------
(***************************************************************************)
(* Two modules that share the builtins dict, one global name, two objects. *)
(* Slots of different names do not interact.                               *)
(***************************************************************************)
EXTENDS ModuleGlobalCache, TLC
CONSTANTS c1, c2, n1, o1, o2
MCCaches == {c1, c2}
MCNames  == {n1}
MCValues == {o1, o2}
CacheSymmetry == Permutations(MCCaches) \cup Permutations(MCValues)
=============================================================================
