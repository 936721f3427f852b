----------------------------- MODULE ObjectHeap -----------------------------
(***************************************************************************)
(* Python objects and their reference counts.  A reference is a number:    *)
(* positive for the object at that place of the heap, negative for one of  *)
(* the objects that are never freed, zero for a null pointer.              *)
(***************************************************************************)
EXTENDS Integers, Sequences, FiniteSets, FiniteSetsExt, SequencesExt

\* The objects that every function finds without a lookup, the module's
\* constants, and what is never freed among its builtins and runtime names.
Immortals == <<"None", "True", "False", "deleted", "empty_tuple", "globals",
               "0", "1", "list", "dict", "tuple_from_iter", "raise_from">>
Constant(c) == IF c = "null" THEN 0 ELSE -(CHOOSE k \in DOMAIN Immortals : Immortals[k] = c)

\* A container has items, and a dict their names; a bound method has its
\* object, a function its defaults, keyword defaults and closure.
Object(kind, name, names, items) ==
  [kind |-> kind, name |-> name, names |-> names, items |-> items, count |-> 1]
Plain == Object("object", "", <<>>, <<>>)
NewTuple(items) == Object("tuple", "", <<>>, items)
Freed == [kind |-> "freed", name |-> "", names |-> <<>>, items |-> <<>>, count |-> 0]

\* A heap whose function objects are of the functions N.
IsSeq(s) == Len(s) \in Nat /\ s = [k \in 1..Len(s) |-> s[k]]
IsObject(o) ==
  o = [kind |-> o.kind, name |-> o.name, names |-> o.names, items |-> o.items, count |-> o.count]
IsHeap(heap, N) ==
  /\ IsSeq(heap)
  /\ \A r \in DOMAIN heap : IsObject(heap[r]) /\ (heap[r].kind = "function" => heap[r].name \in N)

Live(heap, r) == r <= 0 \/ heap[r].kind # "freed"

\* How often r is among refs.
Times(r, refs) == Cardinality({k \in DOMAIN refs : refs[k] = r})
TimesIn(heap, objects, r) == MapThenSumSet(LAMBDA d : Times(r, heap[d].items), objects)

Incref(heap, r) == IF r > 0 THEN [heap EXCEPT ![r].count = @ + 1] ELSE heap
IncrefAll(heap, rs) ==
  [r \in DOMAIN heap |-> [heap[r] EXCEPT !.count = @ + Times(r, rs)]]

\* An object that nothing refers to any more gives up what it refers to: when
\* rs are given up, these objects are freed.  The last reference to an object
\* is among rs, or among the items of one that is freed before.
FreedBy(heap, rs) ==
  LET Lost(dead, r) == Times(r, rs) + TimesIn(heap, dead, r)
      Reached(dead) == {r \in ToSet(rs) \cup UNION {ToSet(heap[d].items) : d \in dead} : r > 0}
      freed[n \in Nat] ==
        IF n = 0 THEN {}
        ELSE LET dead == freed[n - 1]
             IN  {r \in Reached(dead) : heap[r].count > 0 /\ Lost(dead, r) >= heap[r].count}
  IN  freed[Len(heap)]
DecrefAll(heap, rs) ==
  LET dead == FreedBy(heap, rs)
  IN  [r \in DOMAIN heap |->
         [(IF r \in dead THEN Freed ELSE heap[r])
            EXCEPT !.count = heap[r].count - Times(r, rs) - TimesIn(heap, dead, r)]]
Decref(heap, r) ==
  IF r <= 0 THEN heap
  ELSE IF heap[r].count > 1 THEN [heap EXCEPT ![r].count = @ - 1]
  ELSE DecrefAll(heap, <<r>>)

\* Item k of r becomes v, which the caller gives up.
SetItem(heap, r, k, v) == Decref([heap EXCEPT ![r].items[k] = v], heap[r].items[k])
SetItems(heap, r, items) == DecrefAll([heap EXCEPT ![r].items = items], heap[r].items)
\* So does what r has under each of these names, no two of which are the same.
Where(names, x) == {k \in DOMAIN names : names[k] = x}
Added(old, names) == SelectSeq([k \in DOMAIN names |-> k], LAMBDA k : Where(old.names, names[k]) = {})
Replaced(old, names) == SelectSeq([j \in DOMAIN old.names |-> j], LAMBDA j : Where(names, old.names[j]) # {})
Updated(old, names, items) ==
  [j \in DOMAIN old.items |->
     IF Where(names, old.names[j]) = {} THEN old.items[j]
     ELSE items[CHOOSE k \in Where(names, old.names[j]) : TRUE]]
At(s, places) == [k \in DOMAIN places |-> s[places[k]]]
SetAllNamed(heap, r, names, items) ==
  LET added == Added(heap[r], names)
  IN  DecrefAll([heap EXCEPT ![r].names = @ \o At(names, added),
                             ![r].items = Updated(heap[r], names, items) \o At(items, added)],
                At(heap[r].items, Replaced(heap[r], names)))
SetNamed(heap, r, name, v) == SetAllNamed(heap, r, <<name>>, <<v>>)
=============================================================================
