---------------------------- MODULE NestedScopes ----------------------------
(***************************************************************************)
(* A Python program as far as its names go: a module, and the functions    *)
(* and classes in it, numbered in the order in which they begin.  A scope  *)
(* knows the scopes around it and what its own code does with each name.   *)
(***************************************************************************)
EXTENDS Naturals, Sequences, FiniteSets

CONSTANT Names

Kinds == {"module", "function", "class"}
Scope(kind, around, params, stores, dels, loads, globals, nonlocals) ==
  [kind |-> kind, around |-> around, params |-> params, stores |-> stores, dels |-> dels,
   loads |-> loads, globals |-> globals, nonlocals |-> nonlocals]

Module == 1
Outer(p, s) == {t \in p[s].around : p[t].kind = "function"}
Within(p, s) == {t \in DOMAIN p : s \in p[t].around}
\* c begins directly in s.
Child(p, s, c) == c \in Within(p, s) /\ \A t \in p[c].around : t <= s

\* The names that a scope binds, and that belong to it: a declaration says
\* that they belong elsewhere.
Bound(p, s) == p[s].params \cup p[s].stores \cup p[s].dels
Own(p, s) == Bound(p, s) \ (p[s].globals \cup p[s].nonlocals)

\* The nearest of some scopes: the one that begins last.
Nearest(scopes) == CHOOSE t \in scopes : \A u \in scopes : u <= t

\* The functions around s that say what x is.
Deciding(p, s, x) == {t \in Outer(p, s) : x \in Own(p, t) \cup p[t].globals}

\* The scope whose variable x is, seen from s, by the rule of the language.
VariableScope(p, s, x) ==
  IF x \in p[s].globals THEN Module
  ELSE IF x \in Own(p, s) THEN s
  ELSE IF Deciding(p, s, x) = {} \/ x \in p[Nearest(Deciding(p, s, x))].globals THEN Module
  ELSE Nearest(Deciding(p, s, x))

\* A function that is f where f is defined, and g elsewhere.
Extend(f, g) == [d \in DOMAIN f \cup DOMAIN g |-> IF d \in DOMAIN f THEN f[d] ELSE g[d]]

Scopes ==
  [kind : Kinds, around : SUBSET Nat, params : SUBSET Names, stores : SUBSET Names,
   dels : SUBSET Names, loads : SUBSET Names, globals : SUBSET Names, nonlocals : SUBSET Names]

\* What the Python compiler does not reject.
Accepted(p) ==
  /\ p \in Seq(Scopes) /\ p # <<>>
  /\ p[Module].kind = "module" /\ p[Module].around = {} /\ p[Module].nonlocals = {}
  /\ \A s \in DOMAIN p \ {Module} :
       /\ p[s].kind # "module"
       /\ Module \in p[s].around /\ p[s].around \subseteq DOMAIN p
       /\ \A t \in p[s].around : t < s /\ p[t].around = {u \in p[s].around : u < t}
       /\ p[s].params # {} => p[s].kind = "function"
       /\ p[s].globals \cap p[s].nonlocals = {}
       /\ p[s].params \cap (p[s].globals \cup p[s].nonlocals) = {}
       /\ \A x \in p[s].nonlocals :
            \E t \in Deciding(p, s, x) : x \in Own(p, t) /\ \A u \in Deciding(p, s, x) : u <= t
=============================================================================
