------------------------- MODULE NameMachine_proofs -------------------------
(***************************************************************************)
(* Proofs about NameMachine, for every program, name and value: no closure *)
(* lacks a cell, all activations that use a variable share its place, and  *)
(* the machine implements PythonScoping.  The first part is about programs *)
(* alone, the second about runs, the third about the refinement: slots,    *)
(* cells and dicts of compiled code hold what the variables of the         *)
(* language hold, step by step.                                            *)
(***************************************************************************)
EXTENDS NameMachine, WellFoundedInduction, SequenceTheorems, TLAPS

\* The scopes of an accepted program are a tree.
LEMMA Tree ==
  ASSUME NEW p, Accepted(p), NEW s \in DOMAIN p
  PROVE  /\ s \in Nat /\ p[s].around \subseteq DOMAIN p \cap Nat /\ s \notin p[s].around
         /\ \A t \in p[s].around : t < s /\ p[t].around = {u \in p[s].around : u < t}
         /\ s # Module => Module \in p[s].around
<1>1. p \in Seq(Scopes) /\ p # <<>> /\ DOMAIN p \subseteq Nat
  BY DEF Accepted
<1>2. p[s] \in Scopes
  BY <1>1
<1>3. p[s].around \subseteq Nat
  BY <1>2 DEF Scopes
<1>4. CASE s = Module
  BY <1>1, <1>4 DEF Accepted, Module
<1>5. CASE s # Module
  BY <1>1, <1>3, <1>5 DEF Accepted
<1> QED
  BY <1>4, <1>5

\* What a callable captures is in a cell of its own in a function around it:
\* the compiler never looks for a cell that no function makes.
LEMMA OwnerAround ==
  ASSUME NEW p, Accepted(p), NEW d \in DOMAIN p, NEW x \in captured_cells(p, d)
  PROVE  \E t \in Outer(p, d) : x \in owned_cells(p, t)
<1>1. x \in Names /\ d # Module /\ SemanticBinding(p, d, x) = "Nonlocal"
  BY DEF captured_cells, BindingKind
<1>2. PICK t \in Outer(p, d) : x \in local_defs(p, t)
  <2>1. ASSUME NEW s \in DOMAIN p, x \in p[s].nonlocals
        PROVE  \E t \in Outer(p, s) : x \in local_defs(p, t)
    <3>1. s # Module
      BY <2>1 DEF Accepted
    <3>2. PICK t \in Deciding(p, s, x) : x \in Own(p, t)
      BY <2>1, <3>1 DEF Accepted
    <3> QED
      BY <3>2 DEF Deciding, Own, local_defs
  <2>2. CASE x \in p[d].nonlocals
    BY <2>1, <2>2
  <2>3. CASE x \notin p[d].nonlocals
    <3>1. enclosing_function_captures(p, d, x)
      BY <1>1, <2>3 DEF SemanticBinding
    <3>2. PICK t \in Outer(p, d) : x \in local_defs(p, t) \cup p[t].nonlocals
      BY <3>1 DEF enclosing_function_captures
    <3>3. CASE x \in p[t].nonlocals
      <4>1. t \in DOMAIN p /\ p[t].around \subseteq p[d].around
        BY <3>2, Tree DEF Outer
      <4>2. PICK u \in Outer(p, t) : x \in local_defs(p, u)
        BY <2>1, <3>3, <4>1
      <4> QED
        BY <4>1, <4>2 DEF Outer
    <3> QED
      BY <3>2, <3>3
  <2> QED
    BY <2>2, <2>3
<1>3. t \in DOMAIN p /\ p[t].kind = "function" /\ t # Module /\ d \in Within(p, t)
  BY <1>2, Tree DEF Outer, Within, Accepted
<1>4. SemanticBinding(p, t, x) = "Local"
  BY <1>2 DEF SemanticBinding, local_defs
<1>5. descendant_uses_nonlocal(p, t, x)
  BY <1>1, <1>3 DEF descendant_uses_nonlocal
<1> QED
  BY <1>1, <1>2, <1>3, <1>4, <1>5 DEF owned_cells, BindingKind

\* The module needs nothing from outside.
LEMMA ModuleHasNoFreevars ==
  ASSUME NEW p, Accepted(p)
  PROVE  freevars(p, Module) = {} /\ owned_cells(p, Module) = {}
<1>1. owned_cells(p, Module) = {}
  BY DEF owned_cells, BindingKind
<1>2. ASSUME NEW x \in freevars(p, Module)
      PROVE  FALSE
  <2>1. PICK d \in {Module} \cup Within(p, Module) :
          x \in captured_cells(p, d) /\ \A t \in Path(p, Module, d) : x \notin owned_cells(p, t)
    BY <1>2 DEF freevars
  <2>2. d \in DOMAIN p
    BY <2>1 DEF Within, Accepted, Module
  <2>3. PICK t \in Outer(p, d) : x \in owned_cells(p, t)
    BY <2>1, <2>2, OwnerAround
  <2>4. t \in p[d].around /\ t \in DOMAIN p /\ t # Module
    BY <2>2, <2>3, Tree DEF Outer, Accepted
  <2>5. t \in Within(p, Module)
    BY <2>4, Tree DEF Within
  <2> QED
    BY <2>1, <2>3, <2>4, <2>5 DEF Path
<1> QED
  BY <1>1, <1>2

\* What a callable needs from outside, the one that makes it owns, or gets
\* from outside as well.
LEMMA MakerHasFreevars ==
  ASSUME NEW p, Accepted(p), NEW s \in DOMAIN p, NEW c \in DOMAIN p, Child(p, s, c),
         NEW x \in freevars(p, c), x \notin owned_cells(p, s)
  PROVE  x \in freevars(p, s)
<1>1. PICK d \in {c} \cup Within(p, c) :
        x \in captured_cells(p, d) /\ \A t \in Path(p, c, d) : x \notin owned_cells(p, t)
  BY DEF freevars
<1>2. d \in DOMAIN p /\ s \in p[c].around /\ \A t \in p[c].around : t <= s
  BY <1>1 DEF Child, Within
<1>3. d \in Within(p, s)
  BY <1>1, <1>2, Tree DEF Within
<1>4. ASSUME NEW t \in Path(p, s, d)
      PROVE  t = s \/ t \in Path(p, c, d)
  <2>1. SUFFICES ASSUME t \in p[d].around, s \in p[t].around
                 PROVE  t = c \/ c \in p[t].around
    BY <1>1, <1>2, <1>4, <2>1, Tree DEF Path, Within
  <2>2. t \in DOMAIN p /\ t \in Nat /\ s < t
    BY <1>2, <2>1, Tree
  <2>3. t \notin p[c].around
    BY <1>2, <2>2, Tree
  <2>4. c # d /\ c \in p[d].around
    BY <1>1, <2>1, <2>3 DEF Within
  <2>5. ~(t < c)
    BY <1>2, <2>1, <2>3, <2>4, Tree
  <2>6. c < t => c \in p[t].around
    BY <1>2, <2>1, <2>4, Tree
  <2> QED
    BY <2>2, <2>5, <2>6, Tree
<1> QED
  BY <1>1, <1>3, <1>4 DEF freevars, captured_cells

-----------------------------------------------------------------------------
\* Activations that have anything of a set in their fields.
Records(S) == [scope : S, at : S, slots : S, owned : S, closure : S, namespace : S]

\* More values, more activations.
LEMMA RecordsGrow ==
  ASSUME NEW S, NEW T, S \subseteq T
  PROVE  Records(S) \subseteq Records(T) /\ Seq(Records(S)) \subseteq Seq(Records(T))
<1>1. Records(S) \subseteq Records(T)
  BY DEF Records
<1> QED
  BY <1>1

\* The cell that a scope gets for x is that of the innermost function around it
\* that owns one.
Source(p, s, x, t) ==
  t \in p[s].around /\ x \in owned_cells(p, t)
  /\ \A u \in p[s].around : x \in owned_cells(p, u) => u <= t

\* Activation f has what the layout of its callable lists, and the cells of its
\* closure come from the activations of the scopes around it.
Linked(f) ==
  /\ acts[f].scope \in DOMAIN program
  /\ acts[f].at[acts[f].scope] = f /\ acts[f].at[Module] = 1
  /\ DOMAIN acts[f].at = {acts[f].scope} \cup program[acts[f].scope].around
  /\ acts[f].owned = [x \in owned_cells(program, acts[f].scope) |-> <<f, x>>]
  /\ DOMAIN acts[f].closure = freevars(program, acts[f].scope)
  /\ \A x \in freevars(program, acts[f].scope) :
       \E t : Source(program, acts[f].scope, x, t) /\ acts[f].closure[x] = <<acts[f].at[t], x>>

IInv ==
  /\ Accepted(program) /\ GlobalsHideNothing(program) /\ layout = Layout(program)
  /\ \E S : acts \in Seq(Records(S))
  /\ \A f \in DOMAIN acts : Linked(f)

\* The cell that a maker passes on is the one that the callee's scope should get.
LEMMA Inherited ==
  ASSUME NEW p, Accepted(p), NEW s \in DOMAIN p, NEW c \in DOMAIN p, Child(p, s, c),
         NEW x \in freevars(p, c)
  PROVE  /\ x \in owned_cells(p, s) => Source(p, c, x, s)
         /\ \A t : Source(p, s, x, t) /\ x \notin owned_cells(p, s) => Source(p, c, x, t)
<1>1. s \in p[c].around /\ s < c /\ s \in Nat /\ \A t \in p[c].around : t <= s
  BY Tree DEF Child, Within
<1>2. p[s].around = {u \in p[c].around : u < s} /\ p[c].around \subseteq Nat
  BY <1>1, Tree
<1> QED
  BY <1>1, <1>2 DEF Source

\* An accepted program has a module with nothing around it.
LEMMA InitLinked ==
  ASSUME Init
  PROVE  IInv
<1>1. acts = <<ModuleActivation>> /\ acts \in Seq({ModuleActivation}) /\ DOMAIN acts = {1}
  BY DEF Init
<1>2. \E S : acts \in Seq(Records(S))
  <2> DEFINE R == {Module, [s \in {Module} |-> 1], [x \in Names |-> DELETED], <<>>, [x \in Names |-> Empty]}
  <2>1. ModuleActivation \in Records(R)
    BY DEF ModuleActivation, Records
  <2> QED
    BY <1>1, <2>1
<1>3. Linked(1)
  <2>1. acts[1].scope = Module /\ acts[1].at = [s \in {Module} |-> 1] /\ acts[1].owned = <<>>
        /\ acts[1].closure = <<>>
    BY <1>1 DEF ModuleActivation
  <2>2. Module \in DOMAIN program /\ program[Module].around = {}
    BY DEF Init, Accepted, Module
  <2>3. freevars(program, Module) = {} /\ owned_cells(program, Module) = {}
    BY ModuleHasNoFreevars DEF Init
  <2>4. <<>> = [x \in {} |-> <<1, x>>] /\ DOMAIN <<>> = {}
    OBVIOUS
  <2> QED
    BY <2>1, <2>2, <2>3, <2>4 DEF Linked, Module
<1> QED
  BY <1>1, <1>2, <1>3 DEF IInv, Init

\* A step that changes slots, namespaces, cells and globals leaves activations
\* linked as they were.
LEMMA StillLinked ==
  ASSUME IInv, program' = program, layout' = layout, DOMAIN acts' = DOMAIN acts,
         \E S : acts' \in Seq(Records(S)),
         \A g \in DOMAIN acts : /\ acts'[g].scope = acts[g].scope /\ acts'[g].at = acts[g].at
                                /\ acts'[g].owned = acts[g].owned
                                /\ acts'[g].closure = acts[g].closure
  PROVE  IInv'
<1>1. ASSUME NEW g \in DOMAIN acts, Linked(g)
      PROVE  Linked(g)'
  BY <1>1 DEF Linked
<1> QED
  BY <1>1 DEF IInv

\* Storing or deleting a name.
LEMMA PutLinked ==
  ASSUME IInv, NEW f \in DOMAIN acts, NEW x, NEW v, Put(f, x, v)
  PROVE  IInv'
<1>1. PICK S : acts \in Seq(Records(S))
  BY DEF IInv
<1>2. CASE acts' = [acts EXCEPT ![f].slots[x] = v]
  <2>1. acts[f] \in Records(S)
    BY <1>1
  <2> DEFINE new == [acts[f].slots EXCEPT ![x] = v]
             T == S \cup {new}
  <2>2. acts' = [acts EXCEPT ![f] = [acts[f] EXCEPT !.slots = new]]
    BY <1>2
  <2>3. [acts[f] EXCEPT !.slots = new] \in Records(T) /\ acts \in Seq(Records(T))
    <3>1. acts \in Seq(Records(T)) /\ acts[f] \in Records(T)
      BY <1>1, <2>1, RecordsGrow
    <3>2. new \in T
      OBVIOUS
    <3> HIDE DEF new, T
    <3> QED
      BY <3>1, <3>2 DEF Records
  <2>4. acts' \in Seq(Records(T)) /\ DOMAIN acts' = DOMAIN acts
    BY <2>2, <2>3
  <2>5. \A g \in DOMAIN acts : /\ acts'[g].scope = acts[g].scope /\ acts'[g].at = acts[g].at
                               /\ acts'[g].owned = acts[g].owned
                               /\ acts'[g].closure = acts[g].closure
    BY <2>1, <2>2 DEF Records
  <2> QED
    BY <2>4, <2>5, StillLinked DEF Put
<1>3. CASE acts' = [acts EXCEPT ![f].namespace[x] = v]
  <2>1. acts[f] \in Records(S)
    BY <1>1
  <2> DEFINE new == [acts[f].namespace EXCEPT ![x] = v]
             T == S \cup {new}
  <2>2. acts' = [acts EXCEPT ![f] = [acts[f] EXCEPT !.namespace = new]]
    BY <1>3
  <2>3. [acts[f] EXCEPT !.namespace = new] \in Records(T) /\ acts \in Seq(Records(T))
    <3>1. acts \in Seq(Records(T)) /\ acts[f] \in Records(T)
      BY <1>1, <2>1, RecordsGrow
    <3>2. new \in T
      OBVIOUS
    <3> HIDE DEF new, T
    <3> QED
      BY <3>1, <3>2 DEF Records
  <2>4. acts' \in Seq(Records(T)) /\ DOMAIN acts' = DOMAIN acts
    BY <2>2, <2>3
  <2>5. \A g \in DOMAIN acts : /\ acts'[g].scope = acts[g].scope /\ acts'[g].at = acts[g].at
                               /\ acts'[g].owned = acts[g].owned
                               /\ acts'[g].closure = acts[g].closure
    BY <2>1, <2>2 DEF Records
  <2> QED
    BY <2>4, <2>5, StillLinked DEF Put
<1>4. CASE UNCHANGED acts
  BY <1>1, <1>4, StillLinked DEF Put
<1> QED
  BY <1>2, <1>3, <1>4 DEF Put

\* Making a callable and calling it.
LEMMA MakeAndCallLinked ==
  ASSUME IInv, NEW f \in DOMAIN acts, MakeAndCall(f)
  PROVE  IInv'
<1> DEFINE s == acts[f].scope
           a == acts[f]
<1>1. PICK S : acts \in Seq(Records(S))
  BY DEF IInv
<1>0. PICK n : n = Len(acts) + 1   \* a number, the same before and after
  OBVIOUS
<1>2. PICK c, args :
        c \in DOMAIN program /\ Child(program, s, c) /\ acts' = Append(acts, Activation(c, a, args, n))
  BY <1>0 DEF MakeAndCall
<1> DEFINE b == Activation(c, a, args, n)
           T == S \cup {b.scope, b.at, b.slots, b.owned, b.closure, b.namespace}
<1>3. /\ b.scope = c /\ b.at = Extend(a.at, [t \in {c} |-> n])
      /\ b.owned = [x \in layout[c].cellvars |-> <<n, x>>]
      /\ b.closure = [x \in layout[c].freevars |-> cell_ref(a, x)]
  BY DEF Activation, captures
<1>4. acts' \in Seq(Records(T)) /\ n \in Nat
  <2>1. b \in Records(T)
    BY DEF Records, Activation
  <2>2. acts \in Seq(Records(T))
    BY <1>1, RecordsGrow
  <2> QED
    BY <1>0, <1>1, <1>2, <2>1, <2>2
<1>5. DOMAIN acts' = DOMAIN acts \cup {n} /\ acts'[n] = b /\ n \notin DOMAIN acts
      /\ \A g \in DOMAIN acts : acts'[g] = acts[g]
  BY <1>0, <1>1, <1>2
<1>6. program' = program /\ layout' = layout
  BY DEF MakeAndCall
<1>7. ASSUME NEW g \in DOMAIN acts
      PROVE  Linked(g)'
  <2>1. Linked(g)
    BY DEF IInv
  <2> QED
    BY <1>5, <1>6, <2>1 DEF Linked
<1>8. Linked(n)'
  <2>1. Linked(f) /\ Accepted(program)
    BY DEF IInv
  <2>2. s \in DOMAIN program /\ s # c /\ c # Module /\ program[c].around = program[s].around \cup {s}
        /\ c \notin program[c].around
    <3>1. s \in DOMAIN program /\ s \in program[c].around /\ \A t \in program[c].around : t <= s
      BY <1>2, <2>1 DEF Child, Within, Linked
    <3>2. c # Module
      BY <2>1, <3>1 DEF Accepted
    <3>3. s < c /\ program[s].around = {u \in program[c].around : u < s}
          /\ program[c].around \subseteq Nat /\ c \notin program[c].around
      BY <1>2, <2>1, <3>1, Tree
    <3> QED
      BY <3>1, <3>2, <3>3
  <2>3. /\ DOMAIN a.at = {s} \cup program[s].around /\ a.at[Module] = 1 /\ a.at[s] = f
        /\ Module \in DOMAIN a.at /\ c \notin DOMAIN a.at
    BY <2>1, <2>2, Tree DEF Linked
  <2>4. /\ b.at[c] = n /\ DOMAIN b.at = {c} \cup program[c].around
        /\ \A t \in program[c].around : b.at[t] = a.at[t]
    BY <1>3, <2>2, <2>3 DEF Extend
  <2>5. layout[c].cellvars = owned_cells(program, c) /\ layout[c].freevars = freevars(program, c)
    BY <1>2 DEF IInv, Layout
  <2>6. ASSUME NEW x \in freevars(program, c)
        PROVE  \E t : Source(program, c, x, t) /\ b.closure[x] = <<b.at[t], x>>
    <3>1. CASE x \in owned_cells(program, s)
      <4>1. b.closure[x] = <<f, x>>
        BY <1>3, <2>1, <2>5, <3>1 DEF cell_ref, Linked
      <4>2. Source(program, c, x, s)
        BY <1>2, <2>1, <2>2, <3>1, Inherited
      <4> QED
        BY <2>2, <2>3, <2>4, <4>1, <4>2
    <3>2. CASE x \notin owned_cells(program, s)
      <4>1. x \in freevars(program, s)
        BY <1>2, <2>1, <2>2, <3>2, MakerHasFreevars
      <4>2. PICK t : Source(program, s, x, t) /\ a.closure[x] = <<a.at[t], x>>
        BY <2>1, <4>1 DEF Linked
      <4>3. b.closure[x] = <<a.at[t], x>>
        BY <1>3, <2>1, <2>5, <3>2, <4>2 DEF cell_ref, Linked
      <4>4. Source(program, c, x, t)
        BY <1>2, <2>1, <2>2, <3>2, <4>2, Inherited
      <4> QED
        BY <2>4, <4>3, <4>4 DEF Source
    <3> QED
      BY <3>1, <3>2
  <2>7. /\ b.scope \in DOMAIN program /\ b.at[b.scope] = n /\ b.at[Module] = 1
        /\ DOMAIN b.at = {b.scope} \cup program[b.scope].around
        /\ b.owned = [x \in owned_cells(program, b.scope) |-> <<n, x>>]
        /\ DOMAIN b.closure = freevars(program, b.scope)
    BY <1>2, <1>3, <2>1, <2>2, <2>3, <2>4, <2>5, Tree
  <2>8. /\ acts'[n].scope = c /\ acts'[n].at = b.at /\ acts'[n].owned = b.owned
        /\ acts'[n].closure = b.closure /\ b.scope = c
    BY <1>3, <1>5
  <2> HIDE DEF b
  <2> QED
    BY <1>6, <2>6, <2>7, <2>8 DEF Linked
<1>9. Accepted(program)' /\ GlobalsHideNothing(program)' /\ (layout = Layout(program))'
  BY <1>6 DEF IInv
<1> QED
  BY <1>4, <1>5, <1>7, <1>8, <1>9 DEF IInv

\* The invariant is inductive.
LEMMA NextLinked ==
  ASSUME IInv, [Next]_vars
  PROVE  IInv'
<1>1. CASE UNCHANGED vars
  BY <1>1, StillLinked DEF vars, IInv
<1>2. CASE Next
  <2>1. PICK f \in DOMAIN acts : MakeAndCall(f) \/ Load(f) \/ Store(f) \/ Delete(f)
    BY <1>2 DEF Next
  <2>2. CASE MakeAndCall(f)
    BY <2>2, MakeAndCallLinked
  <2>3. CASE Load(f)
    BY <2>3, StillLinked DEF Load, IInv
  <2>4. CASE Store(f)
    BY <2>4, PutLinked DEF Store
  <2>5. CASE Delete(f)
    BY <2>5, PutLinked DEF Delete
  <2> QED
    BY <2>1, <2>2, <2>3, <2>4, <2>5
<1> QED
  BY <1>1, <1>2

\* What holds of every activation, as the machine runs.
THEOREM Invariance == Spec => []IInv
<1>1. Init => IInv
  BY InitLinked
<1>2. IInv /\ [Next]_vars => IInv'
  BY NextLinked
<1> QED
  BY <1>1, <1>2, PTL DEF Spec

-----------------------------------------------------------------------------
\* ClosuresComplete holds of every program: whatever nests in what, the maker
\* of a callable has each cell that compute_callable_storage_layout lists.
THEOREM ClosuresAreComplete == Spec => []ClosuresComplete
<1>1. ASSUME IInv
      PROVE  ClosuresComplete
  <2>1. SUFFICES ASSUME NEW f \in DOMAIN acts, NEW c \in DOMAIN program,
                        Child(program, acts[f].scope, c), NEW x \in freevars(program, c)
                 PROVE  x \in DOMAIN acts[f].owned \cup DOMAIN acts[f].closure
    BY <1>1 DEF ClosuresComplete, IInv, Layout
  <2>2. Linked(f) /\ Accepted(program)
    BY <1>1 DEF IInv
  <2> QED
    BY <2>1, <2>2, MakerHasFreevars DEF Linked
<1> QED
  BY <1>1, Invariance, PTL

-----------------------------------------------------------------------------
\* A set of scopes has one that begins last.
LEMMA NearestIsLast ==
  ASSUME NEW n \in Nat, NEW D, D \subseteq 0..n, D # {}
  PROVE  Nearest(D) \in D /\ \A u \in D : u <= Nearest(D)
<1> DEFINE T == {n - t : t \in D}
           R == OpToRel(<, Nat)
<1>1. T \subseteq Nat /\ T # {}
  <2>1. \A t \in D : t \in Int /\ n - t \in Nat
    OBVIOUS
  <2>2. PICK t \in D : TRUE
    OBVIOUS
  <2>3. n - t \in T
    OBVIOUS
  <2> QED
    BY <2>1, <2>3
<1>2. PICK m \in T : \A y \in T : ~(<<y, m>> \in R)
  <2> HIDE DEF T, R
  <2> QED
    BY <1>1, NatLessThanWellFounded, WFMin DEF R
<1>3. PICK t \in D : m = n - t
  BY <1>2
<1>4. ASSUME NEW u \in D
      PROVE  u <= t
  <2>1. n - u \in T /\ n - u \in Nat /\ m \in Nat
    BY <1>1, <1>2
  <2>2. ~(n - u < m)
    BY <1>2, <2>1 DEF OpToRel
  <2> QED
    BY <1>3, <2>1, <2>2
<1> QED
  BY <1>4 DEF Nearest

\* Only functions own cells, of names that are theirs.
LEMMA OwnedIsOwn ==
  ASSUME NEW p, NEW t, NEW x \in owned_cells(p, t)
  PROVE  /\ p[t].kind = "function" /\ t # Module /\ x \in Own(p, t)
         /\ SemanticBinding(p, t, x) = "Local"
<1>1. BindingKind(p, t, x) = "Owner"
  BY DEF owned_cells
<1>2. p[t].kind = "function" /\ t # Module /\ SemanticBinding(p, t, x) # "Global"
      /\ SemanticBinding(p, t, x) # "Nonlocal"
  BY <1>1 DEF BindingKind
<1> QED
  BY <1>2 DEF SemanticBinding, local_defs, Own

\* A function owns the cell of its name that something in it captures.
LEMMA UsedIsOwned ==
  ASSUME NEW p, Accepted(p), NEW s \in DOMAIN p, NEW t \in Outer(p, s), NEW x \in Names,
         x \in Own(p, t), SemanticBinding(p, s, x) = "Nonlocal"
  PROVE  x \in owned_cells(p, t)
<1>1. t \in DOMAIN p /\ p[t].kind = "function" /\ t # Module /\ s \in Within(p, t)
  BY Tree DEF Outer, Within, Accepted
<1>2. SemanticBinding(p, t, x) = "Local"
  BY DEF SemanticBinding, local_defs, Own
<1>3. descendant_uses_nonlocal(p, t, x)
  BY <1>1 DEF descendant_uses_nonlocal
<1> QED
  BY <1>1, <1>2, <1>3 DEF owned_cells, BindingKind

\* Where a name is in one of the activation's own places, it is its own.
LEMMA OwnPlace ==
  ASSUME NEW p, NEW s, NEW x \in Names, StorePlace(p, s, x) \in {"slot", "namespace", "owned"}
  PROVE  VariableScope(p, s, x) = s
<1>1. BindingKind(p, s, x) \in {"Local", "Owner"}
  BY DEF StorePlace, Location, owned_cells
<1>2. SemanticBinding(p, s, x) \notin {"Global", "Nonlocal"}
  BY <1>1 DEF BindingKind
<1> QED
  BY <1>2 DEF SemanticBinding, VariableScope, local_defs, Own

\* A name that is used where a cell of the closure has it is captured there, and
\* not on the way to a function further in only.
LEMMA ClosureIsCapture ==
  ASSUME NEW p, Accepted(p), GlobalsHideNothing(p), NEW s \in DOMAIN p, NEW x \in Names,
         Sees(p, s, x), StorePlace(p, s, x) = "closure", NEW t, Source(p, s, x, t)
  PROVE  SemanticBinding(p, s, x) = "Nonlocal" /\ BindingKind(p, s, x) = "Capture"
<1>1. x \in freevars(p, s) /\ x \notin owned_cells(p, s)
  BY DEF StorePlace, Location
<1>2. s # Module
  BY <1>1, ModuleHasNoFreevars
<1>3. t \in Outer(p, s) /\ x \in Own(p, t) /\ t \in Nat
  BY OwnedIsOwn, Tree DEF Source, Outer
<1>4. PICK d \in {s} \cup Within(p, s) : x \in captured_cells(p, d)
  BY <1>1 DEF freevars
<1>5. d \in DOMAIN p /\ SemanticBinding(p, d, x) = "Nonlocal"
  BY <1>4 DEF Within, captured_cells, BindingKind
<1>6. SemanticBinding(p, s, x) = "Nonlocal"
  <2>1. SUFFICES ASSUME d \in Within(p, s), SemanticBinding(p, s, x) # "Nonlocal"
                 PROVE  FALSE
    BY <1>4, <1>5
  <2>2. x \notin p[s].globals
    <3>1. s \in p[d].around \ {Module} /\ t \in Outer(p, d)
      BY <1>2, <1>3, <1>5, <2>1, Tree DEF Within, Outer
    <3> QED
      BY <1>3, <1>5, <3>1 DEF GlobalsHideNothing
  <2>3. x \notin p[s].nonlocals
    BY <2>1, <2>2 DEF SemanticBinding
  <2>4. x \in local_defs(p, s)
    <3>1. enclosing_function_captures(p, s, x)
      BY <1>3 DEF enclosing_function_captures, local_defs, Own
    <3> QED
      BY <2>1, <2>2, <2>3, <3>1 DEF SemanticBinding, Sees, local_defs
  <2>5. descendant_uses_nonlocal(p, s, x)
    BY <1>5, <2>1 DEF descendant_uses_nonlocal
  <2>6. BindingKind(p, s, x) = IF p[s].kind = "function" THEN "Owner" ELSE "Local"
    BY <1>2, <2>2, <2>3, <2>4, <2>5 DEF BindingKind, SemanticBinding
  <2>7. p[s].kind \in {"function", "class"}
    <3>1. p \in Seq(Scopes)
      BY DEF Accepted
    <3>2. p[s] \in Scopes
      BY <3>1
    <3> QED
      BY <1>2, <3>2 DEF Accepted, Scopes, Kinds
  <2> QED
    BY <1>1, <2>6, <2>7 DEF owned_cells, StorePlace
<1> QED
  BY <1>2, <1>6 DEF BindingKind

\* Where it is in a cell of the closure, that cell comes from the function that
\* Python's rule names.
LEMMA ClosurePlace ==
  ASSUME NEW p, Accepted(p), GlobalsHideNothing(p), NEW s \in DOMAIN p, NEW x \in Names,
         Sees(p, s, x), StorePlace(p, s, x) = "closure", NEW t, Source(p, s, x, t)
  PROVE  VariableScope(p, s, x) = t
<1>1. SemanticBinding(p, s, x) = "Nonlocal"
  BY ClosureIsCapture
<1>2. t \in Outer(p, s) /\ x \in Own(p, t) /\ t \in Nat
  BY OwnedIsOwn, Tree DEF Source, Outer
<1>3. x \notin p[s].globals /\ x \notin Own(p, s)
  BY <1>1 DEF SemanticBinding, local_defs, Own
<1>4. t \in Deciding(p, s, x)
  BY <1>2 DEF Deciding
<1>5. ASSUME NEW u \in Deciding(p, s, x)
      PROVE  x \notin p[u].globals /\ u <= t
  <2>1. u \in p[s].around \ {Module} /\ u \in Outer(p, s)
    BY Tree DEF Deciding, Outer, Accepted
  <2>2. x \notin p[u].globals
    BY <1>2, <2>1 DEF GlobalsHideNothing
  <2>3. x \in owned_cells(p, u)
    BY <1>1, <2>1, <2>2, UsedIsOwned DEF Deciding
  <2> QED
    BY <2>1, <2>2, <2>3 DEF Source
<1>6. Nearest(Deciding(p, s, x)) = t
  <2>1. Deciding(p, s, x) \subseteq Nat
    BY Tree DEF Deciding, Outer
  <2>2. \A u \in Deciding(p, s, x) : (\A v \in Deciding(p, s, x) : v <= u) => u = t
    BY <1>2, <1>4, <1>5, <2>1
  <2> QED
    BY <1>4, <1>5, <2>2 DEF Nearest
<1> QED
  BY <1>3, <1>4, <1>5, <1>6 DEF VariableScope

\* A name in a global place is bound globally.
LEMMA GlobalIsGlobal ==
  ASSUME NEW p, Accepted(p), NEW s \in DOMAIN p, NEW x \in Names,
         StorePlace(p, s, x) = "global"
  PROVE  BindingKind(p, s, x) = "Global"
<1>1. x \notin owned_cells(p, s) /\ x \notin freevars(p, s) /\ BindingKind(p, s, x) # "Local"
  BY DEF StorePlace, Location
<1>2. ASSUME x \in captured_cells(p, s)
      PROVE  FALSE
  <2>1. Path(p, s, s) = {s}
    BY Tree DEF Path, Within
  <2> QED
    BY <1>1, <1>2, <2>1 DEF freevars
<1> QED
  BY <1>1, <1>2 DEF captured_cells, owned_cells, BindingKind

\* Where it is global, it is the module's.
LEMMA GlobalPlace ==
  ASSUME NEW p, Accepted(p), NEW s \in DOMAIN p, NEW x \in Names,
         Sees(p, s, x), StorePlace(p, s, x) = "global"
  PROVE  VariableScope(p, s, x) = Module
<1>1. BindingKind(p, s, x) = "Global"
  BY GlobalIsGlobal
<1>2. CASE s = Module
  BY <1>2 DEF VariableScope, Deciding, Outer, Accepted
<1>3. CASE s # Module
  <2>1. SemanticBinding(p, s, x) = "Global"
    BY <1>1, <1>3 DEF BindingKind
  <2>2. SUFFICES ASSUME x \notin p[s].globals
                 PROVE  VariableScope(p, s, x) = Module
    BY DEF VariableScope
  <2>3. x \notin Own(p, s) /\ x \in p[s].loads /\ ~enclosing_function_captures(p, s, x)
    BY <2>1, <2>2 DEF SemanticBinding, Sees, local_defs, Own
  <2>4. \A u \in Deciding(p, s, x) : x \in p[u].globals
    BY <2>3 DEF Deciding, enclosing_function_captures, local_defs, Own
  <2>5. Deciding(p, s, x) # {} => Nearest(Deciding(p, s, x)) \in Deciding(p, s, x)
    <3>1. Deciding(p, s, x) \subseteq 0..s /\ s \in Nat
      BY Tree DEF Deciding, Outer
    <3> QED
      BY <3>1, NearestIsLast
  <2> QED
    BY <2>2, <2>3, <2>4, <2>5 DEF VariableScope
<1> QED
  BY <1>2, <1>3

\* The abstract machine uses the same rule.
LEMMA SameRule ==
  ASSUME NEW p, NEW s, NEW x
  PROVE  Python!VariableScope(p, s, x) = VariableScope(p, s, x)
<1>1. Python!Own(p, s) = Own(p, s) /\ Python!Module = Module
  BY DEF Python!Own, Own, Python!Bound, Bound, Python!Module, Module
<1>2. Python!Deciding(p, s, x) = Deciding(p, s, x)
  BY DEF Python!Deciding, Deciding, Python!Outer, Outer, Python!Own, Own, Python!Bound, Bound
<1>3. ASSUME NEW D
      PROVE  Python!Nearest(D) = Nearest(D)
  BY DEF Python!Nearest, Nearest
<1> QED
  BY <1>1, <1>2, <1>3 DEF Python!VariableScope, VariableScope

\* The layout's places are those of the rule.
LEMMA StorageAgrees ==
  ASSUME IInv
  PROVE  OneStorage
<1>1. SUFFICES ASSUME NEW f \in DOMAIN acts, NEW x \in Names,
                      Sees(program, acts[f].scope, x)
               PROVE  Storage(f, x) = <<Python!FrameOf(f, x), x>>
  BY DEF OneStorage
<1> DEFINE s == acts[f].scope
           V == VariableScope(program, s, x)
<1>2. Linked(f) /\ Accepted(program) /\ GlobalsHideNothing(program) /\ s \in DOMAIN program
  BY DEF IInv, Linked
<1>3. Python!FrameOf(f, x) = acts[f].at[V]
  BY SameRule DEF Python!FrameOf, frames
<1>4. StoresIn(f, x) = StorePlace(program, s, x)
  BY <1>2 DEF StoresIn, IInv, Layout
<1>5. StorePlace(program, s, x) \in {"slot", "namespace", "owned", "closure", "global"}
  BY DEF StorePlace, Location
<1>6. CASE StorePlace(program, s, x) \in {"slot", "namespace"}
  <2>1. V = s
    BY <1>6, OwnPlace
  <2> QED
    BY <1>2, <1>3, <1>4, <1>6, <2>1 DEF Storage, Linked
<1>7. CASE StorePlace(program, s, x) = "owned"
  <2>1. V = s
    BY <1>7, OwnPlace
  <2>2. x \in owned_cells(program, s)
    BY <1>7 DEF StorePlace, Location
  <2> QED
    BY <1>2, <1>3, <1>4, <1>7, <2>1, <2>2 DEF Storage, cell_ref, Linked
<1>8. CASE StorePlace(program, s, x) = "closure"
  <2>1. x \in freevars(program, s) /\ x \notin owned_cells(program, s)
    BY <1>8 DEF StorePlace, Location
  <2>2. PICK t : Source(program, s, x, t) /\ acts[f].closure[x] = <<acts[f].at[t], x>>
    BY <1>2, <2>1 DEF Linked
  <2>3. V = t
    BY <1>1, <1>2, <1>8, <2>2, ClosurePlace
  <2> QED
    BY <1>2, <1>3, <1>4, <1>8, <2>1, <2>2, <2>3 DEF Storage, cell_ref, Linked
<1>9. CASE StorePlace(program, s, x) = "global"
  <2>1. V = Module
    BY <1>1, <1>2, <1>9, GlobalPlace
  <2> QED
    BY <1>2, <1>3, <1>4, <1>9, <2>1 DEF Storage, Linked, Module
<1> QED
  BY <1>5, <1>6, <1>7, <1>8, <1>9

\* OneStorage holds of every program in which no global declaration hides a
\* variable: however functions and classes nest, and however often they run,
\* a name is in the one place that Python's rule gives it.
THEOREM StorageIsOne == Spec => []OneStorage
<1>1. IInv => OneStorage
  BY StorageAgrees
<1> QED
  BY <1>1, Invariance, PTL
-----------------------------------------------------------------------------
(* About programs. *)

\* A scope keeps its own variables in a place of its own.
LEMMA PlaceOfOwn ==
  ASSUME NEW p, Accepted(p), NEW s \in DOMAIN p, NEW x \in Names,
         s = Module \/ x \in Own(p, s)
  PROVE  \/ s = Module /\ StorePlace(p, s, x) = "global"
         \/ s # Module /\ p[s].kind = "class" /\ StorePlace(p, s, x) = "namespace"
            /\ BindingKind(p, s, x) = "Local"
         \/ s # Module /\ p[s].kind = "function" /\ StorePlace(p, s, x) = "slot"
         \/ s # Module /\ p[s].kind = "function" /\ StorePlace(p, s, x) = "owned"
            /\ x \in owned_cells(p, s) /\ x \notin p[s].params
<1>0. p[s].kind \in Kinds /\ (s # Module => p[s].kind # "module") /\ p[Module].kind = "module"
  <2>1. p \in Seq(Scopes)
    BY DEF Accepted
  <2>2. p[s] \in Scopes
    BY <2>1
  <2> QED
    BY <2>2 DEF Scopes, Accepted
<1>1. CASE s = Module
  <2>1. BindingKind(p, s, x) = "Global" /\ x \notin owned_cells(p, s) /\ x \notin freevars(p, s)
    BY <1>1, ModuleHasNoFreevars DEF BindingKind
  <2> QED
    BY <1>1, <2>1 DEF StorePlace, Location
<1>2. CASE s # Module
  <2>1. SemanticBinding(p, s, x) = "Local"
    BY <1>2 DEF SemanticBinding, local_defs, Own
  <2>2. CASE p[s].kind = "class"
    BY <1>2, <2>1, <2>2 DEF StorePlace, BindingKind
  <2>3. CASE p[s].kind = "function" /\ x \in owned_cells(p, s)
    BY <1>2, <2>3 DEF StorePlace, Location
  <2>4. CASE p[s].kind = "function" /\ x \notin owned_cells(p, s)
    <3>1. BindingKind(p, s, x) = "Local" /\ ~descendant_uses_nonlocal(p, s, x)
      BY <1>2, <2>1, <2>4 DEF BindingKind, owned_cells
    <3>2. x \notin freevars(p, s)
      <4>1. SUFFICES ASSUME NEW d \in {s} \cup Within(p, s), x \in captured_cells(p, d)
                     PROVE  FALSE
        BY DEF freevars
      <4>2. SemanticBinding(p, d, x) = "Nonlocal"
        BY <4>1 DEF captured_cells, BindingKind
      <4> QED
        BY <2>1, <3>1, <4>1, <4>2 DEF descendant_uses_nonlocal
    <3> QED
      BY <1>2, <2>4, <3>1, <3>2 DEF StorePlace, Location
  <2> QED
    BY <1>0, <1>2, <2>2, <2>3, <2>4 DEF Kinds
<1> QED
  BY <1>1, <1>2

\* What is kept in a slot or a namespace is the scope's own, unless nothing
\* in the scope uses it.
LEMMA OwnOfPlace ==
  ASSUME NEW p, Accepted(p), NEW s \in DOMAIN p, NEW x \in Names,
         StorePlace(p, s, x) \in {"slot", "namespace", "owned"}
  PROVE  x \in Own(p, s) /\ s # Module
<1>1. BindingKind(p, s, x) \in {"Local", "Owner"}
  BY DEF StorePlace, Location, owned_cells
<1>2. s # Module /\ SemanticBinding(p, s, x) \notin {"Global", "Nonlocal"}
  BY <1>1 DEF BindingKind
<1> QED
  BY <1>2 DEF SemanticBinding, local_defs, Own

\* A parameter that code other than its function's uses is bound by none.
LEMMA SharedParameter ==
  ASSUME NEW p, Accepted(p), ParametersKept(p), NEW t \in DOMAIN p, NEW x \in p[t].params,
         NEW s \in DOMAIN p, s # t, Sees(p, s, x), VariableScope(p, s, x) = t,
         NEW u \in DOMAIN p, Sees(p, u, x), VariableScope(p, u, x) = t
  PROVE  x \notin p[u].stores \cup p[u].dels
BY DEF ParametersKept

\* The abstract machine sees the same program.
LEMMA SameProgram ==
  ASSUME NEW p
  PROVE  /\ Python!Accepted(p) <=> Accepted(p)
         /\ \A s, c : Python!Child(p, s, c) <=> Child(p, s, c)
         /\ \A f, g : Python!Extend(f, g) = Extend(f, g)
<1>1. \A s : Python!Own(p, s) = Own(p, s)
  BY DEF Python!Own, Own, Python!Bound, Bound
<1>2. \A s, x : Python!Deciding(p, s, x) = Deciding(p, s, x)
  BY <1>1 DEF Python!Deciding, Deciding, Python!Outer, Outer
<1>3. Python!Accepted(p) <=> Accepted(p)
  BY <1>1, <1>2
  DEF Python!Accepted, Accepted, Python!Scopes, Scopes, Python!Kinds, Kinds,
    Python!Module, Module
<1>4. \A s, c : Python!Child(p, s, c) <=> Child(p, s, c)
  BY DEF Python!Child, Child, Python!Within, Within
<1>5. \A f, g : Python!Extend(f, g) = Extend(f, g)
  BY DEF Python!Extend, Extend
<1> QED
  BY <1>3, <1>4, <1>5

-----------------------------------------------------------------------------
(* About runs. *)

\* Code of another scope than t uses the variable x of t.
Shared(t, x) ==
  \E s \in DOMAIN program \ {t} : Sees(program, s, x) /\ VariableScope(program, s, x) = t

\* What activation f can have in its places.  A shared parameter has a slot and
\* a cell: they agree.
HeldBy(f) ==
  /\ DOMAIN acts[f].slots = Names /\ DOMAIN acts[f].namespace = Names
  /\ \A t \in DOMAIN acts[f].at : /\ acts[f].at[t] \in DOMAIN acts
                                  /\ acts[acts[f].at[t]].scope = t
  /\ \A x \in owned_cells(program, acts[f].scope) : <<f, x>> \in DOMAIN cells
  /\ \A x \in Names : StoresIn(f, x) # "namespace" => acts[f].namespace[x] = Empty
  /\ \A x \in owned_cells(program, acts[f].scope) \cap program[acts[f].scope].params :
       Shared(acts[f].scope, x) => cells[<<f, x>>] = acts[f].slots[x]

Held ==
  /\ ParametersKept(program)
  /\ DOMAIN globals = Names
  /\ \A id \in DOMAIN cells : \E f \in DOMAIN acts, x \in Names : id = <<f, x>>
  /\ \A f \in DOMAIN acts : HeldBy(f)

\* The frame whose variable a name is, and where the code that uses the name
\* has it.
LEMMA Owner ==
  ASSUME IInv, Held, NEW f \in DOMAIN acts, NEW x \in Names,
         Sees(program, acts[f].scope, x), NEW g, g = Python!FrameOf(f, x)
  PROVE  /\ g \in DOMAIN acts
         /\ acts[g].scope = VariableScope(program, acts[f].scope, x)
         /\ \/ StoresIn(f, x) \in {"slot", "namespace"} /\ g = f
            \/ StoresIn(f, x) = "owned" /\ g = f /\ cell_ref(acts[f], x) = <<g, x>>
            \/ /\ StoresIn(f, x) = "closure" /\ acts[g].scope # acts[f].scope
               /\ x \in owned_cells(program, acts[g].scope)
               /\ cell_ref(acts[f], x) = <<g, x>>
               /\ BindingKind(program, acts[f].scope, x) = "Capture"
            \/ /\ StoresIn(f, x) = "global" /\ acts[g].scope = Module
               /\ BindingKind(program, acts[f].scope, x) = "Global"
<1> DEFINE s == acts[f].scope
           V == VariableScope(program, s, x)
<1>1. /\ Linked(f) /\ HeldBy(f) /\ Accepted(program) /\ GlobalsHideNothing(program)
      /\ s \in DOMAIN program
  BY DEF IInv, Held, Linked
<1>2. g = acts[f].at[V] /\ Storage(f, x) = <<g, x>>
  BY StorageAgrees, SameRule DEF OneStorage, Python!FrameOf, frames
<1>3. StoresIn(f, x) = StorePlace(program, s, x)
  BY <1>1 DEF StoresIn, IInv, Layout
<1>4. V \in DOMAIN acts[f].at => g \in DOMAIN acts /\ acts[g].scope = V
  BY <1>1, <1>2 DEF HeldBy
<1>5. {s, Module} \cup program[s].around \subseteq DOMAIN acts[f].at /\ acts[f].at[s] = f
  BY <1>1, Tree DEF Linked
<1>6. StorePlace(program, s, x) \in {"slot", "namespace", "owned", "closure", "global"}
  BY DEF StorePlace, Location
<1>7. CASE StorePlace(program, s, x) \in {"slot", "namespace", "owned"}
  <2>1. V = s
    BY <1>7, OwnPlace
  <2>2. g = f
    BY <1>2, <1>5, <2>1
  <2> QED
    BY <1>2, <1>3, <1>4, <1>5, <1>7, <2>1, <2>2 DEF Storage
<1>8. CASE StorePlace(program, s, x) = "closure"
  <2>1. x \in freevars(program, s)
    BY <1>8 DEF StorePlace, Location
  <2>2. PICK t : Source(program, s, x, t)
    BY <1>1, <2>1 DEF Linked
  <2>3. V = t /\ BindingKind(program, s, x) = "Capture"
    BY <1>1, <1>8, <2>2, ClosurePlace, ClosureIsCapture
  <2>4. t \in program[s].around /\ t # s /\ x \in owned_cells(program, t)
    BY <1>1, <2>2, Tree DEF Source
  <2> QED
    BY <1>2, <1>3, <1>4, <1>5, <1>8, <2>3, <2>4 DEF Storage
<1>9. CASE StorePlace(program, s, x) = "global"
  <2>1. V = Module /\ BindingKind(program, s, x) = "Global"
    BY <1>1, <1>9, GlobalPlace, GlobalIsGlobal
  <2> QED
    BY <1>3, <1>4, <1>5, <1>9, <2>1
<1> QED
  BY <1>6, <1>7, <1>8, <1>9

\* The module is entered once.
LEMMA OneModule ==
  ASSUME IInv, Held, NEW g \in DOMAIN acts, acts[g].scope = Module
  PROVE  g = 1
BY DEF IInv, Linked

\* The places of a frame's own variables.
LEMMA VariablePlace ==
  ASSUME IInv, Held, NEW g \in DOMAIN acts, NEW x \in Names
  PROVE  \/ /\ acts[g].scope = Module /\ StoresIn(g, x) = "global"
            /\ Variable(g, x) = LoadFrom(g, "global", x)
         \/ /\ acts[g].scope # Module /\ x \notin Own(program, acts[g].scope)
            /\ StoresIn(g, x) \in {"closure", "global"}
            /\ Variable(g, x) = NameError
         \/ /\ acts[g].scope # Module /\ x \in Own(program, acts[g].scope)
            /\ StoresIn(g, x) = "namespace"
            /\ program[acts[g].scope].kind = "class"
            /\ BindingKind(program, acts[g].scope, x) = "Local"
            /\ Variable(g, x) = LoadFrom(g, "namespace", x)
         \/ /\ acts[g].scope # Module /\ x \in Own(program, acts[g].scope)
            /\ StoresIn(g, x) = "slot"
            /\ program[acts[g].scope].kind = "function"
            /\ Variable(g, x) = LoadFrom(g, "slot", x)
         \/ /\ acts[g].scope # Module /\ x \in Own(program, acts[g].scope)
            /\ StoresIn(g, x) = "owned"
            /\ program[acts[g].scope].kind = "function"
            /\ x \in owned_cells(program, acts[g].scope)
            /\ x \notin program[acts[g].scope].params
            /\ cell_ref(acts[g], x) = <<g, x>>
            /\ Variable(g, x) = LoadFrom(g, "owned", x)
<1> DEFINE s == acts[g].scope
<1>1. Linked(g) /\ Accepted(program) /\ s \in DOMAIN program
  BY DEF IInv, Linked
<1>2. StoresIn(g, x) = StorePlace(program, s, x)
  BY <1>1 DEF StoresIn, IInv, Layout
<1>3. x \in owned_cells(program, s) => cell_ref(acts[g], x) = <<g, x>>
  BY <1>1 DEF cell_ref, Linked
<1>4. CASE s = Module \/ x \in Own(program, s)
  BY <1>1, <1>2, <1>3, <1>4, PlaceOfOwn DEF Variable
<1>5. CASE s # Module /\ x \notin Own(program, s)
  <2>1. StorePlace(program, s, x) \in {"slot", "namespace", "owned", "closure", "global"}
    BY DEF StorePlace, Location
  <2>2. StorePlace(program, s, x) \in {"closure", "global"}
    BY <1>1, <1>5, <2>1, OwnOfPlace
  <2> QED
    BY <1>2, <1>5, <2>2 DEF Variable
<1> QED
  BY <1>4, <1>5

\* Reading a place gives the value of the variable.
LEMMA ReadsVariable ==
  ASSUME IInv, Held, NEW f \in DOMAIN acts, NEW x \in Names,
         Sees(program, acts[f].scope, x), NEW g, g = Python!FrameOf(f, x)
  PROVE  LoadFrom(f, StoresIn(f, x), x) = Variable(g, x)
<1>1. g \in DOMAIN acts
  BY Owner
<1>2. CASE StoresIn(f, x) \in {"slot", "namespace", "owned"}
  <2>1. g = f
    BY <1>2, Owner
  <2> QED
    BY <1>2, <2>1, VariablePlace
<1>3. CASE StoresIn(f, x) = "closure"
  <2>1. /\ acts[g].scope # acts[f].scope /\ x \in owned_cells(program, acts[g].scope)
        /\ cell_ref(acts[f], x) = <<g, x>>
        /\ acts[g].scope = VariableScope(program, acts[f].scope, x)
    BY <1>3, Owner
  <2>2. LoadFrom(f, "closure", x) = IF cells[<<g, x>>] \in Values THEN cells[<<g, x>>] ELSE NameError
    BY <2>1 DEF LoadFrom, HasValue, Content
  <2>3. Linked(g) /\ HeldBy(g) /\ acts[f].scope \in DOMAIN program /\ Linked(f)
    BY <1>1 DEF IInv, Held, Linked
  <2>4. x \in Own(program, acts[g].scope) /\ acts[g].scope # Module
    BY <2>1, OwnedIsOwn
  <2>5. CASE StoresIn(g, x) = "owned"
    <3>1. cell_ref(acts[g], x) = <<g, x>> /\ Variable(g, x) = LoadFrom(g, "owned", x)
      BY <1>1, <2>5, VariablePlace
    <3>2. LoadFrom(g, "owned", x) = IF cells[<<g, x>>] \in Values THEN cells[<<g, x>>] ELSE NameError
      BY <3>1 DEF LoadFrom, HasValue, Content
    <3> QED
      BY <1>3, <2>2, <3>1, <3>2
  <2>6. CASE StoresIn(g, x) = "slot"
    <3>1. x \in program[acts[g].scope].params
      BY <2>1, <2>3, <2>6 DEF StoresIn, IInv, Layout, Linked, StorePlace, Location
    <3>2. Shared(acts[g].scope, x)
      BY <2>1, <2>3 DEF Shared
    <3>3. cells[<<g, x>>] = acts[g].slots[x]
      BY <2>1, <2>3, <3>1, <3>2 DEF HeldBy
    <3>4. Variable(g, x) = LoadFrom(g, "slot", x)
      BY <1>1, <2>6, VariablePlace
    <3> QED
      BY <1>3, <2>2, <3>3, <3>4 DEF LoadFrom, HasValue, Content
  <2>7. StoresIn(g, x) \in {"owned", "slot"}
    <3>1. program[acts[g].scope].kind = "function"
      BY <2>1, OwnedIsOwn
    <3> QED
      BY <1>1, <2>4, <3>1, VariablePlace
  <2> QED
    BY <2>5, <2>6, <2>7
<1>4. CASE StoresIn(f, x) = "global"
  <2>1. acts[g].scope = Module
    BY <1>4, Owner
  <2>2. Variable(g, x) = LoadFrom(g, "global", x)
    BY <1>1, <2>1, VariablePlace
  <2> QED
    BY <1>4, <2>2 DEF LoadFrom, HasValue, Content
<1> QED
  BY <1>2, <1>3, <1>4, Owner

\* The frames, field by field.
LEMMA FrameFacts ==
  /\ DOMAIN frames = DOMAIN acts
  /\ \A f \in DOMAIN acts :
       /\ frames[f].scope = acts[f].scope /\ frames[f].at = acts[f].at
       /\ \A x \in Names : frames[f].vars[x] = Variable(f, x)
BY DEF frames

\* The names that a scope uses are names, and it sees them.
LEMMA UsesSeen ==
  ASSUME NEW p, Accepted(p), NEW s \in DOMAIN p,
         NEW x \in p[s].loads \cup p[s].stores \cup p[s].dels
  PROVE  x \in Names /\ Sees(p, s, x)
<1>1. p \in Seq(Scopes)
  BY DEF Accepted
<1>2. p[s] \in Scopes
  BY <1>1
<1> QED
  BY <1>2 DEF Scopes, Sees, Bound

\* Whatever is loaded is what Python's rule says, in a class body too: it looks
\* in its namespace first and falls back on the cell or the module.
LEMMA LoadGives ==
  ASSUME IInv, Held, NEW f \in DOMAIN acts, NEW x \in Names,
         Sees(program, acts[f].scope, x)
  PROVE  Python!NameValue(f, x) =
           IF IsClass(f) THEN class_lookup(f, x) ELSE LoadFrom(f, StoresIn(f, x), x)
<1> DEFINE g == Python!FrameOf(f, x)
           s == acts[f].scope
<1>1. /\ g \in DOMAIN acts /\ frames[g].vars[x] = Variable(g, x)
      /\ Variable(g, x) = LoadFrom(f, StoresIn(f, x), x)
  BY Owner, ReadsVariable, FrameFacts
<1>2. IsClass(f) <=> program[frames[f].scope].kind = "class"
  BY FrameFacts DEF IsClass
<1>3. CASE ~IsClass(f)
  BY <1>1, <1>2, <1>3 DEF Python!NameValue
<1>4. CASE IsClass(f)
  <2>1. /\ Linked(f) /\ HeldBy(f) /\ s \in DOMAIN program /\ Accepted(program)
        /\ layout = Layout(program)
    BY DEF IInv, Held, Linked
  <2>2. 1 \in DOMAIN acts /\ acts[1].scope = Module
    <3>1. Module \in DOMAIN acts[f].at /\ acts[f].at[Module] = 1
      BY <2>1, Tree DEF Linked
    <3> QED
      BY <2>1, <3>1 DEF HeldBy
  <2>3. frames[1].vars[x] = LoadFrom(1, "global", x)
    BY <2>2, FrameFacts, VariablePlace
  <2>4. layout[s].fallback[x] = IF BindingKind(program, s, x) = "Capture" THEN "closure" ELSE "global"
    BY <2>1 DEF Layout, ClassFallback
  <2>5. s # Module
    BY <1>4, <2>1 DEF IsClass, Accepted
  <2>6. Python!NameValue(f, x) = IF Variable(g, x) = NameError /\ g = f
                                 THEN LoadFrom(1, "global", x) ELSE Variable(g, x)
    BY <1>1, <1>2, <1>4, <2>3
    DEF Python!NameValue, Python!Lookup, Python!Module, Python!Unbound, NameError, Module
  <2>7. CASE StoresIn(f, x) = "namespace"
    <3>1. g = f
      BY <2>7, Owner
    <3>2. BindingKind(program, s, x) = "Local"
      BY <2>7, VariablePlace
    <3>3. Variable(g, x) = LoadFrom(f, "namespace", x)
      BY <1>1, <2>7
    <3>4. LoadFrom(f, "global", x) = LoadFrom(1, "global", x)
      BY DEF LoadFrom, HasValue, Content
    <3> QED
      BY <1>4, <2>4, <2>6, <3>1, <3>2, <3>3, <3>4, ValuesAssumption
      DEF class_lookup, LoadFrom, HasValue, Content
  <2>8. CASE StoresIn(f, x) # "namespace"
    <3>1. ~HasValue(f, "namespace", x)
      BY <2>1, <2>8, ValuesAssumption DEF HeldBy, HasValue, Content
    <3>2. StoresIn(f, x) \in {"closure", "global"}
      BY <1>4, <2>8, Owner, VariablePlace DEF IsClass
    <3>3. layout[s].fallback[x] = StoresIn(f, x)
      BY <2>4, <3>2, Owner
    <3>4. class_lookup(f, x) = Variable(g, x)
      BY <1>1, <3>1, <3>3 DEF class_lookup
    <3>5. g # f
      BY <2>5, <3>2, Owner
    <3> QED
      BY <1>4, <2>6, <3>4, <3>5
  <2> QED
    BY <2>7, <2>8
<1> QED
  BY <1>3, <1>4

\* A load is a read of the language.
LEMMA LoadRefines ==
  ASSUME IInv, Held, NEW f \in DOMAIN acts, Load(f)
  PROVE  Python!Next
<1>1. PICK x \in program[acts[f].scope].loads :
        out' = IF IsClass(f) THEN class_lookup(f, x) ELSE LoadFrom(f, StoresIn(f, x), x)
  BY DEF Load
<1>2. acts[f].scope \in DOMAIN program /\ Accepted(program)
  BY DEF IInv, Linked
<1>3. out' = Python!NameValue(f, x)
  BY <1>1, <1>2, UsesSeen, LoadGives
<1>4. UNCHANGED <<program, frames>>
  BY DEF Load, frames, Variable, LoadFrom, HasValue, Content, StoresIn, cell_ref
<1>5. Python!Read(f, x)
  BY <1>3, <1>4 DEF Python!Read
<1> QED
  BY <1>1, <1>5, FrameFacts DEF Python!Next

-----------------------------------------------------------------------------
\* A parameter that is stored or deleted is not shared.
LEMMA StoredIsNotShared ==
  ASSUME IInv, Held, NEW f \in DOMAIN acts,
         NEW x \in program[acts[f].scope].stores \cup program[acts[f].scope].dels,
         NEW t \in DOMAIN program, x \in program[t].params,
         VariableScope(program, acts[f].scope, x) = t
  PROVE  acts[f].scope = t /\ ~Shared(t, x)
<1>1. /\ Accepted(program) /\ acts[f].scope \in DOMAIN program /\ ParametersKept(program)
      /\ Sees(program, acts[f].scope, x)
  BY UsesSeen DEF IInv, Held, Linked
<1>2. ~Shared(t, x)
  BY <1>1, SharedParameter DEF Shared
<1> QED
  BY <1>1, <1>2 DEF Shared

\* What storing or deleting changes: one place.
LEMMA PutEffects ==
  ASSUME IInv, Held, NEW f \in DOMAIN acts, NEW x \in Names, NEW v, Put(f, x, v)
  PROVE  /\ DOMAIN acts' = DOMAIN acts /\ DOMAIN cells' = DOMAIN cells
         /\ DOMAIN globals' = Names /\ program' = program /\ layout' = layout /\ out' = out
         /\ \A h \in DOMAIN acts :
              /\ acts'[h].scope = acts[h].scope /\ acts'[h].at = acts[h].at
              /\ acts'[h].owned = acts[h].owned /\ acts'[h].closure = acts[h].closure
              /\ DOMAIN acts'[h].slots = Names /\ DOMAIN acts'[h].namespace = Names
              /\ \A y \in Names :
                   /\ acts'[h].slots[y] = IF StoresIn(f, x) = "slot" /\ h = f /\ y = x
                                           THEN v ELSE acts[h].slots[y]
                   /\ acts'[h].namespace[y] = IF StoresIn(f, x) = "namespace" /\ h = f /\ y = x
                                               THEN v ELSE acts[h].namespace[y]
         /\ \A id \in DOMAIN cells :
              cells'[id] = IF StoresIn(f, x) \in {"owned", "closure"} /\ id = cell_ref(acts[f], x)
                           THEN v ELSE cells[id]
         /\ \A y \in Names :
              globals'[y] = IF StoresIn(f, x) = "global" /\ y = x THEN v ELSE globals[y]
<1>1. /\ program' = program /\ layout' = layout /\ out' = out
      /\ DOMAIN globals = Names
      /\ \A h \in DOMAIN acts : DOMAIN acts[h].slots = Names /\ DOMAIN acts[h].namespace = Names
  BY DEF Put, Held, HeldBy
<1>2. PICK S : acts \in Seq(Records(S))
  BY DEF IInv
<1>3. \A h \in DOMAIN acts : acts[h] \in Records(S)
  BY <1>2
<1>4. CASE /\ StoresIn(f, x) = "slot" /\ acts' = [acts EXCEPT ![f].slots[x] = v]
           /\ UNCHANGED <<cells, globals>>
  <2>1. acts' = [acts EXCEPT ![f] = [acts[f] EXCEPT !.slots = [acts[f].slots EXCEPT ![x] = v]]]
    BY <1>4
  <2>2. \A h \in DOMAIN acts \ {f} : acts'[h] = acts[h]
    BY <2>1
  <2>3. /\ acts'[f].scope = acts[f].scope /\ acts'[f].at = acts[f].at
        /\ acts'[f].owned = acts[f].owned /\ acts'[f].closure = acts[f].closure
        /\ acts'[f].namespace = acts[f].namespace
        /\ acts'[f].slots = [acts[f].slots EXCEPT ![x] = v]
    BY <1>3, <2>1 DEF Records
  <2>4. DOMAIN acts' = DOMAIN acts
    BY <2>1
  <2> QED
    BY <1>1, <1>4, <2>2, <2>3, <2>4
<1>5. CASE /\ StoresIn(f, x) = "namespace" /\ acts' = [acts EXCEPT ![f].namespace[x] = v]
           /\ UNCHANGED <<cells, globals>>
  <2>1. acts' = [acts EXCEPT ![f] = [acts[f] EXCEPT !.namespace = [acts[f].namespace EXCEPT ![x] = v]]]
    BY <1>5
  <2>2. \A h \in DOMAIN acts \ {f} : acts'[h] = acts[h]
    BY <2>1
  <2>3. /\ acts'[f].scope = acts[f].scope /\ acts'[f].at = acts[f].at
        /\ acts'[f].owned = acts[f].owned /\ acts'[f].closure = acts[f].closure
        /\ acts'[f].slots = acts[f].slots
        /\ acts'[f].namespace = [acts[f].namespace EXCEPT ![x] = v]
    BY <1>3, <2>1 DEF Records
  <2>4. DOMAIN acts' = DOMAIN acts
    BY <2>1
  <2> QED
    BY <1>1, <1>5, <2>2, <2>3, <2>4
<1>6. CASE /\ StoresIn(f, x) \in {"owned", "closure"} /\ cells' = [cells EXCEPT ![cell_ref(acts[f], x)] = v]
           /\ UNCHANGED <<acts, globals>>
  BY <1>1, <1>6
<1>7. CASE /\ StoresIn(f, x) = "global" /\ globals' = [globals EXCEPT ![x] = v]
           /\ UNCHANGED <<acts, cells>>
  BY <1>1, <1>7
<1> QED
  BY <1>4, <1>5, <1>6, <1>7 DEF Put

\* One variable changes: the one that Python's rule names.
LEMMA PutVariable ==
  ASSUME IInv, Held, NEW f \in DOMAIN acts,
         NEW x \in program[acts[f].scope].stores \cup program[acts[f].scope].dels,
         NEW v, Put(f, x, v), NEW g, g = Python!FrameOf(f, x),
         NEW h \in DOMAIN acts, NEW y \in Names
  PROVE  Variable(h, y)' = IF h = g /\ y = x THEN (IF v \in Values THEN v ELSE NameError)
                           ELSE Variable(h, y)
<1>1. /\ Accepted(program) /\ acts[f].scope \in DOMAIN program /\ x \in Names
      /\ Sees(program, acts[f].scope, x)
  BY UsesSeen DEF IInv, Linked
<1>2. /\ g \in DOMAIN acts /\ acts[g].scope = VariableScope(program, acts[f].scope, x)
      /\ Linked(g) /\ Linked(h) /\ HeldBy(g) /\ HeldBy(h)
      /\ acts[g].scope \in DOMAIN program
  <2>1. g \in DOMAIN acts /\ acts[g].scope = VariableScope(program, acts[f].scope, x)
    BY <1>1, Owner
  <2>2. Linked(g) /\ Linked(h) /\ HeldBy(g) /\ HeldBy(h)
    BY <2>1 DEF IInv, Held
  <2> QED
    BY <2>1, <2>2 DEF Linked
<1>3. /\ StoresIn(h, y)' = StoresIn(h, y) /\ cell_ref(acts[h], y)' = cell_ref(acts[h], y)
      /\ program' = program /\ acts'[h].scope = acts[h].scope
  BY <1>1, PutEffects DEF StoresIn, cell_ref
<1>4. Variable(h, y)' = IF acts[h].scope = Module \/ y \in Own(program, acts[h].scope)
                        THEN LoadFrom(h, StoresIn(h, y), y)' ELSE NameError
  BY <1>3 DEF Variable
<1>5. CASE acts[h].scope = Module
  <2>1. StoresIn(h, y) = "global" /\ h = 1
    BY <1>5, VariablePlace, OneModule
  <2>2. Variable(h, y) = IF globals[y] \in Values THEN globals[y] ELSE NameError
    BY <1>5, VariablePlace DEF LoadFrom, HasValue, Content
  <2>3. Variable(h, y)' = IF globals'[y] \in Values THEN globals'[y] ELSE NameError
    BY <1>3, <1>4, <1>5, <2>1 DEF LoadFrom, HasValue, Content
  <2>4. StoresIn(f, x) = "global" <=> h = g
    <3>1. StoresIn(f, x) = "global" => h = g
      BY <1>1, <1>2, <2>1, Owner, OneModule
    <3>2. h = g => StoresIn(f, x) \notin {"slot", "namespace", "owned"}
      <4>1. StoresIn(f, x) \in {"slot", "namespace", "owned"} => g = f
        BY <1>1, Owner
      <4>2. acts[f].scope = Module => StoresIn(f, x) = "global"
        BY <1>1, VariablePlace
      <4> QED
        BY <1>5, <4>1, <4>2
    <3>3. h = g => StoresIn(f, x) # "closure"
      BY <1>1, <1>2, <1>5, Owner, OwnedIsOwn
    <3> QED
      BY <1>1, <3>1, <3>2, <3>3, Owner
  <2> QED
    BY <1>1, <2>2, <2>3, <2>4, PutEffects
<1>6. CASE acts[h].scope # Module /\ y \notin Own(program, acts[h].scope)
  <2>1. Variable(h, y)' = NameError /\ Variable(h, y) = NameError
    BY <1>4, <1>6 DEF Variable
  <2>2. ~(h = g /\ y = x)
    <3>1. SUFFICES ASSUME h = g, y = x
                   PROVE  FALSE
      OBVIOUS
    <3>2. StoresIn(f, x) \notin {"slot", "namespace", "owned"}
      <4>1. StoresIn(f, x) \in {"slot", "namespace", "owned"} => g = f
        BY <1>1, Owner
      <4>2. StoresIn(h, y) \in {"closure", "global"}
        BY <1>6, VariablePlace DEF Variable
      <4> QED
        BY <3>1, <4>1, <4>2
    <3>3. StoresIn(f, x) # "closure"
      BY <1>1, <1>6, <3>1, Owner, OwnedIsOwn
    <3> QED
      BY <1>1, <1>6, <3>1, <3>2, <3>3, Owner
  <2> QED
    BY <2>1, <2>2
<1>7. CASE acts[h].scope # Module /\ y \in Own(program, acts[h].scope)
  <2>0. Variable(h, y)' = LoadFrom(h, StoresIn(h, y), y)'
    BY <1>4, <1>7
  <2>1. CASE StoresIn(h, y) = "namespace"
    <3>1. Variable(h, y) = IF acts[h].namespace[y] \in Values THEN acts[h].namespace[y] ELSE NameError
      BY <1>7, <2>1, VariablePlace DEF LoadFrom, HasValue, Content
    <3>2. Variable(h, y)' = IF acts'[h].namespace[y] \in Values THEN acts'[h].namespace[y] ELSE NameError
      BY <1>3, <2>0, <2>1 DEF LoadFrom, HasValue, Content
    <3>3. h = g /\ y = x <=> StoresIn(f, x) = "namespace" /\ h = f /\ y = x
      <4>1. program[acts[h].scope].kind = "class"
        BY <1>7, <2>1, VariablePlace
      <4>2. h = g => StoresIn(f, x) # "closure"
        BY <1>1, <4>1, Owner, OwnedIsOwn
      <4>3. h = g => StoresIn(f, x) # "global"
        BY <1>1, <1>7, Owner
      <4> QED
        BY <1>1, <2>1, <4>2, <4>3, Owner
    <3> QED
      BY <1>1, <3>1, <3>2, <3>3, PutEffects
  <2>2. CASE StoresIn(h, y) = "slot"
    <3>1. Variable(h, y) = IF acts[h].slots[y] \in Values THEN acts[h].slots[y] ELSE NameError
      BY <1>7, <2>2, VariablePlace DEF LoadFrom, HasValue, Content
    <3>2. Variable(h, y)' = IF acts'[h].slots[y] \in Values THEN acts'[h].slots[y] ELSE NameError
      BY <1>3, <2>0, <2>2 DEF LoadFrom, HasValue, Content
    <3>3. h = g /\ y = x <=> StoresIn(f, x) = "slot" /\ h = f /\ y = x
      <4>1. h = g /\ y = x => StoresIn(f, x) # "closure"
        <5>1. SUFFICES ASSUME h = g, y = x, StoresIn(f, x) = "closure"
                       PROVE  FALSE
          OBVIOUS
        <5>2. x \in owned_cells(program, acts[g].scope) /\ acts[g].scope # acts[f].scope
          BY <1>1, <5>1, Owner
        <5>3. x \in program[acts[g].scope].params
          BY <1>2, <2>2, <5>1, <5>2 DEF StoresIn, IInv, Layout, StorePlace, Location
        <5> QED
          BY <1>2, <5>2, <5>3, StoredIsNotShared
      <4>2. h = g => StoresIn(f, x) # "global"
        BY <1>1, <1>7, Owner
      <4> QED
        BY <1>1, <2>2, <4>1, <4>2, Owner
    <3> QED
      BY <1>1, <3>1, <3>2, <3>3, PutEffects
  <2>3. CASE StoresIn(h, y) = "owned"
    <3>1. y \in owned_cells(program, acts[h].scope) /\ cell_ref(acts[h], y) = <<h, y>>
      BY <1>7, <2>3, VariablePlace
    <3>2. <<h, y>> \in DOMAIN cells
      BY <1>2, <3>1 DEF HeldBy
    <3>3. Variable(h, y) = IF cells[<<h, y>>] \in Values THEN cells[<<h, y>>] ELSE NameError
      BY <1>7, <2>3, <3>1, VariablePlace DEF LoadFrom, HasValue, Content
    <3>4. Variable(h, y)' = IF cells'[<<h, y>>] \in Values THEN cells'[<<h, y>>] ELSE NameError
      BY <1>3, <2>0, <2>3, <3>1 DEF LoadFrom, HasValue, Content
    <3>5. h = g /\ y = x <=> StoresIn(f, x) \in {"owned", "closure"} /\ <<h, y>> = cell_ref(acts[f], x)
      <4>1. h = g => StoresIn(f, x) # "global"
        BY <1>1, <1>7, Owner
      <4>2. StoresIn(f, x) \in {"owned", "closure"} => cell_ref(acts[f], x) = <<g, x>>
        BY <1>1, Owner
      <4> QED
        BY <1>1, <2>3, <4>1, <4>2, Owner
    <3> QED
      BY <1>1, <3>2, <3>3, <3>4, <3>5, PutEffects
  <2> QED
    BY <1>7, <2>1, <2>2, <2>3, VariablePlace
<1> QED
  BY <1>5, <1>6, <1>7

\* A write of the language: its frames change as the places do.
LEMMA PutRefines ==
  ASSUME IInv, Held, NEW f \in DOMAIN acts,
         NEW x \in program[acts[f].scope].stores \cup program[acts[f].scope].dels,
         NEW v, Put(f, x, v),
         NEW w, w = IF v \in Values THEN v ELSE NameError
  PROVE  Python!Write(f, x, w)
<1>0. PICK g : g = Python!FrameOf(f, x)   \* a number, the same before and after
  OBVIOUS
<1> DEFINE new == [frames[g] EXCEPT !.vars = [frames[g].vars EXCEPT ![x] = w]]
<1>1. x \in Names /\ Sees(program, acts[f].scope, x)
  BY UsesSeen DEF IInv, Linked
<1>2. g \in DOMAIN acts
  BY <1>0, <1>1, Owner
<1>3. /\ DOMAIN acts' = DOMAIN acts /\ program' = program /\ out' = out
      /\ \A h \in DOMAIN acts : acts'[h].scope = acts[h].scope /\ acts'[h].at = acts[h].at
  BY <1>1, PutEffects
<1>4. \A h \in DOMAIN acts, y \in Names :
        Variable(h, y)' = IF h = g /\ y = x THEN w ELSE Variable(h, y)
  BY <1>0, PutVariable
<1>5. frames' = [h \in DOMAIN acts |->
                   [scope |-> acts[h].scope, at |-> acts[h].at,
                    vars |-> [y \in Names |-> Variable(h, y)']]]
  BY <1>3 DEF frames
<1>6. frames'[g] = new
  <2>1. frames[g] = [scope |-> acts[g].scope, at |-> acts[g].at,
                     vars |-> [y \in Names |-> Variable(g, y)]]
    BY <1>2 DEF frames
  <2>2. [[y \in Names |-> Variable(g, y)] EXCEPT ![x] = w] = [y \in Names |-> Variable(g, y)']
    BY <1>1, <1>2, <1>4
  <2>3. new = [scope |-> acts[g].scope, at |-> acts[g].at,
               vars |-> [y \in Names |-> Variable(g, y)']]
    BY <2>1, <2>2
  <2> QED
    BY <1>2, <1>5, <2>3
<1>7. \A h \in DOMAIN acts \ {g} : frames'[h] = frames[h]
  <2>1. SUFFICES ASSUME NEW h \in DOMAIN acts \ {g}
                 PROVE  frames'[h] = frames[h]
    OBVIOUS
  <2>2. [y \in Names |-> Variable(h, y)'] = [y \in Names |-> Variable(h, y)]
    BY <1>4, <2>1
  <2>3. frames[h] = [scope |-> acts[h].scope, at |-> acts[h].at,
                     vars |-> [y \in Names |-> Variable(h, y)]]
    BY DEF frames
  <2> QED
    BY <1>5, <2>2, <2>3
<1>8. frames' = [frames EXCEPT ![g] = new]
  <2> HIDE DEF new
  <2>1. DOMAIN frames = DOMAIN acts /\ frames = [h \in DOMAIN acts |-> frames[h]]
    BY DEF frames
  <2>2. frames' = [h \in DOMAIN acts |-> frames'[h]]
    BY <1>5
  <2> QED
    BY <1>6, <1>7, <2>1, <2>2
<1> QED
  BY <1>0, <1>3, <1>8 DEF Python!Write

\* Storing and deleting keep what the activations hold.
LEMMA PutHeld ==
  ASSUME IInv, Held, NEW f \in DOMAIN acts,
         NEW x \in program[acts[f].scope].stores \cup program[acts[f].scope].dels,
         NEW v, Put(f, x, v)
  PROVE  Held'
<1>1. x \in Names /\ Sees(program, acts[f].scope, x)
  BY UsesSeen DEF IInv, Linked
<1>2. PICK g : g = Python!FrameOf(f, x)
  OBVIOUS
<1>3. ASSUME NEW h \in DOMAIN acts
      PROVE  HeldBy(h)'
  <2>1. HeldBy(h) /\ Linked(h)
    BY DEF Held, IInv
  <2>2. /\ program' = program /\ layout' = layout /\ acts'[h].scope = acts[h].scope
        /\ acts'[h].at = acts[h].at
        /\ DOMAIN acts'[h].slots = Names /\ DOMAIN acts'[h].namespace = Names
        /\ DOMAIN cells' = DOMAIN cells /\ DOMAIN acts' = DOMAIN acts
    BY <1>1, PutEffects
  <2>3. ASSUME NEW t \in DOMAIN acts[h].at
        PROVE  acts[h].at[t] \in DOMAIN acts /\ acts'[acts[h].at[t]].scope = t
    BY <1>1, <2>1, PutEffects DEF HeldBy
  <2>4. ASSUME NEW y \in Names, StoresIn(h, y) # "namespace"
        PROVE  acts'[h].namespace[y] = Empty
    BY <1>1, <2>1, <2>4, PutEffects DEF HeldBy
  <2>5. ASSUME NEW y \in owned_cells(program, acts[h].scope) \cap program[acts[h].scope].params,
               Shared(acts[h].scope, y)
        PROVE  cells'[<<h, y>>] = acts'[h].slots[y]
    <3>1. y \in Names /\ <<h, y>> \in DOMAIN cells /\ cells[<<h, y>>] = acts[h].slots[y]
      BY <2>1, <2>5 DEF HeldBy, owned_cells
    <3>2. acts[h].scope \in DOMAIN program
      BY <2>1 DEF Linked
    <3>3. ~(h = g /\ y = x)
      <4>1. g \in DOMAIN acts => acts[g].scope = VariableScope(program, acts[f].scope, x)
        BY <1>1, <1>2, Owner
      <4> QED
        BY <2>5, <3>2, <4>1, StoredIsNotShared
    <3>4. ~(StoresIn(f, x) = "slot" /\ h = f /\ y = x)
      BY <1>1, <1>2, <3>3, Owner
    <3>5. ~(StoresIn(f, x) \in {"owned", "closure"} /\ <<h, y>> = cell_ref(acts[f], x))
      BY <1>1, <1>2, <3>3, Owner
    <3> QED
      BY <1>1, <3>1, <3>4, <3>5, PutEffects
  <2>6. \A y \in Names : StoresIn(h, y)' = StoresIn(h, y)
    BY <2>2 DEF StoresIn
  <2>7. \A y : Shared(acts[h].scope, y)' <=> Shared(acts[h].scope, y)
    BY <2>2 DEF Shared
  <2> QED
    BY <2>1, <2>2, <2>3, <2>4, <2>5, <2>6, <2>7 DEF HeldBy
<1>4. /\ program' = program /\ DOMAIN globals' = Names
      /\ DOMAIN cells' = DOMAIN cells /\ DOMAIN acts' = DOMAIN acts
  BY <1>1, PutEffects
<1> QED
  BY <1>3, <1>4 DEF Held

-----------------------------------------------------------------------------
\* What making and calling a callable changes: an activation and its cells come.
Called(f, c, args, n) ==
  /\ n = Len(acts) + 1 /\ c \in DOMAIN program /\ args \in [program[c].params -> Values]
  /\ Child(program, acts[f].scope, c)
  /\ acts' = Append(acts, Activation(c, acts[f], args, n))
  /\ cells' = Extend(cells, MakeCells(c, args, n))
  /\ UNCHANGED <<program, layout, globals, out>>

Grown(f, c, args, n) ==
  /\ n \notin DOMAIN acts /\ DOMAIN acts' = DOMAIN acts \cup {n}
  /\ \A h \in DOMAIN acts : acts'[h] = acts[h]
  /\ acts'[n].scope = c /\ acts'[n].at = Extend(acts[f].at, [s \in {c} |-> n])
  /\ acts'[n].slots = [x \in Names |-> IF x \in DOMAIN args THEN args[x] ELSE DELETED]
  /\ acts'[n].namespace = [x \in Names |-> Empty]
  /\ acts'[n].owned = [x \in owned_cells(program, c) |-> <<n, x>>]
  /\ DOMAIN cells' = DOMAIN cells \cup {<<n, x>> : x \in owned_cells(program, c)}
  /\ \A id \in DOMAIN cells : cells'[id] = cells[id]
  /\ \A x \in owned_cells(program, c) :
       cells'[<<n, x>>] = IF x \in DOMAIN args THEN args[x] ELSE DELETED

\* What making and calling a function changes, place by place.
LEMMA MakeEffects ==
  ASSUME IInv, Held, NEW f \in DOMAIN acts, NEW c, NEW args, NEW n, Called(f, c, args, n)
  PROVE  Grown(f, c, args, n)
<1>1. (\E S : acts \in Seq(Records(S))) /\ n = Len(acts) + 1
      /\ acts' = Append(acts, Activation(c, acts[f], args, n))
  BY DEF IInv, Called
<1>2. n \notin DOMAIN acts /\ DOMAIN acts' = DOMAIN acts \cup {n}
      /\ acts'[n] = Activation(c, acts[f], args, n)
      /\ \A h \in DOMAIN acts : acts'[h] = acts[h]
  BY <1>1
<1>3. layout[c].cellvars = owned_cells(program, c)
  BY DEF IInv, Layout, Called
<1>4. /\ acts'[n].scope = c /\ acts'[n].at = Extend(acts[f].at, [s \in {c} |-> n])
      /\ acts'[n].slots = [x \in Names |-> IF x \in DOMAIN args THEN args[x] ELSE DELETED]
      /\ acts'[n].namespace = [x \in Names |-> Empty]
      /\ acts'[n].owned = [x \in owned_cells(program, c) |-> <<n, x>>]
  BY <1>2, <1>3 DEF Activation
<1>5. \A x : <<n, x>> \notin DOMAIN cells
  BY <1>2 DEF Held
<1>6. /\ DOMAIN MakeCells(c, args, n) = {<<n, x>> : x \in owned_cells(program, c)}
      /\ \A x \in owned_cells(program, c) :
           MakeCells(c, args, n)[<<n, x>>] = IF x \in DOMAIN args THEN args[x] ELSE DELETED
  BY <1>3 DEF MakeCells
<1>7. DOMAIN cells' = DOMAIN cells \cup {<<n, x>> : x \in owned_cells(program, c)}
      /\ \A id \in DOMAIN cells : cells'[id] = cells[id]
  BY <1>6 DEF Extend, Called
<1>8. \A x \in owned_cells(program, c) : cells'[<<n, x>>] = MakeCells(c, args, n)[<<n, x>>]
  BY <1>5, <1>6 DEF Extend, Called
<1> QED
  BY <1>2, <1>4, <1>6, <1>7, <1>8 DEF Grown

\* The callable's scope is not one of those around its maker.
LEMMA NewScope ==
  ASSUME IInv, NEW f \in DOMAIN acts, NEW c \in DOMAIN program,
         Child(program, acts[f].scope, c)
  PROVE  c # Module /\ c \notin DOMAIN acts[f].at
<1>1. Linked(f) /\ Accepted(program)
  BY DEF IInv
<1>2. acts[f].scope \in program[c].around /\ \A t \in program[c].around : t <= acts[f].scope
  BY DEF Child, Within
<1>3. acts[f].scope < c /\ acts[f].scope \in Nat /\ c \in Nat
      /\ program[acts[f].scope].around \subseteq program[c].around
  BY <1>1, <1>2, Tree
<1>4. c # Module
  BY <1>1, <1>2 DEF Accepted
<1>5. c \notin program[c].around
  BY <1>1, Tree
<1> QED
  BY <1>1, <1>3, <1>4, <1>5 DEF Linked

\* A call keeps what the activations hold, and the new one holds it too.
LEMMA MakeHeld ==
  ASSUME IInv, IInv', Held, NEW f \in DOMAIN acts, MakeAndCall(f)
  PROVE  Held'
<1>1. PICK c, args, n : Called(f, c, args, n)
  BY DEF MakeAndCall, Called
<1>g. Grown(f, c, args, n)
  BY <1>1, MakeEffects
<1>2. /\ program' = program /\ globals' = globals /\ layout' = layout
      /\ c \in DOMAIN program /\ Child(program, acts[f].scope, c)
  BY <1>1 DEF Called
<1>3. /\ n \notin DOMAIN acts /\ DOMAIN acts' = DOMAIN acts \cup {n}
      /\ \A h \in DOMAIN acts : acts'[h] = acts[h]
      /\ DOMAIN cells' = DOMAIN cells \cup {<<n, x>> : x \in owned_cells(program, c)}
      /\ \A id \in DOMAIN cells : cells'[id] = cells[id]
  BY <1>g DEF Grown
<1>5. ASSUME NEW h \in DOMAIN acts
      PROVE  HeldBy(h)'
  <2>1. HeldBy(h)
    BY DEF Held
  <2>2. acts'[h] = acts[h] /\ program' = program /\ \A x \in Names : StoresIn(h, x)' = StoresIn(h, x)
    BY <1>2, <1>3 DEF StoresIn
  <2>3. \A t \in DOMAIN acts[h].at :
          acts[h].at[t] \in DOMAIN acts' /\ acts'[acts[h].at[t]].scope = t
    BY <1>3, <2>1 DEF HeldBy
  <2>4. \A x \in owned_cells(program, acts[h].scope) :
          <<h, x>> \in DOMAIN cells' /\ cells'[<<h, x>>] = cells[<<h, x>>]
    BY <1>3, <2>1 DEF HeldBy
  <2>5. \A y : Shared(acts[h].scope, y)' <=> Shared(acts[h].scope, y)
    BY <2>2 DEF Shared
  <2>6. \A x \in Names : StoresIn(h, x)' # "namespace" => acts'[h].namespace[x] = Empty
    BY <2>1, <2>2 DEF HeldBy
  <2>7. \A x \in owned_cells(program, acts[h].scope) \cap program[acts[h].scope].params :
          Shared(acts[h].scope, x)' => cells'[<<h, x>>] = acts[h].slots[x]
    BY <2>1, <2>4, <2>5 DEF HeldBy
  <2>8. DOMAIN acts'[h].slots = Names /\ DOMAIN acts'[h].namespace = Names
    BY <2>1, <2>2 DEF HeldBy
  <2> QED
    BY <2>2, <2>3, <2>4, <2>6, <2>7, <2>8 DEF HeldBy
<1>6. HeldBy(n)'
  <2>1. /\ acts'[n].scope = c /\ acts'[n].at = Extend(acts[f].at, [s \in {c} |-> n])
        /\ acts'[n].slots = [x \in Names |-> IF x \in DOMAIN args THEN args[x] ELSE DELETED]
        /\ acts'[n].namespace = [x \in Names |-> Empty]
        /\ \A x \in owned_cells(program, c) :
             cells'[<<n, x>>] = IF x \in DOMAIN args THEN args[x] ELSE DELETED
    BY <1>g DEF Grown
  <2>2. c \notin DOMAIN acts[f].at /\ HeldBy(f) /\ program' = program
    BY <1>2, NewScope DEF Held
  <2>3. \A t \in DOMAIN acts'[n].at :
          acts'[n].at[t] \in DOMAIN acts' /\ acts'[acts'[n].at[t]].scope = t
    BY <1>3, <2>1, <2>2 DEF HeldBy, Extend
  <2>4. /\ DOMAIN acts'[n].slots = Names /\ DOMAIN acts'[n].namespace = Names
        /\ \A x \in Names : acts'[n].namespace[x] = Empty
    BY <2>1
  <2>5. \A x \in owned_cells(program, c) :
          <<n, x>> \in DOMAIN cells' /\ cells'[<<n, x>>] = acts'[n].slots[x]
    BY <1>3, <2>1 DEF owned_cells
  <2> QED
    BY <2>1, <2>2, <2>3, <2>4, <2>5 DEF HeldBy
<1>7. ASSUME NEW id \in DOMAIN cells'
      PROVE  \E h \in DOMAIN acts', x \in Names : id = <<h, x>>
  BY <1>3 DEF Held, owned_cells
<1> QED
  BY <1>2, <1>3, <1>5, <1>6, <1>7 DEF Held

\* A function on 1..n with one more place is that sequence, appended to.
LEMMA OneMore ==
  ASSUME NEW n \in Nat, NEW T, NEW A \in [1..n -> T], NEW B \in [1..(n + 1) -> T],
         \A i \in 1..n : B[i] = A[i]
  PROVE  B = Append(A, B[n + 1]) /\ Len(A) = n
<1>1. A \in Seq(T) /\ Len(A) = n
  OBVIOUS
<1>2. B \in Seq(T) /\ Len(B) = n + 1
  OBVIOUS
<1>3. /\ Append(A, B[n + 1]) \in Seq(T) /\ Len(Append(A, B[n + 1])) = n + 1
      /\ \A i \in 1..n : Append(A, B[n + 1])[i] = A[i]
      /\ Append(A, B[n + 1])[n + 1] = B[n + 1]
  <2>1. B[n + 1] \in T
    OBVIOUS
  <2> QED
    BY <1>1, <2>1, AppendProperties
<1>4. \A i \in 1..(n + 1) : B[i] = Append(A, B[n + 1])[i]
  <2>1. \A i \in 1..(n + 1) : i \in 1..n \/ i = n + 1
    OBVIOUS
  <2> QED
    BY <1>3, <2>1
<1>5. B = Append(A, B[n + 1])
  BY <1>2, <1>3, <1>4, SeqEqual
<1> QED
  BY <1>1, <1>5

\* The variables of a new frame: its parameters have the arguments.
LEMMA NewVariable ==
  ASSUME IInv, Held, NEW f \in DOMAIN acts, NEW c, NEW args, NEW n, Called(f, c, args, n),
         NEW x \in Names
  PROVE  Variable(n, x)' = IF x \in DOMAIN args THEN args[x] ELSE NameError
<1>1. /\ Accepted(program) /\ c \in DOMAIN program /\ c # Module /\ program' = program
      /\ DOMAIN args = program[c].params
      /\ \A y \in program[c].params : args[y] \in Values
  BY NewScope DEF IInv, Called
<1>2. Grown(f, c, args, n)
  BY MakeEffects
<1>3. /\ acts'[n].scope = c /\ acts'[n].slots[x] = (IF x \in DOMAIN args THEN args[x] ELSE DELETED)
      /\ acts'[n].namespace[x] = Empty
      /\ x \in owned_cells(program, c) =>
           /\ cell_ref(acts'[n], x) = <<n, x>>
           /\ cells'[<<n, x>>] = IF x \in DOMAIN args THEN args[x] ELSE DELETED
  BY <1>2 DEF Grown, cell_ref
<1>4. StoresIn(n, x)' = StorePlace(program, c, x)
  <2>1. layout' = layout /\ layout = Layout(program)
    BY DEF IInv, Called
  <2> QED
    BY <1>1, <1>3, <2>1 DEF StoresIn, Layout
<1>5. Variable(n, x)' = IF x \in Own(program, c) THEN LoadFrom(n, StoresIn(n, x), x)' ELSE NameError
  BY <1>1, <1>3 DEF Variable
<1>6. DELETED \notin Values /\ Empty \notin Values
  BY ValuesAssumption
<1>7. CASE x \notin Own(program, c)
  <2>1. x \notin program[c].params
    BY <1>1, <1>7 DEF Accepted, Own, Bound
  <2> QED
    BY <1>1, <1>5, <1>7, <2>1
<1>8. CASE x \in Own(program, c) /\ StorePlace(program, c, x) = "namespace"
  <2>1. program[c].kind = "class"
    BY <1>1, <1>8, PlaceOfOwn
  <2>2. x \notin program[c].params
    BY <1>1, <2>1 DEF Accepted
  <2>3. LoadFrom(n, StoresIn(n, x), x)' = NameError
    BY <1>3, <1>4, <1>6, <1>8 DEF LoadFrom, HasValue, Content
  <2> QED
    BY <1>1, <1>5, <1>8, <2>2, <2>3
<1>9. CASE x \in Own(program, c) /\ StorePlace(program, c, x) = "slot"
  <2>1. LoadFrom(n, StoresIn(n, x), x)' =
          IF acts'[n].slots[x] \in Values THEN acts'[n].slots[x] ELSE NameError
    BY <1>4, <1>9 DEF LoadFrom, HasValue, Content
  <2> QED
    BY <1>1, <1>3, <1>5, <1>6, <1>9, <2>1
<1>10. CASE x \in Own(program, c) /\ StorePlace(program, c, x) = "owned"
  <2>1. x \in owned_cells(program, c) /\ x \notin program[c].params
    BY <1>1, <1>10, PlaceOfOwn
  <2>2. LoadFrom(n, StoresIn(n, x), x)' =
          IF cells'[<<n, x>>] \in Values THEN cells'[<<n, x>>] ELSE NameError
    BY <1>3, <1>4, <1>10, <2>1 DEF LoadFrom, HasValue, Content
  <2> QED
    BY <1>1, <1>3, <1>5, <1>6, <1>10, <2>1, <2>2
<1> QED
  BY <1>1, <1>7, <1>8, <1>9, <1>10, PlaceOfOwn

\* A call changes no variable of an earlier frame.
LEMMA OldVariable ==
  ASSUME IInv, Held, NEW f \in DOMAIN acts, NEW c, NEW args, NEW n, Called(f, c, args, n),
         NEW h \in DOMAIN acts, NEW x \in Names
  PROVE  Variable(h, x)' = Variable(h, x)
<1>1. Grown(f, c, args, n) /\ HeldBy(h)
  BY MakeEffects DEF Held
<1>2. /\ acts'[h] = acts[h] /\ program' = program /\ layout' = layout /\ globals' = globals
      /\ \A id \in DOMAIN cells : cells'[id] = cells[id]
  BY <1>1 DEF Grown, Called
<1>3. StoresIn(h, x)' = StoresIn(h, x)
  BY <1>2 DEF StoresIn
<1>4. Variable(h, x)' = IF acts[h].scope = Module \/ x \in Own(program, acts[h].scope)
                        THEN LoadFrom(h, StoresIn(h, x), x)' ELSE NameError
  BY <1>2 DEF Variable
<1>5. CASE StoresIn(h, x) \in {"slot", "namespace", "global"}
  <2>1. LoadFrom(h, StoresIn(h, x), x)' = LoadFrom(h, StoresIn(h, x), x)
    BY <1>2, <1>3, <1>5 DEF LoadFrom, HasValue, Content
  <2> QED
    BY <1>4, <2>1 DEF Variable
<1>6. CASE StoresIn(h, x) = "owned"
  <2>1. cell_ref(acts[h], x) = <<h, x>> /\ <<h, x>> \in DOMAIN cells
    BY <1>1, <1>6, VariablePlace DEF HeldBy
  <2>2. LoadFrom(h, StoresIn(h, x), x)' = LoadFrom(h, StoresIn(h, x), x)
    BY <1>2, <1>3, <1>6, <2>1 DEF LoadFrom, HasValue, Content
  <2> QED
    BY <1>4, <2>2 DEF Variable
<1>7. CASE StoresIn(h, x) = "closure"
  <2>1. acts[h].scope # Module /\ x \notin Own(program, acts[h].scope)
    BY <1>7, VariablePlace
  <2> QED
    BY <1>4, <2>1 DEF Variable
<1> QED
  BY <1>5, <1>6, <1>7, VariablePlace

\* Making and calling a callable enters its scope.
LEMMA MakeRefines ==
  ASSUME IInv, Held, NEW f \in DOMAIN acts, MakeAndCall(f)
  PROVE  Python!Next
<1>1. PICK c, args, n : Called(f, c, args, n)
  BY DEF MakeAndCall, Called
<1>2. Grown(f, c, args, n)
  BY <1>1, MakeEffects
<1>3. /\ DOMAIN acts' = DOMAIN acts \cup {n} /\ n \notin DOMAIN acts
      /\ \A h \in DOMAIN acts : acts'[h] = acts[h]
      /\ acts'[n].scope = c /\ acts'[n].at = Extend(acts[f].at, [s \in {c} |-> n])
  BY <1>2 DEF Grown
<1>4. PICK e : e = Python!Frame(c, Extend(acts[f].at, [s \in {c} |-> n]), args)
  OBVIOUS
<1>5. frames' = [h \in DOMAIN acts' |->
                   [scope |-> acts'[h].scope, at |-> acts'[h].at,
                    vars |-> [x \in Names |-> Variable(h, x)']]]
  BY DEF frames
<1>6. frames'[n] = e
  <2>1. [x \in Names |-> Variable(n, x)'] =
          [x \in Names |-> IF x \in DOMAIN args THEN args[x] ELSE NameError]
    BY <1>1, NewVariable
  <2> QED
    BY <1>3, <1>4, <1>5, <2>1 DEF Python!Frame, Python!Unbound, NameError
<1>7. ASSUME NEW h \in DOMAIN acts
      PROVE  frames'[h] = frames[h]
  <2>1. [x \in Names |-> Variable(h, x)'] = [x \in Names |-> Variable(h, x)]
    BY <1>1, OldVariable
  <2>2. frames[h] = [scope |-> acts[h].scope, at |-> acts[h].at,
                     vars |-> [x \in Names |-> Variable(h, x)]]
    BY DEF frames
  <2> QED
    BY <1>3, <1>5, <2>1, <2>2
<1>8. frames' = Append(frames, e) /\ Len(frames) = Len(acts)
  <2>1. PICK k \in Nat : k = Len(acts) /\ DOMAIN acts = 1..k /\ n = k + 1
    BY <1>1 DEF IInv, Called
  <2>2. PICK T : T = {frames[h] : h \in 1..k} \cup {e}
    OBVIOUS
  <2>3. frames \in [1..k -> T]
    BY <2>1, <2>2 DEF frames
  <2>4. frames' \in [1..(k + 1) -> T]
    <3>1. DOMAIN acts' = 1..(k + 1)
      BY <1>3, <2>1
    <3>2. \A h \in 1..(k + 1) : frames'[h] \in T
      BY <1>6, <1>7, <2>1, <2>2
    <3> QED
      BY <1>5, <3>1, <3>2
  <2>5. (\A h \in 1..k : frames'[h] = frames[h]) /\ frames'[k + 1] = e
    BY <1>6, <1>7, <2>1
  <2> QED
    BY <2>1, <2>3, <2>4, <2>5, OneMore
<1>9. /\ frames[f].at = acts[f].at /\ frames[f].scope = acts[f].scope
      /\ f \in DOMAIN frames
  BY FrameFacts
<1>10. Python!Enter(f, c, args)
  <2>1. Len(acts) < MaxFrames
    BY DEF MakeAndCall
  <2>2. program' = program /\ out' = out /\ n = Len(acts) + 1
    BY <1>1 DEF Called
  <2>3. Python!Extend(acts[f].at, [s \in {c} |-> n]) = Extend(acts[f].at, [s \in {c} |-> n])
    BY SameProgram
  <2> QED
    BY <1>4, <1>8, <1>9, <2>1, <2>2, <2>3 DEF Python!Enter
<1>11. /\ c \in DOMAIN program /\ Python!Child(program, frames[f].scope, c)
       /\ args \in [program[c].params -> Values]
  BY <1>1, <1>9, SameProgram DEF Called
<1> QED
  BY <1>9, <1>10, <1>11 DEF Python!Next

-----------------------------------------------------------------------------
\* The module begins with nothing bound.
LEMMA InitHeld ==
  ASSUME Init
  PROVE  Held /\ Python!Init
<1>1. /\ acts = <<ModuleActivation>> /\ DOMAIN acts = {1} /\ Len(acts) = 1
      /\ acts[1] = ModuleActivation
  BY DEF Init
<1>2. /\ acts[1].scope = Module /\ acts[1].at = [s \in {Module} |-> 1]
      /\ DOMAIN acts[1].slots = Names /\ DOMAIN acts[1].namespace = Names
      /\ \A x \in Names : acts[1].namespace[x] = Empty
  BY <1>1 DEF ModuleActivation
<1>3. Accepted(program) /\ Module \in DOMAIN program /\ owned_cells(program, Module) = {}
  <2>1. Accepted(program) /\ program \in Seq(Scopes) /\ program # <<>>
    BY DEF Init, Accepted
  <2> QED
    BY <2>1, ModuleHasNoFreevars DEF Module
<1>4. HeldBy(1)
  BY <1>1, <1>2, <1>3 DEF HeldBy, Module
<1>5. Held
  BY <1>1, <1>4 DEF Held, Init
<1>6. \A x \in Names : Variable(1, x) = NameError
  <2>1. \A x \in Names : StoresIn(1, x) = "global"
    BY <1>1, <1>2, <1>3, <1>5, InitLinked, VariablePlace
  <2> QED
    BY <1>2, <2>1, ValuesAssumption DEF Init, Variable, LoadFrom, HasValue, Content
<1>7. frames = <<Python!Frame(Module, [s \in {Module} |-> 1], <<>>)>>
  <2>1. PICK e : e = Python!Frame(Module, [s \in {Module} |-> 1], <<>>)
    OBVIOUS
  <2>2. [x \in Names |-> Variable(1, x)] =
          [x \in Names |-> IF x \in DOMAIN <<>> THEN <<>>[x] ELSE NameError]
    BY <1>6
  <2>3. frames = [h \in {1} |-> e]
    BY <1>1, <1>2, <2>1, <2>2 DEF frames, Python!Frame, Python!Unbound, NameError
  <2>4. [h \in {1} |-> e] = <<e>>
    OBVIOUS
  <2> QED
    BY <2>1, <2>3, <2>4
<1>8. Python!Accepted(program) /\ program \in Programs
  BY <1>3, SameProgram DEF Init
<1>9. out = Python!Nothing
  BY DEF Init, Nothing, Python!Nothing
<1> QED
  BY <1>5, <1>7, <1>8, <1>9 DEF Python!Init, Python!Module, Module

\* Storing and deleting a name.
LEMMA StoreRefines ==
  ASSUME IInv, Held, NEW f \in DOMAIN acts, Store(f)
  PROVE  Python!Next
<1>1. PICK x \in program[acts[f].scope].stores : \E v \in Values : Put(f, x, v)
  BY DEF Store
<1>2. PICK v \in Values : Put(f, x, v)
  BY <1>1
<1>3. Python!Write(f, x, v)
  BY <1>2, PutRefines
<1> QED
  BY <1>3, FrameFacts DEF Python!Next

\* A delete is a delete of the variable that Python's rule names.
LEMMA DeleteRefines ==
  ASSUME IInv, Held, NEW f \in DOMAIN acts, Delete(f)
  PROVE  Python!Next
<1>1. PICK x \in program[acts[f].scope].dels :
        Put(f, x, IF StoresIn(f, x) = "slot" THEN DELETED ELSE Empty)
  BY DEF Delete
<1>2. PICK v : v \notin Values /\ Put(f, x, v)
  BY <1>1, ValuesAssumption
<1>3. Python!Write(f, x, NameError)
  BY <1>2, PutRefines
<1> QED
  BY <1>3, FrameFacts DEF Python!Next, Python!Unbound, NameError

\* A step of the code is a step of the language.
LEMMA StepRefines ==
  ASSUME IInv, Held, [Next]_vars
  PROVE  [Python!Next]_(Python!vars)
<1>1. CASE UNCHANGED vars
  <2>1. \A f, x : Variable(f, x)' = Variable(f, x)
    BY <1>1 DEF vars, Variable, LoadFrom, HasValue, Content, StoresIn, cell_ref
  <2>2. frames' = frames /\ program' = program /\ out' = out
    BY <1>1, <2>1 DEF vars, frames
  <2> QED
    BY <2>2 DEF Python!vars
<1>2. CASE Next
  BY <1>2, MakeRefines, LoadRefines, StoreRefines, DeleteRefines DEF Next
<1> QED
  BY <1>1, <1>2

\* Held is kept by every step.
LEMMA NextHeld ==
  ASSUME IInv, IInv', Held, [Next]_vars
  PROVE  Held'
<1>1. CASE UNCHANGED <<program, layout, acts, cells, globals>>
  BY <1>1 DEF Held, HeldBy, StoresIn, Shared
<1>2. ASSUME NEW f \in DOMAIN acts, MakeAndCall(f)
      PROVE  Held'
  BY <1>2, MakeHeld
<1>3. ASSUME NEW f \in DOMAIN acts, Store(f)
      PROVE  Held'
  BY <1>3, PutHeld DEF Store
<1>4. ASSUME NEW f \in DOMAIN acts, Delete(f)
      PROVE  Held'
  BY <1>4, PutHeld DEF Delete
<1>5. ASSUME NEW f \in DOMAIN acts, Load(f)
      PROVE  Held'
  BY <1>1, <1>5 DEF Load
<1> QED
  BY <1>1, <1>2, <1>3, <1>4, <1>5 DEF Next, vars

\* Whatever a run of compiled code loads, binds and deletes, Python's scoping
\* rule says so too: class_lookup_global, class_lookup_cell, the slots and the
\* cells that compute_callable_storage_layout chooses are one memory of
\* variables.
THEOREM Refinement == Spec => ImplementsScoping
<1>1. Init => IInv /\ Held /\ Python!Init
  BY InitLinked, InitHeld
<1>2. IInv /\ Held /\ [Next]_vars => (IInv /\ Held)'
  BY NextLinked, NextHeld
<1>3. IInv /\ Held /\ [Next]_vars => [Python!Next]_(Python!vars)
  BY StepRefines
<1> QED
  BY <1>1, <1>2, <1>3, PTL DEF Spec, ImplementsScoping, Python!Spec
=============================================================================
