------------------------ MODULE BlockMachine_proofs -------------------------
(***************************************************************************)
(* Proofs about the passes of BasicBlocks, for blocks of any number and    *)
(* shape: what compiled code's edges pass is what their targets take, and  *)
(* giving positions to labels changes no edge.  And about the machine that *)
(* runs any code: where it suspends, and what its finally bodies remember. *)
(***************************************************************************)
EXTENDS BlockMachine, SequenceTheorems, TLAPS

-----------------------------------------------------------------------------
(* Labels. *)

\* A label that is one of the blocks' is at a place that has it.
LEMMA AtLabel ==
  ASSUME NEW bs, NEW l \in Labels(bs)
  PROVE  At(bs, l) \in DOMAIN bs /\ bs[At(bs, l)].label = l
<1>1. Labelled(bs, l) # {}
  BY DEF Labels, Labelled
<1>2. At(bs, l) \in Labelled(bs, l)
  BY <1>1 DEF At
<1> QED
  BY <1>2 DEF Labelled

\* Where labels are different, a block's label is found where the block is.
LEMMA AtOwnLabel ==
  ASSUME NEW bs, \A i, j \in DOMAIN bs : bs[i].label = bs[j].label => i = j,
         NEW i \in DOMAIN bs
  PROVE  At(bs, bs[i].label) = i
<1>1. bs[i].label \in Labels(bs)
  BY DEF Labels
<1> QED
  BY <1>1, AtLabel

\* A pass that keeps the labels keeps the places they stand for.
LEMMA SameLabels ==
  ASSUME NEW bs, NEW cs, DOMAIN cs = DOMAIN bs,
         \A i \in DOMAIN bs : cs[i].label = bs[i].label
  PROVE  Labels(cs) = Labels(bs) /\ \A l : At(cs, l) = At(bs, l)
<1>1. \A l : Labelled(cs, l) = Labelled(bs, l)
  BY DEF Labelled
<1> QED
  BY <1>1 DEF Labels, At

\* A sequence of anything.
LEMMA SeqIsSeq ==
  ASSUME NEW V, NEW s \in Seq(V)
  PROVE  IsSeq(s) /\ Len(s) \in Nat /\ DOMAIN s = 1..Len(s)
<1>1. s \in Seq({s[i] : i \in DOMAIN s})
  OBVIOUS
<1> QED
  BY <1>1 DEF IsSeq

\* The places of a sequence.
LEMMA SeqDomain ==
  ASSUME NEW s, IsSeq(s)
  PROVE  Len(s) \in Nat /\ DOMAIN s = 1..Len(s)
BY DEF IsSeq

\* A function on the places of a sequence is a sequence.
LEMMA SameDomainSeq ==
  ASSUME NEW s, NEW t, IsSeq(s), t = [i \in DOMAIN s |-> t[i]]
  PROVE  IsSeq(t) /\ Len(t) = Len(s)
<1>1. Len(s) \in Nat /\ DOMAIN s = 1..Len(s)
  BY DEF IsSeq
<1>2. t = [i \in 1..Len(s) |-> t[i]]
  BY <1>1
<1>3. t \in Seq({t[i] : i \in 1..Len(s)}) /\ Len(t) = Len(s)
  BY <1>1, <1>2
<1> QED
  BY <1>1, <1>3 DEF IsSeq

\* An edge that passes something for each parameter forwards none by name.
LEMMA NothingForwarded ==
  ASSUME NEW b, NEW target, NEW args, Len(target.params) - Len(args) = 0,
         \A k \in DOMAIN args : validate_explicit_edge_arg(target.params[0 + k], args[k])
  PROVE  validate_edge_param_forwarding(b, target, args)
<1>1. 1..0 = {} /\ 0 >= 0
  OBVIOUS
<1> QED
  BY <1>1 DEF validate_edge_param_forwarding

\* Whether an edge fits depends on nothing but the two blocks' parameters.
LEMMA SameForwarding ==
  ASSUME NEW b, NEW c, NEW target, NEW other, NEW args,
         b.params = c.params, target.params = other.params,
         validate_edge_param_forwarding(b, target, args)
  PROVE  validate_edge_param_forwarding(c, other, args)
<1>1. \A role : ParamsOf(b, role) = ParamsOf(c, role)
  BY DEF ParamsOf
<1> QED
  BY <1>1 DEF validate_edge_param_forwarding

-----------------------------------------------------------------------------
(* Jumps to a bare return (fold_jumps_to_trivial_none_return). *)

\* A block changes only where it jumped to one that does nothing but return
\* None, and does so itself now; the blocks are still a graph, and one that kept
\* its jumps can still go where it went.
THEOREM FoldingKeepsMeaning ==
  ASSUME NEW bs, IsGraph(bs)
  PROVE  LET cs == fold_jumps_to_trivial_none_return(bs)
         IN  /\ IsGraph(cs)
             /\ \A i \in DOMAIN bs :
                  \/ cs[i] = bs[i]
                  \/ /\ bs[i].term.t = "jump"
                     /\ LET target == bs[At(bs, bs[i].term.to)]
                        IN  target.body = <<>> /\ target.term = implicit_function_return
                     /\ cs[i] = [bs[i] EXCEPT !.term = implicit_function_return]
<1> DEFINE cs == fold_jumps_to_trivial_none_return(bs)
           bare == {j \in DOMAIN bs : bs[j].body = <<>> /\ bs[j].term = implicit_function_return}
           trivial == {bs[j].label : j \in bare}
<1>1. \A i \in DOMAIN bs :
        cs[i] = IF bs[i].term.t = "jump" /\ bs[i].term.to \in trivial
                THEN [bs[i] EXCEPT !.term = implicit_function_return] ELSE bs[i]
  BY DEF fold_jumps_to_trivial_none_return
<1>2. ASSUME NEW i \in DOMAIN bs, bs[i].term.to \in trivial
      PROVE  At(bs, bs[i].term.to) \in bare
  <2>1. PICK j \in bare : bs[i].term.to = bs[j].label
    BY <1>2
  <2>2. At(bs, bs[j].label) = j
    BY AtOwnLabel DEF IsGraph
  <2> QED
    BY <2>1, <2>2
<1>3. \A i \in DOMAIN bs :
        \/ cs[i] = bs[i]
        \/ /\ bs[i].term.t = "jump" /\ At(bs, bs[i].term.to) \in bare
           /\ cs[i] = [bs[i] EXCEPT !.term = implicit_function_return]
  BY <1>1, <1>2
<1>4. ASSUME NEW i \in DOMAIN bs
      PROVE  /\ IsBlock(cs[i])
             /\ cs[i].label = bs[i].label /\ cs[i].exc = bs[i].exc
             /\ blockpy_successors(cs[i]) \subseteq blockpy_successors(bs[i])
  <2>1. IsBlock(bs[i])
    BY DEF IsGraph
  <2>2. CASE cs[i] = bs[i]
    BY <2>1, <2>2
  <2>3. CASE cs[i] = [bs[i] EXCEPT !.term = implicit_function_return]
    <3>1. cs[i] = [label |-> bs[i].label, body |-> bs[i].body, term |-> implicit_function_return,
                   params |-> bs[i].params, exc |-> bs[i].exc, excArgs |-> bs[i].excArgs]
      BY <2>1, <2>3 DEF IsBlock
    <3>2. implicit_function_return.t = "return"
      BY DEF implicit_function_return, ReturnTerm
    <3>3. IsBlock(cs[i])
      BY <2>1, <3>1, <3>2 DEF IsBlock, IsTerm
    <3>4. blockpy_successors(cs[i]) = {}
      BY <3>1, <3>2 DEF blockpy_successors
    <3> QED
      BY <3>1, <3>3, <3>4
  <2> QED
    BY <1>3, <2>2, <2>3
<1>5. DOMAIN cs = DOMAIN bs /\ IsSeq(cs)
  <2>1. DOMAIN cs = DOMAIN bs /\ cs = [i \in DOMAIN bs |-> cs[i]]
    BY DEF fold_jumps_to_trivial_none_return
  <2> QED
    BY <2>1, SameDomainSeq DEF IsGraph
<1>6. Labels(cs) = Labels(bs)
  BY <1>4, <1>5, SameLabels
<1>7. IsGraph(cs)
  BY <1>4, <1>5, <1>6 DEF IsGraph
<1> QED
  BY <1>3, <1>7

-----------------------------------------------------------------------------
(* What jumps pass (populate_jump_edge_args). *)

\* The pass only changes the arguments of jumps.
LEMMA JumpPassKeeps ==
  ASSUME NEW bs, IsGraph(bs), NEW i \in DOMAIN bs
  PROVE  LET c == populate_jump_edge_args(bs)[i]
         IN  /\ c = [bs[i] EXCEPT !.term = c.term]
             /\ bs[i].term.t = "jump" =>
                  c.term = Jump(bs[i].term.to,
                                jump_edge_args(bs[i], bs[At(bs, bs[i].term.to)].params))
             /\ bs[i].term.t # "jump" => c = bs[i]
<1> DEFINE b == bs[i]
           c == populate_jump_edge_args(bs)[i]
           args == jump_edge_args(b, bs[At(bs, b.term.to)].params)
<1>1. IsBlock(b)
  BY DEF IsGraph
<1>2. CASE b.term.t # "jump"
  <2>1. c = b
    BY <1>2 DEF populate_jump_edge_args
  <2> QED
    BY <1>1, <1>2, <2>1 DEF IsBlock
<1>3. CASE b.term.t = "jump"
  <2>1. c = [b EXCEPT !.term.args = args]
    BY <1>3 DEF populate_jump_edge_args
  <2>2. b.term = Jump(b.term.to, b.term.args)
    BY <1>1, <1>3 DEF IsBlock, IsTerm
  <2>3. c.term = Jump(b.term.to, args)
    BY <1>1, <2>1, <2>2 DEF IsBlock, Jump
  <2>4. c = [b EXCEPT !.term = c.term]
    BY <1>1, <2>1, <2>2, <2>3 DEF IsBlock, Jump
  <2> QED
    BY <1>3, <2>3, <2>4
<1> QED
  BY <1>2, <1>3

\* What a jump gets to pass is a sequence, whatever it had.
LEMMA JumpArgsSeq ==
  ASSUME NEW b, NEW params, IsSeq(params), IsSeq(b.term.args)
  PROVE  IsSeq(jump_edge_args(b, params))
<1> DEFINE own == b.term.args
           rest == Len(params) - Len(own)
           given == [k \in 1..rest |-> implicit_edge_arg(b, params[k])]
           V == {given[k] : k \in 1..rest} \cup {own[k] : k \in DOMAIN own}
<1>1. own \in Seq(V) /\ Len(own) \in Nat /\ Len(params) \in Nat
  BY DEF IsSeq
<1>2. given \in Seq(V)
  <2> DEFINE n == IF rest >= 0 THEN rest ELSE 0
  <2>1. n \in Nat /\ 1..rest = 1..n
    BY <1>1
  <2>2. \A k \in 1..n : implicit_edge_arg(b, params[k]) \in V
    BY <2>1
  <2>3. given = [k \in 1..n |-> implicit_edge_arg(b, params[k])]
    BY <2>1
  <2> QED
    BY <2>1, <2>2, <2>3
<1>3. jump_edge_args(b, params) \in Seq(V)
  BY <1>1, <1>2 DEF jump_edge_args
<1> QED
  BY <1>3 DEF IsSeq

\* What a jump gets to pass: as many values as its target takes, its own last.
LEMMA JumpArgs ==
  ASSUME NEW b, NEW params, IsSeq(params), IsSeq(b.term.args),
         Len(b.term.args) <= Len(params)
  PROVE  LET args == jump_edge_args(b, params)
             rest == Len(params) - Len(b.term.args)
         IN  /\ IsSeq(args)
             /\ Len(args) = Len(params)
             /\ \A k \in 1..rest : args[k] = implicit_edge_arg(b, params[k])
             /\ \A k \in (rest + 1)..Len(params) : args[k] = b.term.args[k - rest]
<1> DEFINE own == b.term.args
           rest == Len(params) - Len(own)
           given == [k \in 1..rest |-> implicit_edge_arg(b, params[k])]
           args == jump_edge_args(b, params)
           V == {given[k] : k \in 1..rest} \cup {own[k] : k \in DOMAIN own}
<1>1. own \in Seq(V) /\ Len(own) \in Nat /\ Len(params) \in Nat /\ rest \in Nat
  BY DEF IsSeq
<1>2. given \in Seq(V) /\ Len(given) = rest
  <2>1. \A k \in 1..rest : implicit_edge_arg(b, params[k]) \in V
    OBVIOUS
  <2> DEFINE n == rest
             a(k) == implicit_edge_arg(b, params[k])
             s == [k \in 1..n |-> a(k)]
  <2>2. n \in Nat /\ \A k \in 1..n : a(k) \in V
    BY <1>1, <2>1
  <2> HIDE DEF n, a, V
  <2>3. s \in Seq(V) /\ Len(s) = n
    BY <2>2
  <2> QED
    BY <2>3 DEF n, a
<1>3. args = given \o own
  BY DEF jump_edge_args
<1>4. args \in Seq(V) /\ Len(args) = Len(params)
  BY <1>1, <1>2, <1>3
<1>5. \A k \in 1..rest : args[k] = implicit_edge_arg(b, params[k])
  BY <1>1, <1>2, <1>3
<1>6. \A k \in (rest + 1)..Len(params) : args[k] = own[k - rest]
  BY <1>1, <1>2, <1>3
<1>7. args \in Seq({args[k] : k \in DOMAIN args})
  BY <1>4
<1> QED
  BY <1>4, <1>5, <1>6, <1>7 DEF IsSeq

\* The blocks are still a graph, with the same labels, edges and parameters.
LEMMA JumpPassGraph ==
  ASSUME NEW bs, IsGraph(bs)
  PROVE  LET cs == populate_jump_edge_args(bs)
         IN  /\ IsGraph(cs)
             /\ DOMAIN cs = DOMAIN bs
             /\ \A i \in DOMAIN bs :
                  /\ cs[i].label = bs[i].label
                  /\ cs[i].params = bs[i].params
                  /\ blockpy_successors(cs[i]) = blockpy_successors(bs[i])
             /\ \A l : At(cs, l) = At(bs, l)
<1> DEFINE cs == populate_jump_edge_args(bs)
<1>1. DOMAIN cs = DOMAIN bs
  BY DEF populate_jump_edge_args
<1>2. ASSUME NEW i \in DOMAIN bs
      PROVE  /\ IsBlock(cs[i])
             /\ cs[i].label = bs[i].label
             /\ cs[i].params = bs[i].params
             /\ cs[i].exc = bs[i].exc
             /\ blockpy_successors(cs[i]) = blockpy_successors(bs[i])
  <2>1. IsBlock(bs[i])
    BY DEF IsGraph
  <2>2. /\ cs[i] = [bs[i] EXCEPT !.term = cs[i].term]
        /\ bs[i].term.t # "jump" => cs[i] = bs[i]
    BY JumpPassKeeps
  <2>3. CASE bs[i].term.t # "jump"
    BY <2>1, <2>2, <2>3
  <2>4. CASE bs[i].term.t = "jump"
    <3> DEFINE to == bs[i].term.to
               params == bs[At(bs, to)].params
    <3>1. cs[i].term = Jump(to, jump_edge_args(bs[i], params))
      BY <2>4, JumpPassKeeps
    <3>2. to \in Labels(bs)
      BY <2>4 DEF IsGraph, blockpy_successors
    <3>3. IsSeq(params)
      BY <3>2, AtLabel DEF IsGraph, IsBlock
    <3>4. IsSeq(bs[i].term.args)
      BY <2>1, <2>4 DEF IsBlock, IsTerm
    <3>5. IsSeq(jump_edge_args(bs[i], params))
      BY <3>3, <3>4, JumpArgsSeq
    <3>6. IsTerm(cs[i].term)
      BY <3>1, <3>5 DEF IsTerm, Jump
    <3>7. blockpy_successors(cs[i]) = blockpy_successors(bs[i])
      BY <2>4, <3>1 DEF blockpy_successors, Jump
    <3> QED
      BY <2>1, <2>2, <3>6, <3>7 DEF IsBlock
  <2> QED
    BY <2>3, <2>4
<1>3. Labels(cs) = Labels(bs) /\ \A l : At(cs, l) = At(bs, l)
  BY <1>1, <1>2, SameLabels
<1>4. IsSeq(cs)
  <2>1. cs = [i \in DOMAIN bs |-> cs[i]]
    BY DEF populate_jump_edge_args
  <2> QED
    BY <2>1, SameDomainSeq DEF IsGraph
<1>5. IsGraph(cs)
  BY <1>1, <1>2, <1>3, <1>4 DEF IsGraph
<1> QED
  BY <1>1, <1>2, <1>3, <1>5

\* Every edge fits its target: a jump that named what it must name, since it
\* passes something for each parameter now, and a branch that did before.
THEOREM JumpsAreComplete ==
  ASSUME NEW bs, IsGraph(bs), JumpsFit(bs), BranchesFit(bs)
  PROVE  LET cs == populate_jump_edge_args(bs)
         IN  /\ IsGraph(cs) /\ EdgesFit(cs)
             /\ \A i \in DOMAIN cs : cs[i].term.t = "jump" =>
                  Len(cs[i].term.args) = Len(cs[At(cs, cs[i].term.to)].params)
<1> DEFINE cs == populate_jump_edge_args(bs)
<1>1. /\ IsGraph(cs) /\ DOMAIN cs = DOMAIN bs
      /\ \A i \in DOMAIN bs : /\ cs[i].params = bs[i].params
                              /\ blockpy_successors(cs[i]) = blockpy_successors(bs[i])
      /\ \A l : At(cs, l) = At(bs, l)
  BY JumpPassGraph
<1>2. ASSUME NEW i \in DOMAIN bs, bs[i].term.t = "jump"
      PROVE  LET target == bs[At(bs, bs[i].term.to)]
             IN  /\ cs[i].term.t = "jump" /\ cs[i].term.to = bs[i].term.to
                 /\ Len(cs[i].term.args) = Len(target.params)
                 /\ validate_edge_param_forwarding(bs[i], target, cs[i].term.args)
  <2> DEFINE to == bs[i].term.to
             target == bs[At(bs, to)]
             own == bs[i].term.args
             rest == Len(target.params) - Len(own)
             args == jump_edge_args(bs[i], target.params)
  <2>1. cs[i].term = Jump(to, args)
    BY <1>2, JumpPassKeeps
  <2>2. to \in Labels(bs)
    BY <1>2 DEF IsGraph, blockpy_successors
  <2>3. IsSeq(target.params)
    BY <2>2, AtLabel DEF IsGraph, IsBlock
  <2>4. IsSeq(own)
    BY <1>2 DEF IsGraph, IsBlock, IsTerm
  <2>5. /\ Len(target.params) \in Nat /\ Len(own) \in Nat
        /\ DOMAIN own = 1..Len(own)
    BY <2>3, <2>4 DEF IsSeq
  <2>6. /\ rest >= 0
        /\ \A k \in DOMAIN own : validate_explicit_edge_arg(target.params[rest + k], own[k])
    BY <1>2 DEF JumpsFit
  <2>7. /\ IsSeq(args) /\ Len(args) = Len(target.params)
        /\ \A k \in 1..rest : args[k] = implicit_edge_arg(bs[i], target.params[k])
        /\ \A k \in (rest + 1)..Len(target.params) : args[k] = own[k - rest]
    <3> DEFINE params == target.params
    <3>1. Len(own) <= Len(params)
      BY <2>5, <2>6
    <3>2. IsSeq(params)
      BY <2>3
    <3> HIDE DEF params
    <3>3. LET passed == jump_edge_args(bs[i], params)
              kept == Len(params) - Len(bs[i].term.args)
          IN  /\ IsSeq(passed)
              /\ Len(passed) = Len(params)
              /\ \A k \in 1..kept : passed[k] = implicit_edge_arg(bs[i], params[k])
              /\ \A k \in (kept + 1)..Len(params) : passed[k] = bs[i].term.args[k - kept]
      BY <2>4, <3>1, <3>2, JumpArgs
    <3> QED
      BY <3>3 DEF params
  <2>8. ASSUME NEW k \in DOMAIN args
        PROVE  validate_explicit_edge_arg(target.params[k], args[k])
    <3>1. k \in 1..Len(target.params)
      BY <2>7, SeqDomain
    <3>2. CASE k \in 1..rest
      <4>1. args[k] = implicit_edge_arg(bs[i], target.params[k])
        BY <2>7, <3>2
      <4>2. \A c, q : implicit_edge_arg(c, q).a \in {"name", "none"}
        BY DEF implicit_edge_arg, NameArg, NoneArg
      <4>3. args[k].a \in {"name", "none"}
        BY <4>1, <4>2
      <4> QED
        BY <4>3 DEF validate_explicit_edge_arg
    <3>3. CASE k \in (rest + 1)..Len(target.params)
      <4>1. args[k] = own[k - rest]
        BY <2>7, <3>3
      <4>2. k - rest \in DOMAIN own /\ rest + (k - rest) = k
        <5> DEFINE n == Len(own)
                   l == Len(target.params)
        <5>1. n \in Nat /\ l \in Nat /\ k \in (l - n + 1)..l /\ DOMAIN own = 1..n
          BY <2>5, <3>3
        <5> HIDE DEF n, l
        <5>2. k - (l - n) \in 1..n /\ (l - n) + (k - (l - n)) = k
          BY <5>1
        <5> QED
          BY <5>1, <5>2 DEF n, l
      <4> QED
        BY <2>6, <4>1, <4>2
    <3>4. k \in 1..rest \/ k \in (rest + 1)..Len(target.params)
      <4> DEFINE n == Len(own)
                 l == Len(target.params)
      <4>1. n \in Nat /\ l \in Nat /\ l - n >= 0 /\ k \in 1..l
        BY <2>5, <2>6, <3>1
      <4> HIDE DEF n, l
      <4>2. k \in 1..(l - n) \/ k \in (l - n + 1)..l
        BY <4>1
      <4> QED
        BY <4>2 DEF n, l
    <3> QED
      BY <3>2, <3>3, <3>4
  <2>9. validate_edge_param_forwarding(bs[i], target, args)
    <3>1. Len(target.params) - Len(args) = 0
      BY <2>5, <2>7
    <3>2. \A k \in DOMAIN args : validate_explicit_edge_arg(target.params[0 + k], args[k])
      <4>1. DOMAIN args = 1..Len(args) /\ Len(args) \in Nat
        BY <2>7, SeqDomain
      <4>2. \A k \in DOMAIN args : 0 + k = k
        BY <4>1
      <4> QED
        BY <2>8, <4>2
    <3> QED
      BY <3>1, <3>2, NothingForwarded
  <2>10. cs[i].term.t = "jump" /\ cs[i].term.to = to /\ cs[i].term.args = args
    <3> HIDE DEF cs, to, args
    <3> QED
      BY <2>1 DEF Jump
  <2> QED
    BY <2>7, <2>9, <2>10
<1>3. EdgesFit(cs)
  <2> SUFFICES ASSUME NEW i \in DOMAIN bs, NEW l \in blockpy_successors(bs[i])
               PROVE  validate_edge_param_forwarding(cs[i], cs[At(bs, l)], EdgeArgs(cs[i]))
    BY <1>1 DEF EdgesFit
  <2> DEFINE target == bs[At(bs, l)]
  <2>1. l \in Labels(bs)
    BY DEF IsGraph
  <2>2. cs[At(bs, l)].params = target.params /\ cs[i].params = bs[i].params
    BY <1>1, <2>1, AtLabel
  <2>3. validate_edge_param_forwarding(bs[i], target, EdgeArgs(cs[i]))
    <3>1. CASE bs[i].term.t = "jump"
      <4>1. l = bs[i].term.to
        BY <3>1 DEF blockpy_successors
      <4> QED
        BY <1>2, <3>1, <4>1 DEF EdgeArgs
    <3>2. CASE bs[i].term.t # "jump"
      <4>1. cs[i] = bs[i]
        BY <3>2, JumpPassKeeps
      <4>2. EdgeArgs(bs[i]) = <<>>
        BY <3>2 DEF EdgeArgs
      <4>3. EdgeArgs(cs[i]) = <<>>
        BY <4>1, <4>2
      <4> QED
        BY <3>2, <4>3 DEF BranchesFit
    <3> QED
      BY <3>1, <3>2
  <2> QED
    BY <2>2, <2>3, SameForwarding
<1>4. ASSUME NEW i \in DOMAIN cs, cs[i].term.t = "jump"
      PROVE  Len(cs[i].term.args) = Len(cs[At(cs, cs[i].term.to)].params)
  <2>1. bs[i].term.t = "jump"
    <3>1. i \in DOMAIN bs
      BY <1>1
    <3>2. bs[i].term.t # "jump" => cs[i] = bs[i]
      BY <3>1, JumpPassKeeps
    <3> QED
      BY <1>4, <3>2
  <2>2. bs[i].term.to \in Labels(bs)
    BY <1>1, <2>1 DEF IsGraph, blockpy_successors
  <2> QED
    BY <1>1, <1>2, <2>1, <2>2, AtLabel
<1> QED
  BY <1>1, <1>3, <1>4

-----------------------------------------------------------------------------
(* What exception edges pass (populate_exception_edge_args). *)

\* The pass only changes what exception edges pass: a value for each parameter
\* of the handler, and never the reason why a finally body is entered.
LEMMA ExceptionPassKeeps ==
  ASSUME NEW bs, IsGraph(bs), NEW i \in DOMAIN bs
  PROVE  LET c == populate_exception_edge_args(bs)[i]
         IN  /\ c = [bs[i] EXCEPT !.excArgs = c.excArgs]
             /\ bs[i].exc # NoLabel => validate_exception_edge(c, bs[At(bs, bs[i].exc)])
<1> DEFINE b == bs[i]
           c == populate_exception_edge_args(bs)[i]
           params == bs[At(bs, b.exc)].params
           arg(p) == exception_edge_arg(b, bs[At(bs, b.exc)], p)
           args == [k \in DOMAIN params |-> arg(params[k])]
<1>1. IsBlock(b)
  BY DEF IsGraph
<1>2. CASE b.exc = NoLabel
  <2>1. c = b
    BY <1>2 DEF populate_exception_edge_args
  <2> QED
    BY <1>1, <1>2, <2>1 DEF IsBlock
<1>3. CASE b.exc # NoLabel
  <2>1. c = [b EXCEPT !.excArgs = args]
    BY <1>3 DEF populate_exception_edge_args
  <2>2. c.excArgs = args
    BY <1>1, <2>1 DEF IsBlock
  <2>3. b.exc \in Labels(bs)
    BY <1>3 DEF IsGraph
  <2>4. IsSeq(params)
    BY <2>3, AtLabel DEF IsGraph, IsBlock
  <2>5. Len(args) = Len(params)
    <3>1. \A k \in DOMAIN params : args[k] = arg(params[k])
      OBVIOUS
    <3>2. args = [k \in DOMAIN params |-> args[k]]
      OBVIOUS
    <3> HIDE DEF params, args
    <3> QED
      BY <2>4, <3>2, SameDomainSeq
  <2>6. \A k \in DOMAIN args : args[k].a # "kind"
    <3>1. \A p : arg(p).a # "kind"
      BY DEF exception_edge_arg, CurrentExceptionArg, NameArg, NoneArg
    <3> QED
      BY <3>1
  <2>7. validate_exception_edge(c, bs[At(bs, b.exc)])
    BY <2>2, <2>5, <2>6 DEF validate_exception_edge
  <2> QED
    BY <2>1, <2>2, <2>7
<1> QED
  BY <1>2, <1>3

\* The blocks are still a graph, with the same labels, edges and parameters.
LEMMA ExceptionPassGraph ==
  ASSUME NEW bs, IsGraph(bs)
  PROVE  LET cs == populate_exception_edge_args(bs)
         IN  /\ IsGraph(cs)
             /\ DOMAIN cs = DOMAIN bs
             /\ \A i \in DOMAIN bs :
                  /\ cs[i].label = bs[i].label
                  /\ cs[i].params = bs[i].params
                  /\ cs[i].term = bs[i].term
                  /\ cs[i].exc = bs[i].exc
             /\ \A l : At(cs, l) = At(bs, l)
<1> DEFINE cs == populate_exception_edge_args(bs)
<1>1. DOMAIN cs = DOMAIN bs
  BY DEF populate_exception_edge_args
<1>2. ASSUME NEW i \in DOMAIN bs
      PROVE  /\ IsBlock(cs[i])
             /\ cs[i].label = bs[i].label
             /\ cs[i].params = bs[i].params
             /\ cs[i].term = bs[i].term
             /\ cs[i].exc = bs[i].exc
  <2>1. IsBlock(bs[i])
    BY DEF IsGraph
  <2>2. cs[i] = [bs[i] EXCEPT !.excArgs = cs[i].excArgs]
    BY ExceptionPassKeeps
  <2> QED
    BY <2>1, <2>2 DEF IsBlock
<1>3. Labels(cs) = Labels(bs) /\ \A l : At(cs, l) = At(bs, l)
  BY <1>1, <1>2, SameLabels
<1>4. IsSeq(cs)
  <2>1. cs = [i \in DOMAIN bs |-> cs[i]]
    BY DEF populate_exception_edge_args
  <2> QED
    BY <2>1, SameDomainSeq DEF IsGraph
<1>5. ASSUME NEW i \in DOMAIN bs
      PROVE  blockpy_successors(cs[i]) = blockpy_successors(bs[i])
  <2>1. cs[i].term = bs[i].term
    BY <1>2
  <2> QED
    BY <2>1 DEF blockpy_successors
<1>6. IsGraph(cs)
  BY <1>1, <1>2, <1>3, <1>4, <1>5 DEF IsGraph
<1> QED
  BY <1>1, <1>2, <1>3, <1>6

-----------------------------------------------------------------------------
(* Positions for labels (relabel_dense). *)

\* The pass changes labels only, in every place they are used.
LEMMA Relabelled ==
  ASSUME NEW bs, IsGraph(bs), NEW i \in DOMAIN bs
  PROVE  LET c == relabel_dense(bs)[i]
         IN  /\ c.label = i
             /\ c.params = bs[i].params /\ c.excArgs = bs[i].excArgs /\ c.body = bs[i].body
             /\ c.exc = IF bs[i].exc = NoLabel THEN NoLabel ELSE At(bs, bs[i].exc)
             /\ blockpy_successors(c) = {At(bs, l) : l \in blockpy_successors(bs[i])}
             /\ EdgeArgs(c) = EdgeArgs(bs[i])
<1> DEFINE b == bs[i]
           x == b.term
           c == relabel_dense(bs)[i]
<1>1. IsBlock(b)
  BY DEF IsGraph
<1>2. c = [b EXCEPT !.label = i, !.term = relabel_term(bs, x),
                    !.exc = IF b.exc = NoLabel THEN NoLabel ELSE At(bs, b.exc)]
  BY DEF relabel_dense
<1>3. /\ c.label = i /\ c.term = relabel_term(bs, x)
      /\ c.params = b.params /\ c.excArgs = b.excArgs /\ c.body = b.body
      /\ c.exc = IF b.exc = NoLabel THEN NoLabel ELSE At(bs, b.exc)
  BY <1>1, <1>2 DEF IsBlock
<1>4. /\ blockpy_successors(c) = {At(bs, l) : l \in blockpy_successors(b)}
      /\ EdgeArgs(c) = EdgeArgs(b)
  <2>1. CASE x.t = "jump"
    <3>1. x = Jump(x.to, x.args)
      BY <1>1, <2>1 DEF IsBlock, IsTerm
    <3>2. c.term = Jump(At(bs, x.to), x.args)
      BY <1>3, <2>1, <3>1 DEF relabel_term, Jump
    <3> QED
      BY <2>1, <3>2 DEF blockpy_successors, EdgeArgs, Jump
  <2>2. CASE x.t = "if"
    <3>1. x = IfTerm(x.test, x.then, x.else)
      BY <1>1, <2>2 DEF IsBlock, IsTerm
    <3>2. c.term = IfTerm(x.test, At(bs, x.then), At(bs, x.else))
      BY <1>3, <2>2, <3>1 DEF relabel_term, IfTerm
    <3> QED
      BY <2>2, <3>2 DEF blockpy_successors, EdgeArgs, IfTerm
  <2>3. CASE x.t = "table"
    <3>1. x = Table(x.index, x.targets, x.default)
      BY <1>1, <2>3 DEF IsBlock, IsTerm
    <3>2. c.term = Table(x.index, [k \in DOMAIN x.targets |-> At(bs, x.targets[k])],
                         At(bs, x.default))
      BY <1>3, <2>3, <3>1 DEF relabel_term, Table
    <3>3. blockpy_successors(b) = {x.targets[k] : k \in DOMAIN x.targets} \cup {x.default}
      BY <2>3 DEF blockpy_successors
    <3>4. blockpy_successors(c) = {At(bs, x.targets[k]) : k \in DOMAIN x.targets}
                                    \cup {At(bs, x.default)}
      BY <3>2 DEF blockpy_successors, Table
    <3>5. EdgeArgs(c) = EdgeArgs(b)
      BY <2>3, <3>2 DEF EdgeArgs, Table
    <3> QED
      BY <3>3, <3>4, <3>5
  <2>4. CASE x.t \notin {"jump", "if", "table"}
    <3>1. c.term = x
      BY <1>3, <2>4 DEF relabel_term
    <3> QED
      BY <2>4, <3>1 DEF blockpy_successors, EdgeArgs
  <2> QED
    BY <2>1, <2>2, <2>3, <2>4
<1> QED
  BY <1>3, <1>4

\* The code's edges are the blocks': a position follows another, or handles its
\* exceptions, exactly where the block with that label did; and no edge leaves
\* the code.
THEOREM SameEdges ==
  ASSUME NEW bs, IsGraph(bs), NEW i \in DOMAIN bs
  PROVE  LET cs == relabel_dense(bs)
         IN  /\ DOMAIN cs = DOMAIN bs
             /\ blockpy_successors(cs[i]) \subseteq DOMAIN cs
             /\ cs[i].exc # NoLabel => cs[i].exc \in DOMAIN cs
             /\ \A j \in DOMAIN cs :
                  /\ j \in blockpy_successors(cs[i]) <=> bs[j].label \in blockpy_successors(bs[i])
                  /\ cs[i].exc = j <=> bs[i].exc # NoLabel /\ bs[i].exc = bs[j].label
<1> DEFINE cs == relabel_dense(bs)
<1>1. DOMAIN cs = DOMAIN bs
  BY DEF relabel_dense
<1>2. /\ cs[i].exc = IF bs[i].exc = NoLabel THEN NoLabel ELSE At(bs, bs[i].exc)
      /\ blockpy_successors(cs[i]) = {At(bs, l) : l \in blockpy_successors(bs[i])}
  BY Relabelled
<1>3. /\ blockpy_successors(bs[i]) \subseteq Labels(bs)
      /\ bs[i].exc # NoLabel => bs[i].exc \in Labels(bs)
  BY DEF IsGraph
<1>4. blockpy_successors(cs[i]) \subseteq DOMAIN cs /\ (cs[i].exc # NoLabel => cs[i].exc \in DOMAIN cs)
  BY <1>1, <1>2, <1>3, AtLabel
<1>5. ASSUME NEW j \in DOMAIN bs
      PROVE  /\ j \in blockpy_successors(cs[i]) <=> bs[j].label \in blockpy_successors(bs[i])
             /\ cs[i].exc = j <=> bs[i].exc # NoLabel /\ bs[i].exc = bs[j].label
  <2>1. At(bs, bs[j].label) = j
    BY AtOwnLabel DEF IsGraph
  <2>2. \A l \in Labels(bs) : At(bs, l) = j <=> l = bs[j].label
    BY <2>1, AtLabel
  <2>3. j # NoLabel
    <3>1. j \in 1..Len(bs)
      BY DEF IsGraph, IsSeq
    <3>2. Len(bs) \in Nat
      BY DEF IsGraph, IsSeq
    <3> QED
      BY <3>1, <3>2 DEF NoLabel
  <2> QED
    BY <1>2, <1>3, <2>1, <2>2, <2>3
<1> QED
  BY <1>1, <1>4, <1>5

-----------------------------------------------------------------------------
(* The test of the result. *)

\* The compiler accepts its own code, whatever blocks it made: the passes that
\* come last leave nothing to complain of, if every edge fitted its target.
THEOREM CodeIsAccepted ==
  ASSUME NEW bs, IsGraph(bs), EdgesFit(bs)
  PROVE  validate_function(relabel_dense(populate_exception_edge_args(bs)))
<1> DEFINE es == populate_exception_edge_args(bs)
           cs == relabel_dense(es)
<1>1. /\ IsGraph(es) /\ DOMAIN es = DOMAIN bs
      /\ \A i \in DOMAIN bs : /\ es[i].params = bs[i].params /\ es[i].term = bs[i].term
                              /\ es[i].exc = bs[i].exc
      /\ \A l : At(es, l) = At(bs, l)
  BY ExceptionPassGraph
<1>2. DOMAIN cs = DOMAIN bs
  BY <1>1 DEF relabel_dense
<1>3. ASSUME NEW i \in DOMAIN bs
      PROVE  /\ cs[i].label = i
             /\ cs[i].params = bs[i].params /\ cs[i].excArgs = es[i].excArgs
             /\ cs[i].exc = IF bs[i].exc = NoLabel THEN NoLabel ELSE At(bs, bs[i].exc)
             /\ blockpy_successors(cs[i]) = {At(bs, l) : l \in blockpy_successors(bs[i])}
             /\ EdgeArgs(cs[i]) = EdgeArgs(bs[i])
  <2>1. blockpy_successors(es[i]) = blockpy_successors(bs[i]) /\ EdgeArgs(es[i]) = EdgeArgs(bs[i])
    BY <1>1 DEF blockpy_successors, EdgeArgs
  <2> QED
    BY <1>1, <2>1, Relabelled
<1>4. ASSUME NEW i \in DOMAIN bs, cs[i].exc # NoLabel
      PROVE  cs[i].exc \in DOMAIN cs /\ validate_exception_edge(cs[i], cs[cs[i].exc])
  <2>1. bs[i].exc # NoLabel /\ cs[i].exc = At(bs, bs[i].exc)
    BY <1>3, <1>4
  <2>2. At(bs, bs[i].exc) \in DOMAIN bs
    BY <2>1, AtLabel DEF IsGraph
  <2>3. validate_exception_edge(es[i], bs[At(bs, bs[i].exc)])
    BY <2>1, ExceptionPassKeeps
  <2> QED
    BY <1>2, <1>3, <2>1, <2>2, <2>3 DEF validate_exception_edge
<1>5. ASSUME NEW i \in DOMAIN bs, NEW to \in blockpy_successors(cs[i])
      PROVE  /\ to \in DOMAIN cs
             /\ validate_edge_param_forwarding(cs[i], cs[to], EdgeArgs(cs[i]))
  <2>1. PICK l \in blockpy_successors(bs[i]) : to = At(bs, l)
    BY <1>3
  <2>2. to \in DOMAIN bs
    BY <2>1, AtLabel DEF IsGraph
  <2>3. validate_edge_param_forwarding(bs[i], bs[to], EdgeArgs(bs[i]))
    BY <2>1 DEF EdgesFit
  <2> QED
    BY <1>2, <1>3, <2>2, <2>3, SameForwarding
<1> QED
  BY <1>2, <1>3, <1>4, <1>5 DEF validate_function

\* A handler of the code is passed one value, the exception, if its block had
\* no other parameter.
THEOREM HandlersOfCode ==
  ASSUME NEW bs, IsGraph(bs), OneValueEach(bs)
  PROVE  LET cs == relabel_dense(populate_exception_edge_args(bs))
         IN  \A i \in DOMAIN cs : cs[i].exc # NoLabel => Len(cs[cs[i].exc].params) <= 1
<1> DEFINE es == populate_exception_edge_args(bs)
           cs == relabel_dense(es)
<1>1. /\ IsGraph(es) /\ DOMAIN es = DOMAIN bs
      /\ \A i \in DOMAIN bs : es[i].params = bs[i].params /\ es[i].exc = bs[i].exc
      /\ \A l : At(es, l) = At(bs, l)
  BY ExceptionPassGraph
<1>2. DOMAIN cs = DOMAIN bs
  BY <1>1 DEF relabel_dense
<1>3. \A i \in DOMAIN bs :
        /\ cs[i].params = bs[i].params
        /\ cs[i].exc = IF bs[i].exc = NoLabel THEN NoLabel ELSE At(bs, bs[i].exc)
  BY <1>1, Relabelled
<1> SUFFICES ASSUME NEW i \in DOMAIN bs, cs[i].exc # NoLabel
             PROVE  Len(cs[cs[i].exc].params) <= 1
  BY <1>2
<1>4. bs[i].exc # NoLabel /\ cs[i].exc = At(bs, bs[i].exc)
  BY <1>3
<1>5. At(bs, bs[i].exc) \in DOMAIN bs
  BY <1>4, AtLabel DEF IsGraph
<1> QED
  BY <1>3, <1>4, <1>5 DEF OneValueEach

-----------------------------------------------------------------------------
(* The machine's stack: the statement or terminator that waits for a value, *)
(* below it a yield's operands at most, and the operations that are half    *)
(* evaluated.                                                               *)

\* What is left of a block with the slots X that it does not write.
RestFits(rest, S, X) ==
  /\ IsSeq(rest)
  /\ \A j \in DOMAIN rest :
       /\ InstrFits(rest[j], S)
       /\ rest[j].i \in {"store", "del"} => rest[j].name \notin X

\* A statement, or the terminator x, that waits for a value.
WaitingFrame(fr, x, S, X) ==
  \/ fr.f \in {"store", "instr"} /\ RestFits(fr.rest, S, X) /\ (fr.f = "store" => fr.name \notin X)
  \/ fr.f = "branch" /\ fr.term = x /\ x.t = "if"
  \/ fr.f = "table" /\ fr.term = x /\ x.t = "table"
  \/ fr.f \in {"return", "raise"}

OperandsFrame(fr, S) ==
  DOMAIN fr = {"f", "op", "done", "rest"} /\ fr.f = "operands" /\ fr.rest \in Seq(S)
YieldFrame(fr, S) == OperandsFrame(fr, S) /\ fr.op \in {"yield", "yield_from"}
\* An operation in a plain expression.
PlainFrame(fr, S) ==
  \/ fr.f \in {"not", "matching", "is", "element", "exiting", "suppressed"}
  \/ fr.f = "manager" /\ fr.exc \in S
  \/ OperandsFrame(fr, S) /\ fr.op \notin {"yield", "yield_from"}

Bottom(k) == k[Len(k)]
AtStatement(k) == Len(k) = 1 /\ Bottom(k).f \in {"store", "instr"}
StackFits(k, x, S, X) ==
  /\ IsSeq(k) /\ k # <<>>
  /\ WaitingFrame(Bottom(k), x, S, X)
  /\ \A i \in 1..(Len(k) - 1) :
       \/ PlainFrame(k[i], S)
       \/ i = Len(k) - 1 /\ YieldFrame(k[i], S) /\ Bottom(k).f \in {"store", "instr"}

\* A frame pushed.
Above(fr, k) == <<fr>> \o k
\* A frame pushed on a stack that fits leaves it fitting, with the same bottom.
LEMMA PushFits ==
  ASSUME NEW k, NEW x, NEW S, NEW X, NEW fr, StackFits(k, x, S, X),
         PlainFrame(fr, S) \/ (AtStatement(k) /\ YieldFrame(fr, S)),
         NEW new, new = Above(fr, k)
  PROVE  /\ StackFits(new, x, S, X) /\ Bottom(new) = Bottom(k) /\ Len(new) > 1
         /\ Head(new) = fr /\ Tail(new) = k
<1> DEFINE V == {fr} \cup {k[i] : i \in DOMAIN k}
<1>1. k \in Seq(V) /\ Len(k) \in Nat /\ Len(k) > 0 /\ DOMAIN k = 1..Len(k)
  <2>1. k \in Seq({k[i] : i \in DOMAIN k}) /\ k # <<>>
    BY DEF StackFits, IsSeq
  <2> QED
    BY <2>1
<1>2. /\ new \in Seq(V) /\ Len(new) = Len(k) + 1 /\ new[1] = fr
      /\ \A i \in 1..Len(k) : new[i + 1] = k[i]
      /\ Head(new) = fr /\ Tail(new) = k
  BY <1>1 DEF Above
<1>3. Bottom(new) = Bottom(k)
  BY <1>1, <1>2 DEF Bottom
<1>4. IsSeq(new) /\ new # <<>>
  <2>1. new # <<>>
    BY <1>1, <1>2
  <2> QED
    BY <1>2, <2>1, SeqIsSeq
<1>5. ASSUME NEW i \in 1..(Len(new) - 1)
      PROVE  \/ PlainFrame(new[i], S)
             \/ i = Len(new) - 1 /\ YieldFrame(new[i], S) /\ Bottom(new).f \in {"store", "instr"}
  <2>1. CASE i = 1
    <3>1. CASE PlainFrame(fr, S)
      BY <1>2, <2>1, <3>1
    <3>2. CASE AtStatement(k) /\ YieldFrame(fr, S)
      BY <1>1, <1>2, <1>3, <2>1, <3>2 DEF AtStatement
    <3> QED
      BY <3>1, <3>2
  <2>2. CASE i # 1
    <3>1. i - 1 \in 1..(Len(k) - 1) /\ new[i] = k[i - 1]
      <4>1. i - 1 \in 1..Len(k) /\ (i - 1) + 1 = i
        BY <1>1, <1>2, <2>2
      <4> QED
        BY <1>1, <1>2, <2>2, <4>1
    <3>2. \/ PlainFrame(k[i - 1], S)
          \/ i - 1 = Len(k) - 1 /\ YieldFrame(k[i - 1], S) /\ Bottom(k).f \in {"store", "instr"}
      BY <3>1 DEF StackFits
    <3>3. i - 1 = Len(k) - 1 => i = Len(new) - 1
      <4>1. \A n \in Nat : \A l \in 1..((n + 1) - 1) : l - 1 = n - 1 => l = (n + 1) - 1
        OBVIOUS
      <4> QED
        BY <1>1, <1>2, <4>1
    <3> QED
      BY <1>3, <3>1, <3>2, <3>3
  <2> QED
    BY <2>1, <2>2
<1>6. WaitingFrame(Bottom(new), x, S, X)
  BY <1>3 DEF StackFits
<1>7. StackFits(new, x, S, X)
  BY <1>4, <1>5, <1>6 DEF StackFits
<1> QED
  BY <1>1, <1>2, <1>3, <1>7

\* The first frame is the one at the bottom, or an operation, of a yield only
\* right above a statement; without it the rest fits.
LEMMA TopFits ==
  ASSUME NEW k, NEW x, NEW S, NEW X, StackFits(k, x, S, X)
  PROVE  \/ Len(k) = 1 /\ Head(k) = Bottom(k) /\ Tail(k) = <<>> /\ WaitingFrame(Head(k), x, S, X)
         \/ /\ Len(k) # 1 /\ StackFits(Tail(k), x, S, X) /\ Bottom(Tail(k)) = Bottom(k)
            /\ PlainFrame(Head(k), S) \/ (AtStatement(Tail(k)) /\ YieldFrame(Head(k), S))
<1>1. k \in Seq({k[i] : i \in DOMAIN k}) /\ k # <<>>
  BY DEF StackFits, IsSeq
<1>2. Len(k) \in Nat /\ Len(k) > 0 /\ Head(k) = k[1] /\ DOMAIN k = 1..Len(k)
  BY <1>1
<1>3. CASE Len(k) = 1
  <2>1. Tail(k) = <<>>
    <3>1. Tail(k) \in Seq({k[i] : i \in DOMAIN k}) /\ Len(Tail(k)) = 0
      BY <1>1, <1>3
    <3> QED
      BY <3>1, EmptySeq
  <2> QED
    BY <1>2, <1>3, <2>1 DEF StackFits, Bottom
<1>4. CASE Len(k) # 1
  <2> DEFINE t == Tail(k)
  <2>1. /\ t \in Seq({k[i] : i \in DOMAIN k}) /\ Len(t) = Len(k) - 1
        /\ \A i \in 1..Len(t) : t[i] = k[i + 1]
    BY <1>1, <1>2
  <2>2. t # <<>> /\ IsSeq(t) /\ Len(t) \in Nat /\ Len(t) > 0
    <3>1. Len(t) \in Nat /\ Len(t) > 0
      BY <1>2, <1>4, <2>1
    <3>2. t # <<>>
      BY <2>1, <3>1, EmptySeq
    <3> QED
      BY <2>1, <3>1, <3>2, SeqIsSeq
  <2>3. Bottom(t) = Bottom(k)
    BY <1>2, <2>1, <2>2 DEF Bottom
  <2> HIDE DEF t
  <2>4. ASSUME NEW i \in 1..(Len(t) - 1)
        PROVE  \/ PlainFrame(t[i], S)
               \/ i = Len(t) - 1 /\ YieldFrame(t[i], S) /\ Bottom(t).f \in {"store", "instr"}
    <3>1. i + 1 \in 1..(Len(k) - 1) /\ t[i] = k[i + 1] /\ (i + 1 = Len(k) - 1 <=> i = Len(t) - 1)
      BY <1>2, <2>1, <2>2
    <3>2. \/ PlainFrame(k[i + 1], S)
          \/ i + 1 = Len(k) - 1 /\ YieldFrame(k[i + 1], S) /\ Bottom(k).f \in {"store", "instr"}
      BY <3>1 DEF StackFits
    <3> QED
      BY <2>3, <3>1, <3>2
  <2>5. StackFits(t, x, S, X)
    BY <2>2, <2>3, <2>4 DEF StackFits
  <2>6. \/ PlainFrame(k[1], S)
        \/ 1 = Len(k) - 1 /\ YieldFrame(k[1], S) /\ Bottom(k).f \in {"store", "instr"}
    <3>1. 1 \in 1..(Len(k) - 1)
      BY <1>2, <1>4
    <3> QED
      BY <3>1 DEF StackFits
  <2>7. PlainFrame(k[1], S) \/ (AtStatement(t) /\ YieldFrame(k[1], S))
    BY <1>2, <2>1, <2>2, <2>3, <2>6 DEF AtStatement
  <2> QED
    BY <1>2, <1>4, <2>3, <2>5, <2>7 DEF t
<1> QED
  BY <1>3, <1>4

\* A frame that waits, alone.
LEMMA OneFrame ==
  ASSUME NEW fr, NEW x, NEW S, NEW X, WaitingFrame(fr, x, S, X)
  PROVE  StackFits(<<fr>>, x, S, X) /\ Bottom(<<fr>>) = fr /\ Len(<<fr>>) = 1
BY DEF StackFits, Bottom, IsSeq

-----------------------------------------------------------------------------
(* The machine's configurations. *)

KindValues == {KindValue(AbruptKinds[i]) : i \in DOMAIN AbruptKinds}
\* Slots X hold why a finally body was entered.
Holds(env, X) == \A x \in X : Slot(env, x) \in KindValues

Parts == {"do", "on", "k", "env", "at"}
IsConfig(c) == c = [x \in Parts |-> c[x]]

\* It is in a block.
InBlock(c, bs, K) ==
  /\ IsConfig(c)
  /\ c.at \in DOMAIN bs
  /\ Holds(c.env, K[c.at])

\* Something waits for a value: a table for one that knows why, and it does not
\* wait for long.
Waits(c, bs, S, K) ==
  /\ StackFits(c.k, bs[c.at].term, S, K[c.at])
  /\ Bottom(c.k).f = "table" =>
       /\ Len(c.k) = 1
       /\ \/ c.do = "eval" /\ c.on = bs[c.at].term.index
          \/ c.do = "value" /\ c.on \in KindValues

\* What every configuration is like that the machine can be in.
ConfigFits(c, bs, S, K) ==
  /\ IsConfig(c)
  /\ c.at \in DOMAIN bs
  /\ \/ /\ c.do = "jump" /\ c.k = <<>> /\ c.on.to \in DOMAIN bs
        /\ Holds(TargetSlots(c.env, bs[c.on.to], c.on.args), K[c.on.to])
     \/ /\ c.do = "run" /\ c.k = <<>> /\ InBlock(c, bs, K)
        /\ RestFits(c.on, S, K[c.at])
     \/ /\ c.do = "eval" /\ InBlock(c, bs, K) /\ Waits(c, bs, S, K)
        /\ c.on \in S \/ (Suspends(c.on) /\ c.on.args \in Seq(S) /\ AtStatement(c.k))
     \/ c.do = "value" /\ InBlock(c, bs, K) /\ Waits(c, bs, S, K)
     \/ /\ c.do = "ask" /\ InBlock(c, bs, K) /\ Waits(c, bs, S, K)
        /\ c.on.op \in {"yield", "yield_from"} => AtStatement(c.k)
     \/ c.do = "end" /\ InBlock(c, bs, K)

\* Code that the compiler makes: it accepts it, yields stand alone, and K says
\* which slots know why a finally body was entered.
CodeFits(bs, S, K) == validate_function(bs) /\ YieldsStandAlone(bs, S) /\ KindsFlow(bs, K)

\* The same configuration with another thing to do, stack or slots.
WithTask(c, do, on) == [c EXCEPT !.do = do, !.on = on]
WithStack(c, k) == [c EXCEPT !.k = k]
WithSlots(c, env) == [c EXCEPT !.env = env]

\* What each of them changes.
LEMMA TaskFields ==
  ASSUME NEW c, IsConfig(c), NEW do, NEW on, NEW d, d = WithTask(c, do, on)
  PROVE  /\ IsConfig(d) /\ d.do = do /\ d.on = on
         /\ d.k = c.k /\ d.env = c.env /\ d.at = c.at
<1>1. DOMAIN c = Parts
  BY DEF IsConfig
<1>2. IsConfig(d)
  BY <1>1 DEF IsConfig, WithTask
<1>3. d.do = do /\ d.on = on /\ d.k = c.k /\ d.env = c.env /\ d.at = c.at
  BY <1>1 DEF Parts, WithTask
<1> QED
  BY <1>2, <1>3

\* Of a configuration with another stack, all else is as it was.
LEMMA StackFields ==
  ASSUME NEW c, IsConfig(c), NEW k, NEW d, d = WithStack(c, k)
  PROVE  /\ IsConfig(d) /\ d.k = k
         /\ d.do = c.do /\ d.on = c.on /\ d.env = c.env /\ d.at = c.at
<1>1. DOMAIN c = Parts
  BY DEF IsConfig
<1>2. IsConfig(d)
  BY <1>1 DEF IsConfig, WithStack
<1>3. d.k = k /\ d.do = c.do /\ d.on = c.on /\ d.env = c.env /\ d.at = c.at
  BY <1>1 DEF Parts, WithStack
<1> QED
  BY <1>2, <1>3

\* Of a configuration with other slots, all else is as it was.
LEMMA SlotFields ==
  ASSUME NEW c, IsConfig(c), NEW env, NEW d, d = WithSlots(c, env)
  PROVE  /\ IsConfig(d) /\ d.env = env
         /\ d.do = c.do /\ d.on = c.on /\ d.k = c.k /\ d.at = c.at
<1>1. DOMAIN c = Parts
  BY DEF IsConfig
<1>2. IsConfig(d)
  BY <1>1 DEF IsConfig, WithSlots
<1>3. d.env = env /\ d.do = c.do /\ d.on = c.on /\ d.k = c.k /\ d.at = c.at
  BY <1>1 DEF Parts, WithSlots
<1> QED
  BY <1>2, <1>3

\* A function ends or an exception leaves a block, whatever was left to do.
LEMMA EndFits ==
  ASSUME NEW bs, NEW S, NEW K, NEW c, NEW ending, InBlock(c, bs, K)
  PROVE  ConfigFits(End(c, ending), bs, S, K)
<1> DEFINE d == End(c, ending)
<1>0. d = WithTask(c, "end", ending) /\ IsConfig(c)
  BY DEF WithTask, End, InBlock
<1> HIDE DEF d
<1>1. IsConfig(d) /\ d.do = "end" /\ d.env = c.env /\ d.at = c.at
  BY <1>0, TaskFields
<1>2. ConfigFits(d, bs, S, K)
  BY <1>1 DEF ConfigFits, InBlock
<1> QED
  BY <1>2 DEF d

\* An exception leaves a block, whatever was left to do.
LEMMA ThrowFits ==
  ASSUME NEW bs, NEW S, NEW K, NEW c, NEW exc, InBlock(c, bs, K)
  PROVE  ConfigFits(Throw(c, exc), bs, S, K)
BY EndFits DEF Throw

\* The stack is one that a table does not wait at the bottom of.
Ready(c, bs, S, K) ==
  InBlock(c, bs, K) /\ StackFits(c.k, bs[c.at].term, S, K[c.at]) /\ Bottom(c.k).f # "table"

\* A value, an expression or a question, with the stack as it is.
LEMMA GiveFits ==
  ASSUME NEW bs, NEW S, NEW K, NEW c, NEW v, Ready(c, bs, S, K)
  PROVE  ConfigFits(Give(c, v), bs, S, K)
<1> DEFINE d == Give(c, v)
<1>0. d = WithTask(c, "value", v) /\ IsConfig(c)
  BY DEF WithTask, Give, InBlock, Ready
<1> HIDE DEF d
<1>1. IsConfig(d) /\ d.do = "value" /\ d.k = c.k /\ d.env = c.env /\ d.at = c.at
  BY <1>0, TaskFields
<1>2. ConfigFits(d, bs, S, K)
  BY <1>1 DEF ConfigFits, InBlock, Ready, Waits
<1> QED
  BY <1>2 DEF d

\* An expression is evaluated next; a yield only as a statement of its own.
LEMMA EvalFits ==
  ASSUME NEW bs, NEW S, NEW K, NEW c, NEW a, Ready(c, bs, S, K),
         a \in S \/ (Suspends(a) /\ a.args \in Seq(S) /\ AtStatement(c.k))
  PROVE  ConfigFits(Eval(c, a), bs, S, K)
<1> DEFINE d == Eval(c, a)
<1>0. d = WithTask(c, "eval", a) /\ IsConfig(c)
  BY DEF WithTask, Eval, InBlock, Ready
<1> HIDE DEF d
<1>1. IsConfig(d) /\ d.do = "eval" /\ d.on = a /\ d.k = c.k /\ d.env = c.env /\ d.at = c.at
  BY <1>0, TaskFields
<1>2. ConfigFits(d, bs, S, K)
  BY <1>1 DEF ConfigFits, InBlock, Ready, Waits
<1> QED
  BY <1>2 DEF d

\* An operation is asked for next; to suspend, only as a statement of its own.
LEMMA AskFits ==
  ASSUME NEW bs, NEW S, NEW K, NEW c, NEW op, NEW vs, Ready(c, bs, S, K),
         op \in {"yield", "yield_from"} => AtStatement(c.k)
  PROVE  ConfigFits(Ask(c, op, vs), bs, S, K)
<1> DEFINE d == Ask(c, op, vs)
<1>0. d = WithTask(c, "ask", [op |-> op, args |-> vs]) /\ IsConfig(c)
  BY DEF WithTask, Ask, InBlock, Ready
<1> HIDE DEF d
<1>1. /\ IsConfig(d) /\ d.do = "ask" /\ d.on = [op |-> op, args |-> vs]
      /\ d.k = c.k /\ d.env = c.env /\ d.at = c.at
  BY <1>0, TaskFields
<1>2. d.on.op = op
  BY <1>1
<1>3. ConfigFits(d, bs, S, K)
  BY <1>1, <1>2 DEF ConfigFits, InBlock, Ready, Waits
<1> QED
  BY <1>3 DEF d

\* An operation that waits for one of its operands.
LEMMA PushReady ==
  ASSUME NEW bs, NEW S, NEW K, NEW c, NEW fr, Ready(c, bs, S, K),
         PlainFrame(fr, S) \/ (AtStatement(c.k) /\ YieldFrame(fr, S))
  PROVE  Ready(Push(c, fr), bs, S, K)
<1> DEFINE d == Push(c, fr)
<1>0. d = WithStack(c, Above(fr, c.k)) /\ IsConfig(c)
  BY DEF WithStack, Above, Push, InBlock, Ready
<1> HIDE DEF d
<1>1. IsConfig(d) /\ d.k = Above(fr, c.k) /\ d.env = c.env /\ d.at = c.at
  BY <1>0, StackFields
<1>2. StackFits(c.k, bs[c.at].term, S, K[c.at]) /\ Bottom(c.k).f # "table"
  BY DEF Ready
<1>3. StackFits(d.k, bs[c.at].term, S, K[c.at]) /\ Bottom(d.k) = Bottom(c.k)
  BY <1>1, <1>2, PushFits
<1>4. Ready(d, bs, S, K)
  BY <1>1, <1>2, <1>3 DEF Ready, InBlock
<1> QED
  BY <1>4 DEF d

-----------------------------------------------------------------------------
(* An expression is evaluated (HelperStep). *)

\* Whatever the expression, what comes next fits.
LEMMA EvalKeeps ==
  ASSUME NEW bs, NEW S, NEW K, NEW c, CodeFits(bs, S, K),
         ConfigFits(c, bs, S, K), c.do = "eval"
  PROVE  ConfigFits(HelperStep(c), bs, S, K)
<1> DEFINE a == c.on
<1>1. /\ InBlock(c, bs, K) /\ Waits(c, bs, S, K)
      /\ a \in S \/ (Suspends(a) /\ a.args \in Seq(S) /\ AtStatement(c.k))
  BY DEF ConfigFits
<1>2. CASE Bottom(c.k).f = "table"
  <2>1. a = bs[c.at].term.index
    BY <1>1, <1>2 DEF Waits
  <2>2. bs[c.at].term.t = "table"
    BY <1>1, <1>2 DEF Waits, StackFits, WaitingFrame
  <2>3. a.e = "load" /\ a.name \in K[c.at]
    BY <1>1, <2>1, <2>2 DEF CodeFits, KindsFlow, InBlock
  <2>4. HelperStep(c) = Give(c, Slot(c.env, a.name)) /\ Slot(c.env, a.name) \in KindValues
    BY <1>1, <2>3 DEF HelperStep, InBlock, Holds
  <2> DEFINE d == HelperStep(c)
  <2>5. d = WithTask(c, "value", Slot(c.env, a.name)) /\ IsConfig(c)
    BY <1>1, <2>4 DEF WithTask, Give, InBlock
  <2> HIDE DEF d
  <2>6. /\ IsConfig(d) /\ d.do = "value" /\ d.on \in KindValues
        /\ d.k = c.k /\ d.env = c.env /\ d.at = c.at
    BY <2>4, <2>5, TaskFields
  <2>7. ConfigFits(d, bs, S, K)
    BY <1>1, <1>2, <2>6 DEF ConfigFits, InBlock, Waits
  <2> QED
    BY <2>7 DEF d
<1>3. CASE Bottom(c.k).f # "table"
  <2>1. Ready(c, bs, S, K)
    BY <1>1, <1>3 DEF Ready, Waits
  <2>2. CASE a.e \in {"const", "load", "load_deleted_name"}
    <3>1. (\E v : HelperStep(c) = Give(c, v)) \/ HelperStep(c) = Throw(c, Unbound)
      BY <2>2 DEF HelperStep, EvalStep, load_deleted_name
    <3> QED
      BY <1>1, <2>1, <3>1, GiveFits, ThrowFits
  <2>3. CASE a.e = "op" /\ a.args \in Seq(S) /\ (Suspends(a) => AtStatement(c.k))
    <3>1. a.op \in {"yield", "yield_from"} => AtStatement(c.k)
      BY <2>3 DEF Suspends
    <3>2. CASE a.args = <<>>
      <4>1. HelperStep(c) = Ask(c, a.op, <<>>)
        BY <2>3, <3>2 DEF HelperStep, EvalStep
      <4> QED
        BY <2>1, <3>1, <4>1, AskFits
    <3>3. CASE a.args # <<>>
      <4> DEFINE fr == [f |-> "operands", op |-> a.op, done |-> <<>>, rest |-> Tail(a.args)]
      <4>1. HelperStep(c) = Eval(Push(c, fr), Head(a.args))
        BY <2>3, <3>3 DEF HelperStep, EvalStep
      <4>2. Head(a.args) \in S /\ Tail(a.args) \in Seq(S)
        BY <2>3, <3>3
      <4>3. OperandsFrame(fr, S)
        BY <4>2 DEF OperandsFrame
      <4>4. PlainFrame(fr, S) \/ (AtStatement(c.k) /\ YieldFrame(fr, S))
        BY <3>1, <4>3 DEF PlainFrame, YieldFrame
      <4>5. Ready(Push(c, fr), bs, S, K)
        BY <2>1, <4>4, PushReady
      <4> QED
        BY <4>1, <4>2, <4>5, EvalFits
    <3> QED
      BY <3>2, <3>3
  <2>4. ASSUME NEW fr, NEW x \in S, HelperStep(c) = Eval(Push(c, fr), x), PlainFrame(fr, S)
        PROVE  ConfigFits(HelperStep(c), bs, S, K)
    BY <2>1, <2>4, PushReady, EvalFits
  <2>5. CASE a.e \in {"not", "is_complete", "element", "exception_matches"} /\ a.arg \in S
    <3>1. \E fr : HelperStep(c) = Eval(Push(c, fr), a.arg) /\ fr.f \in {"not", "is", "element", "matching"}
      BY <2>5 DEF HelperStep, EvalStep
    <3> QED
      BY <2>4, <2>5, <3>1 DEF PlainFrame
  <2>6. CASE a.e = "contextmanager_exit" /\ a.manager \in S /\ a.exc \in S
    <3> DEFINE fr == [f |-> "manager", exc |-> a.exc]
    <3>1. HelperStep(c) = Eval(Push(c, fr), a.manager)
      BY <2>6 DEF HelperStep
    <3>2. PlainFrame(fr, S)
      BY <2>6 DEF PlainFrame
    <3> QED
      BY <2>4, <2>6, <3>1, <3>2
  <2>7. a \in S => \/ a.e \in {"const", "load", "load_deleted_name"}
                   \/ a.e = "op" /\ ~ Suspends(a) /\ a.args \in Seq(S)
                   \/ a.e \in {"not", "is_complete", "element", "exception_matches"} /\ a.arg \in S
                   \/ a.e = "contextmanager_exit" /\ a.manager \in S /\ a.exc \in S
    BY DEF CodeFits, YieldsStandAlone, YieldFree
  <2>8. CASE a \in S
    BY <2>2, <2>3, <2>5, <2>6, <2>7, <2>8
  <2>9. CASE Suspends(a) /\ a.args \in Seq(S) /\ AtStatement(c.k)
    BY <2>3, <2>9 DEF Suspends
  <2> QED
    BY <1>1, <2>8, <2>9
<1> QED
  BY <1>2, <1>3

-----------------------------------------------------------------------------
(* Control goes from a block to the next. *)

\* An edge of the code that is taken leaves the target's slots as K says.
LEMMA EdgeHolds ==
  ASSUME NEW bs, NEW S, NEW K, CodeFits(bs, S, K), NEW i \in DOMAIN bs,
         NEW env, Holds(env, K[i]), NEW to \in blockpy_successors(bs[i])
  PROVE  /\ to \in DOMAIN bs
         /\ Holds(TargetSlots(env, bs[to], EdgeArgs(bs[i])), K[to])
<1> DEFINE target == bs[to]
           args == EdgeArgs(bs[i])
           names == {target.params[j].name : j \in DOMAIN target.params}
           implicit == Len(target.params) - Len(args)
           new == TargetSlots(env, target, args)
<1>1. to \in DOMAIN bs
  BY DEF CodeFits, validate_function
<1>2. ASSUME NEW x \in K[to]
      PROVE  Slot(new, x) \in KindValues
  <2>1. EdgeKeeps(x, K[i], target, args)
    BY DEF CodeFits, KindsFlow
  <2>2. CASE x \notin names
    <3>1. x \in K[i]
      BY <2>1, <2>2 DEF EdgeKeeps
    <3>2. Slot(new, x) = Slot(env, x)
      BY <2>2 DEF TargetSlots, Slot
    <3> QED
      BY <3>1, <3>2 DEF Holds
  <2>3. CASE x \in names
    <3> DEFINE p == CHOOSE j \in DOMAIN target.params : target.params[j].name = x
    <3>1. p \in DOMAIN target.params /\ target.params[p].name = x
      BY <2>3
    <3>2. Slot(new, x) = IF p <= implicit THEN Slot(env, x) ELSE ArgValue(env, args[p - implicit])
      <4>1. x \in DOMAIN new
        BY <2>3 DEF TargetSlots
      <4>2. new[x] = IF p <= implicit THEN Slot(env, x) ELSE ArgValue(env, args[p - implicit])
        BY <2>3 DEF TargetSlots
      <4> QED
        BY <4>1, <4>2 DEF Slot
    <3> HIDE DEF p, new
    <3>3. IF p <= implicit THEN x \in K[i] ELSE PassesKind(K[i], args[p - implicit])
      BY <2>1, <3>1 DEF EdgeKeeps
    <3>4. CASE p <= implicit
      BY <3>2, <3>3, <3>4 DEF Holds
    <3>5. CASE ~ (p <= implicit)
      <4> DEFINE arg == args[p - implicit]
      <4>1. PassesKind(K[i], arg) /\ Slot(new, x) = ArgValue(env, arg)
        BY <3>2, <3>3, <3>5
      <4> HIDE DEF arg
      <4>2. ArgValue(env, arg) \in KindValues
        BY <4>1 DEF PassesKind, ArgValue, Holds, KindValues
      <4> QED
        BY <4>1, <4>2
    <3> QED
      BY <3>4, <3>5
  <2> QED
    BY <2>2, <2>3
<1> QED
  BY <1>1, <1>2 DEF Holds

\* A jump along an edge of the graph brings the target the kinds it counts on.
LEMMA GoFits ==
  ASSUME NEW bs, NEW S, NEW K, CodeFits(bs, S, K), NEW c, InBlock(c, bs, K), c.k = <<>>,
         NEW to \in blockpy_successors(bs[c.at])
  PROVE  ConfigFits(Go(c, to, EdgeArgs(bs[c.at])), bs, S, K)
<1> DEFINE args == EdgeArgs(bs[c.at])
           d == Go(c, to, args)
<1>1. d = WithTask(c, "jump", [to |-> to, args |-> args]) /\ IsConfig(c)
  BY DEF WithTask, Go, InBlock
<1>2. to \in DOMAIN bs /\ Holds(TargetSlots(c.env, bs[to], args), K[to])
  BY EdgeHolds DEF InBlock
<1> HIDE DEF d, args
<1>3. /\ IsConfig(d) /\ d.do = "jump" /\ d.on = [to |-> to, args |-> args]
      /\ d.k = c.k /\ d.env = c.env /\ d.at = c.at
  BY <1>1, TaskFields
<1>4. d.on.to = to /\ d.on.args = args
  BY <1>3
<1>5. ConfigFits(d, bs, S, K)
  BY <1>2, <1>3, <1>4 DEF ConfigFits, InBlock
<1> QED
  BY <1>5 DEF d, args

\* What is left of a block is run.
LEMMA RunFits ==
  ASSUME NEW bs, NEW S, NEW K, NEW c, InBlock(c, bs, K), c.k = <<>>,
         NEW body, RestFits(body, S, K[c.at])
  PROVE  ConfigFits(Run(c, body), bs, S, K)
<1> DEFINE d == Run(c, body)
<1>1. d = WithTask(c, "run", body) /\ IsConfig(c)
  BY DEF WithTask, Run, InBlock
<1> HIDE DEF d
<1>2. /\ IsConfig(d) /\ d.do = "run" /\ d.on = body
      /\ d.k = c.k /\ d.env = c.env /\ d.at = c.at
  BY <1>1, TaskFields
<1>3. ConfigFits(d, bs, S, K)
  BY <1>2 DEF ConfigFits, InBlock
<1> QED
  BY <1>3 DEF d

\* A slot that K does not name is written.
LEMMA BindKeeps ==
  ASSUME NEW bs, NEW K, NEW c, InBlock(c, bs, K), NEW x, x \notin K[c.at], NEW v
  PROVE  LET d == Bind(c, x, v) IN InBlock(d, bs, K) /\ d.k = c.k /\ d.at = c.at
<1> DEFINE env == [y \in DOMAIN c.env \cup {x} |-> IF y = x THEN v ELSE c.env[y]]
           d == Bind(c, x, v)
<1>1. d = WithSlots(c, env) /\ IsConfig(c)
  BY DEF WithSlots, Bind, InBlock
<1>2. \A y \in K[c.at] : Slot(env, y) = Slot(c.env, y)
  BY DEF Slot
<1> HIDE DEF d, env
<1>3. IsConfig(d) /\ d.env = env /\ d.do = c.do /\ d.on = c.on /\ d.k = c.k /\ d.at = c.at
  BY <1>1, SlotFields
<1>4. InBlock(d, bs, K)
  BY <1>2, <1>3 DEF InBlock, Holds
<1> QED
  BY <1>3, <1>4 DEF d

\* Deleting a slot that holds no kind leaves the kinds where they are.
LEMMA UnbindKeeps ==
  ASSUME NEW bs, NEW K, NEW c, InBlock(c, bs, K), NEW x, x \notin K[c.at]
  PROVE  LET d == Unbind(c, x) IN InBlock(d, bs, K) /\ d.k = c.k /\ d.at = c.at
<1> DEFINE env == [y \in DOMAIN c.env \ {x} |-> c.env[y]]
           d == Unbind(c, x)
<1>1. d = WithSlots(c, env) /\ IsConfig(c)
  BY DEF WithSlots, Unbind, InBlock
<1>2. \A y \in K[c.at] : Slot(env, y) = Slot(c.env, y)
  BY DEF Slot
<1> HIDE DEF d, env
<1>3. IsConfig(d) /\ d.env = env /\ d.do = c.do /\ d.on = c.on /\ d.k = c.k /\ d.at = c.at
  BY <1>1, SlotFields
<1>4. InBlock(d, bs, K)
  BY <1>2, <1>3 DEF InBlock, Holds
<1> QED
  BY <1>3, <1>4 DEF d

-----------------------------------------------------------------------------
(* A value reaches what waits for it (FrameStep). *)

\* A kind has a number, and a table somewhere to go to for each number.
LEMMA KindHasTag ==
  ASSUME NEW v \in KindValues
  PROVE  v.kind = "kind" /\ abrupt_kind_tag(v.what) \in Nat
<1>1. PICK i \in DOMAIN AbruptKinds : v = KindValue(AbruptKinds[i])
  BY DEF KindValues
<1>2. v.kind = "kind" /\ v.what = AbruptKinds[i]
  BY <1>1 DEF KindValue, Value
<1> DEFINE j == CHOOSE n \in DOMAIN AbruptKinds : AbruptKinds[n] = v.what
<1>3. j \in DOMAIN AbruptKinds
  BY <1>2
<1>4. DOMAIN AbruptKinds = 1..3
  BY DEF AbruptKinds
<1>5. abrupt_kind_tag(v.what) = j - 1
  BY DEF abrupt_kind_tag
<1> HIDE DEF j
<1> QED
  BY <1>2, <1>3, <1>4, <1>5

\* A dispatch table goes to one of its targets or to the default.
LEMMA DestinationIsSuccessor ==
  ASSUME NEW b, b.term.t = "table", IsSeq(b.term.targets), NEW n \in Nat
  PROVE  Destination(b.term, n) \in blockpy_successors(b)
<1> DEFINE ts == b.term.targets
<1>1. blockpy_successors(b) = {ts[i] : i \in DOMAIN ts} \cup {b.term.default}
  BY DEF blockpy_successors
<1>2. Len(ts) \in Nat /\ DOMAIN ts = 1..Len(ts)
  BY DEF IsSeq
<1>3. CASE n < Len(ts)
  <2>1. n + 1 \in DOMAIN ts
    BY <1>2, <1>3
  <2> QED
    BY <1>1, <1>3, <2>1 DEF Destination
<1>4. CASE ~ (n < Len(ts))
  BY <1>1, <1>4 DEF Destination
<1> QED
  BY <1>3, <1>4

\* The value is for the statement or the terminator of the block.
LEMMA StatementGetsValue ==
  ASSUME NEW bs, NEW S, NEW K, CodeFits(bs, S, K), NEW c0, NEW c,
         c = WithStack(c0, Tail(c0.k)), InBlock(c0, bs, K), InBlock(c, bs, K), c.k = <<>>,
         c.at = c0.at, WaitingFrame(Head(c0.k), bs[c.at].term, S, K[c.at]),
         Head(c0.k).f = "table" => c0.on \in KindValues
  PROVE  ConfigFits(FrameStep(c0), bs, S, K)
<1> DEFINE fr == Head(c0.k)
           v == c0.on
           x == bs[c.at].term
<1>0. c = [c0 EXCEPT !.k = Tail(@)]
  BY DEF WithStack, InBlock
<1>1. CASE fr.f = "store" /\ RestFits(fr.rest, S, K[c.at]) /\ fr.name \notin K[c.at]
  <2> DEFINE d == Bind(c, fr.name, v)
  <2>1. FrameStep(c0) = Run(d, fr.rest)
    BY <1>0, <1>1 DEF FrameStep
  <2>2. InBlock(d, bs, K) /\ d.k = <<>> /\ d.at = c.at
    BY <1>1, BindKeeps
  <2> HIDE DEF d
  <2> QED
    BY <1>1, <2>1, <2>2, RunFits
<1>2. CASE fr.f = "instr" /\ RestFits(fr.rest, S, K[c.at])
  <2>1. FrameStep(c0) = Run(c, fr.rest)
    BY <1>0, <1>2 DEF FrameStep
  <2> QED
    BY <1>2, <2>1, RunFits
<1>3. CASE fr.f = "branch" /\ fr.term = x /\ x.t = "if"
  <2>1. EdgeArgs(bs[c.at]) = <<>> /\ blockpy_successors(bs[c.at]) = {x.then, x.else}
    BY <1>3 DEF EdgeArgs, blockpy_successors
  <2>2. \E to \in {x.then, x.else} : FrameStep(c0) = Go(c, to, <<>>)
    BY <1>0, <1>3 DEF FrameStep
  <2> QED
    BY <2>1, <2>2, GoFits
<1>4. CASE fr.f = "table" /\ fr.term = x /\ x.t = "table"
  <2> DEFINE n == abrupt_kind_tag(v.what)
  <2>1. v.kind = "kind" /\ n \in Nat
    BY <1>4, KindHasTag
  <2>2. FrameStep(c0) = Go(c, Destination(x, n), <<>>)
    BY <1>0, <1>4, <2>1 DEF FrameStep
  <2>3. EdgeArgs(bs[c.at]) = <<>>
    BY <1>4 DEF EdgeArgs
  <2>4. IsSeq(x.targets)
    BY <1>4 DEF CodeFits, YieldsStandAlone, TermFits, InBlock
  <2> HIDE DEF n
  <2>5. Destination(x, n) \in blockpy_successors(bs[c.at])
    BY <1>4, <2>1, <2>4, DestinationIsSuccessor
  <2> QED
    BY <2>2, <2>3, <2>5, GoFits
<1>5. CASE fr.f = "return"
  <2>1. FrameStep(c0) = End(c, Ended("return", v))
    BY <1>0, <1>5 DEF FrameStep, ValueStep
  <2> QED
    BY <2>1, EndFits
<1>6. CASE fr.f = "raise"
  <2>1. \E exc : FrameStep(c0) = Throw(c, exc)
    BY <1>0, <1>6 DEF FrameStep
  <2> QED
    BY <2>1, ThrowFits
<1> QED
  BY <1>1, <1>2, <1>3, <1>4, <1>5, <1>6 DEF WaitingFrame

\* The value is for an operation of an expression.
LEMMA OperationGetsValue ==
  ASSUME NEW bs, NEW S, NEW K, NEW c0, NEW c,
         c = WithStack(c0, Tail(c0.k)), Ready(c, bs, S, K),
         PlainFrame(Head(c0.k), S) \/ (AtStatement(c.k) /\ YieldFrame(Head(c0.k), S))
  PROVE  ConfigFits(FrameStep(c0), bs, S, K)
<1> DEFINE fr == Head(c0.k)
           v == c0.on
<1>0. c = [c0 EXCEPT !.k = Tail(@)] /\ InBlock(c, bs, K)
  BY DEF WithStack, Ready
<1>1. CASE fr.f \in {"not", "matching", "is", "element"}
  <2>1. \E w : FrameStep(c0) = Give(c, w)
    BY <1>0, <1>1 DEF FrameStep, ValueStep
  <2> QED
    BY <2>1, GiveFits
<1>2. CASE fr.f = "exiting"
  <2> DEFINE fr2 == [f |-> "suppressed", exc |-> v]
  <2>1. \/ FrameStep(c0) = Ask(c, "exit", <<fr.manager, v>>)
        \/ FrameStep(c0) = Ask(Push(c, fr2), "exit", <<fr.manager, v>>)
    BY <1>0, <1>2 DEF FrameStep
  <2>2. Ready(Push(c, fr2), bs, S, K)
    BY PushReady DEF PlainFrame
  <2> HIDE DEF fr2
  <2> QED
    BY <2>1, <2>2, AskFits
<1>3. CASE fr.f = "suppressed"
  <2>1. FrameStep(c0) = Give(c, None) \/ FrameStep(c0) = Throw(c, fr.exc)
    BY <1>0, <1>3 DEF FrameStep
  <2> QED
    BY <1>0, <2>1, GiveFits, ThrowFits
<1>4. CASE fr.f = "manager" /\ fr.exc \in S
  <2> DEFINE fr2 == [f |-> "exiting", manager |-> v]
  <2>1. FrameStep(c0) = Eval(Push(c, fr2), fr.exc)
    BY <1>0, <1>4 DEF FrameStep
  <2>2. Ready(Push(c, fr2), bs, S, K)
    BY PushReady DEF PlainFrame
  <2> HIDE DEF fr2
  <2> QED
    BY <1>4, <2>1, <2>2, EvalFits
<1>5. CASE OperandsFrame(fr, S) /\ (fr.op \in {"yield", "yield_from"} => AtStatement(c.k))
  <2> DEFINE done == Append(fr.done, v)
             fr2 == [fr EXCEPT !.done = done, !.rest = Tail(@)]
  <2>1. fr.f = "operands" /\ fr.rest \in Seq(S)
    BY <1>5 DEF OperandsFrame
  <2>2. CASE fr.rest = <<>>
    <3>1. FrameStep(c0) = Ask(c, fr.op, done)
      BY <1>0, <2>1, <2>2 DEF FrameStep, ValueStep
    <3> QED
      BY <1>5, <3>1, AskFits
  <2>3. CASE fr.rest # <<>>
    <3>1. FrameStep(c0) = Eval(Push(c, fr2), Head(fr.rest))
      BY <1>0, <2>1, <2>3 DEF FrameStep, ValueStep
    <3>2. Head(fr.rest) \in S /\ Tail(fr.rest) \in Seq(S)
      BY <2>1, <2>3
    <3>3. DOMAIN fr2 = DOMAIN fr /\ fr2.f = fr.f /\ fr2.op = fr.op /\ fr2.rest = Tail(fr.rest)
      BY <1>5 DEF OperandsFrame
    <3>4. OperandsFrame(fr2, S) /\ fr2.op = fr.op
      BY <1>5, <3>2, <3>3 DEF OperandsFrame
    <3> HIDE DEF fr2
    <3>5. PlainFrame(fr2, S) \/ (AtStatement(c.k) /\ YieldFrame(fr2, S))
      BY <1>5, <3>4 DEF PlainFrame, YieldFrame
    <3>6. Ready(Push(c, fr2), bs, S, K)
      BY <3>5, PushReady
    <3> QED
      BY <3>1, <3>2, <3>6, EvalFits
  <2> QED
    BY <2>2, <2>3
<1> QED
  BY <1>1, <1>2, <1>3, <1>4, <1>5 DEF PlainFrame, YieldFrame

\* Whatever waits for the value, what comes next fits.
LEMMA ValueKeeps ==
  ASSUME NEW bs, NEW S, NEW K, NEW c, CodeFits(bs, S, K),
         ConfigFits(c, bs, S, K), c.do = "value"
  PROVE  ConfigFits(FrameStep(c), bs, S, K)
<1> DEFINE d == WithStack(c, Tail(c.k))
<1>1. InBlock(c, bs, K) /\ Waits(c, bs, S, K) /\ IsConfig(c)
  BY DEF ConfigFits
<1>2. IsConfig(d) /\ d.k = Tail(c.k) /\ d.env = c.env /\ d.at = c.at
  BY <1>1, StackFields
<1> HIDE DEF d
<1>3. InBlock(d, bs, K)
  BY <1>1, <1>2 DEF InBlock
<1>4. CASE /\ Len(c.k) = 1 /\ Head(c.k) = Bottom(c.k) /\ Tail(c.k) = <<>>
           /\ WaitingFrame(Head(c.k), bs[c.at].term, S, K[c.at])
  <2>1. Head(c.k).f = "table" => c.on \in KindValues
    BY <1>1, <1>4 DEF Waits
  <2> QED
    BY <1>1, <1>2, <1>3, <1>4, <2>1, StatementGetsValue DEF d
<1>5. CASE /\ Len(c.k) # 1 /\ StackFits(Tail(c.k), bs[c.at].term, S, K[c.at])
           /\ Bottom(Tail(c.k)) = Bottom(c.k)
           /\ \/ PlainFrame(Head(c.k), S)
              \/ AtStatement(Tail(c.k)) /\ YieldFrame(Head(c.k), S)
  <2>1. Ready(d, bs, S, K)
    BY <1>1, <1>2, <1>3, <1>5 DEF Ready, Waits
  <2> QED
    BY <1>2, <1>5, <2>1, OperationGetsValue DEF d
<1>6. StackFits(c.k, bs[c.at].term, S, K[c.at])
  BY <1>1 DEF Waits
<1> QED
  BY <1>4, <1>5, <1>6, TopFits

-----------------------------------------------------------------------------
(* Instructions and terminators (Execute). *)

\* The next instruction and what is left after it.
LEMMA RestSplits ==
  ASSUME NEW body, NEW S, NEW X, RestFits(body, S, X), body # <<>>
  PROVE  /\ InstrFits(Head(body), S)
         /\ Head(body).i \in {"store", "del"} => Head(body).name \notin X
         /\ RestFits(Tail(body), S, X)
<1> DEFINE V == {body[j] : j \in DOMAIN body}
           t == Tail(body)
<1>1. body \in Seq(V) /\ body # <<>>
  BY DEF RestFits, IsSeq
<1>2. Len(body) \in Nat /\ Len(body) > 0 /\ Head(body) = body[1] /\ DOMAIN body = 1..Len(body)
  BY <1>1
<1>3. 1 \in DOMAIN body
  BY <1>2
<1>4. t \in Seq(V) /\ Len(t) = Len(body) - 1 /\ \A j \in 1..Len(t) : t[j] = body[j + 1]
  BY <1>1
<1>5. DOMAIN t = 1..Len(t) /\ Len(t) \in Nat
  BY <1>4
<1> HIDE DEF t
<1>6. ASSUME NEW j \in DOMAIN t
      PROVE  InstrFits(t[j], S) /\ (t[j].i \in {"store", "del"} => t[j].name \notin X)
  <2>1. j + 1 \in DOMAIN body /\ t[j] = body[j + 1]
    BY <1>2, <1>4, <1>5
  <2> QED
    BY <2>1 DEF RestFits
<1>7. IsSeq(t)
  BY <1>4, SeqIsSeq
<1>8. RestFits(t, S, X)
  BY <1>6, <1>7 DEF RestFits
<1> QED
  BY <1>2, <1>3, <1>8 DEF RestFits, t

\* A statement or a terminator waits for a value.
LEMMA WaitFits ==
  ASSUME NEW c, IsConfig(c), c.k = <<>>, NEW fr, NEW d, d = Push(c, fr)
  PROVE  IsConfig(d) /\ d.k = <<fr>> /\ d.env = c.env /\ d.at = c.at
<1>1. d = WithStack(c, <<fr>> \o <<>>)
  BY DEF WithStack, Push, IsConfig
<1>2. <<fr>> \o <<>> = <<fr>>
  OBVIOUS
<1>3. d = WithStack(c, <<fr>>)
  BY <1>1, <1>2
<1> QED
  BY <1>3, StackFields

\* It waits while its expression is evaluated.
LEMMA ReadyToEval ==
  ASSUME NEW bs, NEW S, NEW K, NEW c, InBlock(c, bs, K), c.k = <<>>, NEW fr,
         WaitingFrame(fr, bs[c.at].term, S, K[c.at]), fr.f # "table",
         NEW a, a \in S \/ (Suspends(a) /\ a.args \in Seq(S) /\ fr.f \in {"store", "instr"})
  PROVE  ConfigFits(Eval(Push(c, fr), a), bs, S, K)
<1> DEFINE d == Push(c, fr)
<1>0. d = Push(c, fr)
  OBVIOUS
<1> HIDE DEF d
<1>1. IsConfig(d) /\ d.k = <<fr>> /\ d.env = c.env /\ d.at = c.at
  BY <1>0, WaitFits DEF InBlock
<1>2. StackFits(<<fr>>, bs[c.at].term, S, K[c.at]) /\ Bottom(<<fr>>) = fr /\ Len(<<fr>>) = 1
  BY OneFrame
<1>3. /\ InBlock(d, bs, K) /\ StackFits(d.k, bs[c.at].term, S, K[c.at])
      /\ Bottom(d.k) = fr /\ Len(d.k) = 1 /\ d.at = c.at
  BY <1>1, <1>2 DEF InBlock
<1>4. Ready(d, bs, S, K)
  BY <1>3 DEF Ready
<1>5. fr.f \in {"store", "instr"} => AtStatement(d.k)
  BY <1>3 DEF AtStatement
<1>6. ConfigFits(Eval(d, a), bs, S, K)
  BY <1>4, <1>5, EvalFits
<1> QED
  BY <1>6 DEF d

\* Each kind of statement goes on to what fits.
LEMMA InstrKeeps ==
  ASSUME NEW bs, NEW S, NEW K, NEW c, InBlock(c, bs, K), c.k = <<>>,
         RestFits(c.on, S, K[c.at]), c.on # <<>>
  PROVE  ConfigFits(InstrStep(c, Head(c.on), Tail(c.on)), bs, S, K)
<1> DEFINE s == Head(c.on)
           rest == Tail(c.on)
<1>1. /\ InstrFits(s, S) /\ RestFits(rest, S, K[c.at])
      /\ s.i \in {"store", "del"} => s.name \notin K[c.at]
  BY RestSplits
<1> HIDE DEF s, rest
<1>2. CASE s.i = "store" /\ (s.value \in S \/ (Suspends(s.value) /\ s.value.args \in Seq(S)))
  <2> DEFINE fr == [f |-> "store", name |-> s.name, rest |-> rest]
  <2>1. InstrStep(c, s, rest) = Eval(Push(c, fr), s.value)
    BY <1>2 DEF InstrStep
  <2>2. WaitingFrame(fr, bs[c.at].term, S, K[c.at]) /\ fr.f = "store"
    BY <1>1, <1>2 DEF WaitingFrame
  <2> HIDE DEF fr
  <2>3. ConfigFits(Eval(Push(c, fr), s.value), bs, S, K)
    BY <1>2, <2>2, ReadyToEval
  <2> QED
    BY <2>1, <2>3 DEF s, rest
<1>3. CASE s.i = "eval" /\ (s.value \in S \/ (Suspends(s.value) /\ s.value.args \in Seq(S)))
  <2> DEFINE fr == [f |-> "instr", rest |-> rest]
  <2>1. InstrStep(c, s, rest) = Eval(Push(c, fr), s.value)
    BY <1>3 DEF InstrStep
  <2>2. WaitingFrame(fr, bs[c.at].term, S, K[c.at]) /\ fr.f = "instr"
    BY <1>1, <1>3 DEF WaitingFrame
  <2> HIDE DEF fr
  <2>3. ConfigFits(Eval(Push(c, fr), s.value), bs, S, K)
    BY <1>3, <2>2, ReadyToEval
  <2> QED
    BY <2>1, <2>3 DEF s, rest
<1>4. CASE s.i = "del"
  <2> DEFINE d == Unbind(c, s.name)
  <2>1. InstrStep(c, s, rest) = Run(d, rest)
    BY <1>4 DEF InstrStep
  <2>2. InBlock(d, bs, K) /\ d.k = <<>> /\ d.at = c.at
    BY <1>1, <1>4, UnbindKeeps
  <2> HIDE DEF d
  <2>3. ConfigFits(Run(d, rest), bs, S, K)
    BY <1>1, <2>2, RunFits
  <2> QED
    BY <2>1, <2>3 DEF s, rest
<1> QED
  BY <1>1, <1>2, <1>3, <1>4 DEF InstrFits

\* Each kind of terminator goes on to what fits.
LEMMA TermKeeps ==
  ASSUME NEW bs, NEW S, NEW K, NEW c, CodeFits(bs, S, K), InBlock(c, bs, K), c.k = <<>>
  PROVE  ConfigFits(TermStep(c, bs[c.at].term), bs, S, K)
<1> DEFINE x == bs[c.at].term
<1>1. TermFits(x, S)
  BY DEF CodeFits, YieldsStandAlone, InBlock
<1>2. CASE x.t = "jump"
  <2>1. TermStep(c, x) = Go(c, x.to, x.args)
    BY <1>2 DEF TermStep
  <2>2. blockpy_successors(bs[c.at]) = {x.to} /\ EdgeArgs(bs[c.at]) = x.args
    BY <1>2 DEF blockpy_successors, EdgeArgs
  <2> QED
    BY <2>1, <2>2, GoFits
<1>3. CASE x.t = "if" /\ x.test \in S
  <2> DEFINE fr == [f |-> "branch", term |-> x]
  <2>1. TermStep(c, x) = Eval(Push(c, fr), x.test)
    BY <1>3 DEF TermStep
  <2>2. WaitingFrame(fr, x, S, K[c.at]) /\ fr.f = "branch"
    BY <1>3 DEF WaitingFrame
  <2> HIDE DEF fr
  <2> QED
    BY <1>3, <2>1, <2>2, ReadyToEval
<1>4. CASE x.t = "table" /\ x.index \in S
  <2> DEFINE fr == [f |-> "table", term |-> x]
             p == Push(c, fr)
             d == Eval(p, x.index)
  <2>1. TermStep(c, x) = d
    BY <1>4 DEF TermStep
  <2>2. WaitingFrame(fr, x, S, K[c.at])
    BY <1>4 DEF WaitingFrame
  <2>3. p = Push(c, fr) /\ d = Eval(p, x.index)
    OBVIOUS
  <2> HIDE DEF d, p, fr
  <2>4. IsConfig(p) /\ p.k = <<fr>> /\ p.env = c.env /\ p.at = c.at
    BY <2>3, WaitFits DEF InBlock
  <2>5. StackFits(<<fr>>, x, S, K[c.at]) /\ Len(<<fr>>) = 1
    BY <2>2, OneFrame
  <2>6. /\ InBlock(p, bs, K) /\ StackFits(p.k, x, S, K[c.at])
        /\ Len(p.k) = 1 /\ p.at = c.at
    BY <2>4, <2>5 DEF InBlock
  <2>7. d = WithTask(p, "eval", x.index) /\ IsConfig(p)
    BY <2>3, <2>6 DEF WithTask, Eval, InBlock
  <2>8. /\ IsConfig(d) /\ d.do = "eval" /\ d.on = x.index
        /\ d.k = p.k /\ d.env = p.env /\ d.at = p.at
    BY <2>7, TaskFields
  <2>9. InBlock(d, bs, K)
    BY <2>6, <2>8 DEF InBlock
  <2>10. StackFits(d.k, bs[d.at].term, S, K[d.at]) /\ Len(d.k) = 1
    BY <2>6, <2>8
  <2>11. d.do = "eval" /\ d.on = bs[d.at].term.index
    BY <2>6, <2>8
  <2>12. Waits(d, bs, S, K)
    BY <2>10, <2>11 DEF Waits
  <2>13. ConfigFits(d, bs, S, K)
    BY <1>4, <2>8, <2>9, <2>12 DEF ConfigFits, InBlock
  <2> QED
    BY <2>1, <2>13
<1>5. CASE x.t = "return" /\ x.value \in S
  <2> DEFINE fr == [f |-> "return"]
  <2>1. TermStep(c, x) = Eval(Push(c, fr), x.value)
    BY <1>5 DEF TermStep
  <2>2. WaitingFrame(fr, x, S, K[c.at]) /\ fr.f = "return"
    BY DEF WaitingFrame
  <2> HIDE DEF fr
  <2> QED
    BY <1>5, <2>1, <2>2, ReadyToEval
<1>6. CASE x.t = "raise" /\ x.exc \in Seq(S)
  <2> DEFINE fr == [f |-> "raise"]
  <2>1. CASE x.exc = <<>>
    <3>1. TermStep(c, x) = Throw(c, Exception("TypeError"))
      BY <1>6, <2>1 DEF TermStep
    <3> QED
      BY <3>1, ThrowFits
  <2>2. CASE x.exc # <<>>
    <3>1. TermStep(c, x) = Eval(Push(c, fr), x.exc[1])
      BY <1>6, <2>2 DEF TermStep
    <3>2. WaitingFrame(fr, x, S, K[c.at]) /\ fr.f = "raise"
      BY DEF WaitingFrame
    <3>3. x.exc[1] \in S
      BY <1>6, <2>2
    <3> HIDE DEF fr
    <3> QED
      BY <3>1, <3>2, <3>3, ReadyToEval
  <2> QED
    BY <2>1, <2>2
<1> QED
  BY <1>1, <1>2, <1>3, <1>4, <1>5, <1>6 DEF TermFits

-----------------------------------------------------------------------------
(* Blocks and handlers (EnterBlock, Dispatch). *)

\* A block is entered with its own parameters bound, and runs all of its body.
LEMMA EnterKeeps ==
  ASSUME NEW bs, NEW S, NEW K, NEW c, CodeFits(bs, S, K),
         ConfigFits(c, bs, S, K), c.do = "jump"
  PROVE  ConfigFits(Enter(c, bs), bs, S, K)
<1> DEFINE to == c.on.to
           b == bs[to]
           env == TargetSlots(c.env, b, c.on.args)
           d == Enter(c, bs)
<1>1. /\ IsConfig(c) /\ c.k = <<>> /\ to \in DOMAIN bs /\ Holds(env, K[to])
  BY DEF ConfigFits
<1>2. d = [[c EXCEPT !.do = "run", !.on = b.body] EXCEPT !.at = to, !.env = TargetSlots(@, b, c.on.args)]
  BY DEF Enter, Run
<1>3. DOMAIN c = Parts
  BY <1>1 DEF IsConfig
<1>4. /\ IsConfig(d) /\ d.do = "run" /\ d.on = b.body /\ d.k = c.k
      /\ d.env = env /\ d.at = to
  <2>1. DOMAIN d = Parts
    BY <1>2, <1>3
  <2>2. d.do = "run" /\ d.on = b.body /\ d.k = c.k /\ d.env = env /\ d.at = to
    BY <1>2, <1>3 DEF Parts
  <2>3. IsConfig(d)
    BY <1>2, <1>3 DEF IsConfig
  <2> QED
    BY <2>2, <2>3
<1>5. RestFits(b.body, S, K[to])
  <2>1. IsSeq(b.body) /\ \A j \in DOMAIN b.body : InstrFits(b.body[j], S)
    BY <1>1 DEF CodeFits, YieldsStandAlone
  <2>2. \A j \in DOMAIN b.body : b.body[j].i \in {"store", "del"} => b.body[j].name \notin K[to]
    BY <1>1 DEF CodeFits, KindsFlow, BlockKeeps
  <2> QED
    BY <2>1, <2>2 DEF RestFits
<1> HIDE DEF d, env, b, to
<1>6. InBlock(d, bs, K)
  BY <1>1, <1>4 DEF InBlock
<1>7. ConfigFits(d, bs, S, K)
  BY <1>1, <1>4, <1>5, <1>6 DEF ConfigFits, InBlock
<1> QED
  BY <1>7 DEF d

\* A handler is entered with the exception in its parameter and an empty stack.
LEMMA DispatchKeeps ==
  ASSUME NEW bs, NEW S, NEW K, NEW c, CodeFits(bs, S, K),
         ConfigFits(c, bs, S, K), Handled(c, bs), NEW exc
  PROVE  ConfigFits(EnterHandler(c, bs[c.at].exc, exc, bs), bs, S, K)
<1> DEFINE to == bs[c.at].exc
           ps == bs[to].params
           c1 == WithStack(c, <<>>)
           c2 == IF ps = <<>> THEN c1 ELSE Bind(c1, ps[1].name, exc)
           d == Go(c2, to, <<>>)
<1>1. InBlock(c, bs, K) /\ to # NoLabel
  BY DEF ConfigFits, Handled
<1>2. to \in DOMAIN bs /\ IsSeq(ps) /\ \A x \in K[to] : HandlerKeeps(x, K[c.at], bs[to])
  BY <1>1 DEF CodeFits, validate_function, KindsFlow, InBlock
<1>3. EnterHandler(c, to, exc, bs) = d
  BY DEF EnterHandler, WithStack
<1>4. IsConfig(c1) /\ c1.k = <<>> /\ c1.env = c.env /\ c1.at = c.at
  BY <1>1, StackFields DEF InBlock
<1> HIDE DEF c1
<1>5. /\ IsConfig(c2) /\ c2.k = <<>> /\ c2.at = c.at
      /\ \A x \in K[to] : Slot(c2.env, x) \in KindValues
  <2>1. \A x \in K[to] : Slot(c1.env, x) \in KindValues
    BY <1>1, <1>2, <1>4 DEF HandlerKeeps, InBlock, Holds
  <2>2. CASE ps = <<>>
    BY <1>4, <2>1, <2>2
  <2>3. CASE ps # <<>>
    <3> DEFINE p == ps[1].name
               env == [y \in DOMAIN c1.env \cup {p} |-> IF y = p THEN exc ELSE c1.env[y]]
    <3>1. c2 = WithSlots(c1, env)
      BY <2>3 DEF WithSlots, Bind
    <3>2. 1 \in DOMAIN ps
      BY <1>2, <2>3 DEF IsSeq
    <3>3. p \notin K[to]
      BY <1>2, <3>2 DEF HandlerKeeps
    <3>4. \A x \in K[to] : Slot(env, x) = Slot(c1.env, x)
      BY <3>3 DEF Slot
    <3> HIDE DEF env, p, c2
    <3>5. IsConfig(c2) /\ c2.env = env /\ c2.k = c1.k /\ c2.at = c1.at
      BY <1>4, <3>1, SlotFields
    <3> QED
      BY <1>4, <2>1, <3>4, <3>5
  <2> QED
    BY <2>2, <2>3
<1> HIDE DEF c2
<1>6. Holds(TargetSlots(c2.env, bs[to], <<>>), K[to])
  <2> SUFFICES ASSUME NEW x \in K[to]
               PROVE  Slot(TargetSlots(c2.env, bs[to], <<>>), x) \in KindValues
    BY DEF Holds
  <2>1. x \notin {bs[to].params[j].name : j \in DOMAIN bs[to].params}
    BY <1>2 DEF HandlerKeeps
  <2>2. Slot(TargetSlots(c2.env, bs[to], <<>>), x) = Slot(c2.env, x)
    BY <2>1 DEF TargetSlots, Slot
  <2> QED
    BY <1>5, <2>2
<1>7. d = WithTask(c2, "jump", [to |-> to, args |-> <<>>])
  BY DEF WithTask, Go
<1> HIDE DEF d, to
<1>8. /\ IsConfig(d) /\ d.do = "jump" /\ d.on = [to |-> to, args |-> <<>>]
      /\ d.k = c2.k /\ d.env = c2.env /\ d.at = c2.at
  BY <1>5, <1>7, TaskFields
<1>9. d.on.to = to /\ d.on.args = <<>>
  BY <1>8
<1>10. ConfigFits(d, bs, S, K)
  BY <1>1, <1>2, <1>5, <1>6, <1>8, <1>9 DEF ConfigFits, InBlock
<1> QED
  BY <1>3, <1>10 DEF to

-----------------------------------------------------------------------------
(* Every configuration that the machine reaches fits its code. *)

MachineInv(S, K) == CodeFits(code, S, K) /\ ConfigFits(m, code, S, K)

\* The machine starts by a jump to the first block, which counts on no kinds.
LEMMA MachineStarts ==
  ASSUME NEW S, NEW K, CodeFits(code, S, K), RunInit
  PROVE  MachineInv(S, K)
<1>1. /\ m.do = "jump" /\ m.on = [to |-> 1, args |-> <<>>] /\ m.k = <<>> /\ m.at = 1
      /\ DOMAIN m = Parts /\ IsConfig(m)
  BY DEF RunInit, Machine, Parts, IsConfig
<1>2. m.on.to = 1 /\ 1 \in DOMAIN code /\ K[1] = {}
  BY <1>1 DEF CodeFits, KindsFlow
<1>3. Holds(TargetSlots(m.env, code[m.on.to], m.on.args), K[m.on.to])
  BY <1>2 DEF Holds
<1> QED
  BY <1>1, <1>2, <1>3 DEF MachineInv, ConfigFits

\* Every step of the machine, and every answer from outside, keeps the invariant.
LEMMA MachineSteps ==
  ASSUME NEW S, NEW K, MachineInv(S, K), [RunNext]_<<code, m>>
  PROVE  MachineInv(S, K)'
<1>0. CodeFits(code, S, K) /\ ConfigFits(m, code, S, K)
  BY DEF MachineInv
<1>1. ASSUME code' = code, ConfigFits(m', code, S, K)
      PROVE  MachineInv(S, K)'
  BY <1>0, <1>1 DEF MachineInv
<1>2. CASE EnterBlock
  <2>1. ConfigFits(Enter(m, code), code, S, K)
    BY <1>0, <1>2, EnterKeeps DEF EnterBlock
  <2> QED
    BY <1>1, <1>2, <2>1 DEF EnterBlock
<1>3. CASE Execute
  <2>1. InBlock(m, code, K) /\ m.k = <<>> /\ RestFits(m.on, S, K[m.at])
    BY <1>0, <1>3 DEF Execute, ConfigFits
  <2>2. CASE m.on = <<>>
    <3>1. ConfigFits(TermStep(m, code[m.at].term), code, S, K)
      BY <1>0, <2>1, TermKeeps
    <3> QED
      BY <1>1, <1>3, <2>2, <3>1 DEF Execute
  <2>3. CASE m.on # <<>>
    <3>1. ConfigFits(InstrStep(m, Head(m.on), Tail(m.on)), code, S, K)
      BY <2>1, <2>3, InstrKeeps
    <3> QED
      BY <1>1, <1>3, <2>3, <3>1 DEF Execute
  <2> QED
    BY <2>2, <2>3
<1>4. CASE Compute
  <2>1. CASE m.do = "eval"
    <3>1. ConfigFits(HelperStep(m), code, S, K)
      BY <1>0, <2>1, EvalKeeps
    <3> QED
      BY <1>1, <1>4, <2>1, <3>1 DEF Compute
  <2>2. CASE m.do = "value"
    <3>1. ConfigFits(FrameStep(m), code, S, K)
      BY <1>0, <2>2, ValueKeeps
    <3> QED
      BY <1>1, <1>4, <2>2, <3>1 DEF Compute
  <2> QED
    BY <1>4, <2>1, <2>2 DEF Compute
<1>5. CASE Dispatch
  <2>1. ConfigFits(EnterHandler(m, code[m.at].exc, m.on.val, code), code, S, K)
    BY <1>0, <1>5, DispatchKeeps DEF Dispatch
  <2> QED
    BY <1>1, <1>5, <2>1 DEF Dispatch
<1>6. ASSUME m.do = "ask", NEW a, Answer(a)
      PROVE  MachineInv(S, K)'
  <2>1. InBlock(m, code, K) /\ Waits(m, code, S, K)
    BY <1>0, <1>6 DEF ConfigFits
  <2>2. Ready(m, code, S, K)
    BY <1>6, <2>1 DEF Ready, Waits
  <2>3. ConfigFits(Give(m, a.val), code, S, K) /\ ConfigFits(Throw(m, a.val), code, S, K)
    BY <2>1, <2>2, GiveFits, ThrowFits
  <2> QED
    BY <1>1, <1>6, <2>3 DEF Answer
<1>7. CASE UNCHANGED <<code, m>>
  BY <1>0, <1>1, <1>7
<1> QED
  BY <1>2, <1>3, <1>4, <1>5, <1>6, <1>7 DEF RunNext, MachineStep

\* In a configuration that fits, a yield is asked for by a statement itself.
LEMMA SuspendsThere ==
  ASSUME NEW S, NEW K, MachineInv(S, K)
  PROVE  SuspendsBetweenStatements
<1> SUFFICES ASSUME m.do = "ask", m.on.op \in {"yield", "yield_from"}
             PROVE  Len(m.k) = 1 /\ Head(m.k).f \in {"store", "instr"}
  BY DEF SuspendsBetweenStatements
<1>1. AtStatement(m.k) /\ StackFits(m.k, code[m.at].term, S, K[m.at])
  BY DEF MachineInv, ConfigFits, Waits
<1>2. Head(m.k) = Bottom(m.k)
  BY <1>1, TopFits DEF AtStatement
<1> QED
  BY <1>1, <1>2 DEF AtStatement

\* In a configuration that fits, the value that a table waits for is a kind.
LEMMA KnowsWhy ==
  ASSUME NEW S, NEW K, MachineInv(S, K)
  PROVE  DispatchKnowsWhy
<1> SUFFICES ASSUME m.do = "value", Head(m.k).f = "table"
             PROVE  m.on.kind = "kind"
  BY DEF DispatchKnowsWhy
<1>1. Waits(m, code, S, K)
  BY DEF MachineInv, ConfigFits
<1>2. StackFits(m.k, code[m.at].term, S, K[m.at])
  BY <1>1 DEF Waits
<1>3. Bottom(m.k).f = "table"
  BY <1>2, TopFits DEF PlainFrame, YieldFrame, OperandsFrame
<1>4. m.on \in KindValues
  BY <1>1, <1>3 DEF Waits
<1> QED
  BY <1>4, KindHasTag

\* Code in which yields stand alone suspends between two statements only,
\* whatever its blocks are and whatever its operations answer: what is kept
\* while a function is suspended is its slots and a place (lower_stmt_no_yield,
\* generator state).
THEOREM SuspensionIsClean ==
  ASSUME NEW CONSTANT S, NEW CONSTANT K
  PROVE  RunSpec /\ CodeFits(code, S, K) => []SuspendsBetweenStatements
<1>1. RunInit /\ CodeFits(code, S, K) => MachineInv(S, K)
  BY MachineStarts
<1>2. MachineInv(S, K) /\ [RunNext]_<<code, m>> => MachineInv(S, K)'
  BY MachineSteps
<1>3. MachineInv(S, K) => SuspendsBetweenStatements
  BY SuspendsThere
<1> QED
  BY <1>1, <1>2, <1>3, PTL DEF RunSpec

\* After a finally body the code still knows why it was entered: where a table
\* of targets is used, its index is one of the kinds of abrupt ending, on every
\* path of blocks, jump arguments, handlers and answers that K covers.
THEOREM FinallyKnowsWhy ==
  ASSUME NEW CONSTANT S, NEW CONSTANT K
  PROVE  RunSpec /\ CodeFits(code, S, K) => []DispatchKnowsWhy
<1>1. RunInit /\ CodeFits(code, S, K) => MachineInv(S, K)
  BY MachineStarts
<1>2. MachineInv(S, K) /\ [RunNext]_<<code, m>> => MachineInv(S, K)'
  BY MachineSteps
<1>3. MachineInv(S, K) => DispatchKnowsWhy
  BY KnowsWhy
<1> QED
  BY <1>1, <1>2, <1>3, PTL DEF RunSpec
=============================================================================
