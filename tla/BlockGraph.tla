----------------------------- MODULE BlockGraph -----------------------------
(***************************************************************************)
(* What is done to the blocks of a function before code is made from them: *)
(* the entry comes first, the end block is added, blocks that are never    *)
(* reached go, a block with a branch in the middle is split, every edge to *)
(* a handler says what it passes, and labels become positions.  Validate   *)
(* is the test of the result that the compiler makes.                      *)
(***************************************************************************)
EXTENDS EvalOrder
LOCAL INSTANCE SequencesExt
LOCAL INSTANCE FiniteSetsExt

move_entry_block_to_front(bs, entry) ==
  SelectSeq(bs, LAMBDA b : b.label = entry) \o SelectSeq(bs, LAMBDA b : b.label # entry)

RECURSIVE Reachable(_, _)
Reachable(bs, found) ==
  LET next == found \cup UNION {blockpy_successors(bs[i]) :
                                  i \in {j \in DOMAIN bs : bs[j].label \in found}}
  IN  IF next = found THEN found ELSE Reachable(bs, next)
\* Every handler counts as reached.
prune_unreachable(bs, entry) ==
  LET roots == {entry} \cup ({bs[i].exc : i \in DOMAIN bs} \ {NoLabel})
      reached == Reachable(bs, roots)
  IN  SelectSeq(bs, LAMBDA b : b.label \in reached)

Pieces(bs, n) == [bs |-> bs, n |-> n]
Piece(b, label, body, term) == [b EXCEPT !.label = label, !.body = body, !.term = term]

\* A block up to its first branch, the two sides, and what follows them; if
\* nothing does, both sides end as the block did.
RECURSIVE linearize(_, _)
linearize(b, n) ==
  LET branches == {i \in DOMAIN b.body : b.body[i].i = "if"} IN
  IF branches = {} THEN Pieces(<<b>>, n)
  ELSE LET at == Min(branches)
           rest == SubSeq(b.body, at + 1, Len(b.body))
           joined == rest # <<>>
           term == IF joined THEN Jump(n + 2, <<>>) ELSE b.term
           then == linearize(Piece(b, n, b.body[at].body, term), IF joined THEN n + 3 ELSE n + 2)
           else == linearize(Piece(b, n + 1, b.body[at].orelse, term), then.n)
           join == IF joined THEN linearize(Piece(b, n + 2, rest, b.term), else.n)
                   ELSE Pieces(<<>>, else.n)
           first == Piece(b, b.label, SubSeq(b.body, 1, at - 1),
                          IfTerm(b.body[at].test, n, n + 1))
       IN  Pieces(<<first>> \o then.bs \o else.bs \o join.bs, join.n)

\* In a block that keeps an exception: what a rewrite left as "the current
\* exception" is that name, and a bare raise raises it.
InException(a, x) ==
  CASE a = CurrentException -> Load(x)
    [] a.e = "exception_matches" /\ a.arg = CurrentException -> [a EXCEPT !.arg = Load(x)]
    [] a.e = "contextmanager_exit" /\ a.exc = CurrentException -> [a EXCEPT !.exc = Load(x)]
    [] OTHER -> a
rewrite_current_exception(b) ==
  LET kept == ParamsOf(b, "Exception") IN
  IF kept = <<>> THEN b
  ELSE LET x == kept[1].name
           instr(s) == IF s.i \in {"store", "eval"} THEN [s EXCEPT !.value = InException(@, x)] ELSE s
           term == CASE b.term.t = "raise" /\ b.term.exc = <<>> -> RaiseTerm(<<Load(x)>>)
                     [] b.term.t = "if" -> [b.term EXCEPT !.test = InException(@, x)]
                     [] OTHER -> b.term
       IN  [b EXCEPT !.body = [i \in DOMAIN @ |-> instr(@[i])], !.term = term]

op_updates_exception_state(s) == s.i \in {"store", "del"}
\* Inside a try, a block ends after every store.
RECURSIVE split_exception_block(_, _)
split_exception_block(b, n) ==
  LET cuts == {i \in DOMAIN b.body : op_updates_exception_state(b.body[i]) /\ i < Len(b.body)}
  IN  IF b.exc = NoLabel \/ cuts = {} THEN Pieces(<<b>>, n)
      ELSE LET at == Min(cuts)
               rest == split_exception_block(
                         Piece(b, n, SubSeq(b.body, at + 1, Len(b.body)), b.term), n + 1)
           IN  Pieces(<<Piece(b, b.label, SubSeq(b.body, 1, at), Jump(n, <<>>))>> \o rest.bs, rest.n)

\* F applied to each block in turn, with fresh numbers from n.
EachBlock(F(_, _), bs, n) ==
  FoldLeft(LAMBDA acc, b : LET more == F(b, acc.n) IN Pieces(acc.bs \o more.bs, more.n),
           Pieces(<<>>, n), bs)

\* A load of a name that the code may have deleted, or never assigns, tests it
\* for having a value; any other load does not.
InstrsOf(bs, kind) == {s \in UNION {ToSet(bs[i].body) : i \in DOMAIN bs} : s.i = kind}
collect_deleted_names(bs) == {s.name : s \in InstrsOf(bs, "del")}
collect_bound_names(bs) ==
  {s.name : s \in InstrsOf(bs, "store")}
    \cup {p.name : p \in UNION {ToSet(bs[i].params) : i \in DOMAIN bs}}
RECURSIVE TestLoads(_, _)
TestLoads(a, untested) ==
  CASE a.e = "load" -> IF a.name \in untested THEN a ELSE LoadDeletedName(a.name)
    [] a.e = "op" -> [a EXCEPT !.args = [i \in DOMAIN @ |-> TestLoads(@[i], untested)]]
    [] a.e \in {"not", "is_complete", "element", "exception_matches"} ->
         [a EXCEPT !.arg = TestLoads(@, untested)]
    [] a.e = "contextmanager_exit" ->
         [a EXCEPT !.manager = TestLoads(@, untested), !.exc = TestLoads(@, untested)]
    [] OTHER -> a
rewrite_deleted_name_loads(bs) ==
  LET untested == collect_bound_names(bs) \ collect_deleted_names(bs)
      test(a) == TestLoads(a, untested)
      instr(s) == IF s.i \in {"store", "eval"} THEN [s EXCEPT !.value = test(@)] ELSE s
      term(x) == CASE x.t = "if" -> [x EXCEPT !.test = test(@)]
                   [] x.t = "table" -> [x EXCEPT !.index = test(@)]
                   [] x.t = "return" -> [x EXCEPT !.value = test(@)]
                   [] x.t = "raise" -> [x EXCEPT !.exc = [i \in DOMAIN @ |-> test(@[i])]]
                   [] OTHER -> x
  IN  [i \in DOMAIN bs |-> [bs[i] EXCEPT !.body = [j \in DOMAIN @ |-> instr(@[j])],
                                          !.term = term(@)]]

\* A block whose yields stand between statements.
MakeExplicit(b, n) ==
  LET e == ExplicitBlock(AwaitsLowered(b), n)
  IN  Pieces(<<[b EXCEPT !.body = e.setup, !.term = e.val]>>, e.n)

\* Blocks as they were lowered, the entry first and the end block last.
OrderedBlocks(low) ==
  LET ordered == move_entry_block_to_front(low.st.bs, low.entry)
  IN  IF needs_end_block(ordered, low.entry) THEN Append(ordered, EndBlock) ELSE ordered

\* Those that are reached, in the shape that code has, with the next fresh
\* number; each yield is between statements.
ExplicitBlocks(low) ==
  LET folded == fold_jumps_to_trivial_none_return(OrderedBlocks(low))
      linear == EachBlock(linearize, prune_unreachable(folded, low.entry), low.st.n)
      bb == [i \in DOMAIN linear.bs |->
               LET b == linear.bs[i] IN rewrite_current_exception([b EXCEPT !.params = bb_params(b)])]
  IN  EachBlock(MakeExplicit, populate_exception_edge_args(bb), linear.n)

\* Each jump names its arguments, and each store in a try ends its block.
SplitBlocks(explicit) ==
  rewrite_deleted_name_loads(
    EachBlock(split_exception_block, populate_jump_edge_args(explicit.bs), explicit.n).bs)

\* The blocks that code is made from.
CompileBlocks(low) ==
  relabel_dense(populate_exception_edge_args(SplitBlocks(ExplicitBlocks(low))))

\* The blocks of a function, the first being its entry.
Compile(ss) == CompileBlocks(LowerBody(ss))
=============================================================================
