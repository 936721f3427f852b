-------------------------- MODULE MCAsyncGenerator --------------------------
(***************************************************************************)
(* One yield and one await site, two iterators, two awaitables.            *)
(***************************************************************************)
EXTENDS AsyncGenerator, TLC
CONSTANTS y1, d1, i1, i2, v1, x1, a1, a2
MCYieldSites    == {y1}
MCDelegateSites == {d1}
MCSubs          == {i1, i2}
MCFull          == {i1, i2}
MCValues        == {v1}
MCUserExc       == {x1, StopAsyncIteration}
MCAwaitables    == {a1, a2}
AwaitableSymmetry == Permutations(MCAwaitables)
=============================================================================
