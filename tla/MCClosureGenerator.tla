------------------------- MODULE MCClosureGenerator -------------------------
(***************************************************************************)
(* One generator with a yield and two yield-from sites, two iterators of   *)
(* which one has neither throw nor close, one sent value and one user      *)
(* exception.                                                              *)
(***************************************************************************)
EXTENDS ClosureGenerator, TLC
CONSTANTS y1, y2, d1, d2, i1, i2, v1, x1
MCYieldSites    == {y1, y2}
MCDelegateSites == {d1, d2}
MCSubs          == {i1, i2}
MCFull          == {i1}
MCValues        == {v1}
MCUserExc       == {x1}
=============================================================================
