----------------------------- MODULE MCSessionRow -----------------------------
(* Three server processes, so that two peers can meet over the session of  *)
(* a third that died, or two; an orphan scan at every reconciliation, or at *)
(* every second one.                                                       *)
EXTENDS SessionRow, TLC

CONSTANTS i1, i2, i3

MCIncarnations == {i1, i2, i3}
MCTwo == {i1, i2}
MCScanAlways == 1
MCScanEvery == 2

Alike == Permutations(MCIncarnations)
=============================================================================
