---------------------------- MODULE MCMultiRank -----------------------------
(* Model checking of MultiRank: the configurations give the constants.     *)
EXTENDS MultiRankInv
=============================================================================
