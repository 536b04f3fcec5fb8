------------------------- MODULE MCMultiRankBarrier -------------------------
(* Two ranks, flags modulo 4 and six calls: the flags wrap once and a half. *)
EXTENDS MultiRankBarrier

CONSTANTS r1, r2

MCRanks == {r1, r2}
=============================================================================
