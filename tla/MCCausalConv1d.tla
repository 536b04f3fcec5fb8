--------------------------- MODULE MCCausalConv1d ---------------------------
(* Two requests over two lines, each admitted any number of times: a line   *)
(* goes from one owner to another, and batches have up to two rows.         *)
EXTENDS CausalConv1d, TLC

CONSTANTS r1, r2, l1, l2

Interchangeable == Permutations({r1, r2}) \cup Permutations({l1, l2})
=============================================================================
