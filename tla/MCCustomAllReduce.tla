-------------------------- MODULE MCCustomAllReduce -------------------------
(* Two ranks.  Every pair of launches over six kernels, two grids and two   *)
(* slots, and three launches in a row of the kernels with no barrier at     *)
(* their end.  Inputs are of three packed elements (one is the remainder of *)
(* the partition), for the fused kernels two rows of two.                   *)
EXTENDS CustomAllReduce

MCSlots == {0, 1}

MCSize(k) == IF k \in FusedKinds THEN 4 ELSE 3

MCLaunches == {[kind |-> k, grid |-> g, slot |-> s, size |-> MCSize(k)] :
                  k \in Kinds, g \in {1, 2}, s \in MCSlots}

(* the first launch of a pair is on slot 0: the slots are interchangeable *)
MCPairs == {<<a, b>> : a \in {l \in MCLaunches : l.slot = 0}, b \in MCLaunches}

(* the kernels with no barrier at their end *)
MCOpenEnded == {"two_stage", "two_shot", "fused_two_shot"}

MCTriples == {<<l, l, l>> : l \in {m \in MCLaunches : /\ m.kind \in MCOpenEnded
                                                    /\ m.grid = 2 /\ m.slot = 0}}

MCPrograms == MCPairs \union MCTriples
=============================================================================
