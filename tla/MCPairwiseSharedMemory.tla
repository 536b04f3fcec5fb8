----------------------- MODULE MCPairwiseSharedMemory -----------------------
(* Six warps, three pairs.  The fused kernel runs with every warp on its    *)
(* own; the plain one with squads that keep a pair together, as MP31's      *)
(* squads of four do.  The last iteration of a row has work for one pair or *)
(* two.                                                                     *)
EXTENDS PairwiseSharedMemory

MCWarps == 0 .. 5

Alone == {{w} : w \in MCWarps}
Paired == {{0, 1}, {2, 3}, {4, 5}}
Mixed == {{0, 1, 2, 3}, {4, 5}}

(* blocks of a grid of one or two, with one or two rows of the fused kernel *)
MCLaunches ==
    [kernel : {"fused"}, squads : {Alone}, rows : {1, 2}, first : {0}, stride : {3},
     size : {2, 4}]
    \union
    [kernel : {"plain"}, squads : {Paired, Mixed}, rows : {1}, first : {0}, stride : {3},
     size : {8}]
    \union
    [kernel : {"plain"}, squads : {Paired, Mixed}, rows : {1}, first : {0, 3}, stride : {6},
     size : {7, 11}]
=============================================================================
