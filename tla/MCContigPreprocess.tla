-------------------------- MODULE MCContigPreprocess --------------------------
(* Calls for each choice of kernels: few and many slots, tokens and experts, *)
(* with and without padding; balanced routings, one expert for all, experts  *)
(* without a slot, and a slot that is not for a local expert.                *)
EXTENDS ContigPreprocess

Call(tokens, topk, experts, blockM, ids) ==
    [tokens |-> tokens, topk |-> topk, experts |-> experts, blockM |-> blockM,
     ids |-> [s \in 0 .. tokens * topk - 1 |-> ids[s + 1]]]

MCCalls ==
    {Call(2, 2, 3, bm, ids) : bm \in {2, 3},
        ids \in {<<0, 1, 2, 0>>, <<2, 0, 2, 1>>, <<1, 2, 1, -1>>, <<0, 1, 0, 1>>}}
    \cup {Call(2, 2, 3, 1, ids) : ids \in {<<0, 1, 2, 0>>, <<2, 1, 2, 1>>}}
    \cup {Call(3, 2, 3, bm, ids) : bm \in {1, 2},
        ids \in {<<0, 1, 2, 0, 1, 0>>, <<2, 1, 2, 1, 2, 1>>}}
    \cup {Call(3, 2, 4, 2, ids) : ids \in {<<0, 3, 3, 1, 3, 0>>, <<3, 2, -1, 3, 2, 3>>}}
    \cup {Call(6, 1, 3, 2, ids) : ids \in {<<0, 1, 2, 0, 0, 1>>, <<2, 2, 0, 2, 2, 2>>}}
    \cup {Call(5, 1, 1, 2, <<0, 0, 0, 0, 0>>), Call(1, 2, 3, 2, <<0, 1>>)}
=============================================================================
