------------------------------ MODULE MCSampling ------------------------------
(* Two ranks and two slots.  The pools bring together requests with no      *)
(* filter, one or several, seeds (some the same), greedy requests, and one  *)
(* request more than there are slots, so that a slot is used again.          *)
EXTENDS QwenFusedDecode

Request(id, seed, temp, k, p, minP) ==
    [id |-> id, seed |-> seed, temp |-> temp, k |-> k, p |-> p, minP |-> minP]

Plain(id, seed) == Request(id, seed, Unit, VocabSize, 10, 0)
TopKOnly(id, seed, k) == Request(id, seed, Unit, k, 10, 0)

MCPools == {
    {Plain(1, 0), Plain(2, 0), TopKOnly(3, 7, 2)},
    {Plain(1, 7), Plain(2, 8), Plain(3, 0)},
    {TopKOnly(1, 7, 2), TopKOnly(2, 0, 2), TopKOnly(3, 7, 3)},
    {Request(1, 0, Unit, 2, 6, 0), Request(2, 8, Unit, 2, 9, 0), Request(3, 0, 2, 3, 9, 0)},
    {Request(1, 0, Unit, 2, 10, 3), Request(2, 7, Unit, 2, 10, 3), Request(3, 0, Greedy, 4, 10, 0)},
    {Request(1, 0, Unit, 4, 6, 4), Request(2, 8, Unit, 3, 6, 4), Plain(3, 0)},
    {Request(1, 7, Greedy, 2, 10, 0), Request(2, 0, Greedy, 4, 10, 0), Plain(3, 9)}}

Setup(runner, model, ipc) ==
    [runner |-> runner, model |-> model, ipc |-> ipc, chunked |-> FALSE]

MCSetups ==
    {Setup("legacy", "qwen248320", TRUE), Setup("legacy", "qwen151936", FALSE),
     Setup("legacy", "other", TRUE), Setup("v2", "qwen248320", TRUE), Setup("v2", "other", TRUE)}

(* For the decode inputs: longer, with prompts in one or two pieces.        *)
Chunked(model) == [Setup("v2", model, TRUE) EXCEPT !.chunked = TRUE]

MCWorkloads ==
    {[setup |-> s, pool |-> p, steps |-> 3] : s \in MCSetups, p \in MCPools}
    \cup {[setup |-> Chunked("qwen248320"), pool |-> {Plain(1, 0), Plain(2, 0)}, steps |-> 5],
          [setup |-> Chunked("qwen151936"), pool |-> {Plain(1, 0), TopKOnly(2, 7, 2), Plain(3, 0)},
           steps |-> 3],
          [setup |-> Chunked("other"), pool |-> {Plain(1, 7), Plain(2, 0)}, steps |-> 3]}

MCRanks == 0 .. 1
MCSlots == 1 .. 2

MCWeight(id, n, t) == 1 + ((3 * id + 2 * n + t * t * (1 + id)) % 4)

MCNoise(key, t) ==
    1 + (((IF key.kind = "gumbel" THEN 5 ELSE 2) + 3 * key.seed + 7 * key.position
          + 4 * key.row + t * (3 + key.position + key.seed) + t * t * 5) % 11)
=============================================================================
