------------------------------- MODULE Sampling -------------------------------
(* Token sampling on tensor-parallel ranks (v1/sample/topk_topp_sampler.py).  *)
(* Every rank samples the whole batch for itself, from its own generators,   *)
(* and feeds the tokens to its own part of the model: the ranks have to come *)
(* to the same tokens.  Which of the samplers below takes a batch depends on *)
(* all of its requests, so a request changes sampler as others come and go.  *)
(*                                                                           *)
(* A logit is modelled by its exponential, a weight, and 0 is a masked one.  *)
(* A draw takes the token with the greatest weight times noise, and the      *)
(* noise is a function of a key: the kind of random numbers, the seed, the   *)
(* position in that stream, and the row.  The scheduler, the batch and its   *)
(* metadata are upstream's and external.                                     *)
EXTENDS Integers, Sequences, FiniteSets

CONSTANTS
    Workloads,      \* [setup, pool, steps]: a setup is [runner, model, ipc, chunked]
                    \* (the worker, the model, the pair gather, chunked prefill),
                    \* a pool a set of requests [id, seed, temp, k, p, minP]
    Slots, Ranks,
    None,
    VocabSize,
    Weight(_, _, _),    \* Weight(id, n, token): before the request's n-th token
    Noise(_, _),        \* Noise(key, token)
    HintK,              \* the specialised top-k (50)
    HintMinP,           \* the min-p of the V2 Gumbel contract, in tenths (0.05)
    HintRows,           \* V2: rows from which the hint is used with top-p (4)
    GumbelRows,         \* legacy Gumbel: the least number of rows (4)
    UnfilteredRows,     \* the same without top-k (16)
    UnfilteredOffset,   \* and the least generator offset (64)
    ShardedMinRows, ShardedMaxRows,     \* sharded logits (32, 64)
    PrefilterRows       \* rows from which a top-k tensor is prefiltered (16)

(* A seed is a positive number; 0 where the user gave none, and in the keys *)
(* of the process's own streams.  V2 then takes a random one.               *)
NoSeed == 0
RandomSeed(id) == 100 + id

Requests == UNION {w.pool : w \in Workloads}

(* Rank 0 stands for the ranks' agreed draws; the requests of a process     *)
(* have their own ids, and no random seed is a user's.  Chunked prefill of  *)
(* the legacy runner is left out.                                           *)
ASSUME WorkloadAssumption ==
    /\ IsFiniteSet(Slots) /\ 0 \in Ranks
    /\ \A w \in Workloads : w.setup.runner = "legacy" => ~ w.setup.chunked
    /\ \A w \in Workloads : \A q \in w.pool : \A p \in w.pool : p.id = q.id => p = q
    /\ \A q \in Requests :
          q.id \in Nat /\ q.seed \in Nat /\ \A p \in Requests : q.seed # RandomSeed(p.id)

(* What upstream makes of a request's parameters: top-k is limited to the   *)
(* vocabulary, top-p is positive; top-p and min-p are in tenths.            *)
ASSUME FilterAssumption ==
    /\ VocabSize \in Nat \ {0}
    /\ Ranks = 0 .. Cardinality(Ranks) - 1 /\ IsFiniteSet(Ranks)
    /\ \A q \in Requests : q.k \in 1 .. VocabSize /\ q.p \in 1 .. 10 /\ q.minP \in 0 .. 10

(* None is neither the ids of a step nor a generator.                       *)
ASSUME NoneAssumption == None \notin Seq(Nat) \cup [seed : Nat, offset : Nat]

VARIABLES
    setup,
    fresh,      \* requests still to come
    steps,      \* steps left (bound)
    slots,      \* slots[s]: the request in slot s, or None
    count,      \* count[s]: tokens sampled for it
    chunks,     \* chunks[s]: pieces of its prompt that were not the last
    userSeed,   \* userSeed[s]: V2's has_user_seed
    slotSeed,   \* slotSeed[s]: V2's seeds, random where the user gave none
    gens,       \* gens[r][s]: rank r's generator of slot s, or None
    private,    \* private[r]: offset of the unfiltered Gumbel generator
    global,     \* global[r]: what the default generator has handed out
    batch,      \* the slots of the rows of the current step
    partial,    \* the rows with a piece of a prompt that is not the last
    stage,      \* stage[r]: idle, begun, logits, pairs or done
    sharded,    \* sharded[r]: _musa_qwen_sharded_logits
    pairs,      \* pairs[r]: the best score and token of rank r's shard, by row
    keys,       \* keys[r][i]: what row i was drawn with
    out,        \* out[r][i]: the token sampled for row i
    drawn       \* history: every [key, id, seed] of rank 0

vars == <<setup, fresh, steps, slots, count, chunks, partial, userSeed, slotSeed, gens, private,
          global, batch, stage, sharded, pairs, keys, out, drawn>>
requestVars == <<setup, fresh, steps, slots, count, chunks, partial, userSeed,
                 slotSeed, batch, drawn>>

Vocab == 0 .. VocabSize - 1
Greedy == 0
Unit == 1

----------------------------------------------------------------------------
(* Weights and their filters.                                               *)

ArgMax(f) == CHOOSE t \in DOMAIN f : \A u \in DOMAIN f :
                f[u] < f[t] \/ (f[u] = f[t] /\ t <= u)

Scores(key, w) == [t \in DOMAIN w |-> w[t] * Noise(key, t)]

KeepOnly(w, kept) == [t \in DOMAIN w |-> IF t \in kept THEN w[t] ELSE 0]

Above(w, t) == {u \in DOMAIN w : w[u] > w[t]}

(* In sorted order, ties broken by index.                                   *)
Before(w, t) == {u \in DOMAIN w : w[u] > w[t] \/ (w[u] = w[t] /\ u < t)}

(* The weight of a set of tokens, counted in units.                         *)
Mass(w, S) == Cardinality(UNION {{t} \X (1 .. w[t]) : t \in S})

(* Upstream's top-k keeps every token tied with the k-th.                   *)
Eligible(w, k) == {t \in DOMAIN w : Cardinality(Above(w, t)) < k}
TopK(w, k) == KeepOnly(w, Eligible(w, k))

(* Its top-p keeps the tokens whose predecessors do not make up p yet.      *)
TopP(w, p) ==
    KeepOnly(w, {t \in DOMAIN w :
        10 * Mass(w, Before(w, t)) < p * Mass(w, DOMAIN w)})

MinP(w, m) ==
    KeepOnly(w, {t \in DOMAIN w : \A u \in DOMAIN w : 10 * w[t] >= m * w[u]})

Upstream(w, k, p) == TopP(TopK(w, k), p)

(* The native operations look at what is strictly more probable.            *)
NativeTopP(w, p) ==
    KeepOnly(w, {t \in DOMAIN w :
        10 * Mass(w, Above(w, t)) < p * Mass(w, DOMAIN w)})

(* sample_from_probs: "joint" top-k and top-p see the same distribution;    *)
(* with min-p, each filter sees what the one before it has left.            *)
Native(w, k, p, m, useMinP) ==
    IF useMinP THEN MinP(NativeTopP(TopK(w, k), p), m)
    ELSE KeepOnly(NativeTopP(w, p), Eligible(w, k))

(* The prefilters keep the k tokens topk returned; they give up on a batch  *)
(* in which some row has more than k.                                       *)
Prefiltered(ws, ks) ==
    \A i \in DOMAIN ws : ks[i] < VocabSize /\ Cardinality(Eligible(ws[i], ks[i])) = ks[i]

(* _apply_top_k_top_p.  A filter no row of the batch uses is None.          *)
Filtered(ws, hinted, ks, ps) ==
    LET usesP == \E i \in DOMAIN ps : ps[i] # 10
        kOf == IF hinted THEN [i \in DOMAIN ks |-> HintK] ELSE ks
        usesK == \E i \in DOMAIN ks : kOf[i] # VocabSize
        sorted == usesK /\ usesP /\ (hinted \/ Len(ws) >= PrefilterRows)
        picked(i) == {t \in Vocab : Cardinality(Before(ws[i], t)) < kOf[i]}
    IN [i \in DOMAIN ws |->
          IF sorted /\ Prefiltered(ws, kOf)
          THEN TopP(KeepOnly(ws[i], picked(i)), ps[i])
          ELSE Upstream(ws[i], kOf[i], ps[i])]

----------------------------------------------------------------------------
(* The batch, and what its metadata says.                                   *)

Rows == DOMAIN batch
Req(i) == slots[batch[i]]
Size == Len(batch)

Family == setup.model # "other"
SamplerVocab == setup.model # "other"
LegacyGumbelVocab == setup.model = "qwen248320"
Legacy == setup.runner = "legacy"

AllRandom == \A i \in Rows : Req(i).temp # Greedy
AllGreedy == \A i \in Rows : Req(i).temp = Greedy
AllUnit == \A i \in Rows : Req(i).temp = Unit
NoTopK == \A i \in Rows : Req(i).k = VocabSize
NoTopP == \A i \in Rows : Req(i).p = 10
NoMinP == \A i \in Rows : Req(i).minP = 0
SeededRows == {i \in Rows : Req(i).seed # NoSeed}

Ks == [i \in Rows |-> Req(i).k]
Ps == [i \in Rows |-> Req(i).p]

(* uniform_top_k, and _is_uniform_top_k_50 on the V2 worker.                *)
UniformK == \A i \in Rows : Req(i).k = HintK

Raw(i) == [t \in Vocab |-> Weight(Req(i).id, count[batch[i]], t)]

Tempered(i) ==
    IF Req(i).temp \in {Greedy, Unit} THEN Raw(i) ELSE [t \in Vocab |-> Raw(i)[t] * Raw(i)[t]]

(* can_use_qwen_legacy_unfiltered_metadata.                                 *)
UnfilteredMetadata ==
    Family /\ AllRandom /\ AllUnit /\ NoTopK /\ NoTopP /\ SeededRows = {} /\ NoMinP

----------------------------------------------------------------------------
(* Keys, and what the streams are advanced by.                              *)

Key(kind, seed, position, row) ==
    [kind |-> kind, seed |-> seed, position |-> position, row |-> row]

(* One torch.multinomial from a request's own generator, or the default one. *)
RowsBelow(i, rows) == {j \in rows : j < i}

MultinomialKey(r, i, unseeded) ==
    LET g == gens[r][batch[i]]
    IN IF i \in unseeded
       THEN Key("philox", NoSeed, global[r] + Cardinality(RowsBelow(i, unseeded)), 0)
       ELSE Key("philox", g.seed, g.offset \div 4, 0)

AdvanceRows(r, rows) ==
    gens' = [gens EXCEPT ![r] = [s \in Slots |->
        IF \E i \in rows : batch[i] = s THEN [gens[r][s] EXCEPT !.offset = @ + 4]
        ELSE gens[r][s]]]

AdvanceGlobal(r, n) == global' = [global EXCEPT ![r] = @ + n]

(* mutant: as if one row had been drawn *)
AdvancePrivateOnce(r) == private' = [private EXCEPT ![r] = @ + 4]

AdvancePrivate(r) == private' = [private EXCEPT ![r] = @ + 4 * Size]

(* The rows that are greedy take the best token; they have been drawn too.  *)
Finish(r, ks, ws) ==
    /\ stage' = [stage EXCEPT ![r] = "done"]
    /\ keys' = [keys EXCEPT ![r] = ks]
    /\ out' = [out EXCEPT ![r] = [i \in Rows |->
            IF Req(i).temp = Greedy THEN ArgMax(Raw(i)) ELSE ArgMax(Scores(ks[i], ws[i]))]]
    /\ UNCHANGED <<requestVars, sharded, pairs>>

----------------------------------------------------------------------------
(* Requests come and go between steps.                                      *)

Idle == \A r \in Ranks : stage[r] = "idle"

(* _sampling_states_add_request.  A slot keeps what its last request left.  *)
AddRequest(s, q) ==
    /\ Idle /\ slots[s] = None /\ q \in fresh
    /\ \A u \in Slots : u < s => slots[u] # None
    /\ fresh' = fresh \ {q}
    /\ slots' = [slots EXCEPT ![s] = q]
    /\ count' = [count EXCEPT ![s] = 0]
    /\ chunks' = [chunks EXCEPT ![s] = 0]
    /\ userSeed' = [userSeed EXCEPT ![s] = q.seed # NoSeed]
    /\ slotSeed' = [slotSeed EXCEPT ![s] = IF q.seed # NoSeed THEN q.seed ELSE RandomSeed(q.id)]
    /\ gens' = [r \in Ranks |-> [gens[r] EXCEPT ![s] =
            IF q.seed = NoSeed THEN None ELSE [seed |-> q.seed, offset |-> 0]]]
    /\ UNCHANGED <<setup, steps, partial, batch, drawn, private, global, stage, sharded, pairs, keys, out>>

(* Only when another request waits for a slot (bound).                      *)
FinishRequest(s) ==
    /\ Idle /\ slots[s] # None /\ count[s] > 0 /\ fresh # {}
    /\ slots' = [slots EXCEPT ![s] = None]
    /\ UNCHANGED <<setup, fresh, steps, count, chunks, partial, userSeed, slotSeed, batch, drawn,
                   gens, private, global, stage, sharded, pairs, keys, out>>

(* The legacy runner's rows are in slot order, the V2 worker's in any.      *)
Batches == {b \in UNION {[1 .. n -> {s \in Slots : slots[s] # None}] : n \in 1 .. Cardinality(Slots)} :
              \A i, j \in DOMAIN b : i < j => b[i] # b[j] /\ (Legacy => b[i] < b[j])}

(* A row of a request without a token is the last piece of its prompt, or    *)
(* one before (one at most, bound); chunked prefill of the legacy runner,   *)
(* which winds its generators back, is upstream's and left out.             *)
Schedule(b) ==
    /\ Idle /\ steps > 0
    /\ batch' = b
    /\ partial' \in SUBSET {i \in DOMAIN b : setup.chunked /\ count[b[i]] + chunks[b[i]] = 0}
    /\ steps' = steps - 1
    /\ stage' = [r \in Ranks |-> "begun"]
    /\ UNCHANGED <<setup, fresh, slots, count, chunks, userSeed, slotSeed, drawn,
                   gens, private, global, sharded, pairs, keys, out>>

Added(f, rows) == [s \in Slots |-> f[s] + Cardinality({i \in rows : batch[i] = s})]

(* A partial row is drawn like any other; its token is dropped.             *)
EndStep ==
    /\ \A r \in Ranks : stage[r] = "done"
    /\ count' = Added(count, Rows \ partial)
    /\ chunks' = Added(chunks, partial)
    /\ drawn' = drawn \o [i \in DOMAIN keys[0] |->
            [key |-> keys[0][i], id |-> Req(i).id, seed |-> Req(i).seed]]
    /\ stage' = [r \in Ranks |-> "idle"]
    /\ batch' = <<>>
    /\ partial' = {}
    /\ pairs' = [r \in Ranks |-> <<>>]
    /\ keys' = [r \in Ranks |-> <<>>]
    /\ out' = [r \in Ranks |-> <<>>]
    /\ UNCHANGED <<setup, fresh, steps, slots, userSeed, slotSeed, gens, private, global, sharded>>

Stopped == Idle /\ steps = 0 /\ UNCHANGED vars

----------------------------------------------------------------------------
(* The legacy runner.                                                       *)

(* The tokens of a rank's shard of the vocabulary.                          *)
ShardSize == VocabSize \div Cardinality(Ranks)

(* musa_compute_logits_if_eligible: this rank's part of the vocabulary, or  *)
(* all of it.                                                               *)
ShardedBatch ==
    /\ UnfilteredMetadata /\ setup.ipc
    /\ Size >= ShardedMinRows /\ Size <= ShardedMaxRows
    /\ ShardSize * Cardinality(Ranks) = VocabSize

ComputeLogits(r) ==
    /\ stage[r] = "begun" /\ Legacy
    /\ stage' = [stage EXCEPT ![r] = "logits"]
    /\ sharded' = [sharded EXCEPT ![r] = ShardedBatch]
    /\ UNCHANGED <<requestVars, gens, private, global, pairs, keys, out>>

(* can_use_qwen_legacy_unfiltered_gumbel.                                   *)
Unfiltered == Legacy /\ UnfilteredMetadata /\ SamplerVocab

PrivateKeys(r) ==
    [i \in Rows |-> Key("gumbel", NoSeed, private[r] \div 4 + i - 1, 0)]

SampleUnfiltered(r) ==
    /\ stage[r] = "logits" /\ Unfiltered /\ ~sharded[r]
    /\ Finish(r, PrivateKeys(r), [i \in Rows |-> Raw(i)])
    /\ AdvancePrivate(r)
    /\ UNCHANGED <<gens, global>>

(* mutant: the noise of a shard is that of the first tokens *)
ShardScoresFromZero(r, key, w) ==
    [t \in r * ShardSize .. (r + 1) * ShardSize - 1 |-> w[t] * Noise(key, t - r * ShardSize)]

(* gumbel_sample with vocab_start_index.                                    *)
ShardScores(r, key, w) ==
    [t \in r * ShardSize .. (r + 1) * ShardSize - 1 |-> w[t] * Noise(key, t)]

SampleShard(r) ==
    /\ stage[r] = "logits" /\ Unfiltered /\ sharded[r]
    /\ stage' = [stage EXCEPT ![r] = "pairs"]
    /\ keys' = [keys EXCEPT ![r] = PrivateKeys(r)]
    /\ pairs' = [pairs EXCEPT ![r] = [i \in Rows |->
            LET scores == ShardScores(r, PrivateKeys(r)[i], Raw(i))
            IN [token |-> ArgMax(scores), value |-> scores[ArgMax(scores)]]]]
    /\ AdvancePrivate(r)
    /\ UNCHANGED <<requestVars, gens, global, sharded, out>>

(* The pairs of all ranks are gathered; the first of the best ranks wins.   *)
ReducePairs(r) ==
    /\ stage[r] = "pairs" /\ \A q \in Ranks : stage[q] \in {"pairs", "done"}
    /\ stage' = [stage EXCEPT ![r] = "done"]
    /\ out' = [out EXCEPT ![r] = [i \in Rows |->
            pairs[ArgMax([q \in Ranks |-> pairs[q][i].value])][i].token]]
    /\ UNCHANGED <<requestVars, gens, private, global, sharded, pairs, keys>>

(* _sample: everything but the unfiltered Gumbel.                           *)
LegacySampling(r) == stage[r] = "logits" /\ Legacy /\ ~Unfiltered

SampleGreedy(r) ==
    /\ LegacySampling(r) /\ AllGreedy
    /\ Finish(r, <<>>, [i \in Rows |-> Raw(i)])
    /\ UNCHANGED <<gens, private, global>>

(* can_use_qwen_legacy_gumbel.                                              *)
LegacyGumbel(r) ==
    /\ LegacyGumbelVocab /\ AllRandom /\ NoTopP
    /\ Size >= GumbelRows /\ SeededRows # {}
    /\ NoTopK => /\ Size >= UnfilteredRows /\ SeededRows = Rows
                 /\ \A i \in Rows : gens[r][batch[i]].offset >= UnfilteredOffset

(* Min-p comes first: it is left to the native sampler only when no row is  *)
(* seeded.                                                                  *)
Processed(i) == MinP(Tempered(i), Req(i).minP)

(* Seeded rows take Gumbel noise, the others the default generator's.       *)
SampleLegacyGumbel(r) ==
    /\ LegacySampling(r) /\ ~AllGreedy /\ LegacyGumbel(r)
    /\ Finish(r,
            [i \in Rows |->
                LET g == gens[r][batch[i]]
                IN IF i \in SeededRows THEN Key("gumbel", g.seed, g.offset \div 4, 0)
                   ELSE MultinomialKey(r, i, Rows \ SeededRows)],
            Filtered([i \in Rows |-> Processed(i)], UniformK, Ks, Ps))
    /\ AdvanceRows(r, SeededRows)
    /\ AdvanceGlobal(r, Cardinality(Rows \ SeededRows))
    /\ UNCHANGED private

(* forward_musa with generators; on another model forward_native, which     *)
(* draws alike (external).  The hint is for a batch without generators.     *)
SampleSeeded(r) ==
    /\ LegacySampling(r) /\ ~AllGreedy /\ ~LegacyGumbel(r) /\ SeededRows # {}
    /\ Finish(r, [i \in Rows |-> MultinomialKey(r, i, Rows \ SeededRows)],
              Filtered([i \in Rows |-> Processed(i)], FALSE, Ks, Ps))
    /\ AdvanceRows(r, SeededRows)
    /\ AdvanceGlobal(r, Cardinality(Rows \ SeededRows))
    /\ UNCHANGED private

(* One launch for all rows: one position of the default generator, a        *)
(* subsequence per row.                                                     *)
NativeKeys(r) == [i \in Rows |-> Key("philox", NoSeed, global[r], i)]

NativeWeights(hinted) ==
    [i \in Rows |-> Native(Tempered(i), IF hinted THEN HintK ELSE Req(i).k, Req(i).p,
                           Req(i).minP, ~NoMinP)]

SampleNative(r) ==
    /\ LegacySampling(r) /\ ~AllGreedy /\ SeededRows = {}
    /\ Finish(r, NativeKeys(r), NativeWeights(Family /\ UniformK))
    /\ AdvanceGlobal(r, 1)
    /\ UNCHANGED <<gens, private>>

----------------------------------------------------------------------------
(* The V2 worker: _worker_sample.                                           *)

WorkerSampling(r) == stage[r] = "begun" /\ ~Legacy

AnyUserSeed == \E i \in Rows : userSeed[batch[i]]
AllUserSeeds == \A i \in Rows : userSeed[batch[i]]

(* can_use_qwen_v2_unfiltered_gumbel, can_use_qwen_v2_gumbel.               *)
WorkerUnfiltered == Family /\ ~AnyUserSeed /\ AllUnit /\ NoTopK /\ NoTopP /\ NoMinP
WorkerGumbel ==
    /\ Family /\ AllUserSeeds /\ AllUnit /\ UniformK /\ NoTopP
    /\ \A i \in Rows : Req(i).minP = HintMinP

(* Gumbel noise of the request's seed and its position; it keeps no state.  *)
PositionKeys ==
    [i \in Rows |->
        LET s == batch[i] IN Key("gumbel", slotSeed[s], count[s] + chunks[s], 0)]

(* Upstream's sampler (external) takes a batch with a greedy request.       *)
SampleByPosition(r) ==
    /\ WorkerSampling(r) /\ (WorkerUnfiltered \/ WorkerGumbel \/ ~AllRandom)
    /\ Finish(r, PositionKeys,
              IF WorkerUnfiltered THEN [i \in Rows |-> Raw(i)]
              ELSE Filtered([i \in Rows |-> Processed(i)], WorkerGumbel, Ks, Ps))
    /\ UNCHANGED <<gens, private, global>>

WorkerHinted == Family /\ UniformK /\ (NoTopP \/ Size >= HintRows)

(* musa_generators.get(req_idx): a slot without one draws from the default. *)
SampleWorkerSeeded(r) ==
    /\ WorkerSampling(r) /\ ~WorkerGumbel /\ AllRandom /\ AnyUserSeed
    /\ LET unseeded == {i \in Rows : gens[r][batch[i]] = None}
           ws == Filtered([i \in Rows |-> Tempered(i)], WorkerHinted, Ks, Ps)
       IN /\ Finish(r, [i \in Rows |-> MultinomialKey(r, i, unseeded)],
                    [i \in Rows |-> MinP(ws[i], Req(i).minP)])
          /\ AdvanceRows(r, Rows \ unseeded)
          /\ AdvanceGlobal(r, Cardinality(unseeded))
    /\ UNCHANGED private

SampleWorkerNative(r) ==
    /\ WorkerSampling(r) /\ ~WorkerUnfiltered /\ AllRandom /\ ~AnyUserSeed
    /\ Finish(r, NativeKeys(r), NativeWeights(WorkerHinted))
    /\ AdvanceGlobal(r, 1)
    /\ UNCHANGED <<gens, private>>

----------------------------------------------------------------------------
Init ==
    /\ \E w \in Workloads : setup = w.setup /\ fresh = w.pool /\ steps = w.steps
    /\ slots = [s \in Slots |-> None]
    /\ count = [s \in Slots |-> 0]
    /\ chunks = [s \in Slots |-> 0]
    /\ partial = {}
    /\ userSeed = [s \in Slots |-> FALSE]
    /\ slotSeed = [s \in Slots |-> NoSeed]
    /\ gens = [r \in Ranks |-> [s \in Slots |-> None]]
    /\ private = [r \in Ranks |-> 0]
    /\ global = [r \in Ranks |-> 0]
    /\ batch = <<>>
    /\ stage = [r \in Ranks |-> "idle"]
    /\ sharded = [r \in Ranks |-> FALSE]
    /\ pairs = [r \in Ranks |-> <<>>]
    /\ keys = [r \in Ranks |-> <<>>]
    /\ out = [r \in Ranks |-> <<>>]
    /\ drawn = <<>>

RankStep(r) ==
    \/ ComputeLogits(r)
    \/ SampleUnfiltered(r) \/ SampleShard(r) \/ ReducePairs(r)
    \/ SampleGreedy(r) \/ SampleLegacyGumbel(r) \/ SampleSeeded(r) \/ SampleNative(r)
    \/ SampleByPosition(r) \/ SampleWorkerSeeded(r) \/ SampleWorkerNative(r)

Next ==
    \/ \E s \in Slots : FinishRequest(s) \/ \E q \in fresh : AddRequest(s, q)
    \/ \E b \in Batches : Schedule(b)
    \/ \E r \in Ranks : RankStep(r)
    \/ EndStep
    \/ Stopped

Spec == Init /\ [][Next]_vars

----------------------------------------------------------------------------
(* The tokens some reading of a request's filters admits, and the ones      *)
(* every order of applying them admits.                                     *)
Loosest(i) ==
    LET w == Tempered(i)
    IN DOMAIN w \ {t \in Vocab : 0 \in {KeepOnly(w, Eligible(w, Req(i).k))[t],
                                        NativeTopP(w, Req(i).p)[t], MinP(w, Req(i).minP)[t]}}

Strictest(i) == {t \in Vocab : Upstream(Processed(i), Req(i).k, Req(i).p)[t] > 0}

(* Whatever sampler takes the batch: the ranks sample the same token for a  *)
(* row, it is one that row's own request admits, and no token of the whole  *)
(* vocabulary that the request's filters keep in every reading does better  *)
(* with the row's noise - sampling shards, prefiltering and specialising    *)
(* change nothing.                                                          *)
TokensRight ==
    (\A r \in Ranks : stage[r] = "done") =>
        \A i \in Rows :
            LET t == out[0][i]
                scores == Scores(keys[0][i], Tempered(i))
            IN /\ \A r \in Ranks : out[r][i] = t
               /\ IF Req(i).temp = Greedy
                  THEN t = ArgMax(Raw(i))
                  ELSE /\ t \in Loosest(i)
                       /\ \A u \in Strictest(i) : scores[u] <= scores[t]

(* No two draws use the same noise, except those of two requests the user   *)
(* gave the same seed; a seeded request is drawn with its seed and no other *)
(* request with it; and on the legacy runner every rank has advanced the    *)
(* generator of a seeded request once per token, whichever samplers it has  *)
(* been through.                                                            *)
OwnNoise ==
    Idle =>
        /\ \A i, j \in DOMAIN drawn :
              i < j /\ drawn[i].key = drawn[j].key =>
                /\ drawn[i].id # drawn[j].id
                /\ drawn[i].seed = drawn[j].seed /\ drawn[i].seed # NoSeed
        /\ \A i \in DOMAIN drawn :
              IF drawn[i].seed # NoSeed THEN drawn[i].key.seed = drawn[i].seed
              ELSE drawn[i].key.seed \in {NoSeed, RandomSeed(drawn[i].id)}
        /\ Legacy => \A r \in Ranks, s \in Slots :
              slots[s] # None /\ slots[s].seed # NoSeed /\ slots[s].temp # Greedy
                => gens[r][s].offset = 4 * count[s]
=============================================================================
