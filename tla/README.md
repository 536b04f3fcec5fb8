# TLA+ models of vLLM-MUSA

Models, model-checking runs and proofs for the parts of vLLM-MUSA where ranks, blocks, threads,
launches, requests or repeated builds interleave. Paths below are relative to the repository; `PY` is
`vllm_musa/distributed/device_communicators/musa_jit_custom_all_reduce.py` and `CU` is
`vllm_musa/jit_kernel/csrc/distributed/custom_all_reduce.mu`; `CC`, `DG` and `TK` are
`causal_conv1d.py` and `deep_gemm_contig_preprocess.py` in `vllm_musa/jit_kernel/tilelang/`, and
`vllm_musa/v1/sample/topk_topp_sampler.py`.

To check a run: `tlc -workers 2 -config X.cfg M` with the pairs of section 3. To check the proofs:
`tlapm M.tla` for each of the eight modules `*Proofs.tla`; `GraphRegisteredInputsProofs`,
`CustomAllReduceProofs` and `CausalConv1dProofs` take some minutes, the others less than one or two.

## 1. Inventory

vLLM-MUSA is a plugin: it patches a pinned vLLM at build time, registers replacements at import, and
brings kernels for Moore Threads GPUs. Most of its code is numeric (kernels, quantisation, attention
metadata) and keeps no state between calls. What follows is the part with state, or with threads that
meet in shared memory.

| Part | State | Operations | Interacts through | Hard behaviour |
|---|---|---|---|---|
| Rank barrier (`CU:57-178`) | `self_counter`, two-slot `peer_counter` in every rank's memory | `multi_rank_barrier` | remote stores over IPC mappings | lost and stale flags, wrap-around |
| Collective kernels (`CU:180-452`, `534-753`, `1125-1384`, `1644-2131`) | staging buffer and temporary buffer per slot, output tensors | one-stage, two-stage, two-shot, all-gather launches, fused reduce-and-normalise ones | shared buffers ordered only by the barriers | launches one ahead of a peer, block residency |
| Pair exchange (`CU:287-336`, `1174-1254`) | one shared-memory slot and one loop counter per warp | reduce loop of the eight-rank kernels, exit to the signal | block barrier, squad scheduling | overwriting a half that was not added yet, warps that leave the loop apart |
| Graph staging arena (`PY:619-1019`, `optimization_contract/policy.py`) | cursors, ledger, captured descriptors | capture, allocate slots, manifest, compare, verdict | object broadcasts of the CPU group | a capture that fails or differs on one rank |
| Communicator (`PY:383-617`, `1713-1938`) | own allocations, opened handles, registry | construct, vote, close | `all_gather_object`, broadcasts, `all_reduce` | a rank that fails alone |
| Graph-registered inputs (`PY:685-719`, `1021-1109`) | pending inputs, handle cache, slot table | capture, publish handles, open | broadcasts | stale handles, uneven pending lists |
| Causal convolution (`CC`) | one cache line per request | forward and decode launches | cache lines given out by the scheduler | blocks in any order around one line, lines that change owner |
| Grouped-GEMM preprocessing (`DG`, `jit_kernel/post_reorder.py`, `fused_moe.py`) | counts, prefix sums, cursors, row labels | count, prefix, assign, copy, look up | shared memory and atomics | hand-written synchronisation, padding |
| Samplers (`TK`, patch 0102) | generators of requests and of the process, seeds by slot, the sharded flag | sample a batch | logits of the model, pair all-gather, batch metadata | a sampler per batch, ranks that must agree |
| Patch series (`patches/build_apply.py`, `setup.py:394-530`) | the vLLM clone | clone, reset, apply or skip, install | `git apply` | reruns, failed and interrupted builds, dependent patches |
| MDM tool (`tools/musa_sync.py`, `patches/manifest.py`) | clone, series directory | verify, rebase, regen | git | staged replacement of the series |
| Object patches (`patches/__init__.py`, `vllm_musa/__init__.py`) | attributes of imported modules | register, apply | imports in every process | order, repeated import |
| Worker termination (`v1/executor/multiproc_executor.py`) | worker processes | wait, SIGTERM, SIGKILL | signals | a worker that outlives the grace period |
| JIT build (`jit_kernel/csrc/jit.py`) | cache directory | lock, ninja, load | file lock | load after the lock is released |
| Qwen fused inputs (`v1/worker/qwen_fused_next_input_ids.py`, `v1/sample/uniform_sample_counts.py`, patch 0097) | primed and pending request ids, the input buffer | select inputs, select buffer | sampled tokens, the model runner's step order | stale ids after a step of another kind |
| Optimization contract (`optimization_contract/*.py`) | none | resolve gates and plans from a configuration | imports | consistency of gates |
| Numeric parts (attention, expert kernels, norm/rope/top-k kernels, compile passes) | none between calls | | | not concurrent |

What makes each correct: the barrier lets no rank leave early and hangs none; a collective's result
combines exactly the inputs of its own launch; captured calls get the same, disjoint slots on all ranks;
the ranks agree on whether the communicator exists, and leak nothing when it does not; a registered
graph input leads to the live tensor of the same call on every rank; a convolution sees exactly the
inputs before its token, however the request was cut; a slot's row is computed by its expert from its
token; the ranks sample the same token, from noise used once; unless it is told not to patch, a build
installs only a fully patched vLLM.

## 2. Modules

| Module | Models | Composes |
|---|---|---|
| `RankBarrier` | abstract barrier of one block row: nobody leaves call n before all arrived at it | |
| `MultiRankBarrier` | the flag protocol of `multi_rank_barrier` | refines `RankBarrier` |
| `Collectives` | abstract service: the k-th result combines the k-th inputs | |
| `CustomAllReduce` | launches, kernels, blocks, buffers on one stream per rank | uses `RankBarrier` per row and slot, refines `Collectives` |
| `PairwiseSharedMemory` | the reduce loop inside one block of the eight-rank kernels | |
| `GraphStagingArena` | captures, slots, manifest and verdict | |
| `CommunicatorInit` | construction and the availability vote | |
| `GraphRegisteredInputs` | captures of registered inputs and the exchange of their handles | |
| `CausalConv1d` | launches, kernels and blocks of the convolution over the requests' cache lines | |
| `ContigPreprocess` | the preprocessing kernels, thread by thread | |
| `Sampling` | the choice of sampler, the generators, and the sharded draw | |
| `QwenFusedDecode` | the input ids of the V2 worker's next step | extends `Sampling` |
| `PatchSeries` | the build's patch application | |
| `MultiRankBarrierProofs`, `CustomAllReduceProofs`, `GraphStagingArenaProofs`, `CommunicatorInitProofs`, `GraphRegisteredInputsProofs`, `CausalConv1dProofs`, `QwenFusedDecodeProofs`, `PatchSeriesProofs` | theorems | extend their modules; the first has both barriers and extends `PairwiseSharedMemory` too |
| `MC*` | values of the constants for TLC | extend their modules |

Operators whose comment starts with "mutant" are plausible wrong versions of the definition that
follows them. No specification uses them; they exist to see that the properties can fail.

### MultiRankBarrier

Thread `i` of the block of rank `r` is the pair `(r, i)`. `Arrive` starts a call on a rank, `Signal`
is the increment and `signal_store` (`CU:158-171`), `Deliver` the moment that the store becomes
visible, `StopSpinning` the loop exit with its equality test (`CU:172-173`), and `Leave` the trailing
`__syncthreads_lm`. Stores that were issued land in any order. Flags are taken modulo `FlagModulus`,
which is 2^32 in the code: the protocol uses only that it is even and at least 4, and the proofs
assume no more.

### CustomAllReduce

A launch is a kind, a grid, a slot (the eager region or one of a captured call) and a size in packed
elements. The stream copies the input into the staging buffer (`BeginCopy`, `EndCopy`,
`CU:1780-1788`), runs the launch's kernels one after the other, and each block goes through its steps:
`barrier`, `reduce`, `gather`. A reduce or gather reads and writes while its step lasts; `RaceFree`
looks at what overlaps, and the step's effect is applied at its end, which is exact when nothing
overlaps. Values are sets of contributions `<<rank, launch, element>>`: a sum is the set of its terms,
which tells apart every mixture of ranks, launches and elements; the arithmetic is left out.
`ReduceBlock`, `TmpIndex` and the fetch operators are the index mappings of the kernels; a block row
may read only what its own row wrote on a peer, since barriers join equal rows. `CanDispatch` is the
block scheduler: `ResidencyAssumption` states what the launches' block limits are for, and its mutant
shows the deadlock when it fails. The choice among the kernels by size (`launch_ar`, the `shot` of the
fused launches) is left to the programs: any kind may follow any other.

The fused kinds (`CU:534-753`, `1125-1384`) reduce and normalise by row. A block has whole rows, and an
element of the output is the set of the terms of its row (`SummedInto`), since the root mean square is
taken over all of them; residual and weight are local to the rank and left out. Eight packed elements in
a row that share an owner (`fused_ar_2shot_owner`, the coalescing of `custom_all_reduce_2shot`) are one
element of the model. That is for a power of two of ranks; six ranks reduce contiguous parts of a row
(`CU:513-516`, `1227-1247`), and an element is then one packed element. `Owner` has both branches. The
run has two ranks, so the second is covered by the theorems only, which hold for any number of ranks.

An all-gather puts the ranks' columns side by side in every row (`CU:355-385`, `436`); the rows are
independent of one another, and the model gathers one.

### PairwiseSharedMemory

Lanes of a 32-lane warp sum four ranks; the pair of warps exchange halves through shared memory. A
launch gives its block's rows, where `idx_base` starts, its stride and the row's size, counted in the 64
packed elements a pair of warps has in one iteration; a block of `n` warps has `n/2` columns of them.
`cursor` is a warp's own row and `idx_base`: each decides for itself whether to go round again (`InRow`)
or to leave (`LeaveLoop`), and the barrier behind the loop (`CU:331`, `1250`) is the same block barrier
as the ones inside, so that warps which disagree would match one with the other. They do not
because the condition is on the block's `idx_base` and not on the warp's columns: the mutant
`OwnColumnInRow` lets a warp without work signal early (`ReducedBeforeSignal`) or hang the rest
(`LoopEnds`). `multi_rank_barrier<nranks, false, true>` begins with another block barrier (`CU:155-157`),
behind which the first threads signal to the other ranks (`SignalSync`); the model ends there.

The
fused kernel has a second barrier for this (its comment, `CU:1219-1223`); the plain kernel at
`CU:313-328` has one barrier per iteration. A comment at `CU:501-502` says that MP31 runs four 32-lane
warps as one squad. The model therefore runs the fused kernel with every warp on its own, and the
plain one with both warps of a pair in one squad. With warps on their own the plain kernel does not
keep `HalvesMatch`: its correctness rests on that scheduling.

### GraphStagingArena

All ranks go through the same captures. `CaptureCall` is `_graph_staging_launch_args`; `RefuseCall`
its raise; `MissCall` stands for `should_custom_ar` deciding differently on one rank; `FailBody` for an
exception of the captured forward. The vote is one object broadcast per rank in rank order
(`PY:984-995`); `Decide` compares failures, then ledgers, as the code does. A failed capture gives
nothing back, so the ledger of a later capture contains its leftovers, and
`_graph_staging_manifest_error` refuses a descriptor unless it has the slots of one forward in the whole
ledger (`PY:898-910`).

A ledger entry has the call's own size: `StrayCall` is a rank whose tensor has another size than the
plan's (`StraySizes`), perhaps one that rounds up to the same slots, which the manifest finds by the exact
sizes (`PY:911-917`). The entry's operation kind and number of requests are left out; they could only
make more ledgers differ.

`AcceptedSlotsAgree` says what that comparison guarantees and no more: an accepted descriptor has all
its slots, of the planned size, and every rank has taken the same ones. It does not say that a rank took
them in the capture that was accepted. Suppose a capture fails on one rank before it has taken a slot,
while another has taken all, and the second misses these calls when the capture is done again: the
ledgers are equal and complete, the capture is accepted, and the second rank's graph does not use its
slots (nor does it count the descriptor as captured, `PY:694-702`). An earlier, stronger form of the
property claimed that the captured sets agree; the proof failed on this case, and TLC reaches it with
three faults.

### CommunicatorInit

Collectives of the CPU group are matched by call order: `calls[r]` is the sequence a rank has entered,
a call completes when every rank has made the same call at the same place, and a call that can
complete no more ends by the group's timeout. `RaiseGuarded` is the except branch of
`_MusaJitCustomAllreduceImpl.__init__` (`PY:539-567`, leaving a disabled object), `RaiseUnguarded` an
exception elsewhere (caught by the wrapper; the object's `__del__` calls `close`), and `RaiseInVote`
one out of the vote. In `_make_shared_buffer` the allocation, the clearing and the export of the handle
are one step (`Allocate`), because nothing of other ranks depends on what is between them. `FailBegin` is
whatever raises before the first collective (`PY:455-524`: device, configuration, plan).

### GraphRegisteredInputs

A captured kernel looks its peers' tensors up in a row of `graph_rank_data` that is filled in after the
capture. `CaptureCall` appends the tensor to the pending list and fixes the row; `StartRegistration`
exports the bases it does not have in the handle cache (`PY:1020-1046`); `Broadcast` is one
`broadcast_object_list` of the loop over ranks; `Register` checks the counts, opens what is not mapped
and writes the rows. A rank that raises (a failed body, a full row buffer, a handle that does not open,
unequal counts) leaves; a peer that waits for it learns from the process group, which is external
(`LosePeer`). `Reallocate` gives a segment back and takes it again at the same address, with a new
handle, when no tensor kept by the rank is in it: that the rows stay right rests on
`_graph_input_refs`, and the mutant that keeps nothing breaks `RowsResolve`.

A rank learns that a peer left also from the group's timeout (`Silent`), for instance when the peer has
nothing to register and skips the exchange the others wait in (`PY:685`).

`RowsResolve` has two parts. Always, a row leads to live memory: of the tensor that the peer's kernel
with the same row was captured with. That it is the tensor of the same call holds as far as the counts
can tell. The code compares how many tensors the ranks have, not which (`PY:1065`), so if two ranks miss
different calls of one capture, or one misses all of a capture and has nothing to exchange, tensors of
different calls are paired; the staging arena has a ledger against this, registered inputs do not.
`MissesShow` is exactly the other cases.

### CausalConv1d

`Admit` and `Release` give a request a line and take it back, `Schedule` and `Pad` put a batch together
one row after the other, its tokens packed in `x` behind those of the rows before, and `Finish` counts
them when the launch is over: this is what the scheduler (external) may do. `LaunchForward` and
`LaunchUpdate` are the host's entry points with the launch bound (`_check_inputs`) and the choice among
the generic, vector, split (head and body) and batched decode kernels (`CC:1275-1424`); `wide` and
`allowSplit` stand for its conditions on dimensions, strides and dtypes, any choice of which is taken.
In a kernel, `Load` is a block up to its columns, `StoreByLoop` and `StoreHead` the replacement of the
line, entry by entry where the code loops in place, and `Compute`, `Write`, `Decode` the outputs. An
output is the window of inputs it was computed from, so the weights and the sum are left out. Assumed of
the callers: a decode launch has requests that have run before, decode batches are padded with the null
line, a forward batch has no empty row, and the batched decode has one token per row (it does not read
`query_start_loc`). No row of a forward batch is a pad row and every line is inside the cache: the
generic forward kernel skips the others (`CC:195-198`), as the split one does (`CC:703-706`), and what
they would leave is not modelled. `BlockAssumption` holds for the values `CC:1243-1258` can choose, and
is needed: with fewer tokens in a block than entries in a line, the second block would read in front of
the request. `TokensAssumption` says that a row has a token, `NamesAssumption` that the null line is
given to nobody.

### ContigPreprocess

A thread's step is what it does between two `T.sync_threads()`: it touches cells no other thread
touches between them, or uses atomic additions, so the steps may be taken in any order. `Synced` is the
barrier. The kernels follow one another in stream order (`KernelsOf`); clearing and filling are one step
each. Blocks have 2 threads instead of 256 and the thresholds between the kernels are scaled. The bf16
kernels are mapped; the FP8 ones differ by quantisation, which is left out. Ids of slots that are not
for a local expert are negative, and only occur where rows are padded (`blockM > 1`). Not initialised
memory is `Junk`, and `TypeOK` says it is never computed with.

### Sampling

A logit is an integer weight, the noise a function of the stream's kind, seed, position and row, and a
draw takes the best product: sharding, prefiltering and the specialised samplers can then be compared
with what one sampler over the whole vocabulary would take. The weight of a set of tokens (`Mass`, what
top-p adds up) is counted in units, as a cardinality. `ComputeLogits` decides whether a rank
keeps its shard of the logits (patch 0102), under the batch's conditions and that of `TK:643-650`, that
the shards make up the vocabulary (`ShardedBatch`); `SampleShard` and `ReducePairs` draw from shards and pick
the winner of the gathered pairs; the other actions are the samplers of the legacy runner and of the V2
worker with the code's conditions, each advancing the streams it draws from. `TokensRight` compares the
ranks with one another and the token with every token of the vocabulary. Upstream's samplers and the
native ones apply top-k, top-p and min-p in different orders; the property admits a token some reading
keeps (`Loosest`) and demands it beats every token all readings keep (`Strictest`). `OwnNoise` keeps the
history of what was drawn with what.

On the V2 worker a prompt may come in two pieces: the row of the first is drawn like any other and its
token dropped. A seeded request's generator advances for it too, so with the seeded sampler its tokens
depend on how its prompt was cut; the repository promises nothing else, and no noise is used twice.

Assumed: one `torch.multinomial` draw advances a generator by 4 (external); the process's own seed is no
user's, and no random seed of the V2 worker is (`WorkloadAssumption`); parameters are as upstream's
checks leave them (`FilterAssumption`: top-k from 1 to the vocabulary, top-p positive); `logprobs_mode`
is raw; no speculative tokens, grammar masks or preemption; the seed and offset of the generators can be
read, fit and be set, so that the sharded sampler never declines a batch it has taken (`TK:664-692`; the
code would then fall back to the original forward, `TK:1113-1128`, on a shard of the logits); no chunked
prefill on the legacy runner, where upstream winds the generators back; the pair gather is available
alike on all ranks, which is `Agreement` of `CommunicatorInit`; ranks end a step together.

### QwenFusedDecode

Extends `Sampling` with the buffer the model reads: `StartStep` is a step's schedule with
`select_qwen_fused_decode_inputs`, or the copy from `last_sampled_tokens` when it declines, and
`FinishStep` the end of a step with `select_qwen_next_input_ids_buffer` and the post-update kernel that
writes sampled tokens to both places. A row is one token, the case in which the selectors' conditions
on counts hold also for a piece of a prompt, and only `is_prefilling` tells them apart. Longer pieces,
draft tokens and pipeline parallelism make the selectors decline at once. Assumed: nothing writes the
buffer between two steps. A dummy run of the worker (upstream, external) would have to keep it.

### PatchSeries

A region is a stretch of source that a patch changes or expects as a whole, and its contents are named
by the patch that wrote them last. A patch reverse-checks when its whole scope is as it leaves it, and
checks forward when its whole scope is as the earlier patches left it: this is how a `git format-patch`
series is made. Matching at another offset, and two patches that write equal text, are left out.
`Interrupt` may fall between the regions that one `git apply` writes; `ApplyFails` is a `git apply` that
fails although its check passed (`build_apply.py:60-61`, which the code reports as a conflict), and
`InstallFails` a step of `_install_vllm` that raises.

A build with `VLLM_MUSA_NO_BUILD_PATCH=1` (`setup.py:491-492`, documented in `patches/README.md:25-26`)
returns before the series and installs what is in the clone (`noBuildPatch`), also a tree that an
interrupted build has left half written. `InstalledIsPatched` is about the other builds, on trees that
builds of both kinds have left. Of the second early return (`setup.py:495-496`), a missing series
directory is the empty series, and a missing clone an install that fails, since its first step goes there.

## 3. Runs

| Run | Module, cfg | Bounds | Shows |
|---|---|---|---|
| `barrier` | `MCMultiRankBarrier` | 2 ranks, flags modulo 4, 6 calls | refinement of `RankBarrier`, no lost or stale flag across a wrap, no hang |
| `collectives` | `MCCustomAllReduce` | 2 ranks, 3 elements (fused: 2 rows of 2), grids 1 and 2, 2 slots, all pairs of launches of 6 kinds, triples of the two-step kernels | no race, no rank two launches ahead, refinement of `Collectives`, completion |
| `pairwise_shared_memory` | `MCPairwiseSharedMemory` | 6 warps in squads of 1, 2 or 4, blocks of one or two rows and of grids of one or two, last iterations with work for one pair or two | matching halves, no signal before all have left the loop, no warp left at a barrier |
| `arena` | `MCGraphStagingArena` | 2 ranks, 4 plans of up to 3 captures, 2 calls per forward, 3 faults (missed calls, inputs of another size, exceptions) | disjoint and agreeing slots, one verdict, no hang |
| `communicator_init` | `CommunicatorInit` | 4 ranks, 2 plans, 2 faults | agreement, usable mappings, no leak, every constructor ends |
| `peer_failure` (violation) | `CommunicatorInit`, `CommunicatorInitPeerFailure.cfg` | 2 ranks, 1 fault | finding 1 |
| `graph_registered_inputs` | `MCGraphRegisteredInputs` | 2 ranks, 2 segments, 2 offsets, 3 plans of 2 and 3 captures, 1 reallocation, 2 faults | rows lead to live tensors, of the same call as far as the counts can tell; no rank waits for ever |
| `causal_conv1d` | `MCCausalConv1d` | 2 requests of 6 tokens and 2 lines, both interchangeable, and the null line, width 4, blocks of 4, pieces of 1, 2, 3, 5 tokens | outputs see the right inputs, lines hold the last ones |
| `contig_preprocess` | `MCContigPreprocess` | 19 calls, up to 6 slots and 4 experts, blocks of 2 threads | rows, labels and tiles are right under any schedule |
| `sampling` | `MCSampling` | 2 ranks, 2 slots, 3 requests, 4 tokens, 3 steps, 7 pools, 5 setups; chunked prompts with 3 and 5 steps | same token on all ranks, the right one, noise used once, right input ids |
| `patch_series` | `MCPatchSeries` | every series of 3 patches over 3 regions, and the empty one, 2 builds with or without reset and switch | without the switch installs only what is patched, fresh builds apply, causes of conflicts |
| `patch_series_rerun` (violation) | `MCPatchSeries`, `MCPatchSeriesRerun.cfg` | 3 patches, two of which share a region | finding 2 |

Why the bounds are enough. Barrier: flags have two slots and wrap at 4, so six calls pass through every
slot and flag and beyond. The protocol is pairwise, and the theorems cover any number of ranks.
Collectives: with three elements on two ranks the partition has a remainder, grid 2 gives two rows and
grid 1 puts everything on one; what a rank may do to a peer depends on the launch before and the one
after, hence pairs, and triples where a kernel has no closing barrier. Arena: two descriptors in the
plan and one outside, repeats, and captures of two sizes; three faults can stop a capture on both ranks
and make one miss a call when it is done again. Communicator: four ranks allow a failure, an opener of
its handles and bystanders. Registered inputs: two captures share a segment, a third follows a piecewise
one, and the row buffer can be full in the middle of a capture, and one has a single call, which a rank
can miss; the exchange treats peers one by one, so two ranks show every pairing. Convolution: the pieces
are shorter than, as long as and longer than the line, and longer than a block, so that there are two
chunks; a line has more than one owner, and batches mix a new request with a running one. No definition
names a request or a line, so permutations of either are symmetries of these invariants. Preprocessing:
the calls take every kernel (single and several blocks, tree, scan and serial prefix, with and without
padding), with balanced and skewed routings, unused experts and slots without a local expert. Sampling:
two slots are the least with companions that change the sampler, three steps let a slot be used again
and a request go through different samplers before and after; four tokens on two ranks give each shard
two, and the weights have ties. Decode inputs: a buffer is written in the second step at the earliest,
so five steps show it used twice, and used after a step of another kind, order or batch. Patches: three
patches allow an overlap, a chain and a bystander; two builds allow every rerun.

Deadlock checking is off where the system stops: at the end of the programs, of the loop, of the
constructor, of the captures or of the last build. That they stop only there is the liveness property
of these runs. It is on for `causal_conv1d`, which never stops, and for
`contig_preprocess` and `sampling`, which stutter when the call or the last step is over and may stop
nowhere else.

Fairness. A thread of a resident block, a stream, and an issued store make progress (weak fairness);
blocks that fit are dispatched. Ranks run their programs. A group collective that cannot complete times
out. A rank goes on with its capture, and learns of a peer that left. A build that was started goes on.
Faults, misses and interruptions are never forced.

## 4. Findings

1. `PeerFailureDisables`. The vote at `PY:1792-1800` is meant to disable the communicator everywhere
   when a rank failed: "MUSA JIT custom all-reduce disabled because a peer rank failed
   initialization." If a rank fails before `all_gather_object` at `PY:396` (the setup at `PY:455-524`, allocation, memset or
   handle export, or compilation of the size query), it enters the vote's `all_reduce` while its peers are in
   the exchange. The calls do not pair up; the peers leave by timeout and the vote, which is outside the
   `try`, raises. A failure after the exchanges is handled as intended: `Agreement`, `NothingLeaks` and
   `UsableMappings` hold in all cases.
2. `Idempotent`. `build_apply.py:5-6` says the series is applied idempotently. A single patch is; the
   series is not, since patches such as 0117 and 0118 change the same lines: on the patched tree the
   earlier one neither reverse-checks nor applies, and a strict run raises. `setup.py` resets the clone
   first (`FreshBuildApplies`), except with `SKIP_THIRD_PARTY=1`.

## 5. Proofs

`MultiRankBarrierProofs`, from `FlagModulusAssumption` and `MaxCallsAssumption` alone: the type
invariant, the safety invariants `AwaitedFlagSurvives` and `NoStaleMatch`, and the refinement of
`RankBarrier`. The safety properties are not inductive: that a flag survives depends on how far both
threads of a pair are, and on what the other slot holds. The inductive invariant relates, per pair, the
number of flags signalled and consumed (never more than one apart), the values of the two counters that
follow from them, and for each flag not yet consumed where it is: in flight or in its slot. It is kept
by each action, with a lemma per action that disturbs it. The arithmetic is in `NextFlagFacts`: an
increment changes the parity, and two of them never give the same flag back.

`PatchSeriesProofs`, from `SeriesAssumption`: `TypeOK`, `InstalledIsPatched`, `FreshBuildApplies`,
`WhyConflict`, for every series and number of builds, with or without the switch. The invariant says
that a region holds the text of a patch that writes it (`Authored`), that a build has passed a patch
only if each of its regions holds it or something later (`Passed`), how far a half-written patch is
(`Written`), and that a fresh build has the tree exactly as far as it has come (`FreshTree`).
`InstalledIsPatched` follows because a region that holds one of its writers, and none earlier than any
writer passed, holds the last; a build with the switch passes no patch and claims nothing.

`CustomAllReduceProofs`, from `ProgramsAssumption` and `ResidencyAssumption`: `TypeOK`,
`AtMostOneLaunchAhead` and `RaceFree`, for any ranks, programs, grids and slots. Neither safety property
is inductive, since both depend on how the barrier calls of a row add up over launches of different kinds,
which may use it or not. The invariant counts them: `Made` is how many calls a block has made in its
current launch, as a function of its step, `Returned` that no rank returned from a call before all made
it, and `InStepWith` that two ranks at the same launch made equally many before it, and ranks a launch
apart differ by the calls of that launch (`TotalOn`). `RaceFree` then needs a case for each pair of a
write and an access: launches that are equal, where the index mappings keep rows apart or a barrier lies
between; or adjacent, where the earlier rank cannot have come past the first barrier of the later launch.

The refinement, `ImplementsCollectives`, is proved in the same module, from a second invariant on the
contents of the buffers (`DataInv`). It says that a rank which launched a kernel has the inputs of that
launch in its part of the staging slot (`Staged`); that a block which has reduced keeps its sums in the
temporary slot until no rank is left in that launch, so also after its own rank has gone on to the next
copy (`SumsKept`); and that every element of an output which the blocks' steps say is written has the
expected value (`OutputRight`). It holds only on top of the counting invariant: a step that reads is
taken when all ranks are in the same launch (`ReadersTogether`), and a launch ends on a rank only after
all have begun it (`CompletesAfterAllBegan`), so no slot is reused while it is needed. The rest is index
arithmetic, in lemmas of their own: the parts of the ranks and the strides of the blocks cover the
output, no two blocks share an element, rows are whole, and a fetched index is where the rank that owns
it put the sum (`GathersCover`, `FetchFacts`, `ShardPlace`, `RowIsRange`). Then the end of a copy is
`Supply`, the end of a launch's last kernel is `Return`, and every other step stutters.

The second part of `MultiRankBarrierProofs` is about the barrier inside a block, from the three
assumptions of `PairwiseSharedMemory` (`LaunchAssumption`, `BlockAssumption`, `SquadAssumption`):
`HalvesMatch` and `ReducedBeforeSignal`, for any warps, rows and columns. The invariant gives the number
of barriers a squad has arrived at from its place in the loop, says that nobody has passed a barrier
somebody has not arrived at, and which iteration's half each slot holds. Since each squad counts for
itself, it also has to say that squads which have done equally many iterations are at the same row and
column, and the others at most one iteration away (`InStep`); only then do a barrier inside the loop and
one behind it never meet.
`SquadAssumption` (in the plain kernel a pair is in one squad) is
needed: it is what the comment at `CU:501-502` says of MP31, see above.

`GraphStagingArenaProofs`, from `ArenaAssumption`: `TypeOK`, `SlotsDisjoint`, `SameVerdict` and
`AcceptedSlotsAgree`, for any ranks, plans, sizes (planned or not), captures and faults. The invariant
orders a ledger's slots up to the cursors, says who has broadcast what at which turn of the vote, that a
broadcast ledger is a prefix of the rank's ledger for ever after, and that a verdict is a function of
the broadcasts (`VerdictsCommon`), which makes it the same for a rank that decides first and one that
decides last.

`CommunicatorInitProofs`, from `FaultsAssumption`: `TypeOK`, `Agreement`, `UsableMappings` and
`NothingLeaks`, for any number of ranks, plans and faults. The invariant says how many collectives a rank
has entered at each step (`CallCount`), that only the last of a rank that voted is a vote (`CallOrder`),
what each vote was worth (`Ballot`), and what the rank holds (`Holdings`). `Agreement` follows because a
vote of all ranks that completes at the fourth call is one for each rank, while a rank that failed early
votes at an earlier place, where it can complete with nobody's handles.

`GraphRegisteredInputsProofs`, from `CaptureAssumption`: `RowsResolve`, for any ranks, captures, segments
and faults. Ranks may be an exchange apart, so what a rank reads of a peer's broadcast is about a state
the peer has left. The invariant numbers exchanges by the captures that registered anything
(`Registrations`), says of each broadcast which slots of the sender it is about (`NextOf`), also of one the
reader is not at yet, and that what was sent stays where it was (`Memory`): the kept tensors pin their
segments. That two ranks pair the same call is then counting: the i-th of n registered calls of the same
capture, with the same n, and one rank that missed none.

`CausalConv1dProofs`, from `BlockAssumption`, `TokensAssumption` and `NamesAssumption`: `TypeOK`,
`OutputsRight` and `StateIsTail`, for any requests, lines, widths from 2 to 5, blocks, pieces, batches and
orders of the blocks. Between two launches `StateIsTail` would do, but a launch replaces lines one row at
a time while other blocks have not begun, so the invariant speaks of its middle. It says how the rows lie
in the packed input (`Packed`) and continue their requests (`RowsMatch`), that no two requests have a line
in common (`OwnLines`), which kernel a launch is at and which may follow (`LaunchShape`): only the head is
followed by another, and only when a second chunk exists. A line holds the inputs up to the launch before
until a block has stored its row, and those of this launch from then on (`LinesRight`); the one block that
reads the line is the one that stores it, and it reads first, so its columns are the inputs in front of its
chunk (`ColumnsRight`), while later chunks take theirs from the input. `OutputsWritten` says that an output
is its window as soon as the block that covers it is done; when all blocks are, the chunks cover the
row because the launch bound covers its length. What the in-place loops, the shift by one and the head's
three cases leave in a line is proved entry by entry to be the tail of the longer sequence
(`LoopStateIsTail`, `HeadStateIsTail`, `DecodeStateIsTail`).

`QwenFusedDecodeProofs`, from `WorkloadAssumption` and `NoneAssumption`: `InputsRight`, and `OwnNoise`
of `Sampling`, for any requests, slots and ranks. The invariant of the inputs ties the buffer to request
ids and not to slots (`Buffered`): a slot may change hands, but an id is never given to a second request
(`OwnIds`). `OwnNoise` speaks of all that was ever drawn, so its invariant (`NoiseInv`) says of every draw
that its stream is past it (`Past`): the process's own streams, or those of its request for as long as the
request is there. A step's draws are then new whichever sampler makes them; all are reduced to one
form (`HasDrawn`), a key per row from one of four streams and the advance of just those streams. Rows
drawn in this step count as drawn before the counts say so (`Drew`), and a request that comes has an id
nothing was drawn for (`History`). On the legacy runner every sampler advances the generator of a seeded
row that is not greedy once (`Offsets`); it is here that the samplers have to agree.

The same module proves `TokensRight`, with `FilterAssumption` too, under one hypothesis (`LogitsAndNoise`):
weights are naturals and not all of a row are 0, and noise is positive. It is a hypothesis and no
assumption because it speaks of all positions and keys, too many for TLC to go through; the values of
`MCSampling` satisfy it. The first part is about the operators. The greatest of a finite function is
unique (`ArgMaxIs`; it exists by the well-founded order of the naturals), so the best of the shards' best
is the best of all (`ShardsReduce`). Every filter keeps a front of the weights' order (`Closed`), and a
front has the order and the mass it had in the whole (`KeepFacts`), so any order of applying top-k, top-p
and min-p comes to an intersection of fronts (`TopKOf`, `TopPOf`, `MinPOf`), all of which have the best
token; they lie between what every reading and what some reading keeps (`OrdersFit`), and a draw from
anything between them is right (`DrawFacts`). The prefilters are the same operation as what they replace
(`FilteredRow`). The second part is the invariant, `TokenInv`: ranks that have both drawn, or both not,
have the same generators, offsets and counters, and a rank that has not is where one that has was
(`InStreams`), the keys a rank will draw with being a function of the batch and of its own streams
(`KeysOf`); and a rank's pairs and tokens are what its keys and the batch say (`Outcome`). Each sampler is
shown to take exactly these keys, to filter to exactly these weights and to advance exactly these streams
(`Sampled`).

Each of these invariants was first checked by TLC on the module's run. What the new assumptions on
constants say is what the code's callers give it: sizes are naturals and aligned as the code aligns
them (`ArenaAssumption`), inputs of the fused kernels are whole rows (`ProgramsAssumption`), warps come in
pairs (`BlockAssumption`), requests have their own ids, and a random seed is no user's (`WorkloadAssumption`).

Only model-checked:

- liveness in every module: temporal reasoning under fairness is out of the prover's reach;
- all of `ContigPreprocess`. What `FlattenSeq` and the folds of it compute for every input is
  induction over data.

## 6. Plan

In this order, with the most important first; the first nine are done.

1. Rank barrier with its refinement and proofs. 2. Collectives over the barriers. 3. Staging arena.
4. Communicator construction. 5. Pair exchange; patch series with proofs. 6. Graph-registered inputs.
7. Causal convolution and grouped-GEMM preprocessing. 8. Sampling and the fused decode inputs.
9. Proofs of the invariants of 2 to 6, of the fused decode inputs, of the noise and of the tokens, of
   the refinement of `Collectives`, and of the invariants of the convolution.
10. `CommunicatorShutdown`: close on one rank while a peer still runs kernels.
11. `WorkerTermination` and `JitBuild`: processes, timeouts, a lock and what happens after it.
12. `PatchRegeneration` (`tools/musa_sync.py`), `ContractResolver`, `MoeDispatchPolicy`: pure functions
    and staged file replacement.

## 7. Not modelled

Arithmetic and rounding, vector widths, the choice of the collective kernel by size and hardware, and
streams other than the one a rank launches on. Of the modelled files: the shutdown of a running
communicator and the host checks of the fused launches (`PY`), FP8 quantisation (`DG`), the Triton
expert kernels with their configurations and the dispatch by shape and environment (`fused_moe.py`,
`dispatch_policy.py`), and in the samplers what the assumptions above leave out.

Not modelled at all: the numeric kernels (norms, rotary embedding, top-k gating, quantisation, GEMV,
sparse attention indexers, DeepSeek V4 and MLA kernels) compute each output from inputs nobody else
writes, and what could be wrong in them is arithmetic, which a model of their control does not show. The
attention backends build metadata by tensor arithmetic and dispatch to external kernels. The compile
passes match patterns over graphs of torch operations. Platform defaults, custom-op wrappers and
environment probes run once at start. These are most of the repository's lines, so the share of the
code the models cover is limited by them. `PROJECT.json` lists every part with its reason.
