--------------------------- MODULE ContigPreprocess ---------------------------
(* The preprocessing of a grouped-GEMM mixture-of-experts prefill           *)
(* (jit_kernel/tilelang/deep_gemm_contig_preprocess.py, called from         *)
(* model_executor/layers/fused_moe/fused_moe.py).  Every (token, expert)    *)
(* pair, a slot, gets a row of one long matrix; the rows of an expert are    *)
(* contiguous and start at a multiple of block_m, and m_indices names the   *)
(* expert of every row.  After the two GEMMs the output of a slot is looked *)
(* up in its row again, through src2dst.                                    *)
(*                                                                          *)
(* The kernels synchronise their threads by hand (the compiler's own        *)
(* synchronisation is off, TL_DISABLE_THREAD_STORAGE_SYNC).  A step of the  *)
(* model is what one thread does between two T.sync_threads(), which        *)
(* touches cells no other thread does between them or uses atomic adds;     *)
(* and a thread may pass a T.sync_threads() when its whole block has come   *)
(* to it.                                                                   *)
EXTENDS Integers, Sequences, SequencesExt, FiniteSetsExt

CONSTANTS
    Calls,          \* the calls: [tokens, topk, experts, blockM, ids]
    BlockThreads,   \* threads of a counting or prefix block (256)
    SlotsPerBlock,  \* slots a counting block looks at (1024)
    TreeTokens,     \* below this many tokens the prefix sum is a tree (512)
    TreeExperts,    \* up to this many experts it is not serial (1024)
    MinTokens,      \* from here on the prefill path is taken (1024 or 2500)
    MaxTopK,        \* the largest top-k the kernels take (16)
    Junk            \* what an int32 nobody has written holds

VARIABLES
    call,
    queue,      \* the kernels still to launch, the running one in front
    pc,         \* pc[t]: phases thread t = <<block, tid>> has finished
    counts, cursor, mIndices, src2dst,
    local,      \* local[b]: local_counts in block b's shared memory
    prefix,     \* the shared prefix array of the one-block kernels
    addend,     \* addend[tid]: the value a thread has read for the next step
    dstShared,  \* dstShared[b]: the rows of block b's slots
    rows        \* rows[d][tid]: the token whose part tid is in row d

vars == <<call, queue, pc, counts, cursor, mIndices, src2dst, local, prefix,
          addend, dstShared, rows>>

CeilDiv(a, b) == (a + b - 1) \div b

NumSlots(c) == c.tokens * c.topk

(* The calls the gates let through.                                         *)
Accepts(c) == c.tokens >= MinTokens /\ c.topk <= MaxTopK /\ c.experts > 0

(* Rows of the matrix: room for any way the slots may fall on experts.      *)
AllTokens(c) == CeilDiv(NumSlots(c) + c.experts * (c.blockM - 1), c.blockM) * c.blockM

Slots == 0 .. NumSlots(call) - 1
Experts == 0 .. call.experts - 1
MRows == 0 .. AllTokens(call) - 1

IsLocal(id) == id >= 0 /\ id < call.experts

(* 1 << (max_experts - 1).bit_length(): the least power of two that fits.   *)
ScanSize(c) == CHOOSE n \in {2 ^ k : k \in 0 .. c.experts} :
                  n >= c.experts /\ (n = 1 \/ n \div 2 < c.experts)

----------------------------------------------------------------------------
(* The kernels of a call, and the phases of a kernel.                       *)

SingleBlock(c) == NumSlots(c) <= SlotsPerBlock

PrefixKernel(c) ==
    IF c.experts > TreeExperts THEN "serial"
    ELSE IF c.tokens < TreeTokens THEN "tree" ELSE "scan"

KernelsOf(c) ==
    (IF SingleBlock(c) THEN <<>> ELSE <<"clear", "hist">>)
    \o (IF c.blockM = 1
        THEN (IF SingleBlock(c) THEN <<"single">> ELSE <<>>) \o <<"nopad">>
        ELSE <<"fill", IF SingleBlock(c) THEN "countprefix" ELSE PrefixKernel(c)>>)
    \o <<"compact">>

Steps(c) == {2 ^ k : k \in 0 .. c.experts} \cap 1 .. ScanSize(c) - 1

TreePhases(c) ==
    FlattenSeq([k \in 1 .. Max(Steps(c) \cup {0}) |->
        IF k \in Steps(c) THEN <<<<"read", k>>, <<"write", k>>>> ELSE <<>>])

PhasesOf(kernel, c) ==
    CASE kernel = "hist" -> <<<<"zero">>, <<"tally">>, <<"merge">>>>
      [] kernel = "single" -> <<<<"zero">>, <<"tally">>, <<"publish">>>>
      [] kernel = "countprefix" -> <<<<"zero">>, <<"tally">>, <<"counted">>>>
                                    \o TreePhases(c) \o <<<<"place">>>>
      [] kernel = "tree" -> <<<<"round">>>> \o TreePhases(c) \o <<<<"place">>>>
      [] kernel = "scan" -> <<<<"round">>, <<"cumsum">>, <<"place">>>>
      [] kernel = "serial" -> <<<<"sum">>, <<"pad">>>>
      [] kernel = "nopad" -> <<<<"sum">>>>
      [] kernel = "compact" -> <<<<"assign">>, <<"copy">>>>
      [] OTHER -> <<<<"store">>>>

ThreadsOf(kernel, c) ==
    CASE kernel = "hist" -> (0 .. CeilDiv(NumSlots(c), SlotsPerBlock) - 1)
                              \X (0 .. BlockThreads - 1)
      [] kernel \in {"countprefix", "tree", "scan"} ->
            {0} \X (0 .. Max({BlockThreads, ScanSize(c)}) - 1)
      [] kernel \in {"single", "serial"} -> {0} \X (0 .. BlockThreads - 1)
      [] kernel = "compact" -> (0 .. c.tokens - 1) \X (0 .. c.topk - 1)
      [] OTHER -> {<<0, 0>>}

Kernel == Head(queue)
Phase(t) == PhasesOf(Kernel, call)[pc[t] + 1]
Threads == Max({BlockThreads, ScanSize(call)})

Started(t, name) ==
    /\ queue # <<>>
    /\ t \in DOMAIN pc
    /\ pc[t] < Len(PhasesOf(Kernel, call))
    /\ Phase(t)[1] = name

(* mutant: no synchronisation in front of a phase of this name *)
SyncedBut(t, name) ==
    Phase(t)[1] = name \/ \A u \in DOMAIN pc : u[1] = t[1] => pc[u] >= pc[t]

(* mutants: the tally and the tree's write start without waiting *)
SyncedButTally(t) == SyncedBut(t, "tally")
SyncedButWrite(t) == SyncedBut(t, "write")

(* T.sync_threads() in front of every phase: the whole block has finished   *)
(* the one before.                                                          *)
Synced(t) == \A u \in DOMAIN pc : u[1] = t[1] => pc[u] >= pc[t]

At(t, name) == Started(t, name) /\ Synced(t)

Advance(t) == pc' = [pc EXCEPT ![t] = @ + 1] /\ UNCHANGED <<call, queue>>

(* The indices a thread's loop visits: T.serial over i * width + tid.       *)
Strided(t, width, n) == {i \in 0 .. n - 1 : i % width = t[2]}

tables == <<counts, cursor, mIndices, src2dst>>
shared == <<local, prefix, addend, dstShared>>

----------------------------------------------------------------------------
(* Counting.                                                                *)

KernelThreads == IF Kernel = "countprefix" THEN Threads ELSE BlockThreads

Zero(t) ==
    /\ At(t, "zero")
    /\ local' = [local EXCEPT ![t[1]] =
            [e \in Experts |-> IF e \in Strided(t, KernelThreads, call.experts) THEN 0 ELSE @[e]]]
    /\ Advance(t)
    /\ UNCHANGED <<tables, prefix, addend, dstShared, rows>>

(* The slots of block t[1] that thread t[2] looks at.                       *)
SlotsOf(t) ==
    {t[1] * SlotsPerBlock + i : i \in Strided(t, KernelThreads, SlotsPerBlock)} \cap Slots

Tally(t) ==
    /\ At(t, "tally")
    /\ local' = [local EXCEPT ![t[1]] =
            [e \in Experts |-> @[e] + Cardinality({s \in SlotsOf(t) : call.ids[s] = e})]]
    /\ Advance(t)
    /\ UNCHANGED <<tables, prefix, addend, dstShared, rows>>

(* Several blocks add what they counted, a single one stores it.            *)
Merge(t) ==
    /\ At(t, "merge")
    /\ counts' = [e \in Experts |->
            IF e \in Strided(t, BlockThreads, call.experts)
            THEN counts[e] + local[t[1]][e] ELSE counts[e]]
    /\ Advance(t)
    /\ UNCHANGED <<cursor, mIndices, src2dst, shared, rows>>

Publish(t) ==
    /\ At(t, "publish")
    /\ counts' = [e \in Experts |->
            IF e \in Strided(t, BlockThreads, call.experts) THEN local[0][e] ELSE counts[e]]
    /\ Advance(t)
    /\ UNCHANGED <<cursor, mIndices, src2dst, shared, rows>>

----------------------------------------------------------------------------
(* The prefix sum over the counts, rounded up to block_m.                   *)

Aligned(n) == CeilDiv(n, call.blockM) * call.blockM

Round(t, count) ==
    prefix' = [i \in DOMAIN prefix |->
        IF i # t[2] THEN prefix[i]
        ELSE IF i \in Experts THEN Aligned(count[i]) ELSE 0]

RoundCounts(t) ==
    /\ At(t, "round")
    /\ Round(t, counts)
    /\ Advance(t)
    /\ UNCHANGED <<tables, local, addend, dstShared, rows>>

(* The fused kernel also publishes the count it has just made.              *)
RoundCounted(t) ==
    /\ At(t, "counted")
    /\ Round(t, local[0])
    /\ counts' = IF t[2] \in Experts THEN [counts EXCEPT ![t[2]] = local[0][t[2]]] ELSE counts
    /\ Advance(t)
    /\ UNCHANGED <<cursor, mIndices, src2dst, local, addend, dstShared, rows>>

(* One step of the tree: read the value step cells below, then add it.      *)
ReadBelow(t) ==
    /\ At(t, "read")
    /\ LET step == Phase(t)[2]
       IN addend' = [addend EXCEPT ![t[2]] =
            IF t[2] \in DOMAIN prefix /\ t[2] >= step THEN prefix[t[2] - step] ELSE 0]
    /\ Advance(t)
    /\ UNCHANGED <<tables, local, prefix, dstShared, rows>>

AddBelow(t) ==
    /\ At(t, "write")
    /\ prefix' = IF t[2] \in DOMAIN prefix
                 THEN [prefix EXCEPT ![t[2]] = @ + addend[t[2]]] ELSE prefix
    /\ Advance(t)
    /\ UNCHANGED <<tables, local, addend, dstShared, rows>>

(* T.cumsum: the threads of the block together; the last one completes it.  *)
CumSum(t) ==
    /\ At(t, "cumsum")
    /\ prefix' = IF \A u \in DOMAIN pc : u = t \/ pc[u] > pc[t]
                 THEN [i \in DOMAIN prefix |->
                        FoldSet(LAMBDA j, acc : prefix[j] + acc, 0, 0 .. i)]
                 ELSE prefix
    /\ Advance(t)
    /\ UNCHANGED <<tables, local, addend, dstShared, rows>>

(* mutant: the last padding row keeps what fill wrote *)
PadRowsShort(start, n) == start + n .. start + Aligned(n) - 2

(* The rows behind an expert's slots, up to its aligned end.                *)
PadRows(start, n) == start + n .. start + Aligned(n) - 1

Labelled(ds, e) == [d \in MRows |-> IF d \in ds THEN e ELSE mIndices[d]]

(* Thread e starts the rows of expert e, and labels their padding.          *)
Place(t) ==
    /\ At(t, "place")
    /\ LET e == t[2]
           n == IF Kernel = "countprefix" THEN local[0][e] ELSE counts[e]
           start == prefix[e] - Aligned(n)
       IN IF e \in Experts
          THEN /\ cursor' = [cursor EXCEPT ![e] = start]
               /\ mIndices' = Labelled(PadRows(start, n), e)
          ELSE UNCHANGED <<cursor, mIndices>>
    /\ Advance(t)
    /\ UNCHANGED <<counts, src2dst, shared, rows>>

(* The serial kernels: thread 0 does the sum alone.  With block_m = 1 there *)
(* is nothing to round and nothing to pad.                                  *)
SumSerially(t) ==
    /\ At(t, "sum")
    /\ cursor' = IF t[2] = 0
                 THEN [e \in Experts |->
                    FoldSet(LAMBDA f, acc : Aligned(counts[f]) + acc, 0, 0 .. e - 1)]
                 ELSE cursor
    /\ Advance(t)
    /\ UNCHANGED <<counts, mIndices, src2dst, shared, rows>>

PadSerially(t) ==
    /\ At(t, "pad")
    /\ mIndices' = FoldSet(
            LAMBDA e, m : [d \in MRows |->
                IF d \in PadRows(cursor[e], counts[e]) THEN e ELSE m[d]],
            mIndices, Strided(t, BlockThreads, call.experts))
    /\ Advance(t)
    /\ UNCHANGED <<counts, cursor, src2dst, shared, rows>>

----------------------------------------------------------------------------
(* clear_i32 and fill_i32: every cell once, between two kernels.            *)
StoreAll(t) ==
    /\ At(t, "store")
    /\ IF Kernel = "clear"
       THEN counts' = [e \in Experts |-> 0] /\ UNCHANGED mIndices
       ELSE mIndices' = [d \in MRows |-> call.experts - 1] /\ UNCHANGED counts
    /\ Advance(t)
    /\ UNCHANGED <<cursor, src2dst, shared, rows>>

(* A block per token: thread k takes the next row of its slot's expert ...  *)
Assign(t) ==
    /\ At(t, "assign")
    /\ LET s == t[1] * call.topk + t[2]
           e == call.ids[s]
           d == IF IsLocal(e) THEN cursor[e] ELSE -1
           kept == d \in MRows
       IN /\ cursor' = IF IsLocal(e) THEN [cursor EXCEPT ![e] = @ + 1] ELSE cursor
          /\ src2dst' = [src2dst EXCEPT ![s] = IF kept THEN d ELSE -1]
          /\ dstShared' = [dstShared EXCEPT ![t[1]][t[2]] = IF kept THEN d ELSE -1]
          /\ mIndices' = IF kept THEN [mIndices EXCEPT ![d] = e] ELSE mIndices
    /\ Advance(t)
    /\ UNCHANGED <<counts, local, prefix, addend, rows>>

(* ... and every thread copies its part of the token to all of its rows.    *)
Copy(t) ==
    /\ At(t, "copy")
    /\ LET ds == {dstShared[t[1]][k] : k \in 0 .. call.topk - 1}
       IN rows' = [d \in MRows |->
            IF d \in ds THEN [rows[d] EXCEPT ![t[2]] = t[1]] ELSE rows[d]]
    /\ Advance(t)
    /\ UNCHANGED <<tables, shared>>

(* Kernels run in stream order; a new one finds its shared memory unwritten. *)
NextKernel ==
    /\ queue # <<>>
    /\ \A t \in DOMAIN pc : pc[t] = Len(PhasesOf(Kernel, call))
    /\ queue' = Tail(queue)
    /\ pc' = IF Tail(queue) = <<>> THEN <<>>
             ELSE [t \in ThreadsOf(Head(Tail(queue)), call) |-> 0]
    /\ local' = [b \in DOMAIN local |-> [e \in Experts |-> Junk]]
    /\ prefix' = [i \in DOMAIN prefix |-> Junk]
    /\ addend' = [i \in DOMAIN addend |-> Junk]
    /\ UNCHANGED <<call, tables, dstShared, rows>>

(* The row buffers come from torch.empty.                                   *)
Init ==
    /\ call \in {c \in Calls : Accepts(c)}
    /\ queue = KernelsOf(call)
    /\ pc = [t \in ThreadsOf(Head(queue), call) |-> 0]
    /\ counts = [e \in Experts |-> Junk]
    /\ cursor = [e \in Experts |-> Junk]
    /\ mIndices = [d \in MRows |-> Junk]
    /\ src2dst = [s \in Slots |-> Junk]
    /\ local = [b \in 0 .. CeilDiv(NumSlots(call), SlotsPerBlock) - 1 |->
                    [e \in Experts |-> Junk]]
    /\ prefix = [i \in 0 .. ScanSize(call) - 1 |-> Junk]
    /\ addend = [i \in 0 .. Threads - 1 |-> Junk]
    /\ dstShared = [b \in 0 .. call.tokens - 1 |-> [k \in 0 .. call.topk - 1 |-> Junk]]
    /\ rows = [d \in MRows |-> [k \in 0 .. call.topk - 1 |-> Junk]]

(* The GEMMs and the combination run on finished tables.                    *)
Ready == queue = <<>> /\ UNCHANGED vars

ThreadStep(t) ==
    \/ Zero(t) \/ Tally(t) \/ Merge(t) \/ Publish(t)
    \/ RoundCounts(t) \/ RoundCounted(t) \/ ReadBelow(t) \/ AddBelow(t) \/ CumSum(t)
    \/ Place(t) \/ SumSerially(t) \/ PadSerially(t)
    \/ StoreAll(t) \/ Assign(t) \/ Copy(t)

Next == (\E t \in DOMAIN pc : ThreadStep(t)) \/ NextKernel \/ Ready

Spec == Init /\ [][Next]_vars

----------------------------------------------------------------------------
(* No thread computes with a cell nobody has written: every count is one of *)
(* slots, every row a row of the matrix, or the cell is still untouched.    *)
TypeOK ==
    /\ \A e \in Experts : counts[e] \in {Junk} \cup (0 .. NumSlots(call))
    /\ \A b \in DOMAIN local : \A e \in Experts :
            local[b][e] \in {Junk} \cup (0 .. NumSlots(call))
    /\ \A e \in Experts : cursor[e] \in {Junk} \cup (0 .. AllTokens(call))
    /\ \A i \in DOMAIN prefix : prefix[i] \in {Junk} \cup (0 .. AllTokens(call))
    /\ \A d \in MRows : mIndices[d] \in {Junk} \cup Experts
    /\ \A s \in Slots : src2dst[s] \in {Junk, -1} \cup MRows

(* What post_reorder_triton_kernel relies on: the row a slot's output is    *)
(* read from was computed by the slot's expert, from all of the slot's      *)
(* token, and is no other slot's; a slot without a local expert has none.   *)
RowsRight ==
    queue = <<>> =>
        /\ \A s \in Slots :
              LET d == src2dst[s]
              IN IF IsLocal(call.ids[s])
                 THEN /\ d \in MRows
                      /\ mIndices[d] = call.ids[s]
                      /\ \A k \in 0 .. call.topk - 1 : rows[d][k] = s \div call.topk
                 ELSE d = -1
        /\ \A s, u \in Slots : s # u /\ src2dst[s] = src2dst[u] => src2dst[s] = -1

(* What the grouped GEMM relies on (it multiplies block_m rows with one     *)
(* expert's weights): all rows of an aligned tile, padding included, name   *)
(* the same expert.                                                         *)
TilesUniform ==
    queue = <<>> =>
        \A d \in MRows : /\ mIndices[d] \in Experts
                         /\ mIndices[d] = mIndices[d - (d % call.blockM)]
=============================================================================
