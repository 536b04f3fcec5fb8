---------------------------- MODULE CausalConv1d ----------------------------
(* The causal convolution in front of the gated delta-net layers            *)
(* (jit_kernel/tilelang/causal_conv1d.py).  Output p of a request depends on *)
(* its inputs p-Width+1 .. p, but a request arrives in pieces: chunks of its *)
(* prompt, then single tokens.  What connects two pieces is a cache line     *)
(* with the last Width-1 inputs, read and replaced by every launch.  A       *)
(* launch is a grid of blocks, one for every BlockM tokens of a sequence,    *)
(* that run in any order.                                                    *)
(*                                                                          *)
(* The threads of a block have a feature each and share nothing, so one     *)
(* feature is modelled.  The scheduler (which request gets which line, what *)
(* is in a batch) is outside this code: it is modelled by what it may do,   *)
(* one row of a batch after the other.                                      *)
EXTENDS Integers, Sequences

CONSTANTS
    Requests,
    Lines,          \* the cache lines given to requests
    NullLine,       \* NULL_BLOCK_ID: what a padding row of a decode batch names
    Zero,           \* the value in front of a request's first input
    Unwritten,      \* what torch.empty_like leaves in an output
    Width,          \* taps of the convolution
    BlockM,         \* tokens of a block
    ChunkLens,      \* how many tokens of a request a prefill launch may carry
    MaxTokens,      \* bound: tokens of a request
    SplitMinLen,    \* from this length on the prefill may be split (4096)
    ManySequences   \* from this batch on a decode is batched (256)

StateLen == Width - 1

(* Lines 1243-1258 take BlockM from 4, 8, 12 and 28, and 4 only for width 4. *)
ASSUME BlockAssumption == Width \in 2 .. 5 /\ BlockM \in Nat /\ BlockM >= StateLen

(* A row of a batch has at least one token.                                 *)
ASSUME TokensAssumption == ChunkLens \subseteq Nat \ {0} /\ MaxTokens \in Nat

ASSUME NamesAssumption == NullLine \notin Lines /\ Zero \notin Requests

VARIABLES
    computed,       \* computed[r]: tokens of r the layer has seen
    line,           \* line[r]: the line r holds, or NullLine
    conv,           \* conv[l]: the StateLen entries of a line (conv_states)
    batch,          \* the rows of the next or the running launch
    x,              \* their tokens, packed
    queue,          \* the kernels of this launch still to run, in stream order
    maxSeqLen,      \* the host's launch bound, 0 while nothing is launched
    pc,             \* pc[b]: where each block of the running kernel is
    cols,           \* cols[b]: its col registers
    out             \* the output tensor, by packed position

vars == <<computed, line, conv, batch, x, queue, maxSeqLen, pc, cols, out>>
requests == <<computed, line>>

(* query_start_loc: the tokens packed in front of row s.                    *)
SeqStart(s) == batch[s].start

(* The next row of a batch: req's next len tokens; cache_indices and        *)
(* has_initial_state follow from the request.                               *)
Row(r, n) == [req |-> r, start |-> Len(x), len |-> n, past |-> computed[r],
              line |-> line[r], init |-> computed[r] > 0]

(* A padding row, which carries no token of a request.                      *)
PadRow == [req |-> Zero, start |-> Len(x), len |-> 1, past |-> 0,
           line |-> NullLine, init |-> TRUE]

----------------------------------------------------------------------------
(* The launch.                                                              *)

(* mutant: the bound counts the padding *)
BoundWithPadding(total, cpuTotal, longest) ==
    IF cpuTotal # total THEN cpuTotal ELSE longest

(* The lengths the host has may count padding that x does not have; then    *)
(* the bound is every token there is.                                       *)
LaunchBound(total, cpuTotal, longest) ==
    IF cpuTotal # total THEN total ELSE longest

(* The shapes the split is for; the other conditions are allowSplit's.      *)
SplitPrefill(size, bound) == Width = 4 /\ bound >= SplitMinLen /\ size > 1

(* Which kernels a prefill launch runs, one after the other.  wide stands   *)
(* for the conditions on dimensions and strides.                            *)
Kernels(size, bound, wide, allowSplit) ==
    IF Width = 4 /\ wide /\ bound = 1 /\ size >= ManySequences THEN <<"decode">>
    ELSE IF allowSplit /\ SplitPrefill(size, bound)
         THEN IF bound > BlockM THEN <<"head", "body">> ELSE <<"head">>
    ELSE IF Width = 4 /\ wide /\ bound = 1 /\ size = 1 THEN <<"vec">>
    ELSE <<"generic">>

CeilDiv(a, b) == (a + b - 1) \div b

(* The chunks a kernel's grid has for every row.                            *)
Chunks(kernel, bound) ==
    CASE kernel \in {"generic", "vec"} -> 0 .. CeilDiv(bound, BlockM) - 1
      [] kernel = "head" -> {0}
      [] kernel = "body" -> 1 .. CeilDiv(bound - BlockM, BlockM)
      [] kernel = "decode" -> {0}

Launch(kernels, bound) ==
    /\ maxSeqLen = 0
    /\ batch # <<>>
    /\ queue' = kernels
    /\ maxSeqLen' = bound
    /\ out' = [p \in DOMAIN x |-> Unwritten]
    /\ UNCHANGED <<requests, conv, batch, x, pc, cols>>

Lens == {batch[s].len : s \in DOMAIN batch}

(* A prefill or mixed batch: musa_tilelang_causal_conv1d_fn.                *)
LaunchForward ==
    /\ \A s \in DOMAIN batch : batch[s].req # Zero
    /\ \E longest \in Lens, pads \in 0 .. 1, wide, allowSplit \in BOOLEAN :
          LET bound == LaunchBound(Len(x), Len(x) + pads, longest)
          IN /\ \A n \in Lens : n <= longest
             /\ Launch(Kernels(Len(batch), bound, wide, allowSplit), bound)

(* One token of each request, with a state to load.                         *)
IsDecodeBatch == Width = 4 /\ \A s \in DOMAIN batch : batch[s].len = 1 /\ batch[s].init

(* A decode batch: musa_tilelang_causal_conv1d_update.                      *)
LaunchUpdate == IsDecodeBatch /\ Launch(<<"decode">>, 1)

(* The next kernel of the stream starts when the blocks before it are done. *)
Blocks(kernel) == {kernel} \X (DOMAIN batch) \X Chunks(kernel, maxSeqLen)

StartKernel ==
    /\ queue # <<>>
    /\ \A b \in DOMAIN pc : pc[b] = "done"
    /\ pc' = [b \in Blocks(Head(queue)) |-> "load"]
    /\ cols' = [b \in Blocks(Head(queue)) |-> [k \in 1 .. StateLen |-> Zero]]
    /\ queue' = Tail(queue)
    /\ UNCHANGED <<requests, conv, batch, x, maxSeqLen, out>>

RowsOf(r) == {s \in DOMAIN batch : batch[s].req = r}

(* The launch is over; the scheduler counts its tokens.                     *)
Finish ==
    /\ maxSeqLen # 0
    /\ queue = <<>>
    /\ \A b \in DOMAIN pc : pc[b] = "done"
    /\ computed' = [r \in Requests |->
            IF RowsOf(r) = {} THEN computed[r]
            ELSE LET row == batch[CHOOSE s \in RowsOf(r) : TRUE] IN row.past + row.len]
    /\ batch' = <<>>
    /\ x' = <<>>
    /\ pc' = <<>>
    /\ cols' = <<>>
    /\ out' = <<>>
    /\ maxSeqLen' = 0
    /\ UNCHANGED <<line, conv, queue>>

----------------------------------------------------------------------------
(* One block <<kernel, s, c>>: load the columns, replace the state, compute. *)

Offset(c) == c * BlockM

Min2(a, b) == IF a < b THEN a ELSE b

SegmentLen(s, c) == Min2(batch[s].len - Offset(c), BlockM)

(* Past the end of its row a block does nothing.                            *)
HasTokens(s, c) == SegmentLen(s, c) > 0

(* The StateLen inputs in front of chunk c, read from the packed input.     *)
Preceding(s, c) ==
    [k \in 1 .. StateLen |-> x[SeqStart(s) + Offset(c) - StateLen + k]]

ChunkInputs(s, c) ==
    [i \in 1 .. SegmentLen(s, c) |-> x[SeqStart(s) + Offset(c) + i]]

RowInputs(s) == SubSeq(x, SeqStart(s) + 1, SeqStart(s) + batch[s].len)

(* The generic and the width-4 vector kernel replace the state by a loop    *)
(* over its entries, in place and from the oldest on.                       *)
LoopEntry(state, inputs, init, i) ==
    LET n == Len(inputs)
        cut == StateLen - n
    IN IF n >= StateLen THEN inputs[n - StateLen + i]
       ELSE IF init /\ i <= cut THEN state[i + n]
       ELSE IF i > cut THEN inputs[i - cut]
       ELSE Zero

ReplaceEntry(state, inputs, init, i) ==
    IF i > StateLen THEN state
    ELSE [state EXCEPT ![i] = LoopEntry(state, inputs, init, i)]

(* mutant: from the newest on, over entries the shift still needs *)
LoopStateFromNewest(state, inputs, init) ==
    LET Replaced(st, i) == ReplaceEntry(st, inputs, init, i)
    IN Replaced(Replaced(Replaced(Replaced(state, 4), 3), 2), 1)

(* No width has more than four entries.                                     *)
LoopState(state, inputs, init) ==
    LET Replaced(st, i) == ReplaceEntry(st, inputs, init, i)
    IN Replaced(Replaced(Replaced(Replaced(state, 1), 2), 3), 4)

(* The split's head kernel, written out for three entries.                  *)
HeadState(state, inputs, init) ==
    LET n == Len(inputs)
    IN CASE n >= 3 -> SubSeq(inputs, n - 2, n)
         [] n = 2 -> <<IF init THEN state[3] ELSE Zero, inputs[1], inputs[2]>>
         [] n = 1 -> IF init THEN <<state[2], state[3], inputs[1]>>
                     ELSE <<Zero, Zero, inputs[1]>>

(* The decode kernel shifts by one.                                         *)
DecodeState(state, input, init) ==
    IF init THEN <<state[2], state[3], input>> ELSE <<Zero, Zero, input>>

StoredColumns(s) ==
    IF batch[s].init THEN conv[batch[s].line] ELSE [k \in 1 .. StateLen |-> Zero]

(* Chunk 0 takes its columns from the cache line, the others from x.        *)
Columns(s, c) == IF c = 0 THEN StoredColumns(s) ELSE Preceding(s, c)

(* mutant: the chunk with the row's last tokens replaces the state *)
LastChunkStores(s, c) == Offset(c) + SegmentLen(s, c) = batch[s].len

(* Only chunk 0 replaces the state, after it has loaded it.                 *)
StoresState(s, c) == c = 0

(* The outputs of a chunk: windows sliding over columns and inputs.         *)
Windows(columns, inputs) ==
    [i \in DOMAIN inputs |-> SubSeq(columns \o inputs, i, i + StateLen)]

Write(from, windows) ==
    out' = [p \in DOMAIN out |->
              IF p - from \in DOMAIN windows THEN windows[p - from] ELSE out[p]]

Load(b) ==
    LET s == b[2] c == b[3]
    IN /\ b[1] # "decode"
       /\ pc[b] = "load"
       /\ IF HasTokens(s, c)
          THEN /\ cols' = [cols EXCEPT ![b] = Columns(s, c)]
               /\ pc' = [pc EXCEPT ![b] = IF b[1] # "body" /\ StoresState(s, c)
                                         THEN "store" ELSE "compute"]
          ELSE /\ pc' = [pc EXCEPT ![b] = "done"]
               /\ UNCHANGED cols
       /\ UNCHANGED <<requests, conv, batch, x, queue, maxSeqLen, out>>

Store(b, State(_, _, _)) ==
    LET row == batch[b[2]]
    IN /\ pc[b] = "store"
       /\ conv' = [conv EXCEPT ![row.line] = State(@, RowInputs(b[2]), row.init)]
       /\ pc' = [pc EXCEPT ![b] = "compute"]
       /\ UNCHANGED <<requests, batch, x, queue, maxSeqLen, cols, out>>

StoreByLoop(b) == b[1] \in {"generic", "vec"} /\ Store(b, LoopState)

StoreHead(b) == b[1] = "head" /\ Store(b, HeadState)

Compute(b) ==
    LET s == b[2] c == b[3]
    IN /\ pc[b] = "compute"
       /\ Write(SeqStart(s) + Offset(c), Windows(cols[b], ChunkInputs(s, c)))
       /\ pc' = [pc EXCEPT ![b] = "done"]
       /\ UNCHANGED <<requests, conv, batch, x, queue, maxSeqLen, cols>>

IsNull(s) == batch[s].line = NullLine

(* A decode block: row s has one token, at packed position s.  A padding    *)
(* row gets its input back and leaves the null line alone.                  *)
Decode(b) ==
    LET s == b[2] l == batch[s].line
    IN /\ b[1] = "decode"
       /\ pc[b] = "load"
       /\ IF IsNull(s)
          THEN /\ out' = [out EXCEPT ![s] = <<x[s]>>]
               /\ UNCHANGED conv
          ELSE /\ out' = [out EXCEPT ![s] = Append(StoredColumns(s), x[s])]
               /\ conv' = [conv EXCEPT ![l] = DecodeState(@, x[s], batch[s].init)]
       /\ pc' = [pc EXCEPT ![b] = "done"]
       /\ UNCHANGED <<requests, batch, x, queue, maxSeqLen, cols>>

----------------------------------------------------------------------------
(* The scheduler: a request takes any free line, and gives it back as it is; *)
(* a batch is put together between launches, and a decode batch is padded   *)
(* to the size of a graph.                                                  *)

Pack(row) ==
    /\ maxSeqLen = 0
    /\ batch' = Append(batch, row)
    /\ x' = x \o [i \in 1 .. row.len |-> <<row.req, row.past + i>>]
    /\ UNCHANGED <<requests, conv, queue, maxSeqLen, pc, cols, out>>

Schedule(r) ==
    /\ line[r] # NullLine
    /\ RowsOf(r) = {} /\ RowsOf(Zero) = {}
    /\ \E n \in ChunkLens : computed[r] + n <= MaxTokens /\ Pack(Row(r, n))

(* bound: one padding row *)
Pad ==
    /\ batch # <<>> /\ IsDecodeBatch /\ RowsOf(Zero) = {}
    /\ Pack(PadRow)

Admit(r) ==
    /\ batch = <<>>
    /\ line[r] = NullLine
    /\ \E l \in Lines \ {line[q] : q \in Requests} :
          line' = [line EXCEPT ![r] = l]
    /\ computed' = [computed EXCEPT ![r] = 0]
    /\ UNCHANGED <<conv, batch, x, queue, maxSeqLen, pc, cols, out>>

Release(r) ==
    /\ batch = <<>>
    /\ computed[r] > 0
    /\ line[r] # NullLine
    /\ line' = [line EXCEPT ![r] = NullLine]
    /\ computed' = [computed EXCEPT ![r] = 0]
    /\ UNCHANGED <<conv, batch, x, queue, maxSeqLen, pc, cols, out>>

Init ==
    /\ computed = [r \in Requests |-> 0]
    /\ line = [r \in Requests |-> NullLine]
    /\ conv = [l \in Lines \cup {NullLine} |-> [k \in 1 .. StateLen |-> Zero]]
    /\ batch = <<>>
    /\ x = <<>>
    /\ queue = <<>>
    /\ maxSeqLen = 0
    /\ pc = <<>>
    /\ cols = <<>>
    /\ out = <<>>

Next ==
    \/ \E r \in Requests : Admit(r) \/ Release(r) \/ Schedule(r)
    \/ Pad \/ LaunchForward \/ LaunchUpdate \/ StartKernel \/ Finish
    \/ \E b \in DOMAIN pc : Load(b) \/ StoreByLoop(b) \/ StoreHead(b)
                             \/ Compute(b) \/ Decode(b)

Spec == Init /\ [][Next]_vars

----------------------------------------------------------------------------
Tokens == Requests \X (1 .. MaxTokens)

Cell == Tokens \cup {Zero}

(* The variables keep their types: a line always holds StateLen inputs or   *)
(* zeros, and a launch is never asked for more than its tokens.             *)
TypeOK ==
    /\ computed \in [Requests -> 0 .. MaxTokens]
    /\ line \in [Requests -> Lines \cup {NullLine}]
    /\ \A l \in Lines \cup {NullLine} :
          /\ DOMAIN conv[l] = 1 .. StateLen
          /\ \A k \in 1 .. StateLen : conv[l][k] \in Cell
    /\ \A s \in DOMAIN batch : batch[s].req \in Requests \cup {Zero}
    /\ maxSeqLen \in 0 .. Len(out)
    /\ \A b \in DOMAIN pc : pc[b] \in {"load", "store", "compute", "done"}
    /\ DOMAIN cols = DOMAIN pc
    /\ maxSeqLen = 0 => pc = <<>> /\ queue = <<>>

(* The inputs output p of request r must see.                               *)
Window(r, p) ==
    [k \in 1 .. Width |-> IF p - Width + k >= 1 THEN <<r, p - Width + k>> ELSE Zero]

(* The last StateLen inputs of a request after n of them.                   *)
TailOf(r, n) ==
    [k \in 1 .. StateLen |-> IF n - StateLen + k >= 1 THEN <<r, n - StateLen + k>> ELSE Zero]

LaunchIsOver == maxSeqLen # 0 /\ queue = <<>> /\ \A b \in DOMAIN pc : pc[b] = "done"

(* Whatever the pieces a request arrives in, the kernels they select and    *)
(* the order of the blocks, an output sees exactly the inputs in front of   *)
(* it in its own request, none of another row or of the line's last owner;  *)
(* and when the launch is over every token has its output.                  *)
OutputsRight ==
    maxSeqLen # 0 => \A s \in DOMAIN batch : batch[s].req \in Requests =>
        \A i \in 1 .. batch[s].len :
            LET o == out[SeqStart(s) + i]
            IN o = Window(batch[s].req, batch[s].past + i)
               \/ (o = Unwritten /\ ~ LaunchIsOver)

(* Between launches the line of a request holds its last inputs, however    *)
(* short the pieces were, and the null line that all padding shares is as   *)
(* it was.                                                                  *)
StateIsTail ==
    maxSeqLen = 0 =>
        /\ \A r \in Requests : computed[r] > 0 => conv[line[r]] = TailOf(r, computed[r])
        /\ conv[NullLine] = [k \in 1 .. StateLen |-> Zero]
=============================================================================
