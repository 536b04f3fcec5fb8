--------------------------- MODULE CustomAllReduce --------------------------
(* The launches of the MUSA custom collectives on one stream per rank:      *)
(* staging copy, then the kernels of custom_all_reduce.mu, block by block,  *)
(* over the IPC-shared staging buffer and the temporary buffer behind each  *)
(* rank's signals.                                                          *)
(*                                                                          *)
(* Only the barriers order the ranks.  The two-step kernels have none after *)
(* their gather, so a rank may be a launch ahead of a peer that still reads *)
(* its temporary buffer; the barriers are per block row, so they protect a  *)
(* location only if the block that reads it is the block that wrote it.     *)
(* The threads of a block are one actor and a packed element is one index.  *)
EXTENDS Integers, Sequences, FiniteSets, FiniteSetsExt

CONSTANTS
    NRanks,         \* the size of the communicator
    Slots,          \* signal and staging regions (eager, or one per captured call)
    Programs,       \* the launch sequences the ranks may run
    MaxGrid,        \* bound: the largest grid of a launch
    MaxSize,        \* bound: the largest input, in packed elements
    RowSize,        \* packed elements in a row of the fused kernels' input
    Residency       \* blocks of a grid that can be resident on a device

Ranks == 0 .. NRanks - 1
Blocks == 0 .. MaxGrid - 1
FusedKinds == {"fused_one_stage", "fused_two_shot"}
Kinds == {"one_stage", "two_stage", "two_shot", "all_gather"} \union FusedKinds
Launch == [kind : Kinds, grid : 1 .. MaxGrid, slot : Slots, size : 1 .. MaxSize]

ASSUME ProgramsAssumption ==
    /\ {MaxGrid, MaxSize, RowSize} \subseteq Nat \ {0}
    /\ Programs \subseteq Seq(Launch)
    /\ \A p \in Programs : \A k \in 1 .. Len(p) :
          p[k].kind \in FusedKinds => p[k].size % RowSize = 0

(* The block limits of the launches are small enough for the whole grid to  *)
(* be resident: a block that waits in a barrier keeps its multiprocessor.   *)
ASSUME ResidencyAssumption == NRanks \in Nat \ {0, 1} /\ Residency >= MaxGrid

VARIABLES
    program,    \* the launches, the same on every rank
    position,   \* position[r]: the launch rank r's stream is at
    stage,      \* stage[r]: "idle", "copy" (staging copy), or "kernel"
    kernel,     \* kernel[r]: which kernel of the launch runs
    block,      \* block[r][b]: the step block b is in; 0 before its dispatch
    arrived,    \* arrived[s][b][r]: barrier calls entered on row b of slot s
    left,       \* left[s][b][r]: barrier calls returned from
    staging,    \* staging[s][r]: the launch whose input the buffer holds
    tmp,        \* tmp[s][r][i]: contributions summed into the element
    out,        \* out[r]: the output tensor of the current launch
    results     \* results[r]: the outputs of the completed launches

vars == <<program, position, stage, kernel, block, arrived, left,
          staging, tmp, out, results>>

-----------------------------------------------------------------------------
(* The kernels of a launch: their grids and what each block does in order.  *)

Kernel(grid, steps) == [grid |-> grid, steps |-> steps]

(* mutant: no end barrier *)
OneStageNoEnd(l) == << Kernel(l.grid, <<"barrier", "reduce">>) >>

OneStage(l) == << Kernel(l.grid, <<"barrier", "reduce", "barrier">>) >>

TwoStep(l) == << Kernel(l.grid, <<"barrier", "reduce", "barrier", "gather">>) >>

(* The copy grid is a multiple of the regions when it covers them all.      *)
AllGatherGrid(l) ==
    IF l.grid >= NRanks THEN (l.grid \div NRanks) * NRanks ELSE l.grid

AllGather(l) ==
    << Kernel(1, <<"barrier">>),
       Kernel(AllGatherGrid(l), <<"gather">>),
       Kernel(1, <<"barrier">>) >>

Kernels(l) ==
    CASE l.kind \in {"one_stage", "fused_one_stage"} -> OneStage(l)
      [] l.kind \in {"two_stage", "two_shot", "fused_two_shot"} -> TwoStep(l)
      [] l.kind = "all_gather" -> AllGather(l)

-----------------------------------------------------------------------------
(* Which block touches which element.                                       *)

Elements(l) == 0 .. l.size - 1

Part(l) == l.size \div NRanks

(* the block whose grid-stride loop covers loop index i *)
BlockOf(l, i) == i % l.grid

(* A fused kernel normalises the sums: a block has whole rows, and an       *)
(* element of its output comes from the sums of the row.                    *)
RowOf(i) == i \div RowSize

SummedInto(l, i) ==
    IF l.kind \in FusedKinds THEN {j \in Elements(l) : RowOf(j) = RowOf(i)} ELSE {i}

IsPowerOfTwo(n) == \E k \in 0 .. n : 2 ^ k = n

(* The rank that reduces element i in a fused two-shot kernel: the shuffles *)
(* interleave a row over a power of two; other ranks have contiguous parts  *)
(* of it, the last one with the remainder.                                  *)
Owner(i) ==
    LET column == i % RowSize
        part == RowSize \div NRanks
    IN  IF IsPowerOfTwo(NRanks) THEN column % NRanks
        ELSE IF part = 0 \/ column >= part * NRanks THEN NRanks - 1
        ELSE column \div part

(* The elements rank r reduces: all of them in one stage; a contiguous part *)
(* in two stages, the last rank taking the remainder; interleaved in the    *)
(* two-shot kernels, but for the fused one as Owner says.                   *)
ReducedBy(l, r) ==
    CASE l.kind \in {"one_stage", "fused_one_stage"} -> Elements(l)
      [] l.kind = "fused_two_shot" -> {i \in Elements(l) : Owner(i) = r}
      [] l.kind = "two_stage" ->
            {i \in Elements(l) : /\ r * Part(l) <= i
                                 /\ r = NRanks - 1 \/ i < (r + 1) * Part(l)}
      [] l.kind = "two_shot" -> {i \in Elements(l) : i % NRanks = r}

(* where rank r keeps its sum of element i in its temporary buffer *)
TmpIndex(l, r, i) == IF l.kind = "two_stage" THEN i - r * Part(l) ELSE i

(* the block that reduces element i on rank r *)
ReduceBlock(l, r, i) ==
    CASE l.kind = "one_stage" -> BlockOf(l, i)
      [] l.kind = "two_stage" -> BlockOf(l, i - r * Part(l))
      [] l.kind = "two_shot" -> BlockOf(l, i \div NRanks)
      [] l.kind \in FusedKinds -> BlockOf(l, RowOf(i))

Fetch(o, from, at) == [out |-> o, from |-> from, at |-> at]

(* mutant: the gather loop stops at the common part, without the remainder *)
TwoStageFetchesCommonPart(l, b) ==
    {Fetch(q * Part(l) + i, q, i) :
        q \in Ranks, i \in {j \in 0 .. Part(l) - 1 : BlockOf(l, j) = b}}

(* The gather of the two-stage kernel reads position i of every rank's      *)
(* part, and beyond the common size only the last rank's.                   *)
TwoStageFetches(l, b) ==
    UNION {{Fetch(q * Part(l) + i, q, i) :
               q \in {p \in Ranks : p = NRanks - 1 \/ i < Part(l)}} :
           i \in {j \in 0 .. Part(l) + (l.size % NRanks) - 1 : BlockOf(l, j) = b}}

TwoShotFetches(l, b) ==
    {Fetch(i, i % NRanks, i) :
        i \in {j \in Elements(l) : BlockOf(l, j \div NRanks) = b}}

FusedFetches(l, b) ==
    {Fetch(i, Owner(i), i) : i \in {j \in Elements(l) : BlockOf(l, RowOf(j)) = b}}

(* The copy kernel of the all-gather gives a region (one rank's shard) to a *)
(* group of blocks, or a block several regions.                             *)
AllGatherFetches(l, b) ==
    LET grid == AllGatherGrid(l)
        Copies(q, i) ==
            IF grid >= NRanks
            THEN b % NRanks = q /\ i % (grid \div NRanks) = b \div NRanks
            ELSE q % grid = b
    IN  {Fetch(c[1] * l.size + c[2], c[1], c[2]) :
            c \in {c \in Ranks \X Elements(l) : Copies(c[1], c[2])}}

Fetches(l, b) ==
    CASE l.kind = "two_stage" -> TwoStageFetches(l, b)
      [] l.kind = "two_shot" -> TwoShotFetches(l, b)
      [] l.kind = "fused_two_shot" -> FusedFetches(l, b)
      [] l.kind = "all_gather" -> AllGatherFetches(l, b)

-----------------------------------------------------------------------------
(* Where rank r's stream and its blocks are.                                *)

Current(r) == program[position[r]]

CurrentKernel(r) == Kernels(Current(r))[kernel[r]]

GridOf(r) == 0 .. CurrentKernel(r).grid - 1

Running(r, b) ==
    /\ stage[r] = "kernel"
    /\ b \in GridOf(r)
    /\ block[r][b] \in 1 .. Len(CurrentKernel(r).steps)

InStep(r, b, name) == Running(r, b) /\ CurrentKernel(r).steps[block[r][b]] = name

Finished(r, b) == block[r][b] > Len(CurrentKernel(r).steps)

Row(s, b) ==
    INSTANCE RankBarrier WITH
        MaxCalls <- 0, arrived <- arrived[s][b], left <- left[s][b]

Init ==
    /\ program \in Programs
    /\ position = [r \in Ranks |-> 1]
    /\ stage = [r \in Ranks |-> "idle"]
    /\ kernel = [r \in Ranks |-> 1]
    /\ block = [r \in Ranks |-> [b \in Blocks |-> 0]]
    /\ arrived = [s \in Slots |-> [b \in Blocks |-> [r \in Ranks |-> 0]]]
    /\ left = [s \in Slots |-> [b \in Blocks |-> [r \in Ranks |-> 0]]]
    /\ staging = [s \in Slots |-> [r \in Ranks |-> 0]]
    /\ tmp = [s \in Slots |-> [r \in Ranks |-> [i \in 0 .. MaxSize - 1 |-> {}]]]
    /\ out = [r \in Ranks |-> <<>>]
    /\ results = [r \in Ranks |-> <<>>]

OutIndices(l) ==
    IF l.kind = "all_gather" THEN 0 .. NRanks * l.size - 1 ELSE Elements(l)

(* The stream starts the copy of the input into the staging buffer.         *)
BeginCopy(r) ==
    /\ stage[r] = "idle"
    /\ position[r] <= Len(program)
    /\ stage' = [stage EXCEPT ![r] = "copy"]
    /\ out' = [out EXCEPT ![r] = [i \in OutIndices(Current(r)) |-> {}]]
    /\ UNCHANGED <<program, position, kernel, block, arrived, left, staging, tmp, results>>

(* The copy is complete, and the first kernel may start.                    *)
EndCopy(r) ==
    /\ stage[r] = "copy"
    /\ staging' = [staging EXCEPT ![Current(r).slot][r] = position[r]]
    /\ stage' = [stage EXCEPT ![r] = "kernel"]
    /\ kernel' = [kernel EXCEPT ![r] = 1]
    /\ block' = [block EXCEPT ![r] = [b \in Blocks |-> 0]]
    /\ UNCHANGED <<program, position, arrived, left, tmp, out, results>>

(* mutant: a block that is dispatched skips its first barrier *)
AdvanceTwice(r, b) ==
    /\ block' = [block EXCEPT ![r][b] = @ + 2]
    /\ arrived' = arrived

(* Block b goes on to its next step; at a barrier that is its arrival.      *)
Advance(r, b) ==
    LET next == block[r][b] + 1
        steps == CurrentKernel(r).steps
        atBarrier == next <= Len(steps) /\ steps[next] = "barrier"
    IN  /\ block' = [block EXCEPT ![r][b] = next]
        /\ arrived' = IF atBarrier
                      THEN [arrived EXCEPT ![Current(r).slot][b][r] = @ + 1]
                      ELSE arrived

(* mutant: blocks of a grid are resident one fewer at a time *)
CanDispatchOneLess(r) ==
    Cardinality({b \in Blocks : Running(r, b)}) < Residency - 1

CanDispatch(r) == Cardinality({b \in Blocks : Running(r, b)}) < Residency

(* The hardware starts a block, in any order.                               *)
Dispatch(r, b) ==
    /\ stage[r] = "kernel"
    /\ b \in GridOf(r)
    /\ block[r][b] = 0
    /\ CanDispatch(r)
    /\ Advance(r, b)
    /\ UNCHANGED <<program, position, stage, kernel, left, staging, tmp, out, results>>

LeaveBarrier(r, b) ==
    /\ InStep(r, b, "barrier")
    /\ Row(Current(r).slot, b)!CanLeave(r)
    /\ left' = [left EXCEPT ![Current(r).slot][b][r] = @ + 1]
    /\ Advance(r, b)
    /\ UNCHANGED <<program, position, stage, kernel, staging, tmp, out, results>>

(* the elements block b of rank r reduces *)
ReducedHere(l, r, b) == {i \in ReducedBy(l, r) : ReduceBlock(l, r, i) = b}

(* The block's reduction over every rank's staging buffer is complete.      *)
FinishReduce(r, b) ==
    LET l == Current(r)
        Sum(i) == {<<q, staging[l.slot][q], i>> : q \in Ranks}
        mine == ReducedHere(l, r, b)
    IN  /\ InStep(r, b, "reduce")
        /\ IF l.kind \in {"one_stage", "fused_one_stage"}
           THEN /\ out' = [out EXCEPT ![r] =
                              [i \in DOMAIN @ |->
                                  IF i \in mine THEN UNION {Sum(j) : j \in SummedInto(l, i)}
                                  ELSE @[i]]]
                /\ UNCHANGED tmp
           ELSE /\ tmp' = [tmp EXCEPT ![l.slot][r] =
                              [j \in DOMAIN @ |->
                                  LET i == {e \in mine : TmpIndex(l, r, e) = j}
                                  IN  IF i # {} THEN Sum(CHOOSE e \in i : TRUE) ELSE @[j]]]
                /\ UNCHANGED out
        /\ Advance(r, b)
        /\ UNCHANGED <<program, position, stage, kernel, left, staging, results>>

(* What rank r reads at a fetched place: a peer's sum, or, in an            *)
(* all-gather, a peer's staging copy and its own input directly.            *)
Fetched(r, f) ==
    LET l == Current(r)
    IN  IF l.kind = "all_gather"
        THEN {<<f.from, IF f.from = r THEN position[r] ELSE staging[l.slot][f.from], f.at>>}
        ELSE tmp[l.slot][f.from][f.at]

(* The block's gather is complete.                                          *)
FinishGather(r, b) ==
    LET fetches == Fetches(Current(r), b)
        At(i) == {f \in fetches : f.out \in SummedInto(Current(r), i)}
    IN  /\ InStep(r, b, "gather")
        /\ out' = [out EXCEPT ![r] =
                      [i \in DOMAIN @ |-> IF At(i) = {} THEN @[i]
                                          ELSE UNION {Fetched(r, f) : f \in At(i)}]]
        /\ Advance(r, b)
        /\ UNCHANGED <<program, position, stage, kernel, left, staging, tmp, results>>

(* All blocks have ended: the stream goes on to the next kernel, or the     *)
(* launch is complete.                                                      *)
FinishKernel(r) ==
    /\ stage[r] = "kernel"
    /\ \A b \in GridOf(r) : Finished(r, b)
    /\ IF kernel[r] < Len(Kernels(Current(r)))
       THEN /\ kernel' = [kernel EXCEPT ![r] = @ + 1]
            /\ block' = [block EXCEPT ![r] = [b \in Blocks |-> 0]]
            /\ UNCHANGED <<position, stage, results>>
       ELSE /\ results' = [results EXCEPT ![r] = Append(@, out[r])]
            /\ position' = [position EXCEPT ![r] = @ + 1]
            /\ stage' = [stage EXCEPT ![r] = "idle"]
            /\ UNCHANGED <<kernel, block>>
    /\ UNCHANGED <<program, arrived, left, staging, tmp, out>>

StreamStep(r) ==
    \/ BeginCopy(r)
    \/ EndCopy(r)
    \/ FinishKernel(r)

BlockStep(r, b) ==
    \/ Dispatch(r, b)
    \/ LeaveBarrier(r, b)
    \/ FinishReduce(r, b)
    \/ FinishGather(r, b)

Next == \E r \in Ranks : StreamStep(r) \/ \E b \in Blocks : BlockStep(r, b)

Spec == Init /\ [][Next]_vars

(* Streams and resident blocks make progress, and a block that fits is      *)
(* dispatched.                                                              *)
Fairness ==
    \A r \in Ranks : WF_vars(StreamStep(r)) /\ \A b \in Blocks : WF_vars(BlockStep(r, b))

FairSpec == Spec /\ Fairness

-----------------------------------------------------------------------------

(* Every variable stays in its range, and the barrier counts of a row are   *)
(* at most one call apart.                                                  *)
TypeOK ==
    /\ program \in Programs
    /\ position \in [Ranks -> 1 .. Len(program) + 1]
    /\ stage \in [Ranks -> {"idle", "copy", "kernel"}]
    /\ kernel \in [Ranks -> 1 .. 3]
    /\ block \in [Ranks -> [Blocks -> 0 .. 5]]
    /\ staging \in [Slots -> [Ranks -> 0 .. Len(program)]]
    /\ \A s \in Slots, b \in Blocks, r \in Ranks :
          left[s][b][r] <= arrived[s][b][r] /\ arrived[s][b][r] <= left[s][b][r] + 1

(* Memory locations: a staging buffer, and each element of a temporary one. *)
StagingLoc(s, r) == <<"staging", s, r, 0>>
TmpLoc(s, r, i) == <<"tmp", s, r, i>>

ReadsOf(r, b) ==
    LET l == Current(r)
    IN  IF InStep(r, b, "reduce") THEN {StagingLoc(l.slot, q) : q \in Ranks}
        ELSE IF ~ InStep(r, b, "gather") THEN {}
        ELSE IF l.kind = "all_gather"
             THEN {StagingLoc(l.slot, f.from) : f \in {g \in Fetches(l, b) : g.from # r}}
             ELSE {TmpLoc(l.slot, f.from, f.at) : f \in Fetches(l, b)}

WritesOf(r, b) ==
    LET l == Current(r)
    IN  IF InStep(r, b, "reduce") /\ l.kind \notin {"one_stage", "fused_one_stage"}
        THEN {TmpLoc(l.slot, r, TmpIndex(l, r, i)) : i \in ReducedHere(l, r, b)}
        ELSE {}

CopiesInto(r) == IF stage[r] = "copy" THEN {StagingLoc(Current(r).slot, r)} ELSE {}

(* While a block or a staging copy writes a location that other ranks may   *)
(* access, no other block reads or writes it: neither a peer a launch       *)
(* behind, nor another block row, nor the next staging copy.                *)
RaceFree ==
    \A r, q \in Ranks : \A c \in Blocks :
        LET touched == ReadsOf(q, c) \cup WritesOf(q, c)
        IN  /\ CopiesInto(r) \cap touched = {}
            /\ \A b \in Blocks : <<r, b>> # <<q, c>> => WritesOf(r, b) \cap touched = {}

(* A rank is never two launches ahead of another: the bound that the parity *)
(* slots of the flags and the single temporary buffer rely on.              *)
AtMostOneLaunchAhead == \A r, q \in Ranks : position[r] <= position[q] + 1

Service ==
    INSTANCE Collectives WITH
        supplied <- [r \in Ranks |-> IF stage[r] = "kernel" THEN position[r]
                                     ELSE position[r] - 1]

(* Every result combines exactly the inputs of its own launch, at every     *)
(* element, and is returned only after every rank has supplied its input.   *)
ImplementsCollectives == Service!Spec

(* Every rank completes its program: no block waits for a peer for ever.    *)
AllLaunchesComplete == <>[](\A r \in Ranks : position[r] = Len(program) + 1)
=============================================================================
