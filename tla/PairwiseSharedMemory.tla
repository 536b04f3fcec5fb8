------------------------ MODULE PairwiseSharedMemory ------------------------
(* The reduce loop of the eight-rank two-shot kernels inside one block      *)
(* (custom_all_reduce.mu: custom_all_reduce_2shot and                       *)
(* fused_ar_rmsnorm_2shot_kernel).  A 32-lane shuffle sums four ranks; the  *)
(* other four are summed by the warp next to it, and the two exchange their *)
(* halves through one slot of shared memory per warp, iteration after       *)
(* iteration.  The fused kernel closes an iteration with a second block     *)
(* barrier; the plain one does not, and leans on how warps are scheduled.   *)
(* Every warp decides for itself when its loop is over, and goes to the     *)
(* barrier in front of the signal to the other ranks.                       *)
(* The specification's names are its own, so that a module can extend this  *)
(* one beside that of the barrier between ranks.                            *)
EXTENDS Integers, Sequences

CONSTANTS
    Warps,      \* the warps of a block, {0 .. 2n-1}
    Launches    \* the launches, and the block of each that is looked at

(* Columns are counted in units of 64 packed elements, the work of one pair *)
(* of warps in one iteration: pair p has column base + p.                   *)
(*   kernel   which of the two                                              *)
(*   squads   MP31 schedules 32-lane warps in squads that advance together  *)
(*   rows     rows of the block; the plain kernel has one                   *)
(*   first    idx_base at the start of a row                                *)
(*   stride   what an iteration adds to idx_base                            *)
(*   size     columns of a row                                              *)
ASSUME LaunchAssumption ==
    \A l \in Launches :
        /\ l.kernel \in {"plain", "fused"}
        /\ UNION l.squads = Warps
        /\ \A s, t \in l.squads : s # t => s \cap t = {}
        /\ {l.rows, l.first, l.stride, l.size} \subseteq Nat

VARIABLES
    launch,
    place,          \* place[s]: "write" (at the head of the loop), "opened"
                    \* (at the barrier after the writes), "read", "closed"
                    \* (at the second), "exit" (at the barrier after the
                    \* loop), "signal" (at that of multi_rank_barrier), or
                    \* "done" (free to signal to the other ranks)
    cursor,         \* cursor[s]: the row and the idx_base s has come to
    iteration,      \* iteration[s]: iterations s has completed
    syncs,          \* syncs[s]: block barriers s has arrived at
    slot,           \* slot[w]: the iteration whose half lies in w's slot
    sums            \* sums[w]: for each iteration, the half w was given

loopVars == <<launch, place, cursor, iteration, syncs, slot, sums>>

Squads == launch.squads

(* warp ^ 1 *)
Partner(w) == IF w % 2 = 0 THEN w + 1 ELSE w - 1

(* The block is a whole number of 128-thread squads, so that no warp lacks  *)
(* its partner.                                                             *)
ASSUME BlockAssumption ==
    /\ Warps \subseteq Nat
    /\ \A w \in Warps : Partner(w) \in Warps

(* The plain kernel is only right on squads that keep a pair together, which*)
(* is what its block is aligned for.                                        *)
ASSUME SquadAssumption ==
    \A l \in Launches : l.kernel = "plain" =>
        \A s \in l.squads : \A w \in s : Partner(w) \in s

LoopInit ==
    /\ launch \in Launches
    /\ place = [s \in Squads |-> "write"]
    /\ cursor = [s \in Squads |-> [row |-> 0, base |-> launch.first]]
    /\ iteration = [s \in Squads |-> 0]
    /\ syncs = [s \in Squads |-> 0]
    /\ slot = [w \in Warps |-> 0]
    /\ sums = [w \in Warps |-> <<>>]

(* __syncthreads_lm: everybody has come as far as s *)
AllArrived(s) == \A t \in Squads : syncs[t] >= syncs[s]

HasRow(s) == cursor[s].row < launch.rows

WriteHalf(s) ==
    /\ place[s] = "write"
    /\ HasRow(s)
    /\ slot' = [w \in Warps |-> IF w \in s THEN iteration[s] + 1 ELSE slot[w]]
    /\ syncs' = [syncs EXCEPT ![s] = @ + 1]
    /\ place' = [place EXCEPT ![s] = "opened"]
    /\ UNCHANGED <<launch, cursor, iteration, sums>>

OpenSync(s) ==
    /\ place[s] = "opened"
    /\ AllArrived(s)
    /\ place' = [place EXCEPT ![s] = "read"]
    /\ UNCHANGED <<launch, cursor, iteration, syncs, slot, sums>>

(* mutant: a warp goes on while its own column is inside the row *)
OwnColumnInRow(s) == \E w \in s : cursor[s].base + launch.stride + w \div 2 < launch.size

(* while (idx_base < size), after idx_base += stride *)
InRow(s) == cursor[s].base + launch.stride < launch.size

NextIteration(s) ==
    /\ iteration' = [iteration EXCEPT ![s] = @ + 1]
    /\ cursor' = [cursor EXCEPT ![s] =
                    IF InRow(s) THEN [row |-> @.row, base |-> @.base + launch.stride]
                                ELSE [row |-> @.row + 1, base |-> launch.first]]
    /\ place' = [place EXCEPT ![s] = "write"]

TakePartnerHalf(s) ==
    sums' = [w \in Warps |->
                IF w \in s THEN Append(sums[w], slot[Partner(w)]) ELSE sums[w]]

ReadPlain(s) ==
    /\ launch.kernel = "plain"
    /\ place[s] = "read"
    /\ TakePartnerHalf(s)
    /\ NextIteration(s)
    /\ UNCHANGED <<launch, syncs, slot>>

ReadFused(s) ==
    /\ launch.kernel = "fused"
    /\ place[s] = "read"
    /\ TakePartnerHalf(s)
    /\ syncs' = [syncs EXCEPT ![s] = @ + 1]
    /\ place' = [place EXCEPT ![s] = "closed"]
    /\ UNCHANGED <<launch, cursor, iteration, slot>>

(* mutant: the next iteration does not wait for the readers of this one *)
CloseWithoutSync(s) ==
    /\ place[s] = "closed"
    /\ NextIteration(s)
    /\ UNCHANGED <<launch, syncs, slot, sums>>

CloseSync(s) ==
    /\ place[s] = "closed"
    /\ AllArrived(s)
    /\ NextIteration(s)
    /\ UNCHANGED <<launch, syncs, slot, sums>>

LeaveLoop(s) ==
    /\ place[s] = "write"
    /\ ~HasRow(s)
    /\ syncs' = [syncs EXCEPT ![s] = @ + 1]
    /\ place' = [place EXCEPT ![s] = "exit"]
    /\ UNCHANGED <<launch, cursor, iteration, slot, sums>>

(* There are two barriers behind the loop: its own, and the one with which  *)
(* multi_rank_barrier begins.                                               *)
ExitSync(s) ==
    /\ place[s] = "exit"
    /\ AllArrived(s)
    /\ syncs' = [syncs EXCEPT ![s] = @ + 1]
    /\ place' = [place EXCEPT ![s] = "signal"]
    /\ UNCHANGED <<launch, cursor, iteration, slot, sums>>

SignalSync(s) ==
    /\ place[s] = "signal"
    /\ AllArrived(s)
    /\ place' = [place EXCEPT ![s] = "done"]
    /\ UNCHANGED <<launch, cursor, iteration, syncs, slot, sums>>

LoopStep(s) ==
    \/ WriteHalf(s) \/ OpenSync(s) \/ ReadPlain(s) \/ ReadFused(s) \/ CloseSync(s)
    \/ LeaveLoop(s) \/ ExitSync(s) \/ SignalSync(s)

LoopNext == \E s \in Squads : LoopStep(s)

LoopSpec == LoopInit /\ [][LoopNext]_loopVars

(* The squads of a resident block are all scheduled.                        *)
FairLoopSpec ==
    LoopSpec /\ \A l \in Launches : \A s \in l.squads :
                    WF_loopVars(s \in Squads /\ LoopStep(s))

-----------------------------------------------------------------------------
(* Every half a warp adds to its own is its partner's of the same           *)
(* iteration: never the one before, not yet overwritten, and never the one  *)
(* after, already overwritten by a partner that has run ahead.              *)
HalvesMatch ==
    \A w \in Warps : \A k \in 1 .. Len(sums[w]) : sums[w][k] = k

(* The block signals to the other ranks only when every one of its warps    *)
(* has left the reduce loop and its barrier: no warp takes a barrier inside *)
(* the loop for one behind it.                                              *)
ReducedBeforeSignal ==
    \A s, t \in Squads : place[s] = "done" => place[t] \in {"signal", "done"}

(* The block leaves the loop: no warp waits at a barrier that others, whose *)
(* loop was shorter, do not come to.                                        *)
LoopEnds == <>(\A s \in Squads : place[s] = "done")
=============================================================================
