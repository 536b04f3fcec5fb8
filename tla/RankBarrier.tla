---------------------------- MODULE RankBarrier ----------------------------
(* What multi_rank_barrier promises to one block row of a kernel grid: the  *)
(* block that runs the row on rank r leaves its n-th barrier call only      *)
(* after the block of that row on every rank has arrived at its n-th call.  *)
(* MultiRankBarrier shows that the flag protocol of custom_all_reduce.mu    *)
(* implements this; CustomAllReduce uses it in place of the flags.          *)
EXTENDS Integers

CONSTANTS
    Ranks,      \* the ranks of the communicator
    MaxCalls    \* bound: the barrier calls each rank makes

VARIABLES
    arrived,    \* arrived[r]: barrier calls rank r's block has entered
    left        \* left[r]: barrier calls rank r's block has returned from

vars == <<arrived, left>>

Init ==
    /\ arrived = [r \in Ranks |-> 0]
    /\ left = [r \in Ranks |-> 0]

CanArrive(r) == arrived[r] = left[r]

Arrive(r) ==
    /\ CanArrive(r)
    /\ arrived[r] < MaxCalls
    /\ arrived' = [arrived EXCEPT ![r] = @ + 1]
    /\ UNCHANGED left

(* mutant: a block leaves when its own arrival is recorded *)
CanLeaveAlone(r) == left[r] < arrived[r]

CanLeave(r) ==
    /\ left[r] < arrived[r]
    /\ \A q \in Ranks : arrived[q] >= arrived[r]

Leave(r) ==
    /\ CanLeave(r)
    /\ left' = [left EXCEPT ![r] = @ + 1]
    /\ UNCHANGED arrived

Next == \E r \in Ranks : Arrive(r) \/ Leave(r)

Spec == Init /\ [][Next]_vars
=============================================================================
