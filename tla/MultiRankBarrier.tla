-------------------------- MODULE MultiRankBarrier --------------------------
(* The cross-rank barrier of the custom all-reduce kernels                  *)
(* (multi_rank_barrier in custom_all_reduce.mu), for one block row.         *)
(*                                                                          *)
(* On every rank, thread i < nranks of the block increments its private     *)
(* self_counter, stores the new flag into rank i's memory, in the           *)
(* peer_counter slot picked by the flag's parity, and spins until rank i    *)
(* has stored the SAME flag in its own memory.  The flags are uint32 and    *)
(* wrap; the test is equality, so a flag that is overwritten before it was  *)
(* seen, or a stale one that matches, would hang or release a rank early.   *)
(* A remote store is not a message: it lands some time after it was issued, *)
(* and stores to the two slots may land in either order.                    *)
EXTENDS Integers

CONSTANTS
    Ranks,          \* the ranks of the communicator
    FlagModulus,    \* flags are counted modulo this: 2^32 in the code
    MaxCalls        \* bound: the barrier calls each rank makes

ASSUME FlagModulusAssumption ==
    /\ FlagModulus \in Nat
    /\ FlagModulus >= 4
    /\ FlagModulus % 2 = 0

ASSUME MaxCallsAssumption == MaxCalls \in Nat

VARIABLES
    arrived,        \* arrived[r]: barrier calls rank r's block has entered
    left,           \* left[r]: barrier calls rank r's block has returned from
    pc,             \* pc[r][i]: where thread i of rank r's block is
    self_counter,   \* self_counter[r][i]: the flag thread i last signalled
    peer_counter,   \* peer_counter[r][slot][i]: in r's memory, written by i
    stores          \* remote stores issued and not yet visible

vars == <<arrived, left, pc, self_counter, peer_counter, stores>>

Flags == 0 .. FlagModulus - 1

Store == [from : Ranks, to : Ranks, flag : Flags]

(* mutant: the counter does not wrap *)
UnboundedFlag(f) == f + 1

(* mutant: the flag is no more than its parity *)
ParityFlag(f) == IF f % 2 = 0 THEN 1 ELSE 0

(* self_counter + 1 in uint32 arithmetic *)
NextFlag(f) == IF f + 1 = FlagModulus THEN 0 ELSE f + 1

(* mutant: one slot instead of two *)
SingleSlot(f) == 0

(* flag & 1 *)
Slot(f) == f % 2

Init ==
    /\ arrived = [r \in Ranks |-> 0]
    /\ left = [r \in Ranks |-> 0]
    /\ pc = [r \in Ranks |-> [i \in Ranks |-> "done"]]
    /\ self_counter = [r \in Ranks |-> [i \in Ranks |-> 0]]
    /\ peer_counter = [r \in Ranks |-> [s \in {0, 1} |-> [i \in Ranks |-> 0]]]
    /\ stores = {}

(* The block of rank r reaches its next barrier call: the kernel's earlier  *)
(* threads have all come this far (the leading __syncthreads_lm, or the     *)
(* start of the kernel for a start barrier).                                *)
Arrive(r) ==
    /\ arrived[r] = left[r]
    /\ arrived[r] < MaxCalls
    /\ arrived' = [arrived EXCEPT ![r] = @ + 1]
    /\ pc' = [pc EXCEPT ![r] = [i \in Ranks |-> "signal"]]
    /\ UNCHANGED <<left, self_counter, peer_counter, stores>>

(* Thread i of rank r increments its counter and stores the flag to rank i. *)
Signal(r, i) ==
    LET flag == NextFlag(self_counter[r][i])
    IN  /\ pc[r][i] = "signal"
        /\ self_counter' = [self_counter EXCEPT ![r][i] = flag]
        /\ stores' = stores \cup {[from |-> r, to |-> i, flag |-> flag]}
        /\ pc' = [pc EXCEPT ![r][i] = "spin"]
        /\ UNCHANGED <<arrived, left, peer_counter>>

(* A remote store becomes visible in the receiver's memory.                 *)
Deliver(m) ==
    /\ peer_counter' = [peer_counter EXCEPT ![m.to][Slot(m.flag)][m.from] = m.flag]
    /\ stores' = stores \ {m}
    /\ UNCHANGED <<arrived, left, pc, self_counter>>

(* mutant: the arrival of the thread's own rank is what it waits for *)
SawOwnFlag(r, i) ==
    peer_counter[r][Slot(self_counter[r][i])][r] = self_counter[r][i]

(* mutant: the spin waits for the slot of the flag before *)
OtherSlotFlag(r, i) ==
    peer_counter[r][1 - Slot(self_counter[r][i])][i] = self_counter[r][i]

(* The exit condition of the spin loop.                                     *)
SawFlag(r, i) ==
    peer_counter[r][Slot(self_counter[r][i])][i] = self_counter[r][i]

(* Thread i of rank r finds rank i's flag and stops spinning.               *)
StopSpinning(r, i) ==
    /\ pc[r][i] = "spin"
    /\ SawFlag(r, i)
    /\ pc' = [pc EXCEPT ![r][i] = "done"]
    /\ UNCHANGED <<arrived, left, self_counter, peer_counter, stores>>

(* Every thread is done: the trailing __syncthreads_lm opens, or, for the   *)
(* end barrier of a kernel, the block ends.                                 *)
Leave(r) ==
    /\ left[r] < arrived[r]
    /\ \A i \in Ranks : pc[r][i] = "done"
    /\ left' = [left EXCEPT ![r] = @ + 1]
    /\ UNCHANGED <<arrived, pc, self_counter, peer_counter, stores>>

Next ==
    \/ \E r \in Ranks : Arrive(r)
    \/ \E r, i \in Ranks : Signal(r, i)
    \/ \E m \in stores : Deliver(m)
    \/ \E r, i \in Ranks : StopSpinning(r, i)
    \/ \E r \in Ranks : Leave(r)

Spec == Init /\ [][Next]_vars

(* Every rank runs the same launches, resident threads make progress, and   *)
(* an issued store lands.                                                   *)
Fairness ==
    /\ \A r \in Ranks : WF_vars(Arrive(r)) /\ WF_vars(Leave(r))
    /\ \A r, i \in Ranks : WF_vars(Signal(r, i)) /\ WF_vars(StopSpinning(r, i))
    /\ \A m \in Store : WF_vars(m \in stores /\ Deliver(m))

FairSpec == Spec /\ Fairness

-----------------------------------------------------------------------------
(* Progress of the pair of threads (r, i) and (i, r), in whole calls.       *)

(* how many flags thread i of rank r has signalled *)
Signalled(r, i) == IF pc[r][i] = "signal" THEN left[r] ELSE arrived[r]

(* how many flags of rank i thread i of rank r has waited for and seen *)
Consumed(r, i) == IF pc[r][i] = "done" THEN arrived[r] ELSE left[r]

(* the flag thread i of rank r waits for now, or will wait for next *)
AwaitedFlag(r, i) ==
    IF pc[r][i] = "spin" THEN self_counter[r][i] ELSE NextFlag(self_counter[r][i])

InFlight(s, r, f) == [from |-> s, to |-> r, flag |-> f] \in stores

Visible(s, r, f) == peer_counter[r][Slot(f)][s] = f

(* Every variable holds a value of its type.                                *)
TypeOK ==
    /\ arrived \in [Ranks -> Nat]
    /\ left \in [Ranks -> Nat]
    /\ pc \in [Ranks -> [Ranks -> {"signal", "spin", "done"}]]
    /\ self_counter \in [Ranks -> [Ranks -> Flags]]
    /\ peer_counter \in [Ranks -> [{0, 1} -> [Ranks -> Flags]]]
    /\ stores \subseteq Store

(* While rank s has signalled a flag that rank r has not consumed, the flag *)
(* r waits for next is on its way or in its slot: no later flag, two calls  *)
(* later or one wrap later, has overwritten it.  A lost flag is a hang.     *)
AwaitedFlagSurvives ==
    \A s, r \in Ranks :
        Signalled(s, r) > Consumed(r, s) =>
            \/ InFlight(s, r, AwaitedFlag(r, s))
            \/ Visible(s, r, AwaitedFlag(r, s))

(* A slot never holds a flag its writer has not signalled yet: what is left *)
(* in memory from earlier calls, or from the memset of the buffer, cannot   *)
(* release a thread early, also after the flags have wrapped.               *)
NoStaleMatch ==
    \A s, r \in Ranks :
        Signalled(s, r) = Consumed(r, s) => ~ Visible(s, r, AwaitedFlag(r, s))

Abs == INSTANCE RankBarrier

(* The flag protocol implements the barrier: a rank's block leaves a call   *)
(* only when every rank's block has arrived at that call.                   *)
ImplementsRankBarrier == Abs!Spec

(* Every rank returns from all its barrier calls: no spin lasts for ever    *)
(* while the peers keep coming.                                             *)
AllCallsReturn == <>[](\A r \in Ranks : left[r] = MaxCalls)
=============================================================================
