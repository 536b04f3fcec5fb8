-------------------------- MODULE CommunicatorInit --------------------------
(* Construction of the custom all-reduce communicator on every rank of a    *)
(* group (musa_jit_custom_all_reduce.py: _make_shared_buffer,               *)
(* _MusaJitCustomAllreduceImpl.__init__, MusaJitCustomAllreduce.__init__).  *)
(*                                                                          *)
(* A rank agrees on the graph plan, makes two buffers it shares with its    *)
(* peers through IPC handles, compiles, and votes.  Any local step may      *)
(* raise; the ranks then have to end without the communicator, all of them, *)
(* and with nothing left behind.  They meet in collectives of the CPU       *)
(* group, which pair up by the order in which each rank calls them.         *)
EXTENDS Integers, Sequences, FiniteSets

CONSTANTS
    NRanks,     \* the size of the group
    Plans,      \* the graph staging plans a rank may be configured with
    MaxFaults   \* bound: local steps that raise

Ranks == 0 .. NRanks - 1
Peers(r) == Ranks \ {r}
Buffers == {"meta", "data"}

ASSUME FaultsAssumption == NRanks \in Nat \ {0} /\ MaxFaults \in Nat

VARIABLES
    step,       \* step[r]: where r is in the constructor
    buffer,     \* buffer[r]: the shared buffer being made
    plan,       \* plan[r]: what r was configured with
    calls,      \* calls[r]: the group collectives r has entered, in order
    memory,     \* memory[r][b]: "none", "live" or "freed"
    opened,     \* opened[r]: the peers' buffers r has mapped, <<b, peer>>
    comm,       \* comm[r]: "none", "disabled" or "enabled"
    faults

vars == <<step, buffer, plan, calls, memory, opened, comm, faults>>

Init ==
    /\ step = [r \in Ranks |-> "begin"]
    /\ buffer = [r \in Ranks |-> "meta"]
    /\ plan \in [Ranks -> Plans]
    /\ calls = [r \in Ranks |-> <<>>]
    /\ memory = [r \in Ranks |-> [b \in Buffers |-> "none"]]
    /\ opened = [r \in Ranks |-> {}]
    /\ comm = [r \in Ranks |-> "none"]
    /\ faults = 0

-----------------------------------------------------------------------------
(* The group's collectives: the n-th call of one rank pairs with the n-th   *)
(* of every other, and completes when all have made it.                     *)

Enter(r, kind, value) ==
    calls' = [calls EXCEPT ![r] = Append(@, [kind |-> kind, value |-> value])]

SameCall(r, q, n) == calls[q][n].kind = calls[r][n].kind

Completed(r) ==
    LET n == Len(calls[r])
    IN  \A q \in Ranks : Len(calls[q]) >= n /\ SameCall(r, q, n)

(* what the ranks put into r's completed call *)
Contributions(r) == {calls[q][Len(calls[r])].value : q \in Ranks}

Ended(r) == step[r] \in {"built", "raised"}

(* r's pending call can complete no more: a peer has answered it with       *)
(* another one, or has left for good.  The group's timeout ends such a call.*)
Stuck(r) ==
    LET n == Len(calls[r])
    IN  \E q \in Ranks :
            \/ Len(calls[q]) >= n /\ ~SameCall(r, q, n)
            \/ Len(calls[q]) < n /\ Ended(q)

-----------------------------------------------------------------------------
(* Raising.                                                                 *)

(* mutant: the exception handler forgets the rank's own allocation *)
ReleaseHandlesOnly(r) ==
    /\ opened' = [opened EXCEPT ![r] = {}]
    /\ UNCHANGED memory

(* Close every mapped handle and free the rank's own buffers.               *)
Release(r) ==
    /\ opened' = [opened EXCEPT ![r] = {}]
    /\ memory' = [memory EXCEPT ![r] =
                     [b \in Buffers |-> IF @[b] = "live" THEN "freed" ELSE @[b]]]

(* An exception in one of the steps the constructor guards: what the failed *)
(* _make_shared_buffer undid, then what the except branch undoes.           *)
RaiseGuarded(r) ==
    /\ Release(r)
    /\ comm' = [comm EXCEPT ![r] = "disabled"]
    /\ step' = [step EXCEPT ![r] = "vote"]
    /\ UNCHANGED <<buffer, plan, calls>>

(* An exception outside of them: the wrapper catches it and has no object.  *)
RaiseUnguarded(r) ==
    /\ Release(r)
    /\ comm' = [comm EXCEPT ![r] = "none"]
    /\ step' = [step EXCEPT ![r] = "vote"]
    /\ UNCHANGED <<buffer, plan, calls>>

(* Out of the vote itself: the wrapper's constructor raises.                *)
RaiseInVote(r) ==
    /\ Release(r)
    /\ comm' = [comm EXCEPT ![r] = "none"]
    /\ step' = [step EXCEPT ![r] = "raised"]
    /\ UNCHANGED <<buffer, plan, calls>>

Fault == faults < MaxFaults /\ faults' = faults + 1

-----------------------------------------------------------------------------
(* _validate_graph_staging_plan_consensus: every rank broadcasts its plan   *)

(* The constructor raises before it enters a collective: it reads the       *)
(* configuration and the device, and fingerprints its plan.                 *)
FailBegin(r) ==
    /\ step[r] = "begin"
    /\ Fault
    /\ RaiseUnguarded(r)

BeginConsensus(r) ==
    /\ step[r] = "begin"
    /\ Enter(r, "plan", plan[r])
    /\ step' = [step EXCEPT ![r] = "consensus"]
    /\ UNCHANGED <<buffer, plan, memory, opened, comm, faults>>

(* mutant: the fingerprints are exchanged but not compared *)
AnyPlans(r) == TRUE

SamePlans(r) == Contributions(r) = {plan[r]}

(* mutant: after its consensus a rank enters another one *)
ConsensusTwice(r) ==
    /\ step[r] = "consensus"
    /\ Completed(r)
    /\ Enter(r, "plan", plan[r])
    /\ UNCHANGED <<step, buffer, plan, memory, opened, comm, faults>>

EndConsensus(r) ==
    /\ step[r] = "consensus"
    /\ Completed(r)
    /\ IF SamePlans(r)
         THEN /\ step' = [step EXCEPT ![r] = "allocate"]
              /\ UNCHANGED <<buffer, plan, calls, memory, opened, comm>>
         ELSE RaiseUnguarded(r)
    /\ UNCHANGED faults

-----------------------------------------------------------------------------
(* _make_shared_buffer, once for "meta" and once for "data"                 *)

Allocate(r) ==
    /\ step[r] = "allocate"
    /\ memory' = [memory EXCEPT ![r][buffer[r]] = "live"]
    /\ Enter(r, "handles", buffer[r])
    /\ step' = [step EXCEPT ![r] = "exchange"]
    /\ UNCHANGED <<buffer, plan, opened, comm, faults>>

FailAllocate(r) ==
    /\ step[r] = "allocate"
    /\ Fault
    /\ RaiseGuarded(r)

Exchange(r) ==
    /\ step[r] = "exchange"
    /\ Completed(r)
    /\ step' = [step EXCEPT ![r] = "open"]
    /\ UNCHANGED <<buffer, plan, calls, memory, opened, comm, faults>>

(* The handles are opened in rank order.                                    *)
Unopened(r) == {p \in Peers(r) : <<buffer[r], p>> \notin opened[r]}

NextPeer(r) == CHOOSE p \in Unopened(r) : \A q \in Unopened(r) : p <= q

Open(r) ==
    /\ step[r] = "open"
    /\ Unopened(r) # {}
    /\ memory[NextPeer(r)][buffer[r]] = "live"
    /\ opened' = [opened EXCEPT ![r] = @ \union {<<buffer[r], NextPeer(r)>>}]
    /\ UNCHANGED <<step, buffer, plan, calls, memory, comm, faults>>

(* A handle does not open: a fault, or the peer has freed the buffer.       *)
FailOpen(r) ==
    /\ step[r] = "open"
    /\ Unopened(r) # {}
    /\ \/ memory[NextPeer(r)][buffer[r]] # "live" /\ UNCHANGED faults
       \/ Fault
    /\ RaiseGuarded(r)

BufferMade(r) ==
    /\ step[r] = "open"
    /\ Unopened(r) = {}
    /\ \/ /\ buffer[r] = "meta"
          /\ buffer' = [buffer EXCEPT ![r] = "data"]
          /\ step' = [step EXCEPT ![r] = "allocate"]
       \/ /\ buffer[r] = "data"
          /\ step' = [step EXCEPT ![r] = "compile"]
          /\ UNCHANGED buffer
    /\ UNCHANGED <<plan, calls, memory, opened, comm, faults>>

-----------------------------------------------------------------------------
(* The rest of the constructor and the vote                                 *)

Compile(r) ==
    /\ step[r] = "compile"
    /\ step' = [step EXCEPT ![r] = "register"]
    /\ UNCHANGED <<buffer, plan, calls, memory, opened, comm, faults>>

FailCompile(r) ==
    /\ step[r] = "compile"
    /\ Fault
    /\ RaiseGuarded(r)

Register(r) ==
    /\ step[r] = "register"
    /\ comm' = [comm EXCEPT ![r] = "enabled"]
    /\ step' = [step EXCEPT ![r] = "vote"]
    /\ UNCHANGED <<buffer, plan, calls, memory, opened, faults>>

FailRegister(r) ==
    /\ step[r] = "register"
    /\ Fault
    /\ RaiseUnguarded(r)

(* mutant: the rank leaves without the vote when it has nothing to offer *)
VoteOnlyIfEnabled(r) ==
    /\ step[r] = "vote"
    /\ comm[r] = "enabled"
    /\ Enter(r, "vote", comm[r] = "enabled")
    /\ step' = [step EXCEPT ![r] = "decide"]
    /\ UNCHANGED <<buffer, plan, memory, opened, comm, faults>>

Vote(r) ==
    /\ step[r] = "vote"
    /\ Enter(r, "vote", comm[r] = "enabled")
    /\ step' = [step EXCEPT ![r] = "decide"]
    /\ UNCHANGED <<buffer, plan, memory, opened, comm, faults>>

(* mutant: a rank decides by its own outcome *)
OwnOutcome(r) == comm[r] = "enabled"

(* the minimum over the group *)
AllAvailable(r) == Contributions(r) = {TRUE}

Decide(r) ==
    /\ step[r] = "decide"
    /\ Completed(r)
    /\ step' = [step EXCEPT ![r] = "built"]
    /\ IF AllAvailable(r)
         THEN UNCHANGED <<memory, opened, comm>>
         ELSE Release(r) /\ comm' = [comm EXCEPT ![r] = "none"]
    /\ UNCHANGED <<buffer, plan, calls, faults>>

Timeout(r) ==
    /\ \/ step[r] = "consensus" /\ Stuck(r) /\ RaiseUnguarded(r)
       \/ step[r] = "exchange" /\ Stuck(r) /\ RaiseGuarded(r)
       \/ step[r] = "decide" /\ Stuck(r) /\ RaiseInVote(r)
    /\ UNCHANGED faults

-----------------------------------------------------------------------------
Construct(r) ==
    \/ BeginConsensus(r) \/ EndConsensus(r)
    \/ Allocate(r) \/ Exchange(r) \/ Open(r) \/ BufferMade(r)
    \/ Compile(r) \/ Register(r) \/ Vote(r) \/ Decide(r)

Fail(r) ==
    FailBegin(r) \/ FailAllocate(r) \/ FailOpen(r) \/ FailCompile(r) \/ FailRegister(r)

Next == \E r \in Ranks : Construct(r) \/ Fail(r) \/ Timeout(r)

Spec == Init /\ [][Next]_vars

(* Each rank runs its constructor; a handle whose memory is gone raises; a  *)
(* call that cannot complete times out.  Nothing forces a fault.            *)
Fairness ==
    \A r \in Ranks :
        WF_vars(Construct(r) \/ FailOpen(r) \/ Timeout(r))

FairSpec == Spec /\ Fairness

-----------------------------------------------------------------------------
(* Every variable stays in its range, and no rank enters more collectives   *)
(* than the constructor has: a plan, two exchanges, a vote.                 *)
TypeOK ==
    /\ step \in [Ranks -> {"begin", "consensus", "allocate", "exchange", "open",
                           "compile", "register", "vote", "decide", "built",
                           "raised"}]
    /\ buffer \in [Ranks -> Buffers]
    /\ plan \in [Ranks -> Plans]
    /\ memory \in [Ranks -> [Buffers -> {"none", "live", "freed"}]]
    /\ \A r \in Ranks : opened[r] \subseteq Buffers \X Peers(r)
    /\ comm \in [Ranks -> {"none", "disabled", "enabled"}]
    /\ faults \in 0 .. MaxFaults
    /\ \A r \in Ranks :
          /\ Len(calls[r]) <= 4
          /\ \A n \in 1 .. Len(calls[r]) :
                calls[r][n].kind \in {"plan", "handles", "vote"}

Usable(r) == step[r] = "built" /\ comm[r] = "enabled"

(* The ranks never disagree on whether to use the custom kernels: if one    *)
(* came out of its constructor with the communicator, none came out without *)
(* it, whether disabled by the vote or by an exception.                     *)
Agreement ==
    \A r, q \in Ranks : Usable(r) /\ Ended(q) => Usable(q)

(* A rank that may launch kernels has every peer's two buffers mapped, all  *)
(* of them are still allocated, and all ranks laid them out by the same     *)
(* plan, however the ranks' constructors overlapped and whatever failed.    *)
UsableMappings ==
    \A r \in Ranks : Usable(r) =>
        /\ opened[r] = Buffers \X Peers(r)
        /\ \A p \in Ranks : \A b \in Buffers : memory[p][b] = "live"
        /\ \A p \in Ranks : plan[p] = plan[r]

(* A rank that ends without the communicator has freed what it allocated    *)
(* and closed what it mapped, whichever step failed and on whichever rank.  *)
NothingLeaks ==
    \A r \in Ranks : Ended(r) /\ ~Usable(r) =>
        /\ opened[r] = {}
        /\ \A b \in Buffers : memory[r][b] # "live"

(* Every constructor ends, given that the group's collectives time out.     *)
EveryConstructorEnds == <>(\A r \in Ranks : Ended(r))

(* What the vote is for, in the words of its warning: a rank whose          *)
(* initialization failed disables the communicator on its peers, whose      *)
(* constructors return.  The code does not keep it: see the README.         *)
PeerFailureDisables ==
    \A r \in Ranks :
        (step[r] = "vote" /\ comm[r] # "enabled")
            ~> (\A q \in Ranks : step[q] = "built" /\ ~Usable(q))
=============================================================================
