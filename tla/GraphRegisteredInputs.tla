------------------------ MODULE GraphRegisteredInputs -----------------------
(* Graph capture of custom all-reduce calls with registered inputs          *)
(* (musa_jit_custom_all_reduce.py: capture, _graph_rank_data_for_input,     *)
(* _register_graph_buffers).                                                *)
(*                                                                          *)
(* A captured kernel reads its peers' input tensors in place, through a row *)
(* of pointers that is filled in after the capture: every rank sends the    *)
(* IPC handle and the offset of each tensor it has captured, in order, and  *)
(* opens its peers' handles.  The rows pair the tensors by position only.   *)
(* A rank that raises leaves; the process group tells its peers, who wait   *)
(* for its broadcast, that it is gone.                                      *)
EXTENDS Integers, Sequences

CONSTANTS
    NRanks,         \* the size of the communicator
    CapturePlans,   \* each a sequence of captures [piecewise, calls]; a call is
                    \* "small" or "large"; the same on every rank
    Bases,          \* memory segments a tensor can be in
    Offsets,        \* places in a segment
    Capacity,       \* rows of graph_rank_data
    MaxFrees,       \* bound: segments given back and taken again
    MaxFaults       \* bound: calls missed or failing

Ranks == 0 .. NRanks - 1
Capture == [piecewise : BOOLEAN, calls : Seq({"small", "large"})]

ASSUME CaptureAssumption ==
    /\ NRanks \in Nat \ {0}
    /\ CapturePlans \subseteq Seq(Capture)

VARIABLES
    plan,
    phase,      \* phase[r]: "idle", "body", "gather" (registering) or "raised"
    done,       \* done[r]: captures that ended well
    work,       \* work[r]: the calls of the capture still to come
    segment,    \* segment[r][b]: how often base b has been allocated anew
    pending,    \* pending[r]: tensors captured and not yet registered
    refs,       \* refs[r]: tensors kept alive for the graphs
    graphs,     \* graphs[r][slot]: the tensor of the kernel that uses the row
    rows,       \* rows[r][slot][q]: where the kernel looks for q's tensor
    handles,    \* handles[r]: base -> exported handle, _graph_local_handles
    opened,     \* opened[r]: <<q, handle>> mapped, _graph_peer_bases
    turn,       \* turn[r]: whose broadcast r takes part in next
    posted,     \* posted[r]: what r has broadcast, one per registration
    frees, faults

vars == <<plan, phase, done, work, segment, pending, refs, graphs, rows, handles,
          opened, turn, posted, frees, faults>>

registry == <<refs, rows, handles, opened>>
exchange == <<turn, posted>>

Init ==
    /\ plan \in CapturePlans
    /\ phase = [r \in Ranks |-> "idle"]
    /\ done = [r \in Ranks |-> 0]
    /\ work = [r \in Ranks |-> <<>>]
    /\ segment = [r \in Ranks |-> [b \in Bases |-> 0]]
    /\ pending = [r \in Ranks |-> <<>>]
    /\ refs = [r \in Ranks |-> {}]
    /\ graphs = [r \in Ranks |-> <<>>]
    /\ rows = [r \in Ranks |-> <<>>]
    /\ handles = [r \in Ranks |-> <<>>]
    /\ opened = [r \in Ranks |-> {}]
    /\ turn = [r \in Ranks |-> 0]
    /\ posted = [r \in Ranks |-> <<>>]
    /\ frees = 0
    /\ faults = 0

EnterCapture(r) ==
    /\ phase[r] = "idle"
    /\ done[r] < Len(plan)
    /\ phase' = [phase EXCEPT ![r] = "body"]
    /\ work' = [work EXCEPT ![r] = plan[done[r] + 1].calls]
    /\ UNCHANGED <<plan, done, segment, pending, registry, graphs, exchange, frees, faults>>

InBody(r) == phase[r] = "body" /\ work[r] # <<>>

NextCall(r) ==
    <<done[r] + 1, Len(plan[done[r] + 1].calls) - Len(work[r]) + 1>>

Registers(r) == ~ plan[done[r] + 1].piecewise /\ Head(work[r]) = "small"

NextSlot(r) == Len(rows[r])

Kept(r) == refs[r] \cup {pending[r][i] : i \in DOMAIN pending[r]}

(* The allocator takes the first free place of a segment.                   *)
Place(r, b) ==
    LET free == Offsets \ {t.off : t \in {u \in Kept(r) : u.base = b}}
    IN {o \in free : \A p \in free : o <= p}

(* The exception leaves the with; what was pending is dropped.              *)
Raise(r) ==
    /\ phase' = [phase EXCEPT ![r] = "raised"]
    /\ pending' = [pending EXCEPT ![r] = <<>>]
    /\ UNCHANGED <<done, work>>

Full(r) == NextSlot(r) + Len(pending[r]) >= Capacity

(* The kernel is captured with the row its tensor will have.                *)
CaptureCall(r) ==
    /\ InBody(r) /\ Registers(r) /\ ~ Full(r)
    /\ \E b \in Bases : \E o \in Place(r, b) :
          LET t == [call |-> NextCall(r), base |-> b, off |-> o]
          IN /\ pending' = [pending EXCEPT ![r] = Append(@, t)]
             /\ graphs' = [graphs EXCEPT ![r] = Append(@, t)]
    /\ work' = [work EXCEPT ![r] = Tail(@)]
    /\ UNCHANGED <<plan, phase, done, segment, registry, exchange, frees, faults>>

(* A larger tensor, or one of a piecewise graph, goes through the staging   *)
(* buffer.                                                                  *)
CaptureStagedCall(r) ==
    /\ InBody(r) /\ ~ Registers(r)
    /\ work' = [work EXCEPT ![r] = Tail(@)]
    /\ UNCHANGED <<plan, phase, done, segment, pending, registry, graphs, exchange, frees, faults>>

RefuseCall(r) ==
    /\ InBody(r) /\ Registers(r) /\ Full(r)
    /\ Raise(r)
    /\ UNCHANGED <<plan, segment, registry, graphs, exchange, frees, faults>>

(* One rank's call does not take the custom path.                           *)
MissCall(r) ==
    /\ InBody(r) /\ faults < MaxFaults
    /\ faults' = faults + 1
    /\ work' = [work EXCEPT ![r] = Tail(@)]
    /\ UNCHANGED <<plan, phase, done, segment, pending, registry, graphs, exchange, frees>>

(* capture's except and finally: nothing is registered, the error goes on.  *)
AfterError(r) == Raise(r)

FailBody(r) ==
    /\ phase[r] = "body" /\ faults < MaxFaults
    /\ faults' = faults + 1
    /\ AfterError(r)
    /\ UNCHANGED <<plan, segment, registry, graphs, exchange, frees>>

(* A capture without a registered input is over.                            *)
FinishBody(r) ==
    /\ phase[r] = "body" /\ work[r] = <<>> /\ pending[r] = <<>>
    /\ phase' = [phase EXCEPT ![r] = "idle"]
    /\ done' = [done EXCEPT ![r] = @ + 1]
    /\ UNCHANGED <<plan, work, segment, pending, registry, graphs, exchange, frees, faults>>

-----------------------------------------------------------------------------
(* Registration.                                                            *)

BasesOf(ts) == {ts[i].base : i \in DOMAIN ts}

LiveHandle(r, b) == <<b, segment[r][b]>>

(* A base is exported once; afterwards its handle comes from the cache.     *)
StartRegistration(r) ==
    /\ phase[r] = "body" /\ work[r] = <<>> /\ pending[r] # <<>>
    /\ phase' = [phase EXCEPT ![r] = "gather"]
    /\ handles' = [handles EXCEPT ![r] =
            [b \in DOMAIN @ \cup BasesOf(pending[r]) |->
                IF b \in DOMAIN @ THEN @[b] ELSE LiveHandle(r, b)]]
    /\ UNCHANGED <<plan, done, work, segment, pending, refs, rows, opened, graphs,
                   exchange, frees, faults>>

(* _graph_pointer_meta of every pending tensor *)
LocalMeta(r) ==
    [i \in DOMAIN pending[r] |-> <<handles[r][pending[r][i].base], pending[r][i].off>>]

(* The registrations of a rank pair up with its peers' by their number.     *)
Round(r) == Len(posted[r]) + (IF turn[r] > r THEN 0 ELSE 1)

(* mutant: a rank sends only when it has received what the others send *)
SendLast(r) ==
    /\ phase[r] = "gather" /\ turn[r] < NRanks
    /\ \A q \in Ranks \ {r} : Len(posted[q]) >= Round(r)
    /\ posted' = IF turn[r] = r THEN [posted EXCEPT ![r] = Append(@, LocalMeta(r))] ELSE posted
    /\ turn' = [turn EXCEPT ![r] = @ + 1]
    /\ UNCHANGED <<plan, phase, done, work, segment, pending, registry, graphs, frees, faults>>

Broadcast(r) ==
    /\ phase[r] = "gather" /\ turn[r] < NRanks
    /\ IF turn[r] = r
       THEN posted' = [posted EXCEPT ![r] = Append(@, LocalMeta(r))]
       ELSE Len(posted[turn[r]]) >= Round(r) /\ UNCHANGED posted
    /\ turn' = [turn EXCEPT ![r] = @ + 1]
    /\ UNCHANGED <<plan, phase, done, work, segment, pending, registry, graphs, frees, faults>>

(* A rank that has left sends nothing more, nor does one that is through    *)
(* its captures.                                                            *)
Silent(q) == phase[q] = "raised" \/ (phase[q] = "idle" /\ done[q] = Len(plan))

(* The broadcast r waits for does not come: the group says so, at the       *)
(* latest when its timeout has passed.                                      *)
LosePeer(r) ==
    /\ phase[r] = "gather" /\ turn[r] < NRanks
    /\ Silent(turn[r])
    /\ Len(posted[turn[r]]) < Round(r)
    /\ Raise(r)
    /\ UNCHANGED <<plan, segment, registry, graphs, exchange, frees, faults>>

Gathered(r, q) == posted[q][Round(r)]

SameCount(r) == \A q \in Ranks : Len(Gathered(r, q)) = Len(pending[r])

CountsDiffer(r) ==
    /\ phase[r] = "gather" /\ turn[r] = NRanks
    /\ ~ SameCount(r)
    /\ Raise(r)
    /\ UNCHANGED <<plan, segment, registry, graphs, exchange, frees, faults>>

(* mutant: the registered tensors are not kept *)
KeepNothing(r) == refs[r]

KeepInputs(r) == Kept(r)

(* A rank uses its own tensor's address, and maps a peer's handle once.     *)
NewRows(r) ==
    [i \in DOMAIN pending[r] |->
        [q \in Ranks |->
            IF q = r THEN <<LiveHandle(r, pending[r][i].base), pending[r][i].off>>
            ELSE Gathered(r, q)[i]]]

Register(r) ==
    /\ phase[r] = "gather" /\ turn[r] = NRanks
    /\ SameCount(r)
    /\ rows' = [rows EXCEPT ![r] = @ \o NewRows(r)]
    /\ opened' = [opened EXCEPT ![r] = @ \cup
            UNION {{<<q, Gathered(r, q)[i][1]>> : i \in DOMAIN pending[r]} : q \in Ranks \ {r}}]
    /\ refs' = [refs EXCEPT ![r] = KeepInputs(r)]
    /\ pending' = [pending EXCEPT ![r] = <<>>]
    /\ turn' = [turn EXCEPT ![r] = 0]
    /\ phase' = [phase EXCEPT ![r] = "idle"]
    /\ done' = [done EXCEPT ![r] = @ + 1]
    /\ UNCHANGED <<plan, work, segment, handles, graphs, posted, frees, faults>>

(* A peer's handle that is not mapped yet cannot be opened.                 *)
OpenFails(r) ==
    /\ phase[r] = "gather" /\ turn[r] = NRanks /\ faults < MaxFaults
    /\ SameCount(r)
    /\ \E q \in Ranks \ {r}, i \in DOMAIN pending[r] :
            <<q, Gathered(r, q)[i][1]>> \notin opened[r]
    /\ faults' = faults + 1
    /\ Raise(r)
    /\ UNCHANGED <<plan, segment, registry, graphs, exchange, frees>>

(* Between captures the allocator gives an empty segment back, and another  *)
(* allocation, with a handle of its own, gets the same address.             *)
Reallocate(r, b) ==
    /\ phase[r] = "idle" /\ frees < MaxFrees
    /\ \A t \in Kept(r) : t.base # b
    /\ segment' = [segment EXCEPT ![r][b] = @ + 1]
    /\ frees' = frees + 1
    /\ UNCHANGED <<plan, phase, done, work, pending, registry, graphs, exchange, faults>>

Step(r) ==
    \/ EnterCapture(r) \/ CaptureCall(r) \/ CaptureStagedCall(r) \/ RefuseCall(r)
    \/ FinishBody(r) \/ StartRegistration(r)
    \/ Broadcast(r) \/ LosePeer(r) \/ CountsDiffer(r) \/ Register(r)

Next ==
    \E r \in Ranks :
        \/ Step(r)
        \/ MissCall(r) \/ FailBody(r) \/ OpenFails(r)
        \/ \E b \in Bases : Reallocate(r, b)

Spec == Init /\ [][Next]_vars

(* Every rank runs the capture code; faults and reallocations are not forced. *)
FairSpec == Spec /\ \A r \in Ranks : WF_vars(Step(r))

-----------------------------------------------------------------------------

(* The calls of a capture that register their input, and those of them that *)
(* a rank has captured.                                                     *)
RegisteredCalls(k) ==
    {i \in DOMAIN plan[k].calls : ~ plan[k].piecewise /\ plan[k].calls[i] = "small"}

CapturedCalls(r, k) ==
    {graphs[r][s].call[2] : s \in {u \in DOMAIN graphs[r] : graphs[r][u].call[1] = k}}

(* The counts that the ranks compare show what r or q has missed of a       *)
(* capture: not if both have missed something, nor if one has missed all    *)
(* and does not come to the exchange.                                       *)
MissesShow(r, q, k) ==
    RegisteredCalls(k) # {} =>
        /\ CapturedCalls(r, k) # {} /\ CapturedCalls(q, k) # {}
        /\ RegisteredCalls(k) \in {CapturedCalls(r, k), CapturedCalls(q, k)}

(* Through its row, a captured kernel finds in every rank the live memory   *)
(* of the tensor of that rank's kernel with this row: after any number of   *)
(* captures, with segments shared and freed, and after any faults.  And it  *)
(* is the tensor of the same call, as far as the counts can tell.           *)
RowsResolve ==
    \A r, q \in Ranks : \A s \in DOMAIN rows[r] :
        phase[r] # "raised" /\ phase[q] # "raised" =>
            /\ s \in DOMAIN graphs[q]
            /\ rows[r][s][q] = <<LiveHandle(q, graphs[q][s].base), graphs[q][s].off>>
            /\ (\A k \in 1 .. graphs[r][s].call[1] : MissesShow(r, q, k))
                    => graphs[q][s].call = graphs[r][s].call

(* Every rank comes through all captures or raises: none waits for ever for *)
(* a broadcast.                                                             *)
EveryRankEnds ==
    <>[](\A r \in Ranks : phase[r] = "raised" \/ (phase[r] = "idle" /\ done[r] = Len(plan)))
=============================================================================
