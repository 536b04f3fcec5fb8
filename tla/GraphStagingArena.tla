-------------------------- MODULE GraphStagingArena -------------------------
(* Graph capture of custom all-reduce calls into the staging arena          *)
(* (musa_jit_custom_all_reduce.py: capture, _graph_staging_launch_args,     *)
(* _validate_graph_staging_capture).                                        *)
(*                                                                          *)
(* A captured call is replayed for ever with the addresses it was captured  *)
(* with: an offset into every rank's staging buffer and an offset into      *)
(* every rank's signal buffer.  Each rank picks the offsets by itself, from *)
(* its own cursor; the graphs work only if all ranks picked the same ones,  *)
(* and no two calls share them.  A capture may fail on one rank, and what   *)
(* it took from the arena is not given back.                                *)
EXTENDS Integers, Sequences, FiniteSets, FiniteSetsExt

CONSTANTS
    NRanks,             \* the size of the communicator
    CapturePlans,       \* each a sequence of captures, a capture a sequence of
                        \* descriptors; the same on every rank
    PlanDescriptors,    \* the descriptors the plan allows (by number of tokens)
    OpsPerDescriptor,   \* car_ops_per_descriptor: calls in one model forward
    BytesPerToken,
    EagerReserve,       \* bytes in front of the arena for eager calls
    MetaSize,           \* sizeof(Signal)
    MaxMetaPerSlot,     \* the plan's bound on MetaSize
    Alignment,          \* _GRAPH_STAGING_ALIGNMENT
    StraySizes,         \* sizes, in bytes, of inputs the plan does not foresee
    MaxFaults           \* bound: calls that fail, miss the custom path, or stray

Ranks == 0 .. NRanks - 1

Align(n) == ((n + Alignment - 1) \div Alignment) * Alignment

(* the size of a descriptor's inputs in the plan *)
InputBytes(d) == d * BytesPerToken

(* what a call uses behind its signals: room for a whole input of n bytes *)
MetaBytesUsed(n) == MetaSize + n

DataSlotBytes(n) == Align(n)

(* mutant: the slot has room for the signals only *)
SignalBytesOnly(n) == Align(MetaSize)

MetaSlotBytes(n) == Align(MetaSize + n)

DataCapacity == OpsPerDescriptor * SumSet(PlanDescriptors) * BytesPerToken

MetaCapacity ==
    DataCapacity + OpsPerDescriptor * Cardinality(PlanDescriptors) * MaxMetaPerSlot

DataStart == EagerReserve
MetaStart == Align(MetaSize + EagerReserve)
DataLimit == DataStart + DataCapacity
MetaLimit == MetaStart + MetaCapacity

(* The last line is what the sizes of the buffers come to, stated apart     *)
(* because it sums over the plan.                                           *)
ASSUME ArenaAssumption ==
    /\ NRanks \in Nat \ {0} /\ MaxFaults \in Nat
    /\ CapturePlans \subseteq Seq(Seq(Nat))
    /\ PlanDescriptors \subseteq Nat /\ StraySizes \subseteq Nat
    /\ {OpsPerDescriptor, BytesPerToken, EagerReserve, MetaSize, MaxMetaPerSlot} \subseteq Nat
    /\ Alignment \in Nat \ {0}
    /\ MetaSize <= MaxMetaPerSlot
    /\ \A d \in PlanDescriptors : InputBytes(d) % Alignment = 0
    /\ MaxMetaPerSlot % Alignment = 0
    /\ DataCapacity \in Nat /\ MetaCapacity \in Nat

VARIABLES
    plan,           \* the captures every rank will go through
    phase,          \* phase[r]: "idle", "body" (inside the with), or "vote"
    work,           \* work[r]: the descriptors of the calls still to capture
    failed,         \* failed[r]: the body of this capture raised
    ledger,         \* ledger[r]: the slots taken so far, in order
    dataOffset,     \* dataOffset[r], metaOffset[r]: the arena's cursors
    metaOffset,
    ledgerStart,    \* ledgerStart[r]: Len(ledger[r]) when this capture began
    captured,       \* captured[r]: descriptors with a validated graph
    turn,           \* turn[r]: whose broadcast rank r takes part in next
    posted,         \* posted[r]: the payloads r has broadcast, one per capture
    verdicts,       \* verdicts[r]: how each of r's captures ended
    faults

vars == <<plan, phase, work, failed, ledger, dataOffset, metaOffset,
          ledgerStart, captured, turn, posted, verdicts, faults>>

Entry(d, n, data, meta) ==
    [desc |-> d, bytes |-> n, data |-> data, dataSize |-> DataSlotBytes(n),
     meta |-> meta, metaSize |-> MetaSlotBytes(n)]

Init ==
    /\ plan \in CapturePlans
    /\ phase = [r \in Ranks |-> "idle"]
    /\ work = [r \in Ranks |-> <<>>]
    /\ failed = [r \in Ranks |-> FALSE]
    /\ ledger = [r \in Ranks |-> <<>>]
    /\ dataOffset = [r \in Ranks |-> DataStart]
    /\ metaOffset = [r \in Ranks |-> MetaStart]
    /\ ledgerStart = [r \in Ranks |-> 0]
    /\ captured = [r \in Ranks |-> {}]
    /\ turn = [r \in Ranks |-> 0]
    /\ posted = [r \in Ranks |-> <<>>]
    /\ verdicts = [r \in Ranks |-> <<>>]
    /\ faults = 0

arena == <<ledger, dataOffset, metaOffset>>
voting == <<turn, posted, verdicts>>

(* The calls of a capture: one forward for each of its descriptors.         *)
Calls(descs) ==
    [i \in 1 .. Len(descs) * OpsPerDescriptor |->
        descs[(i - 1) \div OpsPerDescriptor + 1]]

EnterCapture(r) ==
    /\ phase[r] = "idle"
    /\ Len(verdicts[r]) < Len(plan)
    /\ phase' = [phase EXCEPT ![r] = "body"]
    /\ work' = [work EXCEPT ![r] = Calls(plan[Len(verdicts[r]) + 1])]
    /\ failed' = [failed EXCEPT ![r] = FALSE]
    /\ ledgerStart' = [ledgerStart EXCEPT ![r] = Len(ledger[r])]
    /\ UNCHANGED <<plan, arena, captured, voting, faults>>

(* mutant: an exception leaves the capture with no vote *)
LeaveWithoutVote(r) ==
    /\ failed' = [failed EXCEPT ![r] = TRUE]
    /\ phase' = [phase EXCEPT ![r] = "idle"]
    /\ work' = [work EXCEPT ![r] = <<>>]
    /\ verdicts' = [verdicts EXCEPT ![r] = Append(@, "failed")]
    /\ UNCHANGED <<turn, posted>>

(* The body raises: nothing is given back, and the vote follows.            *)
RaiseInBody(r) ==
    /\ failed' = [failed EXCEPT ![r] = TRUE]
    /\ phase' = [phase EXCEPT ![r] = "vote"]
    /\ work' = [work EXCEPT ![r] = <<>>]
    /\ UNCHANGED voting

NextCall(r) == Head(work[r])

InBody(r) == phase[r] = "body" /\ work[r] # <<>>

(* mutant: nothing limits the cursors *)
NeverExhausted(r, n) == FALSE

Exhausted(r, n) ==
    \/ dataOffset[r] + DataSlotBytes(n) > DataLimit
    \/ metaOffset[r] + MetaSlotBytes(n) > MetaLimit

(* A call for a descriptor outside the plan takes the standard collective.  *)
CaptureStandardCall(r) ==
    /\ InBody(r)
    /\ NextCall(r) \notin PlanDescriptors
    /\ work' = [work EXCEPT ![r] = Tail(@)]
    /\ UNCHANGED <<plan, phase, failed, arena, ledgerStart, captured, voting, faults>>

(* A call with an input of n bytes gets the next slots of the arena; its    *)
(* descriptor has no graph yet.                                             *)
TakeSlots(r, n) ==
    LET d == NextCall(r)
    IN  /\ InBody(r)
        /\ d \in PlanDescriptors
        /\ d \notin captured[r]
        /\ ~ Exhausted(r, n)
        /\ ledger' = [ledger EXCEPT ![r] = Append(@, Entry(d, n, dataOffset[r], metaOffset[r]))]
        /\ dataOffset' = [dataOffset EXCEPT ![r] = @ + DataSlotBytes(n)]
        /\ metaOffset' = [metaOffset EXCEPT ![r] = @ + MetaSlotBytes(n)]
        /\ work' = [work EXCEPT ![r] = Tail(@)]
        /\ UNCHANGED <<plan, phase, failed, ledgerStart, captured, voting>>

CaptureCall(r) ==
    /\ TakeSlots(r, InputBytes(NextCall(r)))
    /\ UNCHANGED faults

(* One rank's tensor has another size than its descriptor in the plan.      *)
StrayCall(r) ==
    /\ faults < MaxFaults
    /\ faults' = faults + 1
    /\ \E n \in StraySizes : TakeSlots(r, n)

(* The arena refuses the call: the descriptor already has a graph, or the   *)
(* arena is exhausted.                                                      *)
RefuseCall(r) ==
    /\ InBody(r)
    /\ NextCall(r) \in PlanDescriptors
    /\ NextCall(r) \in captured[r] \/ Exhausted(r, InputBytes(NextCall(r)))
    /\ RaiseInBody(r)
    /\ UNCHANGED <<plan, arena, ledgerStart, captured, faults>>

(* One rank's tensor is not eligible for the custom path.                   *)
MissCall(r) ==
    /\ InBody(r)
    /\ faults < MaxFaults
    /\ faults' = faults + 1
    /\ work' = [work EXCEPT ![r] = Tail(@)]
    /\ UNCHANGED <<plan, phase, failed, arena, ledgerStart, captured, voting>>

(* The captured code raises on one rank, before, between or after calls,    *)
(* or in one: a stray input that does not fit.                              *)
FailBody(r) ==
    /\ phase[r] = "body"
    /\ faults < MaxFaults
    /\ faults' = faults + 1
    /\ RaiseInBody(r)
    /\ UNCHANGED <<plan, arena, ledgerStart, captured>>

FinishBody(r) ==
    /\ phase[r] = "body"
    /\ work[r] = <<>>
    /\ phase' = [phase EXCEPT ![r] = "vote"]
    /\ UNCHANGED <<plan, work, failed, arena, ledgerStart, captured, voting, faults>>

-----------------------------------------------------------------------------
(* The vote.                                                                *)

EntriesOf(led, d) == {i \in DOMAIN led : led[i].desc = d}

Grouped(led) == {led[i].desc : i \in DOMAIN led}

(* The whole ledger, over all captures, must be what the plan foresees for  *)
(* the descriptors in it.                                                   *)
ManifestOK(r) ==
    LET descs == Grouped(ledger[r])
    IN  /\ descs \subseteq PlanDescriptors
        /\ \A d \in descs : Cardinality(EntriesOf(ledger[r], d)) = OpsPerDescriptor
        /\ \A i \in DOMAIN ledger[r] : ledger[r][i].bytes = InputBytes(ledger[r][i].desc)
        /\ dataOffset[r] - DataStart
              = MapThenSumSet(LAMBDA d : Align(OpsPerDescriptor * InputBytes(d)), descs)
        /\ metaOffset[r] - MetaStart
              = MapThenSumSet(LAMBDA d : OpsPerDescriptor * MetaSlotBytes(InputBytes(d)), descs)

Payload(r) == [success |-> ~ failed[r] /\ ManifestOK(r), ledger |-> ledger[r]]

CaptureNumber(r) == Len(verdicts[r]) + 1

(* Rank r broadcasts its own payload in its turn, and waits for the others  *)
(* in theirs.                                                               *)
Broadcast(r) ==
    /\ phase[r] = "vote"
    /\ turn[r] < NRanks
    /\ IF turn[r] = r
       THEN posted' = [posted EXCEPT ![r] = Append(@, Payload(r))]
       ELSE Len(posted[turn[r]]) >= CaptureNumber(r) /\ UNCHANGED posted
    /\ turn' = [turn EXCEPT ![r] = @ + 1]
    /\ UNCHANGED <<plan, phase, work, failed, arena, ledgerStart, captured, verdicts, faults>>

Gathered(r, q) == posted[q][CaptureNumber(r)]

(* mutant: a rank looks at its own success only *)
OwnFailure(r) == ~ Gathered(r, r).success

AnyFailure(r) == \E q \in Ranks : ~ Gathered(r, q).success

(* mutant: the ledgers are not compared *)
NoComparison(r) == FALSE

LedgersDiffer(r) == \E q \in Ranks : Gathered(r, q).ledger # ledger[r]

Verdict(r) ==
    IF AnyFailure(r) THEN "failed"
    ELSE IF LedgersDiffer(r) THEN "diverged"
    ELSE "captured"

NewDescriptors(r) ==
    {ledger[r][i].desc : i \in ledgerStart[r] + 1 .. Len(ledger[r])}

Decide(r) ==
    /\ phase[r] = "vote"
    /\ turn[r] = NRanks
    /\ verdicts' = [verdicts EXCEPT ![r] = Append(@, Verdict(r))]
    /\ captured' = IF Verdict(r) = "captured"
                   THEN [captured EXCEPT ![r] = @ \cup NewDescriptors(r)]
                   ELSE captured
    /\ turn' = [turn EXCEPT ![r] = 0]
    /\ phase' = [phase EXCEPT ![r] = "idle"]
    /\ UNCHANGED <<plan, work, failed, arena, ledgerStart, posted, faults>>

Step(r) ==
    \/ EnterCapture(r)
    \/ CaptureStandardCall(r)
    \/ CaptureCall(r)
    \/ RefuseCall(r)
    \/ FinishBody(r)
    \/ Broadcast(r)
    \/ Decide(r)

Next == \E r \in Ranks : Step(r) \/ MissCall(r) \/ StrayCall(r) \/ FailBody(r)

Spec == Init /\ [][Next]_vars

(* Every rank runs the capture code; a fault is never forced.               *)
FairSpec == Spec /\ \A r \in Ranks : WF_vars(Step(r))

-----------------------------------------------------------------------------

(* Every variable stays in its range; the cursors stay inside the arena.    *)
TypeOK ==
    /\ plan \in CapturePlans
    /\ phase \in [Ranks -> {"idle", "body", "vote"}]
    /\ failed \in [Ranks -> BOOLEAN]
    /\ dataOffset \in [Ranks -> DataStart .. DataLimit]
    /\ metaOffset \in [Ranks -> MetaStart .. MetaLimit]
    /\ captured \in [Ranks -> SUBSET PlanDescriptors]
    /\ turn \in [Ranks -> 0 .. NRanks]
    /\ faults \in 0 .. MaxFaults

Apart(a, asize, b, bsize) == a + asize <= b \/ b + bsize <= a

(* No two captured calls of a rank, in whatever captures, share staging or  *)
(* signal and temporary storage, nor does one use the storage of eager      *)
(* calls: two graphs may be replayed back to back with no barrier between.  *)
SlotsDisjoint ==
    \A r \in Ranks : \A i, j \in DOMAIN ledger[r] :
        LET e == ledger[r][i]
            f == ledger[r][j]
        IN  /\ e.data >= EagerReserve /\ e.meta >= MetaSize + EagerReserve
            /\ i # j =>
                  /\ Apart(e.data, e.bytes, f.data, f.bytes)
                  /\ Apart(e.meta, MetaBytesUsed(e.bytes), f.meta, MetaBytesUsed(f.bytes))

(* Once one rank has accepted a descriptor, it has all the slots of its     *)
(* graph, for inputs of the planned size, and takes no more; every rank has *)
(* taken the same slots, in the same place of its ledger, and keeps it so.  *)
(* Whether a rank took them in the capture that was accepted, or before,    *)
(* the ledgers do not tell.                                                 *)
AcceptedSlotsAgree ==
    \A r, q \in Ranks : \A d \in captured[r] :
        /\ Cardinality(EntriesOf(ledger[r], d)) = OpsPerDescriptor
        /\ \A i \in EntriesOf(ledger[r], d) :
              /\ i \in DOMAIN ledger[q] /\ ledger[q][i] = ledger[r][i]
              /\ ledger[r][i].bytes = InputBytes(d)

(* All ranks end a capture the same way: either all keep the graphs of the  *)
(* capture, or all raise.                                                   *)
SameVerdict ==
    \A r, q \in Ranks :
        \A c \in 1 .. Len(verdicts[r]) :
            c <= Len(verdicts[q]) => verdicts[r][c] = verdicts[q][c]

(* Whatever fails on whichever rank, no rank waits in the vote for ever.    *)
EveryCaptureEnds == <>[](\A r \in Ranks : Len(verdicts[r]) = Len(plan))
=============================================================================
