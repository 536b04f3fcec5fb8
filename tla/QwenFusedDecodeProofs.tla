------------------------ MODULE QwenFusedDecodeProofs ------------------------
(* For any requests, slots and ranks: the model reads the tokens that its   *)
(* requests were given last, copied or not; no two draws share noise        *)
(* (Sampling's OwnNoise, of the same requests on both workers); and the     *)
(* ranks sample the same tokens, and the right ones, whichever sampler      *)
(* takes the batch (Sampling's TokensRight).                                *)
EXTENDS QwenFusedDecode, FiniteSetTheorems, TLAPS

-----------------------------------------------------------------------------
(* The inductive invariant.                                                 *)

Live == {s \in Slots : slots[s] # None}

Typing ==
    /\ stage = [r \in Ranks |-> stage[r]]
    /\ slots = [s \in Slots |-> slots[s]]
    /\ count = [s \in Slots |-> count[s]]

(* A step runs on every rank or on none.                                    *)
Running ==
    /\ \A r \in Ranks : stage[r] = "idle" <=> batch = <<>>
    /\ batch # <<>> => batch \in Batches

(* No two requests have the same id.                                        *)
OwnIds ==
    /\ \A s \in Live : slots[s].id \in Nat
    /\ \A s, u \in Live : slots[s].id = slots[u].id => s = u
    /\ \A q \in fresh : q.id \in Nat /\ \A s \in Live : slots[s].id # q.id
    /\ \A q, p \in fresh : q.id = p.id => q = p

(* The step's requests are pending if it may write the buffer.              *)
Selected ==
    /\ Legacy \/ ~ Family => primed = None /\ pending = None
    /\ batch = <<>> => pending = None
    /\ batch # <<>> /\ ~ Legacy =>
          primed = None /\ pending = IF UniformDecode(batch) THEN Ids(batch) ELSE None

(* Between steps the buffer has the last token of every request it was      *)
(* written for that still runs, whichever slots have changed hands.         *)
Buffered ==
    primed # None =>
        \A r \in Ranks, i \in DOMAIN primed, s \in Live :
            slots[s].id = primed[i] /\ count[s] # 0 => inputIds[r][i] = lastSampled[r][s]

IInv == Typing /\ Running /\ OwnIds /\ Selected /\ Buffered /\ InputsRight

-----------------------------------------------------------------------------
(* A step's rows are in different slots, all in use, and no more than the   *)
(* buffer has positions.                                                    *)
LEMMA BatchFacts ==
    ASSUME OwnIds, NEW b \in Batches
    PROVE  /\ b # <<>>
           /\ \A i \in DOMAIN b : b[i] \in Live /\ i \in Positions
           /\ \A i, j \in DOMAIN b : b[i] = b[j] => i = j
           /\ Ids(b) \in Seq(Nat) /\ DOMAIN Ids(b) = DOMAIN b
           /\ \A i \in DOMAIN b : Ids(b)[i] = slots[b[i]].id
<1>1. PICK n \in 1 .. Cardinality(Slots) : b \in [1 .. n -> {s \in Slots : slots[s] # None}]
  BY DEF Batches
<1>2. Cardinality(Slots) \in Nat
  BY WorkloadAssumption, FS_CardinalityType
<1>3. /\ DOMAIN b = 1 .. n /\ 1 \in DOMAIN b /\ n \in Nat
      /\ \A i \in DOMAIN b : b[i] \in Live /\ i \in Positions
  BY <1>1, <1>2 DEF Live, Positions
<1>4. b # <<>>
  BY <1>3
<1>5. \A i, j \in DOMAIN b : b[i] = b[j] => i = j
  <2>1. \A i, j \in DOMAIN b : i < j => b[i] # b[j]
    BY DEF Batches
  <2>2. \A i, j \in DOMAIN b : i # j => i < j \/ j < i
    BY <1>3
  <2>3. QED
    BY <2>1, <2>2
<1>6. /\ Ids(b) = [i \in 1 .. n |-> slots[b[i]].id]
      /\ \A i \in 1 .. n : slots[b[i]].id \in Nat
  BY <1>3 DEF Ids, OwnIds
<1>7. Ids(b) \in Seq(Nat)
  BY <1>3, <1>6
<1>8. QED
  BY <1>3, <1>4, <1>5, <1>6, <1>7

(* What a step depends on while it runs.                                    *)
LEMMA StepSame ==
    ASSUME IInv, UNCHANGED <<setup, fresh, slots, count, batch, inputVars>>
    PROVE  OwnIds' /\ Selected' /\ Buffered' /\ InputsRight' /\ (batch' # <<>> => batch' \in Batches')
<1>1. UNCHANGED <<setup, fresh, slots, count, batch, primed, pending, lastSampled, inputIds>>
  BY DEF inputVars
<1>2. /\ Live' = Live /\ Rows' = Rows /\ Batches' = Batches
      /\ \A b : UniformDecode(b)' = UniformDecode(b) /\ Ids(b)' = Ids(b)
      /\ \A b, i : IsPrefilling(b, i)' = IsPrefilling(b, i)
      /\ Legacy' = Legacy /\ Family' = Family
  BY <1>1 DEF Live, Rows, Batches, UniformDecode, Ids, IsPrefilling, Legacy, Family
<1>3. OwnIds'
  BY <1>1, <1>2 DEF IInv, OwnIds
<1>4. Selected'
  BY <1>1, <1>2 DEF IInv, Selected
<1>5. Buffered'
  BY <1>1, <1>2 DEF IInv, Buffered
<1>6. InputsRight'
  BY <1>1, <1>2 DEF IInv, InputsRight
<1>7. QED
  BY <1>1, <1>2, <1>3, <1>4, <1>5, <1>6 DEF IInv, Running

(* A rank's step is in a batch, and goes on with it.                        *)
LEMMA RankStepFacts ==
    ASSUME NEW r \in Ranks, RankStep(r)
    PROVE  /\ UNCHANGED <<setup, fresh, slots, count, batch>>
           /\ stage[r] # "idle"
           /\ \E x : x # "idle" /\ stage' = [stage EXCEPT ![r] = x]
<1> USE DEF requestVars
<1>1. CASE ComputeLogits(r)
  BY <1>1 DEF ComputeLogits
<1>2. CASE SampleUnfiltered(r)
  BY <1>2 DEF SampleUnfiltered, Finish
<1>3. CASE SampleShard(r)
  BY <1>3 DEF SampleShard
<1>4. CASE ReducePairs(r)
  BY <1>4 DEF ReducePairs
<1>5. CASE SampleGreedy(r)
  BY <1>5 DEF SampleGreedy, LegacySampling, Finish
<1>6. CASE SampleLegacyGumbel(r)
  BY <1>6 DEF SampleLegacyGumbel, LegacySampling, Finish
<1>7. CASE SampleSeeded(r)
  BY <1>7 DEF SampleSeeded, LegacySampling, Finish
<1>8. CASE SampleNative(r)
  BY <1>8 DEF SampleNative, LegacySampling, Finish
<1>9. CASE SampleByPosition(r)
  BY <1>9 DEF SampleByPosition, WorkerSampling, Finish
<1>10. CASE SampleWorkerSeeded(r)
  BY <1>10 DEF SampleWorkerSeeded, WorkerSampling, Finish
<1>11. CASE SampleWorkerNative(r)
  BY <1>11 DEF SampleWorkerNative, WorkerSampling, Finish
<1>12. QED
  BY <1>1, <1>2, <1>3, <1>4, <1>5, <1>6, <1>7, <1>8, <1>9, <1>10, <1>11 DEF RankStep

(* Sampling itself touches none of the inputs.                              *)
LEMMA RankStepCorrect ==
    ASSUME IInv, NEW r \in Ranks, RankStep(r), UNCHANGED inputVars
    PROVE  IInv'
<1>1. PICK x : x # "idle" /\ stage' = [stage EXCEPT ![r] = x]
  BY RankStepFacts
<1>2. stage[r] # "idle" /\ UNCHANGED <<setup, fresh, slots, count, batch>>
  BY RankStepFacts
<1>3. /\ stage = [q \in Ranks |-> stage[q]]
      /\ slots = [s \in Slots |-> slots[s]] /\ count = [s \in Slots |-> count[s]]
  BY DEF IInv, Typing
<1>4. stage' = [q \in Ranks |-> stage'[q]] /\ \A q \in Ranks : stage'[q] = "idle" <=> stage[q] = "idle"
  BY <1>1, <1>2, <1>3
<1>5. Typing'
  BY <1>2, <1>3, <1>4 DEF Typing
<1>6. /\ OwnIds' /\ Selected' /\ Buffered' /\ InputsRight'
      /\ (batch' # <<>> => batch' \in Batches')
  BY <1>2, StepSame
<1>7. Running'
  BY <1>2, <1>4, <1>6 DEF IInv, Running
<1>8. QED
  BY <1>5, <1>6, <1>7 DEF IInv

(* Between steps no rank is in one.                                         *)
LEMMA IdleBetween ==
    ASSUME IInv, Idle
    PROVE  batch = <<>> /\ pending = None
BY WorkloadAssumption DEF IInv, Running, Selected, Idle

(* A request that comes has no token yet, so nothing is said of its slot.   *)
LEMMA AddRequestCorrect ==
    ASSUME IInv, NEW s \in Slots, NEW q \in fresh, AddRequest(s, q), UNCHANGED inputVars
    PROVE  IInv'
<1>1. /\ slots[s] = None /\ batch = <<>> /\ pending = None
      /\ fresh' = fresh \ {q} /\ slots' = [slots EXCEPT ![s] = q]
      /\ count' = [count EXCEPT ![s] = 0]
      /\ UNCHANGED <<setup, batch, stage, primed, pending, lastSampled, inputIds>>
  BY IdleBetween DEF AddRequest, inputVars
<1>2. /\ slots'[s] = q /\ count'[s] = 0
      /\ \A u \in Slots \ {s} : slots'[u] = slots[u] /\ count'[u] = count[u]
  BY <1>1 DEF IInv, Typing
<1>3. Typing'
  BY <1>1 DEF IInv, Typing
<1>4. Live' \subseteq Live \cup {s} /\ s \notin Live
  BY <1>1, <1>2 DEF Live
<1>5. OwnIds'
  BY <1>1, <1>2, <1>4 DEF IInv, OwnIds
<1>6. Running'
  BY <1>1 DEF IInv, Running
<1>7. Selected'
  BY <1>1 DEF IInv, Selected, Legacy, Family
<1>8. Buffered'
  <2>1. ASSUME NEW r \in Ranks, NEW i \in DOMAIN primed, NEW u \in Live', primed # None,
               slots'[u].id = primed[i], count'[u] # 0
        PROVE  inputIds[r][i] = lastSampled[r][u]
    <3>1. u # s /\ u \in Live
      BY <1>2, <1>4, <2>1
    <3>2. slots'[u] = slots[u] /\ count'[u] = count[u]
      BY <1>2, <3>1 DEF Live
    <3>3. QED
      BY <2>1, <3>1, <3>2 DEF IInv, Buffered
  <2>2. QED
    BY <1>1, <2>1 DEF Buffered
<1>9. InputsRight'
  BY <1>1 DEF InputsRight
<1>10. QED
  BY <1>3, <1>5, <1>6, <1>7, <1>8, <1>9 DEF IInv

(* Of a request that goes nothing is said any more.                         *)
LEMMA FinishRequestCorrect ==
    ASSUME IInv, NEW s \in Slots, FinishRequest(s), UNCHANGED inputVars
    PROVE  IInv'
<1>1. /\ batch = <<>> /\ slots' = [slots EXCEPT ![s] = None]
      /\ UNCHANGED <<setup, fresh, count, batch, stage, primed, pending, lastSampled, inputIds>>
  BY IdleBetween DEF FinishRequest, inputVars
<1>2. slots'[s] = None /\ \A u \in Slots \ {s} : slots'[u] = slots[u]
  BY <1>1 DEF IInv, Typing
<1>3. Typing'
  BY <1>1 DEF IInv, Typing
<1>4. \A u \in Live' : u \in Live /\ slots'[u] = slots[u]
  BY <1>2 DEF Live
<1>5. OwnIds'
  BY <1>1, <1>4 DEF IInv, OwnIds
<1>6. Running'
  BY <1>1 DEF IInv, Running
<1>7. Selected'
  BY <1>1 DEF IInv, Selected, Legacy, Family
<1>8. Buffered'
  BY <1>1, <1>4 DEF IInv, Buffered
<1>9. InputsRight'
  BY <1>1 DEF InputsRight
<1>10. QED
  BY <1>3, <1>5, <1>6, <1>7, <1>8, <1>9 DEF IInv

(* The buffer is left as it is only if it has the tokens of this step's     *)
(* requests.                                                                *)
LEMMA StartStepCorrect ==
    ASSUME IInv, NEW b \in Batches, StartStep(b)
    PROVE  IInv'
<1>1. /\ batch = <<>> /\ pending = None /\ batch' = b
      /\ stage' = [r \in Ranks |-> "begun"]
      /\ UNCHANGED <<setup, fresh, slots, count>>
  BY IdleBetween DEF StartStep, Schedule
<1>2. /\ b # <<>>
      /\ \A i \in DOMAIN b : b[i] \in Live /\ i \in Positions
      /\ Ids(b) \in Seq(Nat) /\ DOMAIN Ids(b) = DOMAIN b
      /\ \A i \in DOMAIN b : Ids(b)[i] = slots[b[i]].id
  BY BatchFacts DEF IInv
<1>3. /\ Live' = Live /\ Batches' = Batches
      /\ UniformDecode(b)' = UniformDecode(b) /\ Ids(b)' = Ids(b)
      /\ \A i : IsPrefilling(b, i)' = IsPrefilling(b, i)
      /\ Legacy' = Legacy /\ Family' = Family
  BY <1>1 DEF Live, Batches, UniformDecode, Ids, IsPrefilling, Legacy, Family
<1>4. Typing'
  BY <1>1 DEF IInv, Typing
<1>5. OwnIds'
  BY <1>1, <1>3 DEF IInv, OwnIds
<1>6. Running'
  BY <1>1, <1>2, <1>3 DEF Running
<1>7. CASE Legacy
  <2>1. UNCHANGED <<primed, pending, lastSampled, inputIds>>
    BY <1>7 DEF StartStep, inputVars
  <2>2. Selected'
    BY <1>1, <1>2, <1>3, <1>7, <2>1 DEF IInv, Selected
  <2>3. Buffered'
    BY <1>1, <1>3, <2>1 DEF IInv, Buffered
  <2>4. InputsRight'
    BY <1>3, <1>7 DEF InputsRight
  <2>5. QED
    BY <1>4, <1>5, <1>6, <2>2, <2>3, <2>4 DEF IInv
<1>8. CASE ~ Legacy
  <2>1. PrepareInputs(b)
    BY <1>8 DEF StartStep
  <2>2. primed' = None
    BY <2>1 DEF PrepareInputs, IInv, Selected
  <2>3. pending' = IF UniformDecode(b) THEN Ids(b) ELSE None
    BY <1>1, <2>1 DEF PrepareInputs
  <2>4. Selected'
    <3>1. ~ Family => pending' = None
      BY <2>3 DEF UniformDecode
    <3>2. UniformDecode(batch)' = UniformDecode(b) /\ Ids(batch)' = Ids(b)
      BY <1>1 DEF UniformDecode, Ids, Family, IsPrefilling
    <3>3. QED
      BY <1>1, <1>2, <1>3, <1>8, <2>2, <2>3, <3>1, <3>2 DEF Selected
  <2>5. Buffered'
    BY <2>2 DEF Buffered
  <2>6. ASSUME NEW r \in Ranks, NEW i \in DOMAIN b
        PROVE  inputIds'[r][i] = IF IsPrefilling(b, i) THEN PromptToken ELSE lastSampled[r][b[i]]
    <3>1. CASE UniformDecode(b) /\ SameRequests(b)
      <4>1. inputIds' = inputIds
        BY <2>1, <3>1 DEF PrepareInputs
      <4>2. ~ IsPrefilling(b, i) /\ count[b[i]] # 0
        BY <2>6, <3>1 DEF UniformDecode, IsPrefilling
      <4>3. primed = Ids(b) /\ primed # None
        BY <1>2, <3>1, NoneAssumption DEF SameRequests
      <4>4. i \in DOMAIN primed /\ b[i] \in Live /\ slots[b[i]].id = primed[i]
        BY <1>2, <2>6, <4>3
      <4>5. inputIds[r][i] = lastSampled[r][b[i]]
        BY <4>2, <4>3, <4>4 DEF IInv, Buffered
      <4>6. QED
        BY <4>1, <4>2, <4>5
    <3>2. CASE ~ (UniformDecode(b) /\ SameRequests(b))
      <4>1. i \in Positions
        BY <1>2, <2>6
      <4>2. QED
        BY <2>1, <2>6, <3>2, <4>1 DEF PrepareInputs
    <3>3. QED
      BY <3>1, <3>2
  <2>7. InputsRight'
    <3>1. lastSampled' = lastSampled /\ Rows' = DOMAIN b
      BY <1>1, <2>1 DEF PrepareInputs, Rows
    <3>2. \A i : IsPrefilling(batch, i)' = IsPrefilling(b, i)
      BY <1>1 DEF IsPrefilling
    <3>3. QED
      BY <1>1, <2>6, <3>1, <3>2 DEF InputsRight
  <2>8. QED
    BY <1>4, <1>5, <1>6, <2>4, <2>5, <2>7 DEF IInv
<1>9. QED
  BY <1>7, <1>8

(* In a step that may write the buffer, every row's token goes to the       *)
(* buffer and to the slot of its request.                                   *)
LEMMA FinishStepCorrect ==
    ASSUME IInv, FinishStep
    PROVE  IInv'
<1>1. /\ \A r \in Ranks : stage[r] = "done"
      /\ batch' = <<>> /\ stage' = [r \in Ranks |-> "idle"]
      /\ count' = Added(count, Rows \ partial)
      /\ UNCHANGED <<setup, fresh, slots>>
  BY DEF FinishStep, EndStep
<1>2. batch # <<>> /\ batch \in Batches
  BY <1>1, WorkloadAssumption DEF IInv, Running
<1>3. Live' = Live /\ Legacy' = Legacy /\ Family' = Family
  BY <1>1 DEF Live, Legacy, Family
<1>4. Typing'
  BY <1>1 DEF IInv, Typing, Added
<1>5. OwnIds'
  BY <1>1, <1>3 DEF IInv, OwnIds
<1>6. Running'
  BY <1>1 DEF Running
<1>7. InputsRight'
  BY <1>1 DEF InputsRight
<1>8. CASE Legacy
  <2>1. UNCHANGED <<primed, pending>>
    BY <1>8 DEF FinishStep, inputVars
  <2>2. primed' = None /\ pending' = None
    BY <1>8, <2>1 DEF IInv, Selected
  <2>3. Selected' /\ Buffered'
    BY <1>1, <2>2 DEF Selected, Buffered
  <2>4. QED
    BY <1>4, <1>5, <1>6, <1>7, <2>3 DEF IInv
<1>9. CASE ~ Legacy
  <2>1. PostUpdate
    BY <1>9 DEF FinishStep
  <2>2. primed' = pending /\ pending' = None
    BY <2>1 DEF PostUpdate
  <2>3. Selected'
    BY <1>1, <1>3, <1>9, <2>2 DEF IInv, Selected
  <2>4. Buffered'
    <3>1. CASE pending = None
      BY <2>2, <3>1 DEF Buffered
    <3>2. CASE pending # None
      <4>1. UniformDecode(batch) /\ pending = Ids(batch)
        BY <1>2, <1>9, <3>2 DEF IInv, Selected
      <4>2. SampledRows = Rows /\ Rows = DOMAIN batch
        BY <4>1 DEF SampledRows, Rows
      <4>3. /\ \A i \in DOMAIN batch : batch[i] \in Live /\ i \in Positions
            /\ \A i, j \in DOMAIN batch : batch[i] = batch[j] => i = j
            /\ DOMAIN Ids(batch) = DOMAIN batch
            /\ \A i \in DOMAIN batch : Ids(batch)[i] = slots[batch[i]].id
        BY <1>2, BatchFacts DEF IInv
      <4>4. ASSUME NEW r \in Ranks, NEW i \in DOMAIN pending, NEW s \in Live,
                   slots[s].id = pending[i]
            PROVE  inputIds'[r][i] = lastSampled'[r][s]
        <5>1. i \in DOMAIN batch /\ slots[s].id = slots[batch[i]].id
          BY <4>1, <4>3, <4>4
        <5>2. s = batch[i]
          BY <4>3, <4>4, <5>1 DEF IInv, OwnIds
        <5>3. (CHOOSE j \in SampledRows : batch[j] = s) = i
          BY <4>2, <4>3, <5>1, <5>2
        <5>4. s \in Slots /\ \E j \in SampledRows : batch[j] = s
          BY <4>2, <5>1, <5>2 DEF Live
        <5>5. lastSampled'[r][s] = out[r][i]
          BY <2>1, <5>3, <5>4 DEF PostUpdate
        <5>6. inputIds'[r][i] = out[r][i]
          BY <2>1, <3>2, <4>2, <4>3, <5>1 DEF PostUpdate
        <5>7. QED
          BY <5>5, <5>6
      <4>5. QED
        BY <1>1, <1>3, <2>2, <4>4 DEF Buffered
    <3>3. QED
      BY <3>1, <3>2
  <2>5. QED
    BY <1>4, <1>5, <1>6, <1>7, <2>3, <2>4 DEF IInv
<1>10. QED
  BY <1>8, <1>9

(* No step has run yet.                                                     *)
LEMMA InitCorrect == DecodeInit => IInv
<1> SUFFICES ASSUME DecodeInit PROVE IInv
  OBVIOUS
<1>1. /\ slots = [s \in Slots |-> None] /\ batch = <<>> /\ primed = None /\ pending = None
      /\ count = [s \in Slots |-> 0] /\ stage = [r \in Ranks |-> "idle"]
  BY DEF DecodeInit, Init
<1>2. Live = {}
  BY <1>1 DEF Live
<1>3. OwnIds
  <2>1. \E w \in Workloads : fresh = w.pool
    BY DEF DecodeInit, Init
  <2>2. QED
    BY <1>2, <2>1, WorkloadAssumption DEF OwnIds, Requests
<1>4. Typing /\ Running /\ Selected /\ Buffered /\ InputsRight
  BY <1>1 DEF Typing, Running, Selected, Buffered, InputsRight
<1>5. QED
  BY <1>3, <1>4 DEF IInv

(* Every step keeps the invariant.                                          *)
LEMMA NextCorrect == IInv /\ [DecodeNext]_allVars => IInv'
<1> SUFFICES ASSUME IInv, [DecodeNext]_allVars PROVE IInv'
  OBVIOUS
<1>1. ASSUME UNCHANGED allVars PROVE IInv'
  <2>1. UNCHANGED <<setup, fresh, slots, count, batch, stage, inputVars>>
    BY <1>1 DEF allVars, vars
  <2>2. /\ OwnIds' /\ Selected' /\ Buffered' /\ InputsRight'
        /\ (batch' # <<>> => batch' \in Batches')
    BY <2>1, StepSame
  <2>3. Typing' /\ Running'
    BY <2>1, <2>2 DEF IInv, Typing, Running
  <2>4. QED
    BY <2>2, <2>3 DEF IInv
<1>2. ASSUME NEW b \in Batches, StartStep(b) PROVE IInv'
  BY <1>2, StartStepCorrect
<1>3. ASSUME FinishStep PROVE IInv'
  BY <1>3, FinishStepCorrect
<1>4. ASSUME NEW s \in Slots, FinishRequest(s), UNCHANGED inputVars PROVE IInv'
  BY <1>4, FinishRequestCorrect
<1>5. ASSUME NEW s \in Slots, NEW q \in fresh, AddRequest(s, q), UNCHANGED inputVars PROVE IInv'
  BY <1>5, AddRequestCorrect
<1>6. ASSUME NEW r \in Ranks, RankStep(r), UNCHANGED inputVars PROVE IInv'
  BY <1>6, RankStepCorrect
<1>7. ASSUME Stopped, UNCHANGED inputVars PROVE IInv'
  BY <1>1, <1>7 DEF Stopped, allVars
<1>8. QED
  BY <1>1, <1>2, <1>3, <1>4, <1>5, <1>6, <1>7 DEF DecodeNext

(* The inductive invariant holds, for any requests, slots and ranks: while  *)
(* requests come and go, the input buffer has the last tokens of those it   *)
(* was written for.                                                         *)
THEOREM Invariant == DecodeSpec => []IInv
<1>1. QED
  BY InitCorrect, NextCorrect, PTL DEF DecodeSpec

(* In every step the model reads the last token of every decoding row, also *)
(* when nothing was copied, for any requests in any slots.                  *)
THEOREM InputsAreRight == DecodeSpec => []InputsRight
<1>1. IInv => InputsRight
  BY DEF IInv
<1>2. QED
  BY <1>1, Invariant, PTL
-----------------------------------------------------------------------------
(* The noise.                                                               *)

Keys == [kind : {"gumbel", "philox"}, seed : Nat, position : Nat, row : Nat]
Entries == [key : Keys, id : Nat, seed : Nat]

(* what EndStep will record of row i *)
Entry(i) == [key |-> keys[0][i], id |-> Req(i).id, seed |-> Req(i).seed]

(* whether rank r has drawn for slot s in this step *)
Drew(r, s) ==
    IF stage[r] \in {"pairs", "done"} /\ \E i \in Rows : batch[i] = s THEN 1 ELSE 0

(* Offsets count whole positions, of four numbers.                          *)
NoiseTyping ==
    /\ stage \in [Ranks -> {"idle", "begun", "logits", "pairs", "done"}]
    /\ gens = [r \in Ranks |-> [s \in Slots |-> gens[r][s]]]
    /\ private \in [Ranks -> Nat] /\ global \in [Ranks -> Nat]
    /\ \A r \in Ranks : private[r] % 4 = 0
    /\ keys = [r \in Ranks |-> keys[r]]
    /\ count \in [Slots -> Nat] /\ chunks \in [Slots -> Nat]
    /\ userSeed \in [Slots -> BOOLEAN] /\ slotSeed \in [Slots -> Nat]
    /\ drawn \in Seq(Entries)
    /\ partial \subseteq Rows
    /\ Legacy => ~ setup.chunked /\ partial = {}
    /\ fresh \subseteq Requests

(* The seeds and generators of a slot are its request's.                    *)
Streams ==
    \A s \in Live :
        LET q == slots[s]
        IN  /\ q \in Requests
            /\ userSeed[s] <=> q.seed # NoSeed
            /\ slotSeed[s] = IF q.seed # NoSeed THEN q.seed ELSE RandomSeed(q.id)
            /\ \A r \in Ranks :
                  IF q.seed = NoSeed THEN gens[r][s] = None
                  ELSE /\ gens[r][s] \in [seed : {q.seed}, offset : Nat]
                       /\ gens[r][s].offset % 4 = 0

(* On the legacy runner a generator is advanced once per token.             *)
Offsets ==
    Legacy => \A r \in Ranks : \A s \in Live :
        slots[s].seed # NoSeed /\ slots[s].temp # Greedy
            => gens[r][s].offset = 4 * (count[s] + Drew(r, s))

(* A draw is of a request that has come, with its seed if it has one.       *)
Legitimate(e) ==
    /\ \E q \in Requests : e.id = q.id /\ e.seed = q.seed
    /\ IF e.seed # NoSeed THEN e.key.seed = e.seed
       ELSE e.key.seed \in {NoSeed, RandomSeed(e.id)}

(* The stream it was drawn from is past its position: the process's, or the *)
(* request's as long as that is there.                                      *)
Past(e) ==
    IF e.key.seed = NoSeed
    THEN IF e.key.kind = "gumbel" THEN 4 * e.key.position < private[0]
         ELSE e.key.position < global[0]
    ELSE \A s \in Live : slots[s].id = e.id =>
            IF e.key.kind = "gumbel" /\ ~ Legacy
            THEN e.key.position < count[s] + chunks[s] + Drew(0, s)
            ELSE 4 * e.key.position < gens[0][s].offset

(* Only requests with one user seed share noise.                            *)
Apart(d, e) ==
    d.key = e.key => d.id # e.id /\ d.seed = e.seed /\ d.seed # NoSeed

(* What was drawn.                                                          *)
History ==
    /\ \A n \in DOMAIN drawn :
          /\ Legitimate(drawn[n]) /\ Past(drawn[n])
          /\ \A q \in fresh : q.id # drawn[n].id
    /\ \A n, m \in DOMAIN drawn : n < m => Apart(drawn[n], drawn[m])

(* What rank 0 has drawn in this step.                                      *)
Pending ==
    /\ stage[0] \in {"idle", "begun", "logits"} => keys[0] = <<>>
    /\ keys[0] # <<>> =>
          /\ DOMAIN keys[0] = Rows
          /\ \A i \in Rows :
                /\ keys[0][i] \in Keys /\ Legitimate(Entry(i)) /\ Past(Entry(i))
                /\ \A n \in DOMAIN drawn : Apart(drawn[n], Entry(i))
                /\ \A j \in Rows : i < j => Apart(Entry(i), Entry(j))

NoiseInv == NoiseTyping /\ Streams /\ Offsets /\ History /\ Pending

-----------------------------------------------------------------------------
(* What the samplers have in common.                                        *)

(* Row i's key on rank r, which makes m draws from the private generator, n *)
(* from the default one, and advances the generators of some rows.          *)
FromStream(r, i, k, m, n, rows) ==
    \/ /\ k.kind = "gumbel" /\ k.seed = NoSeed /\ Req(i).seed = NoSeed
       /\ private[r] <= 4 * k.position /\ 4 * k.position < private[r] + 4 * m
    \/ /\ k.kind = "philox" /\ k.seed = NoSeed /\ Req(i).seed = NoSeed
       /\ global[r] <= k.position /\ k.position < global[r] + n
    \/ /\ k.kind = "gumbel" /\ ~ Legacy /\ k.seed = slotSeed[batch[i]]
       /\ k.position = count[batch[i]] + chunks[batch[i]]
    \/ /\ i \in rows /\ k.seed = Req(i).seed /\ (k.kind = "philox" \/ Legacy)
       /\ 4 * k.position = gens[r][batch[i]].offset

(* a draw of the batch *)
Draws(r, ks, m, n, rows) ==
    /\ m \in Nat /\ n \in Nat
    /\ rows \subseteq SeededRows
    /\ Legacy => \A i \in SeededRows \ rows : Req(i).temp = Greedy
    /\ ks # <<>> =>
          /\ DOMAIN ks = Rows
          /\ \A i \in Rows : ks[i] \in Keys /\ FromStream(r, i, ks[i], m, n, rows)
          /\ \A i, j \in Rows : i < j /\ ks[i].seed = NoSeed => ks[i] # ks[j]

(* and what the sampler then does *)
Records(r, ks, m, n, rows) ==
    /\ UNCHANGED <<requestVars, sharded>>
    /\ stage[r] \in {"begun", "logits"}
    /\ \E x \in {"pairs", "done"} : stage' = [stage EXCEPT ![r] = x]
    /\ keys' = [keys EXCEPT ![r] = ks]
    /\ private' = [private EXCEPT ![r] = @ + 4 * m]
    /\ global' = [global EXCEPT ![r] = @ + n]
    /\ gens' = [gens EXCEPT ![r] = [s \in Slots |->
          IF \E i \in rows : batch[i] = s THEN [gens[r][s] EXCEPT !.offset = @ + 4]
          ELSE gens[r][s]]]

(* A step has rows, of different requests.                                  *)
LEMMA RowFacts ==
    ASSUME IInv, batch # <<>>
    PROVE  /\ Size \in Nat /\ Rows = 1 .. Size /\ batch \in Seq(Slots)
           /\ \A i \in Rows : batch[i] \in Live /\ batch[i] \in Slots
           /\ \A i, j \in Rows : batch[i] = batch[j] => i = j
<1>1. batch \in Batches
  BY DEF IInv, Running
<1>2. PICK n \in 1 .. Cardinality(Slots) : batch \in [1 .. n -> {s \in Slots : slots[s] # None}]
  BY <1>1 DEF Batches
<1>3. Cardinality(Slots) \in Nat
  BY WorkloadAssumption, FS_CardinalityType
<1>4. n \in Nat
  BY <1>2, <1>3
<1>5. batch \in Seq(Slots) /\ Len(batch) = n /\ DOMAIN batch = 1 .. n
  BY <1>2, <1>4
<1>6. \A i \in Rows : batch[i] \in Live /\ batch[i] \in Slots
  BY <1>1, BatchFacts DEF IInv, Rows, Live
<1>7. \A i, j \in Rows : batch[i] = batch[j] => i = j
  BY <1>1, BatchFacts DEF IInv, Rows
<1>8. QED
  BY <1>4, <1>5, <1>6, <1>7 DEF Rows, Size

(* Rows drawn from one stream take different positions of it.               *)
LEMMA BelowFacts ==
    ASSUME NEW n \in Nat, NEW R \in SUBSET (1 .. n)
    PROVE  /\ Cardinality(R) \in Nat
           /\ \A i \in R : /\ Cardinality(RowsBelow(i, R)) \in Nat
                           /\ Cardinality(RowsBelow(i, R)) < Cardinality(R)
           /\ \A i, j \in R : i < j =>
                 Cardinality(RowsBelow(i, R)) < Cardinality(RowsBelow(j, R))
<1>1. IsFiniteSet(R)
  <2>1. IsFiniteSet(1 .. n)
    BY FS_Interval
  <2>2. QED
    BY <2>1, FS_Subset
<1>2. \A i : RowsBelow(i, R) \in SUBSET R
  BY DEF RowsBelow
<1>3. \A i : IsFiniteSet(RowsBelow(i, R)) /\ Cardinality(RowsBelow(i, R)) \in Nat
  BY <1>1, <1>2, FS_Subset, FS_CardinalityType
<1>4. Cardinality(R) \in Nat
  BY <1>1, FS_CardinalityType
<1>5. ASSUME NEW i \in R PROVE Cardinality(RowsBelow(i, R)) < Cardinality(R)
  <2>1. i \notin RowsBelow(i, R)
    BY DEF RowsBelow
  <2>2. RowsBelow(i, R) # R
    BY <2>1
  <2>3. /\ Cardinality(RowsBelow(i, R)) <= Cardinality(R)
        /\ Cardinality(RowsBelow(i, R)) # Cardinality(R)
    BY <1>1, <1>2, <2>2, FS_Subset
  <2>4. QED
    BY <1>3, <1>4, <2>3
<1>6. ASSUME NEW i \in R, NEW j \in R, i < j
      PROVE  Cardinality(RowsBelow(i, R)) < Cardinality(RowsBelow(j, R))
  <2>1. RowsBelow(i, R) \in SUBSET RowsBelow(j, R)
    <3>1. ASSUME NEW x \in RowsBelow(i, R) PROVE x \in RowsBelow(j, R)
      <4>1. x \in R /\ x < i /\ i < j /\ x \in Nat /\ i \in Nat /\ j \in Nat
        BY <1>6 DEF RowsBelow
      <4>2. QED
        BY <4>1 DEF RowsBelow
    <3>2. QED
      BY <3>1
  <2>2. i \in RowsBelow(j, R) /\ i \notin RowsBelow(i, R)
    BY <1>6 DEF RowsBelow
  <2>3. RowsBelow(i, R) # RowsBelow(j, R)
    BY <2>2
  <2>4. /\ Cardinality(RowsBelow(i, R)) <= Cardinality(RowsBelow(j, R))
        /\ Cardinality(RowsBelow(i, R)) # Cardinality(RowsBelow(j, R))
    BY <1>3, <2>1, <2>3, FS_Subset
  <2>5. QED
    BY <1>3, <2>4
<1>7. QED
  BY <1>3, <1>4, <1>5, <1>6

(* A request has one row at most.                                           *)
LEMMA AddedFacts ==
    ASSUME IInv, batch # <<>>, NEW rows \in SUBSET Rows, NEW f, NEW s \in Slots
    PROVE  Added(f, rows)[s] = f[s] + IF \E i \in rows : batch[i] = s THEN 1 ELSE 0
<1>1. \A i, j \in Rows : batch[i] = batch[j] => i = j
  BY RowFacts
<1>2. CASE \E i \in rows : batch[i] = s
  <2>1. PICK i \in rows : batch[i] = s
    BY <1>2
  <2>2. {j \in rows : batch[j] = s} = {i}
    BY <1>1, <2>1
  <2>3. QED
    BY <1>2, <2>2, FS_Singleton DEF Added
<1>3. CASE ~ \E i \in rows : batch[i] = s
  <2>1. {j \in rows : batch[j] = s} = {}
    BY <1>3
  <2>2. QED
    BY <1>3, <2>1, FS_EmptySet DEF Added
<1>4. QED
  BY <1>2, <1>3

(* The generator of a seeded row, or none.                                  *)
LEMMA RowStreams ==
    ASSUME IInv, NoiseInv, batch # <<>>, NEW i \in Rows
    PROVE  /\ Req(i) \in Requests /\ Req(i).id \in Nat /\ Req(i).seed \in Nat
           /\ userSeed[batch[i]] <=> Req(i).seed # NoSeed
           /\ slotSeed[batch[i]] = IF Req(i).seed # NoSeed THEN Req(i).seed
                                   ELSE RandomSeed(Req(i).id)
           /\ slotSeed[batch[i]] \in Nat \ {NoSeed}
           /\ \A r \in Ranks :
                 IF Req(i).seed = NoSeed THEN gens[r][batch[i]] = None
                 ELSE /\ gens[r][batch[i]] # None
                      /\ gens[r][batch[i]].seed = Req(i).seed
                      /\ gens[r][batch[i]].offset \in Nat
                      /\ gens[r][batch[i]].offset \div 4 \in Nat
                      /\ 4 * (gens[r][batch[i]].offset \div 4) = gens[r][batch[i]].offset
<1>1. batch[i] \in Live
  BY RowFacts
<1>2. /\ Req(i) \in Requests
      /\ userSeed[batch[i]] <=> Req(i).seed # NoSeed
      /\ slotSeed[batch[i]] = IF Req(i).seed # NoSeed THEN Req(i).seed
                              ELSE RandomSeed(Req(i).id)
      /\ \A r \in Ranks :
            IF Req(i).seed = NoSeed THEN gens[r][batch[i]] = None
            ELSE /\ gens[r][batch[i]] \in [seed : {Req(i).seed}, offset : Nat]
                 /\ gens[r][batch[i]].offset % 4 = 0
  BY <1>1 DEF NoiseInv, Streams, Req
<1>3. Req(i).id \in Nat /\ Req(i).seed \in Nat
  BY <1>2, WorkloadAssumption
<1>4. slotSeed[batch[i]] \in Nat \ {NoSeed}
  BY <1>2, <1>3 DEF NoSeed, RandomSeed
<1>5. ASSUME NEW r \in Ranks, Req(i).seed # NoSeed
      PROVE  /\ gens[r][batch[i]] # None
             /\ gens[r][batch[i]].seed = Req(i).seed
             /\ gens[r][batch[i]].offset \in Nat
             /\ gens[r][batch[i]].offset \div 4 \in Nat
             /\ 4 * (gens[r][batch[i]].offset \div 4) = gens[r][batch[i]].offset
  <2> DEFINE g == gens[r][batch[i]]
  <2>1. g \in [seed : {Req(i).seed}, offset : Nat] /\ g.offset % 4 = 0
    BY <1>2, <1>5
  <2>2. g \in [seed : Nat, offset : Nat]
    BY <1>3, <2>1
  <2>3. g.offset \in Nat /\ g.seed = Req(i).seed
    BY <2>1
  <2>4. g # None
    BY <2>2, NoneAssumption
  <2>5. \A x \in Nat : x % 4 = 0 => x \div 4 \in Nat /\ 4 * (x \div 4) = x
    OBVIOUS
  <2>6. QED
    BY <2>1, <2>3, <2>4, <2>5
<1>6. QED
  BY <1>2, <1>3, <1>4, <1>5

(* A stream nobody draws from stays where it is.                            *)
LEMMA NoAdvance ==
    ASSUME NoiseInv, NEW r \in Ranks
    PROVE  /\ private = [private EXCEPT ![r] = @ + 4 * 0]
           /\ global = [global EXCEPT ![r] = @ + 0]
           /\ gens = [gens EXCEPT ![r] = [s \in Slots |->
                 IF \E i \in {} : batch[i] = s THEN [gens[r][s] EXCEPT !.offset = @ + 4]
                 ELSE gens[r][s]]]
<1>1. /\ gens = [q \in Ranks |-> [s \in Slots |-> gens[q][s]]]
      /\ private \in [Ranks -> Nat] /\ global \in [Ranks -> Nat]
  BY DEF NoiseInv, NoiseTyping
<1>2. private = [private EXCEPT ![r] = @ + 4 * 0] /\ global = [global EXCEPT ![r] = @ + 0]
  BY <1>1
<1>3. gens[r] = [s \in Slots |->
          IF \E i \in {} : batch[i] = s THEN [gens[r][s] EXCEPT !.offset = @ + 4] ELSE gens[r][s]]
  BY <1>1
<1>4. QED
  BY <1>1, <1>2, <1>3

(* A multinomial draw is from the row's own generator, or the default one's *)
(* next position.                                                           *)
LEMMA MultinomialFacts ==
    ASSUME IInv, NoiseInv, batch # <<>>, NEW r \in Ranks, NEW m \in Nat
    PROVE  LET U == Rows \ SeededRows
           IN  /\ Cardinality(U) \in Nat
               /\ \A i \in Rows : /\ MultinomialKey(r, i, U) \in Keys
                                  /\ MultinomialKey(r, i, U).kind = "philox"
                                  /\ (MultinomialKey(r, i, U).seed = NoSeed) <=> i \in U
                                  /\ FromStream(r, i, MultinomialKey(r, i, U), m,
                                                Cardinality(U), SeededRows)
               /\ \A i, j \in U : i < j => MultinomialKey(r, i, U) # MultinomialKey(r, j, U)
<1> DEFINE U == Rows \ SeededRows
<1>1. Size \in Nat /\ U \in SUBSET (1 .. Size)
  BY RowFacts
<1>2. /\ Cardinality(U) \in Nat
      /\ \A i \in U : /\ Cardinality(RowsBelow(i, U)) \in Nat
                      /\ Cardinality(RowsBelow(i, U)) < Cardinality(U)
      /\ \A i, j \in U : i < j => Cardinality(RowsBelow(i, U)) < Cardinality(RowsBelow(j, U))
  BY <1>1, BelowFacts
<1>3. global[r] \in Nat
  BY DEF NoiseInv, NoiseTyping
<1>4. ASSUME NEW i \in U
      PROVE  /\ MultinomialKey(r, i, U)
                  = Key("philox", NoSeed, global[r] + Cardinality(RowsBelow(i, U)), 0)
             /\ MultinomialKey(r, i, U) \in Keys
             /\ MultinomialKey(r, i, U).kind = "philox" /\ MultinomialKey(r, i, U).seed = NoSeed
             /\ FromStream(r, i, MultinomialKey(r, i, U), m, Cardinality(U), SeededRows)
  <2> DEFINE c == Cardinality(RowsBelow(i, U))
  <2>1. MultinomialKey(r, i, U) = Key("philox", NoSeed, global[r] + c, 0)
    BY DEF MultinomialKey
  <2>2. c \in Nat /\ c < Cardinality(U)
    BY <1>2
  <2>3. Req(i).seed = NoSeed
    BY DEF SeededRows
  <2> HIDE DEF c, U
  <2>4. global[r] <= global[r] + c /\ global[r] + c < global[r] + Cardinality(U)
        /\ global[r] + c \in Nat
    BY <1>2, <1>3, <2>2
  <2>5. Key("philox", NoSeed, global[r] + c, 0) \in Keys
    BY <2>4 DEF Key, Keys, NoSeed
  <2>6. FromStream(r, i, Key("philox", NoSeed, global[r] + c, 0), m, Cardinality(U), SeededRows)
    BY <2>3, <2>4 DEF Key, FromStream
  <2>7. QED
    BY <2>1, <2>5, <2>6 DEF Key, c
<1>5. ASSUME NEW i \in SeededRows
      PROVE  /\ MultinomialKey(r, i, U) \in Keys
             /\ MultinomialKey(r, i, U).kind = "philox" /\ MultinomialKey(r, i, U).seed # NoSeed
             /\ FromStream(r, i, MultinomialKey(r, i, U), m, Cardinality(U), SeededRows)
  <2> DEFINE g == gens[r][batch[i]]
  <2>1. i \in Rows /\ Req(i).seed # NoSeed
    BY DEF SeededRows
  <2>2. /\ g.seed = Req(i).seed /\ Req(i).seed \in Nat
        /\ g.offset \div 4 \in Nat /\ 4 * (g.offset \div 4) = g.offset
    BY <2>1, RowStreams
  <2>3. MultinomialKey(r, i, U) = Key("philox", g.seed, g.offset \div 4, 0)
    BY <2>1 DEF MultinomialKey
  <2> HIDE DEF g, U
  <2>4. Key("philox", g.seed, g.offset \div 4, 0) \in Keys
    BY <2>2 DEF Key, Keys
  <2>5. FromStream(r, i, Key("philox", g.seed, g.offset \div 4, 0), m, Cardinality(U), SeededRows)
    BY <2>2 DEF Key, FromStream, g
  <2>6. QED
    BY <2>1, <2>2, <2>3, <2>4, <2>5 DEF Key
<1>6. ASSUME NEW i \in U, NEW j \in U, i < j
      PROVE  MultinomialKey(r, i, U) # MultinomialKey(r, j, U)
  <2>1. /\ MultinomialKey(r, i, U).position = global[r] + Cardinality(RowsBelow(i, U))
        /\ MultinomialKey(r, j, U).position = global[r] + Cardinality(RowsBelow(j, U))
    <3>1. /\ MultinomialKey(r, i, U)
                = Key("philox", NoSeed, global[r] + Cardinality(RowsBelow(i, U)), 0)
          /\ MultinomialKey(r, j, U)
                = Key("philox", NoSeed, global[r] + Cardinality(RowsBelow(j, U)), 0)
      BY <1>4
    <3>2. \A p : Key("philox", NoSeed, p, 0).position = p
      BY DEF Key
    <3>3. QED
      BY <3>1, <3>2
  <2>2. Cardinality(RowsBelow(i, U)) < Cardinality(RowsBelow(j, U))
    BY <1>2, <1>6
  <2>3. global[r] + Cardinality(RowsBelow(i, U)) # global[r] + Cardinality(RowsBelow(j, U))
    <3> DEFINE a == Cardinality(RowsBelow(i, U))
               b == Cardinality(RowsBelow(j, U))
    <3>1. a \in Nat /\ b \in Nat /\ a < b
      BY <1>2, <2>2
    <3> HIDE DEF a, b
    <3>2. global[r] + a # global[r] + b
      BY <1>3, <3>1
    <3>3. QED
      BY <3>2 DEF a, b
  <2>4. QED
    BY <2>1, <2>3
<1>7. \A i \in Rows : i \in U \/ i \in SeededRows
  OBVIOUS
<1>8. \A i \in Rows : i \in U <=> i \notin SeededRows
  OBVIOUS
<1> HIDE DEF U
<1>9. \A i \in Rows : /\ MultinomialKey(r, i, U) \in Keys
                      /\ MultinomialKey(r, i, U).kind = "philox"
                      /\ (MultinomialKey(r, i, U).seed = NoSeed) <=> i \in U
                      /\ FromStream(r, i, MultinomialKey(r, i, U), m, Cardinality(U), SeededRows)
  BY <1>4, <1>5, <1>7, <1>8
<1>10. QED
  BY <1>2, <1>6, <1>9 DEF U

(* rank r has sampled *)
HasDrawn(r) ==
    \E m, n \in Nat : \E rows \in SUBSET SeededRows : \E ks :
        Draws(r, ks, m, n, rows) /\ Records(r, ks, m, n, rows)

(* A rank samples in a step.                                                *)
LEMMA InStep ==
    ASSUME IInv, NEW r \in Ranks, stage[r] # "idle"
    PROVE  batch # <<>> /\ Size \in Nat \ {0} /\ Rows = 1 .. Size
<1>1. batch # <<>>
  BY DEF IInv, Running
<1>2. Size \in Nat /\ Rows = 1 .. Size /\ batch \in Seq(Slots)
  BY <1>1, RowFacts
<1>3. Size # 0
  BY <1>1, <1>2 DEF Size
<1>4. QED
  BY <1>1, <1>2, <1>3

(* The unfiltered samplers take consecutive positions of the private        *)
(* generator.                                                               *)
LEMMA UnfilteredDraws ==
    ASSUME IInv, NoiseInv, NEW r \in Ranks, SampleUnfiltered(r) \/ SampleShard(r)
    PROVE  HasDrawn(r)
<1>1. stage[r] = "logits" /\ Unfiltered
  BY DEF SampleUnfiltered, SampleShard
<1>2. Size \in Nat /\ Rows = 1 .. Size
  BY <1>1, InStep
<1>3. SeededRows = {}
  BY <1>1 DEF Unfiltered, UnfilteredMetadata
<1>4. /\ private[r] \in Nat
      /\ private[r] \div 4 \in Nat /\ 4 * (private[r] \div 4) = private[r]
  <2>1. private[r] \in Nat /\ private[r] % 4 = 0
    BY DEF NoiseInv, NoiseTyping
  <2>2. \A x \in Nat : x % 4 = 0 => x \div 4 \in Nat /\ 4 * (x \div 4) = x
    OBVIOUS
  <2>3. QED
    BY <2>1, <2>2
<1> DEFINE p == private[r] \div 4
           ks == PrivateKeys(r)
<1>5. ASSUME NEW i \in Rows
      PROVE  /\ ks[i] = Key("gumbel", NoSeed, p + i - 1, 0)
             /\ ks[i] \in Keys /\ FromStream(r, i, ks[i], Size, 0, {})
  <2>1. ks[i] = Key("gumbel", NoSeed, p + i - 1, 0)
    BY DEF PrivateKeys
  <2>2. Req(i).seed = NoSeed
    BY <1>3 DEF SeededRows
  <2>3. i \in Nat /\ 1 <= i /\ i <= Size /\ p \in Nat
    BY <1>2, <1>4
  <2> HIDE DEF p, ks
  <2>4. p + i - 1 \in Nat /\ 4 * p <= 4 * (p + i - 1) /\ 4 * (p + i - 1) < 4 * p + 4 * Size
    BY <1>2, <2>3
  <2>5. Key("gumbel", NoSeed, p + i - 1, 0) \in Keys
    BY <2>4 DEF Key, Keys, NoSeed
  <2>6. 4 * p = private[r]
    BY <1>4 DEF p
  <2>7. FromStream(r, i, Key("gumbel", NoSeed, p + i - 1, 0), Size, 0, {})
    BY <2>2, <2>4, <2>6 DEF FromStream, Key
  <2>8. QED
    BY <2>1, <2>5, <2>7
<1>6. ASSUME NEW i \in Rows, NEW j \in Rows, i < j PROVE ks[i] # ks[j]
  <2>1. ks[i] = Key("gumbel", NoSeed, p + i - 1, 0) /\ ks[j] = Key("gumbel", NoSeed, p + j - 1, 0)
    BY <1>5
  <2>2. \A x : Key("gumbel", NoSeed, x, 0).position = x
    BY DEF Key
  <2>3. i \in Nat /\ j \in Nat /\ p \in Nat
    BY <1>2, <1>4
  <2> HIDE DEF p, ks
  <2>4. p + i - 1 # p + j - 1
    BY <1>6, <2>3
  <2>5. QED
    BY <2>1, <2>2, <2>4
<1>7. DOMAIN ks = Rows
  BY DEF PrivateKeys
<1> HIDE DEF ks
<1>8. Draws(r, ks, Size, 0, {})
  BY <1>2, <1>3, <1>5, <1>6, <1>7 DEF Draws
<1>9. private' = [private EXCEPT ![r] = @ + 4 * Size] /\ UNCHANGED <<gens, global, requestVars, sharded>>
  BY DEF SampleUnfiltered, SampleShard, AdvancePrivate, Finish
<1>10. /\ \E x \in {"pairs", "done"} : stage' = [stage EXCEPT ![r] = x]
       /\ keys' = [keys EXCEPT ![r] = ks]
  BY DEF SampleUnfiltered, SampleShard, Finish, ks
<1>11. Records(r, ks, Size, 0, {})
  BY <1>1, <1>9, <1>10, NoAdvance DEF Records
<1>12. QED
  BY <1>2, <1>8, <1>11 DEF HasDrawn

(* Greedy rows alone draw nothing.                                          *)
LEMMA GreedyDraws ==
    ASSUME IInv, NoiseInv, NEW r \in Ranks, SampleGreedy(r)
    PROVE  HasDrawn(r)
<1>1. Draws(r, <<>>, 0, 0, {})
  BY DEF Draws, SampleGreedy, AllGreedy, SeededRows
<1>2. /\ stage[r] = "logits" /\ stage' = [stage EXCEPT ![r] = "done"]
      /\ keys' = [keys EXCEPT ![r] = <<>>]
      /\ UNCHANGED <<gens, private, global, requestVars, sharded>>
  BY DEF SampleGreedy, LegacySampling, Finish
<1>3. Records(r, <<>>, 0, 0, {})
  BY <1>2, NoAdvance DEF Records
<1>4. QED
  BY <1>1, <1>3 DEF HasDrawn

(* Seeded rows draw from their generators, which are advanced; the others   *)
(* from the default one.                                                    *)
LEMMA SeededDraws ==
    ASSUME IInv, NoiseInv, NEW r \in Ranks,
           SampleLegacyGumbel(r) \/ SampleSeeded(r) \/ SampleWorkerSeeded(r)
    PROVE  HasDrawn(r)
<1> DEFINE U == Rows \ SeededRows
<1>1. stage[r] \in {"begun", "logits"}
  BY DEF SampleLegacyGumbel, SampleSeeded, SampleWorkerSeeded, LegacySampling, WorkerSampling
<1>2. batch # <<>> /\ Rows = 1 .. Size
  BY <1>1, InStep
<1>3. {i \in Rows : gens[r][batch[i]] = None} = U /\ Rows \ U = SeededRows
  <2>1. \A i \in Rows : gens[r][batch[i]] = None <=> Req(i).seed = NoSeed
    BY <1>2, RowStreams
  <2>2. QED
    BY <2>1 DEF SeededRows
<1>4. /\ Cardinality(U) \in Nat
      /\ \A i \in Rows : /\ MultinomialKey(r, i, U) \in Keys
                         /\ MultinomialKey(r, i, U).kind = "philox"
                         /\ (MultinomialKey(r, i, U).seed = NoSeed) <=> i \in U
                         /\ FromStream(r, i, MultinomialKey(r, i, U), 0, Cardinality(U), SeededRows)
      /\ \A i, j \in U : i < j => MultinomialKey(r, i, U) # MultinomialKey(r, j, U)
  BY <1>2, MultinomialFacts
<1>5. \A i, j \in Rows : i < j /\ MultinomialKey(r, i, U).seed = NoSeed
          => MultinomialKey(r, i, U) # MultinomialKey(r, j, U)
  BY <1>4
<1>6. /\ \E ks : /\ keys' = [keys EXCEPT ![r] = ks]
                 /\ DOMAIN ks = Rows
                 /\ \A i \in Rows : ks[i] \in Keys /\ FromStream(r, i, ks[i], 0, Cardinality(U), SeededRows)
                 /\ \A i, j \in Rows : i < j /\ ks[i].seed = NoSeed => ks[i] # ks[j]
      /\ stage' = [stage EXCEPT ![r] = "done"]
      /\ UNCHANGED <<requestVars, sharded, private>>
      /\ AdvanceRows(r, SeededRows) /\ AdvanceGlobal(r, Cardinality(U))
  <2>1. CASE SampleSeeded(r) \/ SampleWorkerSeeded(r)
    <3> DEFINE ks == [i \in Rows |-> MultinomialKey(r, i, U)]
    <3>1. /\ keys' = [keys EXCEPT ![r] = ks]
          /\ stage' = [stage EXCEPT ![r] = "done"]
          /\ UNCHANGED <<requestVars, sharded, private>>
          /\ AdvanceRows(r, SeededRows) /\ AdvanceGlobal(r, Cardinality(U))
      BY <2>1, <1>3 DEF SampleSeeded, SampleWorkerSeeded, Finish
    <3>2. DOMAIN ks = Rows /\ \A i \in Rows : ks[i] = MultinomialKey(r, i, U)
      OBVIOUS
    <3> HIDE DEF ks, U
    <3>3. \A i \in Rows : ks[i] \in Keys /\ FromStream(r, i, ks[i], 0, Cardinality(U), SeededRows)
      BY <1>4, <3>2
    <3>4. \A i, j \in Rows : i < j /\ ks[i].seed = NoSeed => ks[i] # ks[j]
      BY <1>5, <3>2
    <3>5. QED
      BY <3>1, <3>2, <3>3, <3>4
  <2>2. CASE SampleLegacyGumbel(r)
    <3> DEFINE Own(i) == Key("gumbel", gens[r][batch[i]].seed, gens[r][batch[i]].offset \div 4, 0)
               ks == [i \in Rows |-> IF i \in SeededRows THEN Own(i) ELSE MultinomialKey(r, i, U)]
    <3>1. /\ keys' = [keys EXCEPT ![r] = ks]
          /\ stage' = [stage EXCEPT ![r] = "done"]
          /\ UNCHANGED <<requestVars, sharded, private>>
          /\ AdvanceRows(r, SeededRows) /\ AdvanceGlobal(r, Cardinality(U))
      BY <2>2 DEF SampleLegacyGumbel, Finish
    <3>2. Legacy
      BY <2>2 DEF SampleLegacyGumbel, LegacySampling
    <3>3. ASSUME NEW i \in SeededRows
          PROVE  /\ Own(i) \in Keys /\ Own(i).seed # NoSeed
                 /\ FromStream(r, i, Own(i), 0, Cardinality(U), SeededRows)
      <4> DEFINE g == gens[r][batch[i]]
      <4>1. i \in Rows /\ Req(i).seed # NoSeed
        BY DEF SeededRows
      <4>2. /\ g.seed = Req(i).seed /\ Req(i).seed \in Nat
            /\ g.offset \div 4 \in Nat /\ 4 * (g.offset \div 4) = g.offset
        BY <1>2, <4>1, RowStreams
      <4>3. Own(i) = Key("gumbel", g.seed, g.offset \div 4, 0)
        OBVIOUS
      <4> HIDE DEF g, U, Own
      <4>4. Key("gumbel", g.seed, g.offset \div 4, 0) \in Keys
        BY <4>2 DEF Key, Keys
      <4>5. FromStream(r, i, Key("gumbel", g.seed, g.offset \div 4, 0), 0, Cardinality(U), SeededRows)
        BY <3>2, <4>2 DEF Key, FromStream, g
      <4>6. QED
        BY <4>1, <4>2, <4>3, <4>4, <4>5 DEF Key
    <3>4. /\ DOMAIN ks = Rows
          /\ \A i \in Rows : ks[i] = IF i \in SeededRows THEN Own(i) ELSE MultinomialKey(r, i, U)
      OBVIOUS
    <3>5. \A i \in Rows : i \in SeededRows \/ i \in U
      OBVIOUS
    <3>6. \A i \in U : i \in Rows /\ i \notin SeededRows
      OBVIOUS
    <3> HIDE DEF ks, U, Own
    <3>7. \A i \in Rows : ks[i] \in Keys /\ FromStream(r, i, ks[i], 0, Cardinality(U), SeededRows)
      BY <1>4, <3>3, <3>4, <3>5
    <3>8. ASSUME NEW i \in Rows, NEW j \in Rows, i < j, ks[i].seed = NoSeed PROVE ks[i] # ks[j]
      <4>1. i \in U
        BY <3>3, <3>4, <3>5, <3>8
      <4>2. ks[i] = MultinomialKey(r, i, U)
        BY <3>4, <3>6, <4>1
      <4>3. CASE j \in SeededRows
        BY <3>3, <3>4, <3>8, <4>3
      <4>4. CASE j \in U
        BY <1>4, <3>4, <3>6, <3>8, <4>1, <4>2, <4>4
      <4>5. QED
        BY <3>5, <4>3, <4>4
    <3>9. \A i, j \in Rows : i < j /\ ks[i].seed = NoSeed => ks[i] # ks[j]
      BY <3>8
    <3>10. QED
      BY <3>1, <3>4, <3>7, <3>9
  <2>3. QED
    BY <2>1, <2>2
<1>7. PICK ks : /\ keys' = [keys EXCEPT ![r] = ks]
                /\ DOMAIN ks = Rows
                /\ \A i \in Rows : ks[i] \in Keys /\ FromStream(r, i, ks[i], 0, Cardinality(U), SeededRows)
                /\ \A i, j \in Rows : i < j /\ ks[i].seed = NoSeed => ks[i] # ks[j]
  BY <1>6
<1> HIDE DEF U
<1>8. Draws(r, ks, 0, Cardinality(U), SeededRows)
  BY <1>4, <1>7 DEF Draws
<1>9. Records(r, ks, 0, Cardinality(U), SeededRows)
  <2>1. private' = [private EXCEPT ![r] = @ + 4 * 0]
    BY <1>6, NoAdvance
  <2>2. QED
    BY <1>1, <1>6, <1>7, <2>1 DEF Records, AdvanceRows, AdvanceGlobal
<1>10. QED
  BY <1>4, <1>8, <1>9 DEF HasDrawn

(* The native samplers draw all rows at one position, a subsequence each.   *)
LEMMA NativeDraws ==
    ASSUME IInv, NoiseInv, NEW r \in Ranks, SampleNative(r) \/ SampleWorkerNative(r)
    PROVE  HasDrawn(r)
<1>1. stage[r] \in {"begun", "logits"}
  BY DEF SampleNative, SampleWorkerNative, LegacySampling, WorkerSampling
<1>2. batch # <<>> /\ Size \in Nat /\ Rows = 1 .. Size
  BY <1>1, InStep
<1>3. SeededRows = {}
  <2>1. CASE SampleNative(r)
    BY <2>1 DEF SampleNative
  <2>2. CASE SampleWorkerNative(r)
    <3>1. \A i \in Rows : ~ userSeed[batch[i]]
      BY <2>2 DEF SampleWorkerNative, AnyUserSeed
    <3>2. \A i \in Rows : Req(i).seed = NoSeed
      BY <1>2, <3>1, RowStreams
    <3>3. QED
      BY <3>2 DEF SeededRows
  <2>3. QED
    BY <2>1, <2>2
<1>4. global[r] \in Nat
  BY DEF NoiseInv, NoiseTyping
<1> DEFINE ks == NativeKeys(r)
<1>5. DOMAIN ks = Rows /\ \A i \in Rows : ks[i] = Key("philox", NoSeed, global[r], i)
  BY DEF NativeKeys
<1> HIDE DEF ks
<1>6. ASSUME NEW i \in Rows PROVE ks[i] \in Keys /\ FromStream(r, i, ks[i], 0, 1, {})
  <2>1. Key("philox", NoSeed, global[r], i) \in Keys
    BY <1>2, <1>4 DEF Key, Keys, NoSeed
  <2>2. Req(i).seed = NoSeed
    BY <1>3 DEF SeededRows
  <2>3. FromStream(r, i, Key("philox", NoSeed, global[r], i), 0, 1, {})
    BY <1>4, <2>2 DEF FromStream, Key
  <2>4. QED
    BY <1>5, <2>1, <2>3
<1>7. ASSUME NEW i \in Rows, NEW j \in Rows, i < j PROVE ks[i] # ks[j]
  <2>1. ks[i].row = i /\ ks[j].row = j
    BY <1>5 DEF Key
  <2>2. i # j
    BY <1>2, <1>7
  <2>3. QED
    BY <2>1, <2>2
<1>8. Draws(r, ks, 0, 1, {})
  BY <1>3, <1>5, <1>6, <1>7 DEF Draws
<1>9. /\ stage' = [stage EXCEPT ![r] = "done"] /\ keys' = [keys EXCEPT ![r] = ks]
      /\ global' = [global EXCEPT ![r] = @ + 1]
      /\ UNCHANGED <<gens, private, requestVars, sharded>>
  BY DEF SampleNative, SampleWorkerNative, Finish, AdvanceGlobal, ks
<1>10. Records(r, ks, 0, 1, {})
  BY <1>1, <1>9, NoAdvance DEF Records
<1>11. QED
  BY <1>8, <1>10 DEF HasDrawn

(* The V2 worker's Gumbel noise is of the request's seed and its position.  *)
LEMMA PositionDraws ==
    ASSUME IInv, NoiseInv, NEW r \in Ranks, SampleByPosition(r)
    PROVE  HasDrawn(r)
<1>1. stage[r] = "begun" /\ ~ Legacy
  BY DEF SampleByPosition, WorkerSampling
<1>2. batch # <<>>
  BY <1>1, InStep
<1> DEFINE ks == PositionKeys
<1>3. /\ DOMAIN ks = Rows
      /\ \A i \in Rows : ks[i] = Key("gumbel", slotSeed[batch[i]], count[batch[i]] + chunks[batch[i]], 0)
  BY DEF PositionKeys
<1>4. ASSUME NEW i \in Rows
      PROVE  ks[i] \in Keys /\ ks[i].seed # NoSeed /\ FromStream(r, i, ks[i], 0, 0, {})
  <2> DEFINE c == slotSeed[batch[i]]
             p == count[batch[i]] + chunks[batch[i]]
             k == Key("gumbel", c, p, 0)
  <2>1. c \in Nat \ {NoSeed} /\ ks[i] = k
    BY <1>2, <1>3, RowStreams
  <2>2. p \in Nat
    <3>1. batch[i] \in Slots
      BY <1>2, RowFacts
    <3>2. QED
      BY <3>1 DEF NoiseInv, NoiseTyping
  <2> HIDE DEF ks
  <2>3. k.kind = "gumbel" /\ k.seed = c /\ k.position = p
    BY DEF Key
  <2>4. FromStream(r, i, k, 0, 0, {})
    BY <1>1, <2>3 DEF FromStream
  <2> HIDE DEF c, p
  <2>5. k \in Keys
    BY <2>1, <2>2 DEF Key, Keys
  <2>6. QED
    BY <2>1, <2>3, <2>4, <2>5
<1> HIDE DEF ks
<1>5. Draws(r, ks, 0, 0, {})
  BY <1>1, <1>3, <1>4 DEF Draws
<1>6. /\ stage' = [stage EXCEPT ![r] = "done"] /\ keys' = [keys EXCEPT ![r] = ks]
      /\ UNCHANGED <<gens, private, global, requestVars, sharded>>
  BY DEF SampleByPosition, Finish, ks
<1>7. Records(r, ks, 0, 0, {})
  BY <1>1, <1>6, NoAdvance DEF Records
<1>8. QED
  BY <1>5, <1>7 DEF HasDrawn

-----------------------------------------------------------------------------
(* Drawing keeps the invariant.                                             *)

(* what a draw with key k will be recorded as *)
EntryOf(i, k) == [key |-> k, id |-> Req(i).id, seed |-> Req(i).seed]

(* Two requests drawn with one seed have it from the user.                  *)
LEMMA SharedSeed ==
    ASSUME NEW d, NEW e, Legitimate(d), Legitimate(e), d.key = e.key,
           d.key.seed # NoSeed, d.id # e.id
    PROVE  d.seed = e.seed /\ d.seed # NoSeed
<1>1. PICK p \in Requests : d.id = p.id /\ d.seed = p.seed
  BY DEF Legitimate
<1>2. PICK q \in Requests : e.id = q.id /\ e.seed = q.seed
  BY DEF Legitimate
<1>3. d.seed # RandomSeed(e.id) /\ e.seed # RandomSeed(d.id) /\ d.id \in Nat /\ e.id \in Nat
  BY <1>1, <1>2, WorkloadAssumption
<1>4. RandomSeed(d.id) # RandomSeed(e.id)
  BY <1>3 DEF RandomSeed
<1>5. QED
  BY <1>3, <1>4 DEF Legitimate

(* A row's key belongs to its request, and to no draw before.               *)
LEMMA KeyFacts ==
    ASSUME IInv, NoiseInv, stage[0] \in {"begun", "logits"}, NEW i \in Rows, NEW k \in Keys,
           NEW m \in Nat, NEW n \in Nat, NEW rows \in SUBSET SeededRows,
           FromStream(0, i, k, m, n, rows)
    PROVE  /\ Legitimate(EntryOf(i, k))
           /\ \A h \in DOMAIN drawn : Apart(drawn[h], EntryOf(i, k))
<1> DEFINE e == EntryOf(i, k)
           s == batch[i]
<1>1. 0 \in Ranks
  BY WorkloadAssumption
<1>2. batch # <<>> /\ s \in Live /\ s \in Slots
  BY <1>1, InStep, RowFacts
<1>3. /\ Req(i) \in Requests /\ Req(i).id \in Nat /\ Req(i).seed \in Nat
      /\ slotSeed[s] = IF Req(i).seed # NoSeed THEN Req(i).seed ELSE RandomSeed(Req(i).id)
      /\ slotSeed[s] # NoSeed
  BY <1>2, RowStreams
<1>4. i \in rows => Req(i).seed # NoSeed
  BY DEF SeededRows
<1>5. e.key = k /\ e.id = Req(i).id /\ e.seed = Req(i).seed
  BY DEF EntryOf
<1> HIDE DEF e
<1>6. Legitimate(e)
  BY <1>3, <1>4, <1>5 DEF Legitimate, FromStream
<1>7. ASSUME NEW h \in DOMAIN drawn, drawn[h].key = k
      PROVE  drawn[h].id # e.id /\ k.seed # NoSeed
  <2>1. PICK d : d = drawn[h]
    OBVIOUS
  <2>2. Past(d) /\ d.key = k
    BY <1>7, <2>1 DEF NoiseInv, History
  <2>3. k.position \in Nat /\ private[0] \in Nat /\ global[0] \in Nat
        /\ count[s] \in Nat /\ chunks[s] \in Nat
    BY <1>1, <1>2 DEF Keys, NoiseInv, NoiseTyping
  <2>4. k.seed # NoSeed
    <3>1. ASSUME k.seed = NoSeed PROVE FALSE
      <4>1. IF k.kind = "gumbel" THEN 4 * k.position < private[0] ELSE k.position < global[0]
        BY <2>2, <3>1 DEF Past
      <4>2. \/ k.kind = "gumbel" /\ private[0] <= 4 * k.position
            \/ k.kind = "philox" /\ global[0] <= k.position
        BY <1>3, <1>4, <3>1 DEF FromStream
      <4>3. QED
        BY <2>3, <4>1, <4>2
    <3>2. QED
      BY <3>1
  <2>5. ASSUME d.id = e.id PROVE FALSE
    <3>1. slots[s].id = d.id
      BY <1>5, <2>5 DEF Req
    <3>2. IF k.kind = "gumbel" /\ ~ Legacy
          THEN k.position < count[s] + chunks[s] + Drew(0, s)
          ELSE 4 * k.position < gens[0][s].offset
      BY <1>2, <2>2, <2>4, <3>1 DEF Past
    <3>3. Drew(0, s) = 0
      BY DEF Drew
    <3>4. \/ k.kind = "gumbel" /\ ~ Legacy /\ k.position = count[s] + chunks[s]
          \/ (k.kind = "philox" \/ Legacy) /\ 4 * k.position = gens[0][s].offset
      BY <2>4 DEF FromStream
    <3>5. CASE k.kind = "gumbel" /\ ~ Legacy
      BY <2>3, <3>2, <3>3, <3>4, <3>5
    <3>6. CASE ~ (k.kind = "gumbel" /\ ~ Legacy)
      BY <2>3, <3>2, <3>4, <3>6
    <3>7. QED
      BY <3>5, <3>6
  <2>6. QED
    BY <2>1, <2>4, <2>5
<1>8. ASSUME NEW h \in DOMAIN drawn PROVE Apart(drawn[h], e)
  <2>1. Legitimate(drawn[h])
    BY DEF NoiseInv, History
  <2>2. QED
    BY <1>5, <1>6, <1>7, <2>1, SharedSeed DEF Apart
<1>9. QED
  BY <1>6, <1>8 DEF e

(* what a draw changes *)
Recorded(r, ks, m, n, rows) ==
    /\ batch # <<>>
    /\ Live' = Live /\ Rows' = Rows /\ (Legacy' <=> Legacy)
    /\ \A i : Req(i)' = Req(i)
    /\ UNCHANGED <<setup, slots, batch, fresh, count, chunks, partial, userSeed, slotSeed, drawn>>
    /\ stage'[r] \in {"pairs", "done"} /\ keys'[r] = ks
    /\ private'[r] = private[r] + 4 * m /\ global'[r] = global[r] + n
    /\ \A q \in Ranks \ {r} : /\ stage'[q] = stage[q] /\ keys'[q] = keys[q]
                              /\ private'[q] = private[q] /\ global'[q] = global[q]
                              /\ gens'[q] = gens[q]
    /\ \A s \in Slots : gens'[r][s] =
          IF \E i \in rows : batch[i] = s THEN [gens[r][s] EXCEPT !.offset = @ + 4]
          ELSE gens[r][s]
    /\ \A s : /\ Drew(r, s) = 0
              /\ Drew(r, s)' = IF \E i \in Rows : batch[i] = s THEN 1 ELSE 0
              /\ \A q \in Ranks \ {r} : Drew(q, s)' = Drew(q, s)

(* A sampler's draw, slot by slot and rank by rank.                         *)
LEMMA RecordsFacts ==
    ASSUME IInv, NoiseInv, NEW r \in Ranks, NEW m \in Nat, NEW n \in Nat,
           NEW rows \in SUBSET SeededRows, NEW ks, Records(r, ks, m, n, rows)
    PROVE  Recorded(r, ks, m, n, rows)
<1>1. /\ UNCHANGED <<setup, slots, batch>> /\ stage[r] \in {"begun", "logits"}
      /\ \E x \in {"pairs", "done"} : stage' = [stage EXCEPT ![r] = x]
      /\ keys' = [keys EXCEPT ![r] = ks]
      /\ private' = [private EXCEPT ![r] = @ + 4 * m]
      /\ global' = [global EXCEPT ![r] = @ + n]
      /\ gens' = [gens EXCEPT ![r] = [s \in Slots |->
            IF \E i \in rows : batch[i] = s THEN [gens[r][s] EXCEPT !.offset = @ + 4]
            ELSE gens[r][s]]]
  BY DEF Records, requestVars
<1>2. /\ stage \in [Ranks -> {"idle", "begun", "logits", "pairs", "done"}]
      /\ gens = [q \in Ranks |-> [s \in Slots |-> gens[q][s]]]
      /\ private \in [Ranks -> Nat] /\ global \in [Ranks -> Nat]
      /\ keys = [q \in Ranks |-> keys[q]]
  BY DEF NoiseInv, NoiseTyping
<1>3. /\ Live' = Live /\ Rows' = Rows /\ Legacy' = Legacy
      /\ \A i : Req(i)' = Req(i)
  BY <1>1 DEF Live, Rows, Legacy, Req
<1>4. stage'[r] \in {"pairs", "done"} /\ \A q \in Ranks \ {r} : stage'[q] = stage[q]
  BY <1>1, <1>2
<1>5. keys'[r] = ks /\ \A q \in Ranks \ {r} : keys'[q] = keys[q]
  BY <1>1, <1>2
<1>6. /\ private'[r] = private[r] + 4 * m /\ global'[r] = global[r] + n
      /\ \A q \in Ranks \ {r} : private'[q] = private[q] /\ global'[q] = global[q]
  BY <1>1, <1>2
<1>7. /\ \A q \in Ranks \ {r} : gens'[q] = gens[q]
      /\ gens'[r] = [s \in Slots |->
            IF \E i \in rows : batch[i] = s THEN [gens[r][s] EXCEPT !.offset = @ + 4] ELSE gens[r][s]]
  <2> DEFINE next == [s \in Slots |->
            IF \E i \in rows : batch[i] = s THEN [gens[r][s] EXCEPT !.offset = @ + 4] ELSE gens[r][s]]
  <2>1. gens' = [gens EXCEPT ![r] = next]
    BY <1>1
  <2>2. DOMAIN gens = Ranks
    BY <1>2
  <2> HIDE DEF next
  <2>3. gens'[r] = next /\ \A q \in Ranks \ {r} : gens'[q] = gens[q]
    BY <2>1, <2>2
  <2>4. QED
    BY <2>3 DEF next
<1>8. \A s \in Slots : gens'[r][s] =
          IF \E i \in rows : batch[i] = s THEN [gens[r][s] EXCEPT !.offset = @ + 4] ELSE gens[r][s]
  BY <1>7
<1>9. \A s : /\ Drew(r, s) = 0
             /\ Drew(r, s)' = IF \E i \in Rows : batch[i] = s THEN 1 ELSE 0
             /\ \A q \in Ranks \ {r} : Drew(q, s)' = Drew(q, s)
  BY <1>1, <1>3, <1>4 DEF Drew
<1>10. batch # <<>>
  BY <1>1, InStep
<1>11. QED
  BY <1>3, <1>4, <1>5, <1>6, <1>7, <1>8, <1>9, <1>10 DEF Recorded, Records, requestVars

(* The streams only go on.                                                  *)
LEMMA PastStays ==
    ASSUME IInv, NoiseInv, NEW r \in Ranks, NEW m \in Nat, NEW n \in Nat,
           NEW rows \in SUBSET SeededRows, NEW ks, Records(r, ks, m, n, rows),
           NEW e, e.key \in Keys, Past(e)
    PROVE  Past(e)'
<1>1. 0 \in Ranks
  BY WorkloadAssumption
<1>2. Recorded(r, ks, m, n, rows)
  BY <1>1, RecordsFacts
<1>3. /\ batch # <<>> /\ Live' = Live /\ (Legacy <=> Legacy')
      /\ private'[0] \in Nat /\ private'[0] >= private[0]
      /\ global'[0] \in Nat /\ global'[0] >= global[0]
  <2>1. private[0] \in Nat /\ global[0] \in Nat
    BY <1>1 DEF NoiseInv, NoiseTyping
  <2>2. CASE r = 0
    BY <1>1, <2>1, <2>2, <1>2 DEF Recorded
  <2>3. CASE r # 0
    BY <1>1, <2>1, <2>3, <1>2 DEF Recorded
  <2>4. QED
    BY <2>2, <2>3, <1>2 DEF Recorded
<1>4. UNCHANGED <<slots, count, chunks>>
  BY <1>2 DEF Recorded
<1>5. e.key.position \in Nat
  BY DEF Keys
<1>6. private[0] \in Nat /\ global[0] \in Nat
  BY <1>1 DEF NoiseInv, NoiseTyping
<1>7. CASE e.key.seed = NoSeed
  BY <1>3, <1>5, <1>6, <1>7 DEF Past
<1>8. CASE e.key.seed # NoSeed
  <2>1. ASSUME NEW s \in Live, slots[s].id = e.id
        PROVE  IF e.key.kind = "gumbel" /\ ~ Legacy
               THEN e.key.position < count[s] + chunks[s] + Drew(0, s)'
               ELSE 4 * e.key.position < gens'[0][s].offset
    <3>1. s \in Slots /\ count[s] \in Nat /\ chunks[s] \in Nat
      BY DEF Live, NoiseInv, NoiseTyping
    <3>2. CASE e.key.kind = "gumbel" /\ ~ Legacy
      <4>1. e.key.position < count[s] + chunks[s] + Drew(0, s)
        BY <1>8, <2>1, <3>2 DEF Past
      <4>2. Drew(0, s) \in 0 .. 1 /\ Drew(0, s)' \in 0 .. 1
        BY DEF Drew
      <4>3. Drew(0, s) <= Drew(0, s)'
        <5>1. CASE r = 0
          BY <1>1, <4>2, <5>1, <1>2 DEF Recorded
        <5>2. CASE r # 0
          BY <1>1, <4>2, <5>2, <1>2 DEF Recorded
        <5>3. QED
          BY <5>1, <5>2
      <4> DEFINE a == Drew(0, s)
                 b == Drew(0, s)'
      <4>4. a \in Nat /\ b \in Nat /\ a <= b /\ e.key.position < count[s] + chunks[s] + a
        BY <4>1, <4>2, <4>3
      <4> HIDE DEF a, b
      <4>5. e.key.position < count[s] + chunks[s] + b
        BY <1>5, <3>1, <4>4
      <4>6. QED
        BY <3>2, <4>5 DEF b
    <3>3. CASE ~ (e.key.kind = "gumbel" /\ ~ Legacy)
      <4>1. 4 * e.key.position < gens[0][s].offset
        BY <1>8, <2>1, <3>3 DEF Past
      <4>2. CASE r = 0 /\ \E i \in rows : batch[i] = s
        <5>1. gens'[0][s] = [gens[0][s] EXCEPT !.offset = @ + 4]
          BY <3>1, <4>2, <1>2 DEF Recorded
        <5>2. PICK i \in rows : batch[i] = s
          BY <4>2
        <5>3. i \in Rows /\ slots[s].seed # NoSeed
          BY <5>2 DEF SeededRows, Req
        <5>4. gens[0][s] \in [seed : {slots[s].seed}, offset : Nat]
          BY <1>1, <5>3 DEF NoiseInv, Streams
        <5>5. gens'[0][s].offset = gens[0][s].offset + 4 /\ gens[0][s].offset \in Nat
          BY <5>1, <5>4
        <5>6. QED
          BY <1>5, <3>3, <4>1, <5>5
      <4>3. CASE ~ (r = 0 /\ \E i \in rows : batch[i] = s)
        <5>1. gens'[0][s] = gens[0][s]
          <6>1. CASE r = 0
            BY <3>1, <4>3, <6>1, <1>2 DEF Recorded
          <6>2. CASE r # 0
            BY <1>1, <6>2, <1>2 DEF Recorded
          <6>3. QED
            BY <6>1, <6>2
        <5>2. QED
          BY <3>3, <4>1, <5>1
      <4>4. QED
        BY <4>2, <4>3
    <3>4. QED
      BY <3>2, <3>3
  <2>2. QED
    BY <1>3, <1>4, <1>8, <2>1 DEF Past
<1>9. QED
  BY <1>7, <1>8

(* A new key is of a position its stream has passed now.                    *)
LEMMA KeyPast ==
    ASSUME IInv, NoiseInv, NEW m \in Nat, NEW n \in Nat, NEW rows \in SUBSET SeededRows,
           NEW ks, Records(0, ks, m, n, rows), NEW i \in Rows, NEW k \in Keys,
           FromStream(0, i, k, m, n, rows)
    PROVE  Past(EntryOf(i, k))'
<1> DEFINE s == batch[i]
<1>1. 0 \in Ranks
  BY WorkloadAssumption
<1>2. Recorded(0, ks, m, n, rows)
  BY <1>1, RecordsFacts
<1>3. /\ batch # <<>> /\ Live' = Live /\ (Legacy <=> Legacy')
      /\ \A j : Req(j)' = Req(j)
      /\ private'[0] = private[0] + 4 * m /\ global'[0] = global[0] + n
  BY <1>1, <1>2 DEF Recorded
<1>4. UNCHANGED <<slots, count, chunks>>
  BY <1>2 DEF Recorded
<1>5. /\ k.position \in Nat /\ private[0] \in Nat /\ global[0] \in Nat
      /\ \A u \in Slots : count[u] \in Nat /\ chunks[u] \in Nat
  BY <1>1 DEF Keys, NoiseInv, NoiseTyping
<1>6. s \in Live /\ s \in Slots /\ slotSeed[s] # NoSeed
  BY <1>3, RowFacts, RowStreams
<1>7. i \in rows => Req(i).seed # NoSeed
  BY DEF SeededRows
<1> DEFINE past ==
        IF k.seed = NoSeed
        THEN IF k.kind = "gumbel" THEN 4 * k.position < private'[0] ELSE k.position < global'[0]
        ELSE \A u \in Live : slots[u].id = Req(i).id =>
                IF k.kind = "gumbel" /\ ~ Legacy
                THEN k.position < count[u] + chunks[u] + Drew(0, u)'
                ELSE 4 * k.position < gens'[0][u].offset
<1>8. ASSUME k.seed = NoSeed PROVE past
  <2>1. \/ k.kind = "gumbel" /\ 4 * k.position < private[0] + 4 * m
        \/ k.kind = "philox" /\ k.position < global[0] + n
    BY <1>6, <1>7, <1>8 DEF FromStream
  <2>2. QED
    BY <1>3, <1>5, <1>8, <2>1
<1>9. ASSUME k.seed # NoSeed PROVE past
  <2>1. ASSUME NEW u \in Live, slots[u].id = Req(i).id PROVE u = s
    BY <1>6, <2>1 DEF IInv, OwnIds, Req
  <2>2. \/ k.kind = "gumbel" /\ ~ Legacy /\ k.position = count[s] + chunks[s]
        \/ i \in rows /\ (k.kind = "philox" \/ Legacy) /\ 4 * k.position = gens[0][s].offset
    BY <1>9 DEF FromStream
  <2>3. CASE k.kind = "gumbel" /\ ~ Legacy
    <3>1. \A u : u = s => Drew(0, u)' = 1
      BY <1>1, <1>2 DEF Recorded
    <3>2. k.position < count[s] + chunks[s] + 1
      BY <1>5, <1>6, <2>2, <2>3
    <3>3. ASSUME NEW u \in Live, slots[u].id = Req(i).id
          PROVE  k.position < count[u] + chunks[u] + Drew(0, u)'
      <4>1. u = s
        BY <2>1, <3>3
      <4>2. QED
        BY <3>1, <3>2, <4>1
    <3>4. QED
      BY <1>9, <2>3, <3>3
  <2>4. CASE ~ (k.kind = "gumbel" /\ ~ Legacy)
    <3>1. i \in rows /\ 4 * k.position = gens[0][s].offset
      BY <2>2, <2>4
    <3>2. gens'[0][s] = [gens[0][s] EXCEPT !.offset = @ + 4]
      BY <1>1, <1>6, <3>1, <1>2 DEF Recorded
    <3>3. gens[0][s] \in [seed : {slots[s].seed}, offset : Nat]
      BY <1>1, <1>6, <1>7, <3>1 DEF NoiseInv, Streams, Req
    <3>4. gens'[0][s].offset = gens[0][s].offset + 4 /\ gens[0][s].offset \in Nat
      BY <3>2, <3>3
    <3>5. 4 * k.position < gens'[0][s].offset
      BY <1>5, <3>1, <3>4
    <3>6. ASSUME NEW u \in Live, slots[u].id = Req(i).id
          PROVE  4 * k.position < gens'[0][u].offset
      <4>1. u = s
        BY <2>1, <3>6
      <4>2. QED
        BY <3>5, <4>1
    <3>7. QED
      BY <1>9, <2>4, <3>6
  <2>5. QED
    BY <2>3, <2>4
<1>10. past
  BY <1>8, <1>9
<1>11. /\ EntryOf(i, k)'.key = k /\ EntryOf(i, k)'.id = Req(i).id
  BY <1>3 DEF EntryOf
<1>12. QED
  BY <1>3, <1>4, <1>10, <1>11 DEF Past

(* What was drawn before stays apart, if the streams only went on.          *)
LEMMA HistoryStays ==
    ASSUME History, UNCHANGED drawn, fresh' \subseteq fresh,
           \A n \in DOMAIN drawn : \A e : e = drawn[n] => Past(e)'
    PROVE  History'
<1>1. ASSUME NEW n \in DOMAIN drawn PROVE Past(drawn[n])' /\ Legitimate(drawn[n])'
  <2>1. PICK e : e = drawn[n]
    OBVIOUS
  <2>2. Past(e)'
    BY <2>1
  <2>3. drawn'[n] = e
    BY <2>1
  <2>4. Past(drawn[n])'
    BY <2>2, <2>3 DEF Past
  <2>5. Legitimate(drawn[n])'
    BY DEF History, Legitimate
  <2>6. QED
    BY <2>4, <2>5
<1>2. \A n \in DOMAIN drawn : \A q \in fresh' : q.id # drawn[n].id
  BY DEF History
<1>3. \A n, h \in DOMAIN drawn : n < h => Apart(drawn[n], drawn[h])'
  BY DEF History, Apart
<1>4. QED
  BY <1>1, <1>2, <1>3 DEF History

(* A stream advanced by whole positions is one still.                       *)
LEMMA DrawingTyping ==
    ASSUME IInv, NoiseInv, NEW r \in Ranks, NEW m \in Nat, NEW n \in Nat,
           NEW rows \in SUBSET SeededRows, NEW ks, Records(r, ks, m, n, rows)
    PROVE  NoiseTyping'
<1>1. Recorded(r, ks, m, n, rows)
  BY RecordsFacts
<1>2. NoiseTyping
  BY DEF NoiseInv
<1>3. stage' \in [Ranks -> {"idle", "begun", "logits", "pairs", "done"}]
  <2>1. \E x \in {"pairs", "done"} : stage' = [stage EXCEPT ![r] = x]
    BY DEF Records
  <2>2. QED
    BY <1>2, <2>1 DEF NoiseTyping
<1>4. gens' = [q \in Ranks |-> [s \in Slots |-> gens'[q][s]]]
  <2> DEFINE next == [s \in Slots |->
          IF \E i \in rows : batch[i] = s THEN [gens[r][s] EXCEPT !.offset = @ + 4]
          ELSE gens[r][s]]
  <2>1. gens' = [gens EXCEPT ![r] = next]
    BY DEF Records
  <2>2. next = [s \in Slots |-> next[s]]
    OBVIOUS
  <2>3. gens = [q \in Ranks |-> [s \in Slots |-> gens[q][s]]]
    BY <1>2 DEF NoiseTyping
  <2> HIDE DEF next
  <2>4. \A q \in Ranks : gens'[q] = [s \in Slots |-> gens'[q][s]]
    <3>1. gens'[r] = next
      BY <2>1, <2>3
    <3>2. \A q \in Ranks \ {r} : gens'[q] = gens[q]
      BY <2>1, <2>3
    <3>3. \A q \in Ranks : gens[q] = [s \in Slots |-> gens[q][s]]
      BY <2>3
    <3>4. QED
      BY <2>2, <3>1, <3>2, <3>3
  <2>5. gens' = [q \in Ranks |-> gens'[q]]
    <3>1. DOMAIN gens = Ranks
      BY <2>3
    <3>2. QED
      BY <2>1, <3>1
  <2>6. QED
    BY <2>4, <2>5
<1>5. private' \in [Ranks -> Nat] /\ global' \in [Ranks -> Nat]
  BY <1>2 DEF NoiseTyping, Records
<1>6. \A q \in Ranks : private'[q] % 4 = 0
  <2>1. private[r] \in Nat /\ private[r] % 4 = 0
    BY <1>2 DEF NoiseTyping
  <2>2. \A x \in Nat : x % 4 = 0 => (x + 4 * m) % 4 = 0
    OBVIOUS
  <2>3. private'[r] % 4 = 0
    BY <1>1, <2>1, <2>2 DEF Recorded
  <2>4. QED
    BY <1>1, <1>2, <2>3 DEF Recorded, NoiseTyping
<1>7. keys' = [q \in Ranks |-> keys'[q]]
  BY <1>2 DEF NoiseTyping, Records
<1>8. /\ count' \in [Slots -> Nat] /\ chunks' \in [Slots -> Nat]
      /\ drawn' \in Seq(Entries)
      /\ partial' \subseteq Rows'
      /\ fresh' \subseteq Requests
      /\ userSeed' \in [Slots -> BOOLEAN] /\ slotSeed' \in [Slots -> Nat]
      /\ (Legacy' => ~ setup'.chunked /\ partial' = {})
  BY <1>1, <1>2 DEF Recorded, NoiseTyping
<1>9. QED
  BY <1>3, <1>4, <1>5, <1>6, <1>7, <1>8 DEF NoiseTyping

(* Only generators of seeded rows are advanced, by a whole position.        *)
LEMMA DrawingStreams ==
    ASSUME IInv, NoiseInv, NEW r \in Ranks, NEW m \in Nat, NEW n \in Nat,
           NEW rows \in SUBSET SeededRows, NEW ks, Records(r, ks, m, n, rows)
    PROVE  Streams'
<1>1. Recorded(r, ks, m, n, rows)
  BY RecordsFacts
<1>2. ASSUME NEW s \in Live, NEW q \in Ranks
      PROVE  IF slots[s].seed = NoSeed THEN gens'[q][s] = None
             ELSE /\ gens'[q][s] \in [seed : {slots[s].seed}, offset : Nat]
                  /\ gens'[q][s].offset % 4 = 0
  <2>1. IF slots[s].seed = NoSeed THEN gens[q][s] = None
        ELSE /\ gens[q][s] \in [seed : {slots[s].seed}, offset : Nat]
             /\ gens[q][s].offset % 4 = 0
    BY DEF NoiseInv, Streams
  <2>2. s \in Slots
    BY DEF Live
  <2>3. CASE q = r /\ \E i \in rows : batch[i] = s
    <3>1. gens'[q][s] = [gens[q][s] EXCEPT !.offset = @ + 4]
      BY <1>1, <2>2, <2>3 DEF Recorded
    <3>2. slots[s].seed # NoSeed
      BY <2>3 DEF SeededRows, Req
    <3>3. \A x \in Nat : x % 4 = 0 => x + 4 \in Nat /\ (x + 4) % 4 = 0
      OBVIOUS
    <3>4. gens[q][s] \in [seed : {slots[s].seed}, offset : Nat] /\ gens[q][s].offset % 4 = 0
      BY <2>1, <3>2
    <3>5. gens[q][s].offset + 4 \in Nat /\ (gens[q][s].offset + 4) % 4 = 0
      BY <3>3, <3>4
    <3>6. /\ gens'[q][s] \in [seed : {slots[s].seed}, offset : Nat]
          /\ gens'[q][s].offset = gens[q][s].offset + 4
      BY <3>1, <3>4, <3>5
    <3>7. QED
      BY <3>2, <3>5, <3>6
  <2>4. CASE ~ (q = r /\ \E i \in rows : batch[i] = s)
    <3>1. gens'[q][s] = gens[q][s]
      BY <1>1, <2>2, <2>4 DEF Recorded
    <3>2. QED
      BY <2>1, <3>1
  <2>5. QED
    BY <2>3, <2>4
<1>3. QED
  BY <1>1, <1>2 DEF Recorded, NoiseInv, Streams

(* Every row of the legacy runner that is seeded and not greedy is drawn    *)
(* from its generator, once.                                                *)
LEMMA DrawingOffsets ==
    ASSUME IInv, NoiseInv, NEW r \in Ranks, NEW m \in Nat, NEW n \in Nat,
           NEW rows \in SUBSET SeededRows, NEW ks, Records(r, ks, m, n, rows),
           Draws(r, ks, m, n, rows)
    PROVE  Offsets'
<1>1. Recorded(r, ks, m, n, rows)
  BY RecordsFacts
<1>2. ASSUME Legacy, NEW s \in Live, NEW q \in Ranks, slots[s].seed # NoSeed, slots[s].temp # Greedy
      PROVE  gens'[q][s].offset = 4 * (count[s] + Drew(q, s)')
  <2>1. gens[q][s].offset = 4 * (count[s] + Drew(q, s))
    BY <1>2 DEF NoiseInv, Offsets
  <2>2. s \in Slots /\ count[s] \in Nat
    BY DEF Live, NoiseInv, NoiseTyping
  <2>3. CASE q # r
    BY <1>1, <2>1, <2>3 DEF Recorded
  <2>4. CASE q = r /\ \E i \in Rows : batch[i] = s
    <3>1. PICK i \in Rows : batch[i] = s
      BY <2>4
    <3>2. i \in rows
      BY <1>2, <3>1 DEF Draws, SeededRows, Req
    <3>3. gens'[q][s] = [gens[q][s] EXCEPT !.offset = @ + 4]
      BY <1>1, <2>2, <2>4, <3>1, <3>2 DEF Recorded
    <3>4. gens[q][s] \in [seed : {slots[s].seed}, offset : Nat]
      BY <1>2 DEF NoiseInv, Streams
    <3>5. gens'[q][s].offset = gens[q][s].offset + 4
      BY <3>3, <3>4
    <3>6. Drew(q, s) = 0 /\ Drew(q, s)' = 1
      BY <1>1, <2>4 DEF Recorded
    <3>7. 4 * (count[s] + 0) + 4 = 4 * (count[s] + 1)
      BY <2>2
    <3>8. QED
      BY <2>1, <3>5, <3>6, <3>7
  <2>5. CASE q = r /\ ~ \E i \in Rows : batch[i] = s
    <3>1. gens'[q][s] = gens[q][s]
      BY <1>1, <2>2, <2>5 DEF Recorded, SeededRows
    <3>2. Drew(q, s) = 0 /\ Drew(q, s)' = 0
      BY <1>1, <2>5 DEF Recorded
    <3>3. QED
      BY <2>1, <3>1, <3>2
  <2>6. QED
    BY <2>3, <2>4, <2>5
<1>3. QED
  BY <1>1, <1>2 DEF Recorded, Offsets

(* What rank 0 draws is noise of its own; the other ranks repeat it.        *)
LEMMA DrawingPending ==
    ASSUME IInv, NoiseInv, NEW r \in Ranks, NEW m \in Nat, NEW n \in Nat,
           NEW rows \in SUBSET SeededRows, NEW ks, Records(r, ks, m, n, rows),
           Draws(r, ks, m, n, rows)
    PROVE  Pending'
<1>1. Recorded(r, ks, m, n, rows)
  BY RecordsFacts
<1>2. 0 \in Ranks
  BY WorkloadAssumption
<1>3. CASE r = 0
  <2>1. keys'[0] = ks /\ stage'[0] \in {"pairs", "done"} /\ stage[0] \in {"begun", "logits"}
    BY <1>1, <1>3 DEF Recorded, Records
  <2>2. ASSUME ks # <<>>, NEW i \in Rows
        PROVE  /\ ks[i] \in Keys /\ Legitimate(EntryOf(i, ks[i])) /\ Past(EntryOf(i, ks[i]))'
               /\ \A h \in DOMAIN drawn : Apart(drawn[h], EntryOf(i, ks[i]))
    <3>1. ks[i] \in Keys /\ FromStream(0, i, ks[i], m, n, rows)
      BY <1>3, <2>2 DEF Draws
    <3>2. /\ Legitimate(EntryOf(i, ks[i]))
          /\ \A h \in DOMAIN drawn : Apart(drawn[h], EntryOf(i, ks[i]))
      BY <2>1, <3>1, KeyFacts
    <3>3. Records(0, ks, m, n, rows)
      BY <1>3
    <3>4. Past(EntryOf(i, ks[i]))'
      BY <3>1, <3>3, KeyPast
    <3>5. QED
      BY <3>1, <3>2, <3>4
  <2>3. ASSUME ks # <<>>, NEW i \in Rows, NEW j \in Rows, i < j
        PROVE  Apart(EntryOf(i, ks[i]), EntryOf(j, ks[j]))
    <3>1. Req(i).id # Req(j).id
      <4>1. /\ batch[i] \in Live /\ batch[j] \in Live
            /\ batch[i] = batch[j] => i = j
        BY <1>1, RowFacts DEF Recorded
      <4>2. i # j
        <5>1. i \in Nat /\ j \in Nat
          BY <1>1, RowFacts DEF Recorded
        <5>2. QED
          BY <2>3, <5>1
      <4>3. QED
        BY <4>1, <4>2 DEF IInv, OwnIds, Req
    <3>2. ks[i].seed = NoSeed => ks[i] # ks[j]
      BY <2>3 DEF Draws
    <3>3. Legitimate(EntryOf(i, ks[i])) /\ Legitimate(EntryOf(j, ks[j]))
      BY <2>2, <2>3
    <3>4. /\ EntryOf(i, ks[i]).key = ks[i] /\ EntryOf(i, ks[i]).id = Req(i).id
          /\ EntryOf(j, ks[j]).key = ks[j] /\ EntryOf(j, ks[j]).id = Req(j).id
      BY DEF EntryOf
    <3>5. QED
      BY <3>1, <3>2, <3>3, <3>4, SharedSeed DEF Apart
  <2>4. \A i : Entry(i)' = EntryOf(i, ks[i])
    BY <1>1, <2>1 DEF Entry, EntryOf, Recorded
  <2>5. ASSUME ks # <<>>, NEW i \in Rows
        PROVE  /\ keys'[0][i] \in Keys /\ Legitimate(Entry(i))' /\ Past(Entry(i))'
               /\ \A h \in DOMAIN drawn : Apart(drawn[h], Entry(i))'
               /\ \A j \in Rows : i < j => Apart(Entry(i), Entry(j))'
    <3>1. keys'[0][i] \in Keys
      BY <2>1, <2>2, <2>5
    <3>2. Legitimate(Entry(i))'
      BY <2>2, <2>4, <2>5 DEF Legitimate
    <3>3. Past(Entry(i))'
      <4>1. Past(EntryOf(i, ks[i]))'
        BY <2>2, <2>5
      <4>2. EntryOf(i, ks[i])' = Entry(i)'
        BY <2>1 DEF EntryOf, Entry
      <4>3. QED
        BY <4>1, <4>2 DEF Past
    <3>4. \A h \in DOMAIN drawn : Apart(drawn[h], Entry(i))'
      BY <1>1, <2>2, <2>4, <2>5 DEF Apart, Recorded
    <3>5. \A j \in Rows : i < j => Apart(Entry(i), Entry(j))'
      BY <2>3, <2>4, <2>5 DEF Apart
    <3>6. QED
      BY <3>1, <3>2, <3>3, <3>4, <3>5
  <2>6. ks # <<>> => DOMAIN ks = Rows
    BY DEF Draws
  <2>7. Rows' = Rows /\ drawn' = drawn
    BY <1>1 DEF Recorded
  <2>8. QED
    BY <2>1, <2>5, <2>6, <2>7 DEF Pending
<1>4. CASE r # 0
  <2>1. /\ keys'[0] = keys[0] /\ stage'[0] = stage[0] /\ Rows' = Rows /\ drawn' = drawn
        /\ \A i : Req(i)' = Req(i)
    BY <1>1, <1>2, <1>4 DEF Recorded
  <2>2. \A i : Entry(i)' = Entry(i)
    BY <2>1 DEF Entry
  <2>3. ASSUME keys[0] # <<>>, NEW i \in Rows
        PROVE  /\ keys'[0][i] \in Keys /\ Legitimate(Entry(i))' /\ Past(Entry(i))'
               /\ \A h \in DOMAIN drawn : Apart(drawn[h], Entry(i))'
               /\ \A j \in Rows : i < j => Apart(Entry(i), Entry(j))'
    <3>1. /\ keys[0][i] \in Keys /\ Legitimate(Entry(i)) /\ Past(Entry(i))
          /\ \A h \in DOMAIN drawn : Apart(drawn[h], Entry(i))
          /\ \A j \in Rows : i < j => Apart(Entry(i), Entry(j))
      BY <2>3 DEF NoiseInv, Pending
    <3>2. Past(Entry(i))'
      <4>1. PICK e : e = Entry(i)
        OBVIOUS
      <4>2. Past(e) /\ e.key \in Keys
        BY <3>1, <4>1 DEF Entry
      <4>3. Past(e)'
        BY <4>2, PastStays
      <4>4. Entry(i)' = e
        BY <2>2, <4>1
      <4>5. QED
        BY <4>3, <4>4 DEF Past
    <3>3. Legitimate(Entry(i))'
      BY <2>2, <3>1 DEF Legitimate
    <3>4. \A h \in DOMAIN drawn : Apart(drawn[h], Entry(i))'
      BY <2>1, <2>2, <3>1 DEF Apart
    <3>5. \A j \in Rows : i < j => Apart(Entry(i), Entry(j))'
      BY <2>2, <3>1 DEF Apart
    <3>6. QED
      BY <2>1, <3>1, <3>2, <3>3, <3>4, <3>5
  <2>4. QED
    BY <2>1, <2>3 DEF NoiseInv, Pending
<1>5. QED
  BY <1>3, <1>4

(* So a draw keeps all of the invariant.                                    *)
LEMMA DrawingCorrect ==
    ASSUME IInv, NoiseInv, NEW r \in Ranks, HasDrawn(r)
    PROVE  NoiseInv'
<1>1. PICK m \in Nat, n \in Nat : \E rows \in SUBSET SeededRows : \E ks :
          Draws(r, ks, m, n, rows) /\ Records(r, ks, m, n, rows)
  BY DEF HasDrawn
<1>2. PICK rows \in SUBSET SeededRows : \E ks :
          Draws(r, ks, m, n, rows) /\ Records(r, ks, m, n, rows)
  BY <1>1
<1>3. PICK ks : Draws(r, ks, m, n, rows) /\ Records(r, ks, m, n, rows)
  BY <1>2
<1>4. NoiseTyping'
  BY <1>3, DrawingTyping
<1>5. Streams'
  BY <1>3, DrawingStreams
<1>6. Offsets'
  BY <1>3, DrawingOffsets
<1>7. Pending'
  BY <1>3, DrawingPending
<1>8. History'
  <2>1. UNCHANGED <<drawn, fresh>>
    BY <1>3 DEF Records, requestVars
  <2>2. ASSUME NEW h \in DOMAIN drawn, NEW e, e = drawn[h] PROVE Past(e)'
    <3>1. Past(e)
      BY <2>2 DEF NoiseInv, History
    <3>2. e.key \in Keys
      <4>1. drawn \in Seq(Entries)
        BY DEF NoiseInv, NoiseTyping
      <4>2. e \in Entries
        BY <2>2, <4>1
      <4>3. QED
        BY <4>2 DEF Entries
    <3>3. QED
      BY <1>3, <3>1, <3>2, PastStays
  <2>3. QED
    BY <2>1, <2>2, HistoryStays DEF NoiseInv
<1>9. QED
  BY <1>4, <1>5, <1>6, <1>7, <1>8 DEF NoiseInv

(* A step that neither draws nor changes a request.                         *)
LEMMA NoiseSame ==
    ASSUME NoiseInv,
           UNCHANGED <<setup, fresh, slots, count, chunks, partial, userSeed, slotSeed,
                       batch, drawn, gens, private, global, keys>>,
           stage' \in [Ranks -> {"idle", "begun", "logits", "pairs", "done"}],
           \A r \in Ranks : stage'[r] \in {"pairs", "done"} <=> stage[r] \in {"pairs", "done"}
    PROVE  NoiseInv'
<1>1. 0 \in Ranks
  BY WorkloadAssumption
<1>2. /\ Live' = Live /\ Rows' = Rows /\ (Legacy' <=> Legacy)
      /\ \A i : Req(i)' = Req(i) /\ Entry(i)' = Entry(i)
      /\ \A s : \A r \in Ranks : Drew(r, s)' = Drew(r, s)
  BY DEF Live, Rows, Legacy, Req, Entry, Drew
<1>3. ASSUME NEW e, Past(e) PROVE Past(e)'
  BY <1>1, <1>2, <1>3 DEF Past
<1>4. NoiseTyping'
  BY <1>2 DEF NoiseInv, NoiseTyping
<1>5. Streams'
  BY <1>2 DEF NoiseInv, Streams
<1>6. Offsets'
  BY <1>2 DEF NoiseInv, Offsets
<1>7. History'
  <2>1. \A h \in DOMAIN drawn : \A e : e = drawn[h] => Past(e)'
    BY <1>3 DEF NoiseInv, History
  <2>2. QED
    BY <2>1, HistoryStays DEF NoiseInv
<1>8. Pending'
  <2>1. stage'[0] \in {"idle", "begun", "logits"} => stage[0] \in {"idle", "begun", "logits"}
    BY <1>1 DEF NoiseInv, NoiseTyping
  <2>2. ASSUME keys[0] # <<>>, NEW i \in Rows PROVE Past(Entry(i))'
    <3>1. PICK e : e = Entry(i)
      OBVIOUS
    <3>2. Past(e)'
      BY <1>3, <2>2, <3>1 DEF NoiseInv, Pending
    <3>3. Entry(i)' = e
      BY <1>2, <3>1
    <3>4. QED
      BY <3>2, <3>3 DEF Past
  <2>3. ASSUME keys[0] # <<>>, NEW i \in Rows
        PROVE  /\ keys'[0][i] \in Keys /\ Legitimate(Entry(i))'
               /\ \A h \in DOMAIN drawn : Apart(drawn[h], Entry(i))'
               /\ \A j \in Rows : i < j => Apart(Entry(i), Entry(j))'
    <3>1. /\ keys[0][i] \in Keys /\ Legitimate(Entry(i))
          /\ \A h \in DOMAIN drawn : Apart(drawn[h], Entry(i))
          /\ \A j \in Rows : i < j => Apart(Entry(i), Entry(j))
      BY <2>3 DEF NoiseInv, Pending
    <3>2. QED
      BY <1>2, <3>1 DEF Legitimate, Apart
  <2>4. QED
    BY <1>2, <2>1, <2>2, <2>3 DEF NoiseInv, Pending
<1>9. QED
  BY <1>4, <1>5, <1>6, <1>7, <1>8 DEF NoiseInv

(* Every step of a rank draws once, or does not touch the streams.          *)
LEMMA RankStepNoise ==
    ASSUME IInv, NoiseInv, NEW r \in Ranks, RankStep(r)
    PROVE  NoiseInv'
<1>1. stage \in [Ranks -> {"idle", "begun", "logits", "pairs", "done"}]
  BY DEF NoiseInv, NoiseTyping
<1>2. CASE ComputeLogits(r)
  <2>1. /\ stage[r] = "begun" /\ stage' = [stage EXCEPT ![r] = "logits"]
        /\ UNCHANGED <<setup, fresh, slots, count, chunks, partial, userSeed, slotSeed,
                       batch, drawn, gens, private, global, keys>>
    BY <1>2 DEF ComputeLogits, requestVars
  <2>2. QED
    BY <1>1, <2>1, NoiseSame
<1>3. CASE ReducePairs(r)
  <2>1. /\ stage[r] = "pairs" /\ stage' = [stage EXCEPT ![r] = "done"]
        /\ UNCHANGED <<setup, fresh, slots, count, chunks, partial, userSeed, slotSeed,
                       batch, drawn, gens, private, global, keys>>
    BY <1>3 DEF ReducePairs, requestVars
  <2>2. QED
    BY <1>1, <2>1, NoiseSame
<1>4. CASE SampleUnfiltered(r) \/ SampleShard(r)
  BY <1>4, UnfilteredDraws, DrawingCorrect
<1>5. CASE SampleGreedy(r)
  BY <1>5, GreedyDraws, DrawingCorrect
<1>6. CASE SampleLegacyGumbel(r) \/ SampleSeeded(r) \/ SampleWorkerSeeded(r)
  BY <1>6, SeededDraws, DrawingCorrect
<1>7. CASE SampleNative(r) \/ SampleWorkerNative(r)
  BY <1>7, NativeDraws, DrawingCorrect
<1>8. CASE SampleByPosition(r)
  BY <1>8, PositionDraws, DrawingCorrect
<1>9. QED
  BY <1>2, <1>3, <1>4, <1>5, <1>6, <1>7, <1>8 DEF RankStep

(* Between steps nothing is drawn.                                          *)
LEMMA BetweenFacts ==
    ASSUME IInv, NoiseInv, Idle
    PROVE  /\ 0 \in Ranks /\ batch = <<>> /\ Rows = {} /\ partial = {} /\ keys[0] = <<>>
           /\ \A r \in Ranks : \A s : Drew(r, s) = 0
<1>1. 0 \in Ranks
  BY WorkloadAssumption
<1>2. batch = <<>>
  BY IdleBetween
<1>3. Rows = {}
  BY <1>2 DEF Rows
<1>4. partial = {}
  BY <1>3 DEF NoiseInv, NoiseTyping
<1>5. keys[0] = <<>>
  BY <1>1 DEF Idle, NoiseInv, Pending
<1>6. \A r \in Ranks : \A s : Drew(r, s) = 0
  BY DEF Idle, Drew
<1>7. QED
  BY <1>1, <1>2, <1>3, <1>4, <1>5, <1>6

(* A request that comes starts its streams, and was never drawn for.        *)
LEMMA AddRequestNoise ==
    ASSUME IInv, NoiseInv, NEW s \in Slots, NEW q \in fresh, AddRequest(s, q)
    PROVE  NoiseInv'
<1> DEFINE g == IF q.seed = NoSeed THEN None ELSE [seed |-> q.seed, offset |-> 0]
<1>1. /\ Idle /\ slots[s] = None
      /\ fresh' = fresh \ {q} /\ slots' = [slots EXCEPT ![s] = q]
      /\ count' = [count EXCEPT ![s] = 0] /\ chunks' = [chunks EXCEPT ![s] = 0]
      /\ userSeed' = [userSeed EXCEPT ![s] = q.seed # NoSeed]
      /\ slotSeed' = [slotSeed EXCEPT ![s] = IF q.seed # NoSeed THEN q.seed ELSE RandomSeed(q.id)]
      /\ gens' = [r \in Ranks |-> [gens[r] EXCEPT ![s] = g]]
      /\ UNCHANGED <<setup, partial, batch, drawn, private, global, stage, keys>>
  BY DEF AddRequest
<1>2. /\ 0 \in Ranks /\ batch = <<>> /\ Rows = {} /\ keys[0] = <<>>
      /\ \A r \in Ranks : \A u : Drew(r, u) = 0
  BY <1>1, BetweenFacts
<1>3. q \in Requests /\ q \in fresh
  BY DEF NoiseInv, NoiseTyping
<1>4. /\ slots'[s] = q /\ count'[s] = 0 /\ chunks'[s] = 0
      /\ \A u \in Slots \ {s} : /\ slots'[u] = slots[u] /\ count'[u] = count[u]
                                /\ chunks'[u] = chunks[u]
  BY <1>1 DEF IInv, Typing, NoiseInv, NoiseTyping
<1>5. /\ gens = [r \in Ranks |-> [u \in Slots |-> gens[r][u]]]
  BY DEF NoiseInv, NoiseTyping
<1> HIDE DEF g
<1>6. \A r \in Ranks : gens'[r] = [[u \in Slots |-> gens[r][u]] EXCEPT ![s] = g]
  BY <1>1, <1>5
<1>7. \A r \in Ranks : gens'[r][s] = g /\ \A u \in Slots \ {s} : gens'[r][u] = gens[r][u]
  BY <1>6
<1>8. /\ Live' \subseteq Live \cup {s} /\ s \notin Live /\ Rows' = {} /\ (Legacy' <=> Legacy)
      /\ \A r \in Ranks : \A u : Drew(r, u)' = 0
  <2>1. Live' \subseteq Live \cup {s} /\ s \notin Live
    BY <1>1, <1>4 DEF Live
  <2>2. Rows' = {} /\ (Legacy' <=> Legacy)
    BY <1>1, <1>2 DEF Rows, Legacy
  <2>3. \A r \in Ranks : stage'[r] = "idle"
    BY <1>1 DEF Idle
  <2>4. QED
    BY <2>1, <2>2, <2>3 DEF Drew
<1>9. NoiseTyping'
  <2>1. count' \in [Slots -> Nat] /\ chunks' \in [Slots -> Nat]
    BY <1>1 DEF NoiseInv, NoiseTyping
  <2>2. gens' = [r \in Ranks |-> [u \in Slots |-> gens'[r][u]]]
    <3>1. \A r \in Ranks : gens'[r] = [u \in Slots |-> gens'[r][u]]
      BY <1>6
    <3>2. gens' = [r \in Ranks |-> gens'[r]]
      BY <1>1
    <3>3. QED
      BY <3>1, <3>2
  <2>3. /\ fresh' \subseteq Requests /\ partial' \subseteq Rows'
        /\ (Legacy' => ~ setup'.chunked /\ partial' = {})
    BY <1>1, <1>2, <1>8 DEF NoiseInv, NoiseTyping
  <2>4. userSeed' \in [Slots -> BOOLEAN] /\ slotSeed' \in [Slots -> Nat]
    <3>1. (q.seed # NoSeed) \in BOOLEAN /\ q.seed \in Nat /\ RandomSeed(q.id) \in Nat
      BY <1>3, WorkloadAssumption DEF RandomSeed
    <3>2. QED
      BY <1>1, <3>1 DEF NoiseInv, NoiseTyping
  <2>5. QED
    BY <1>1, <2>1, <2>2, <2>3, <2>4 DEF NoiseInv, NoiseTyping
<1>10. Streams'
  <2>1. /\ userSeed'[s] <=> q.seed # NoSeed
        /\ slotSeed'[s] = IF q.seed # NoSeed THEN q.seed ELSE RandomSeed(q.id)
        /\ \A u \in Slots \ {s} : (userSeed'[u] <=> userSeed[u]) /\ slotSeed'[u] = slotSeed[u]
    BY <1>1 DEF NoiseInv, NoiseTyping
  <2>2. q.seed \in Nat
    BY <1>3, WorkloadAssumption
  <2>3. ASSUME NEW u \in Live'
        PROVE  /\ slots'[u] \in Requests
               /\ userSeed'[u] <=> slots'[u].seed # NoSeed
               /\ slotSeed'[u] = IF slots'[u].seed # NoSeed THEN slots'[u].seed
                                 ELSE RandomSeed(slots'[u].id)
               /\ \A r \in Ranks :
                     IF slots'[u].seed = NoSeed THEN gens'[r][u] = None
                     ELSE /\ gens'[r][u] \in [seed : {slots'[u].seed}, offset : Nat]
                          /\ gens'[r][u].offset % 4 = 0
    <3>1. CASE u = s
      <4>1. q.seed # NoSeed => g \in [seed : {q.seed}, offset : Nat] /\ g.offset % 4 = 0
        BY DEF g
      <4>2. q.seed = NoSeed => g = None
        BY DEF g
      <4>3. QED
        BY <1>3, <1>4, <1>7, <2>1, <3>1, <4>1, <4>2
    <3>2. CASE u # s
      <4>1. u \in Live /\ u \in Slots \ {s}
        BY <1>8, <3>2 DEF Live
      <4>2. slots'[u] = slots[u] /\ \A r \in Ranks : gens'[r][u] = gens[r][u]
        BY <1>4, <1>7, <4>1
      <4>3. /\ slots[u] \in Requests
            /\ userSeed[u] <=> slots[u].seed # NoSeed
            /\ slotSeed[u] = IF slots[u].seed # NoSeed THEN slots[u].seed
                              ELSE RandomSeed(slots[u].id)
            /\ \A r \in Ranks :
                  IF slots[u].seed = NoSeed THEN gens[r][u] = None
                  ELSE /\ gens[r][u] \in [seed : {slots[u].seed}, offset : Nat]
                       /\ gens[r][u].offset % 4 = 0
        BY <4>1 DEF NoiseInv, Streams
      <4>4. (userSeed'[u] <=> userSeed[u]) /\ slotSeed'[u] = slotSeed[u]
        BY <2>1, <4>1
      <4>5. QED
        BY <4>2, <4>3, <4>4
    <3>3. QED
      BY <3>1, <3>2
  <2>4. QED
    BY <2>3 DEF Streams
<1>11. Offsets'
  <2>1. ASSUME Legacy, NEW r \in Ranks, NEW u \in Live', slots'[u].seed # NoSeed,
               slots'[u].temp # Greedy
        PROVE  gens'[r][u].offset = 4 * (count'[u] + Drew(r, u)')
    <3>1. Drew(r, u)' = 0 /\ Drew(r, u) = 0
      BY <1>2, <1>8
    <3>2. CASE u = s
      <4>1. g.offset = 0
        BY <1>4, <2>1, <3>2 DEF g
      <4>2. QED
        BY <1>4, <1>7, <3>1, <3>2, <4>1
    <3>3. CASE u # s
      <4>1. u \in Live /\ u \in Slots \ {s}
        BY <1>8, <3>3 DEF Live
      <4>2. slots'[u] = slots[u] /\ count'[u] = count[u] /\ gens'[r][u] = gens[r][u]
        BY <1>4, <1>7, <4>1
      <4>3. gens[r][u].offset = 4 * (count[u] + Drew(r, u))
        BY <2>1, <4>1, <4>2 DEF NoiseInv, Offsets
      <4>4. QED
        BY <3>1, <4>2, <4>3
    <3>4. QED
      BY <3>2, <3>3
  <2>2. QED
    BY <1>8, <2>1 DEF Offsets
<1>12. History'
  <2>1. ASSUME NEW h \in DOMAIN drawn, NEW e, e = drawn[h] PROVE Past(e)'
    <3>1. Past(e) /\ e.id # q.id
      BY <1>3, <2>1 DEF NoiseInv, History
    <3>2. ASSUME e.key.seed # NoSeed, NEW u \in Live', slots'[u].id = e.id
          PROVE  IF e.key.kind = "gumbel" /\ ~ Legacy
                 THEN e.key.position < count'[u] + chunks'[u] + Drew(0, u)'
                 ELSE 4 * e.key.position < gens'[0][u].offset
      <4>1. u # s /\ u \in Live /\ u \in Slots \ {s}
        BY <1>4, <1>8, <3>1, <3>2 DEF Live
      <4>2. /\ slots'[u] = slots[u] /\ count'[u] = count[u] /\ chunks'[u] = chunks[u]
            /\ gens'[0][u] = gens[0][u] /\ Drew(0, u)' = Drew(0, u)
        BY <1>2, <1>4, <1>7, <1>8, <4>1
      <4>3. QED
        BY <3>1, <3>2, <4>1, <4>2 DEF Past
    <3>3. QED
      BY <1>1, <1>8, <3>1, <3>2 DEF Past
  <2>2. QED
    BY <1>1, <2>1, HistoryStays DEF NoiseInv
<1>13. Pending'
  BY <1>1, <1>2 DEF Pending
<1>14. QED
  BY <1>9, <1>10, <1>11, <1>12, <1>13 DEF NoiseInv

(* Of a request that goes nothing is said any more.                         *)
LEMMA FinishRequestNoise ==
    ASSUME IInv, NoiseInv, NEW s \in Slots, FinishRequest(s)
    PROVE  NoiseInv'
<1>1. /\ Idle /\ slots' = [slots EXCEPT ![s] = None]
      /\ UNCHANGED <<setup, fresh, count, chunks, partial, userSeed, slotSeed, batch, drawn,
                     gens, private, global, stage, keys>>
  BY DEF FinishRequest
<1>2. /\ 0 \in Ranks /\ batch = <<>> /\ Rows = {} /\ keys[0] = <<>>
      /\ \A r \in Ranks : \A u : Drew(r, u) = 0
  BY <1>1, BetweenFacts
<1>3. slots'[s] = None /\ \A u \in Slots \ {s} : slots'[u] = slots[u]
  BY <1>1 DEF IInv, Typing
<1>4. \A u \in Live' : u \in Live /\ slots'[u] = slots[u]
  BY <1>3 DEF Live
<1>5. /\ Rows' = Rows /\ (Legacy' <=> Legacy)
      /\ \A r \in Ranks : \A u : Drew(r, u)' = Drew(r, u)
  BY <1>1 DEF Rows, Legacy, Drew
<1>6. NoiseTyping'
  BY <1>1, <1>5 DEF NoiseInv, NoiseTyping
<1>7. Streams'
  BY <1>1, <1>4 DEF NoiseInv, Streams
<1>8. Offsets'
  BY <1>1, <1>4, <1>5 DEF NoiseInv, Offsets
<1>9. History'
  <2>1. ASSUME NEW h \in DOMAIN drawn, NEW e, e = drawn[h] PROVE Past(e)'
    <3>1. Past(e)
      BY <2>1 DEF NoiseInv, History
    <3>2. QED
      BY <1>1, <1>2, <1>4, <1>5, <3>1 DEF Past
  <2>2. QED
    BY <1>1, <2>1, HistoryStays DEF NoiseInv
<1>10. Pending'
  BY <1>1, <1>2 DEF Pending
<1>11. QED
  BY <1>6, <1>7, <1>8, <1>9, <1>10 DEF NoiseInv

(* When a step begins nothing is drawn yet.                                 *)
LEMMA ScheduleNoise ==
    ASSUME IInv, NoiseInv, NEW b, Schedule(b)
    PROVE  NoiseInv'
<1>1. /\ Idle /\ batch' = b /\ stage' = [r \in Ranks |-> "begun"]
      /\ partial' \in SUBSET {i \in DOMAIN b : setup.chunked /\ count[b[i]] + chunks[b[i]] = 0}
      /\ UNCHANGED <<setup, fresh, slots, count, chunks, userSeed, slotSeed, drawn,
                     gens, private, global, keys>>
  BY DEF Schedule
<1>2. /\ 0 \in Ranks /\ keys[0] = <<>>
      /\ \A r \in Ranks : \A u : Drew(r, u) = 0
  BY <1>1, BetweenFacts
<1>3. /\ Live' = Live /\ (Legacy' <=> Legacy) /\ Rows' = DOMAIN b
      /\ \A r \in Ranks : \A u : Drew(r, u)' = Drew(r, u)
  <2>1. \A r \in Ranks : stage'[r] = "begun"
    BY <1>1
  <2>2. QED
    BY <1>1, <1>2, <2>1 DEF Live, Legacy, Rows, Drew
<1>4. NoiseTyping'
  <2>1. partial' \subseteq Rows' /\ (Legacy' => ~ setup'.chunked /\ partial' = {})
    BY <1>1, <1>3 DEF NoiseInv, NoiseTyping
  <2>2. stage' \in [Ranks -> {"idle", "begun", "logits", "pairs", "done"}]
    BY <1>1
  <2>3. QED
    BY <1>1, <2>1, <2>2 DEF NoiseInv, NoiseTyping
<1>5. Streams'
  BY <1>1, <1>3 DEF NoiseInv, Streams
<1>6. Offsets'
  BY <1>1, <1>3 DEF NoiseInv, Offsets
<1>7. History'
  <2>1. ASSUME NEW h \in DOMAIN drawn, NEW e, e = drawn[h] PROVE Past(e)'
    <3>1. Past(e)
      BY <2>1 DEF NoiseInv, History
    <3>2. QED
      BY <1>1, <1>2, <1>3, <3>1 DEF Past
  <2>2. QED
    BY <1>1, <2>1, HistoryStays DEF NoiseInv
<1>8. Pending'
  BY <1>1, <1>2 DEF Pending
<1>9. QED
  BY <1>4, <1>5, <1>6, <1>7, <1>8 DEF NoiseInv

(* A step leaves the streams where its draws have brought them.             *)
LEMMA EndStepStreams ==
    ASSUME IInv, NoiseInv, EndStep
    PROVE  /\ 0 \in Ranks /\ batch # <<>> /\ Rows' = {} /\ Live' = Live /\ (Legacy' <=> Legacy)
           /\ count' \in [Slots -> Nat] /\ chunks' \in [Slots -> Nat]
           /\ \A r \in Ranks : \A s : Drew(r, s)' = 0
           /\ \A r \in Ranks : \A s \in Slots :
                 /\ Drew(r, s) \in {0, 1}
                 /\ count'[s] + chunks'[s] = count[s] + chunks[s] + Drew(r, s)
                 /\ Legacy => count'[s] = count[s] + Drew(r, s)
           /\ \A e : Past(e) => Past(e)'
<1>1. /\ \A r \in Ranks : stage[r] = "done"
      /\ count' = Added(count, Rows \ partial) /\ chunks' = Added(chunks, partial)
      /\ stage' = [r \in Ranks |-> "idle"] /\ batch' = <<>>
      /\ UNCHANGED <<setup, slots, gens, private, global>>
  BY DEF EndStep
<1>2. 0 \in Ranks
  BY WorkloadAssumption
<1>3. batch # <<>>
  BY <1>1, <1>2, InStep
<1>4. /\ Rows' = {} /\ Live' = Live /\ (Legacy' <=> Legacy)
      /\ \A r \in Ranks : \A s : Drew(r, s)' = 0
  <2>1. Rows' = {} /\ Live' = Live /\ (Legacy' <=> Legacy)
    BY <1>1 DEF Rows, Live, Legacy
  <2>2. \A r \in Ranks : stage'[r] = "idle"
    BY <1>1
  <2>3. QED
    BY <2>1, <2>2 DEF Drew
<1>5. /\ count \in [Slots -> Nat] /\ chunks \in [Slots -> Nat]
      /\ partial \subseteq Rows /\ (Legacy => partial = {})
  BY DEF NoiseInv, NoiseTyping
<1>6. ASSUME NEW s \in Slots
      PROVE  /\ count'[s] = count[s] + IF \E i \in Rows \ partial : batch[i] = s THEN 1 ELSE 0
             /\ chunks'[s] = chunks[s] + IF \E i \in partial : batch[i] = s THEN 1 ELSE 0
  <2>1. Added(count, Rows \ partial)[s]
          = count[s] + IF \E i \in Rows \ partial : batch[i] = s THEN 1 ELSE 0
    BY <1>3, AddedFacts
  <2>2. Added(chunks, partial)[s] = chunks[s] + IF \E i \in partial : batch[i] = s THEN 1 ELSE 0
    BY <1>3, <1>5, AddedFacts
  <2>3. QED
    BY <1>1, <2>1, <2>2
<1>7. ASSUME NEW r \in Ranks, NEW s \in Slots
      PROVE  /\ Drew(r, s) \in {0, 1}
             /\ count'[s] \in Nat /\ chunks'[s] \in Nat
             /\ count'[s] + chunks'[s] = count[s] + chunks[s] + Drew(r, s)
             /\ Legacy => count'[s] = count[s] + Drew(r, s)
  <2>1. Drew(r, s) = IF \E i \in Rows : batch[i] = s THEN 1 ELSE 0
    BY <1>1 DEF Drew
  <2>2. \A i, j \in Rows : batch[i] = batch[j] => i = j
    BY <1>3, RowFacts
  <2>3. count[s] \in Nat /\ chunks[s] \in Nat
    BY <1>5
  <2>4. CASE \E i \in Rows \ partial : batch[i] = s
    <3>1. (\E i \in Rows : batch[i] = s) /\ ~ \E i \in partial : batch[i] = s
      BY <1>5, <2>2, <2>4
    <3>2. count'[s] = count[s] + 1 /\ chunks'[s] = chunks[s] + 0 /\ Drew(r, s) = 1
      BY <1>6, <2>1, <2>4, <3>1
    <3>3. QED
      BY <2>3, <3>2
  <2>5. CASE \E i \in partial : batch[i] = s
    <3>1. (\E i \in Rows : batch[i] = s) /\ ~ \E i \in Rows \ partial : batch[i] = s
      BY <1>5, <2>2, <2>5
    <3>2. count'[s] = count[s] + 0 /\ chunks'[s] = chunks[s] + 1 /\ Drew(r, s) = 1 /\ ~ Legacy
      BY <1>5, <1>6, <2>1, <2>5, <3>1
    <3>3. QED
      BY <2>3, <3>2
  <2>6. CASE ~ \E i \in Rows : batch[i] = s
    <3>1. ~ (\E i \in partial : batch[i] = s) /\ ~ \E i \in Rows \ partial : batch[i] = s
      BY <1>5, <2>6
    <3>2. count'[s] = count[s] + 0 /\ chunks'[s] = chunks[s] + 0 /\ Drew(r, s) = 0
      BY <1>6, <2>1, <2>6, <3>1
    <3>3. QED
      BY <2>3, <3>2
  <2>7. QED
    BY <2>4, <2>5, <2>6
<1>8. count' \in [Slots -> Nat] /\ chunks' \in [Slots -> Nat]
  <2>1. \A s \in Slots : count'[s] \in Nat /\ chunks'[s] \in Nat
    BY <1>2, <1>7
  <2>2. count' = [s \in Slots |-> count'[s]] /\ chunks' = [s \in Slots |-> chunks'[s]]
    BY <1>1 DEF Added
  <2>3. QED
    BY <2>1, <2>2
<1>9. ASSUME NEW e, Past(e) PROVE Past(e)'
  <2>1. ASSUME NEW s \in Live
        PROVE  count'[s] + chunks'[s] + Drew(0, s)' = count[s] + chunks[s] + Drew(0, s)
    <3>1. s \in Slots
      BY DEF Live
    <3>2. count'[s] + chunks'[s] = count[s] + chunks[s] + Drew(0, s)
          /\ count'[s] \in Nat /\ chunks'[s] \in Nat
      BY <1>2, <1>7, <3>1
    <3>3. Drew(0, s)' = 0
      BY <1>2, <1>4
    <3>4. QED
      BY <3>2, <3>3
  <2>2. QED
    BY <1>1, <1>4, <1>9, <2>1 DEF Past
<1>10. QED
  BY <1>2, <1>3, <1>4, <1>7, <1>8, <1>9

(* The draws of a step join those before.                                   *)
LEMMA EndStepHistory ==
    ASSUME IInv, NoiseInv, EndStep
    PROVE  drawn' \in Seq(Entries) /\ History'
<1> DEFINE new == [i \in DOMAIN keys[0] |-> Entry(i)]
           n == Len(drawn)
           k == Len(new)
<1>1. /\ \A r \in Ranks : stage[r] = "done"
      /\ drawn' = drawn \o new
      /\ UNCHANGED <<fresh, slots>>
  BY DEF EndStep, Entry
<1>2. 0 \in Ranks /\ batch # <<>>
  BY EndStepStreams
<1>3. drawn \in Seq(Entries) /\ n \in Nat /\ DOMAIN drawn = 1 .. n
  BY DEF NoiseInv, NoiseTyping
<1>4. ASSUME NEW i \in DOMAIN new
      PROVE  /\ keys[0] # <<>> /\ i \in Rows /\ new[i] = Entry(i)
             /\ keys[0][i] \in Keys /\ Legitimate(Entry(i)) /\ Past(Entry(i))
             /\ \A h \in DOMAIN drawn : Apart(drawn[h], Entry(i))
             /\ \A j \in DOMAIN new : i < j => Apart(Entry(i), Entry(j))
  <2>1. keys[0] # <<>>
    OBVIOUS
  <2>2. DOMAIN keys[0] = Rows
    BY <2>1 DEF NoiseInv, Pending
  <2>3. QED
    BY <2>1, <2>2 DEF NoiseInv, Pending
<1>5. new \in Seq(Entries) /\ k \in Nat /\ DOMAIN new = 1 .. k
  <2>1. CASE keys[0] = <<>>
    <3>1. DOMAIN keys[0] = {}
      BY <2>1
    <3>2. new = <<>>
      BY <3>1
    <3>3. QED
      BY <3>2
  <2>2. CASE keys[0] # <<>>
    <3>1. DOMAIN new = Rows
      BY <2>2 DEF NoiseInv, Pending
    <3>2. Size \in Nat /\ Rows = 1 .. Size
      BY <1>2, RowFacts
    <3>3. \A i \in Rows : new[i] \in Entries
      <4>1. TAKE i \in Rows
      <4>2. batch[i] \in Live
        BY <1>2, RowFacts
      <4>3. Req(i).id \in Nat /\ Req(i).seed \in Nat
        BY <4>2, WorkloadAssumption DEF NoiseInv, Streams, Req
      <4>4. keys[0][i] \in Keys /\ new[i] = Entry(i)
        BY <1>4, <3>1
      <4>5. QED
        BY <4>3, <4>4 DEF Entry, Entries
    <3>4. \E l \in Nat : new \in [1 .. l -> Entries]
      BY <3>1, <3>2, <3>3
    <3>5. QED
      BY <3>4
  <2>3. QED
    BY <2>1, <2>2
<1> HIDE DEF new, n, k
<1>6. /\ drawn' \in Seq(Entries) /\ DOMAIN drawn' = 1 .. n + k
      /\ \A h \in 1 .. n : drawn'[h] = drawn[h]
      /\ \A h \in n + 1 .. n + k : h - n \in DOMAIN new /\ drawn'[h] = new[h - n]
  BY <1>1, <1>3, <1>5 DEF n, k
<1>7. ASSUME NEW h \in DOMAIN drawn', NEW e, e = drawn'[h]
      PROVE  Legitimate(e) /\ Past(e) /\ \A q \in fresh : q.id # e.id
  <2>1. CASE h \in 1 .. n
    BY <1>3, <1>6, <1>7, <2>1 DEF NoiseInv, History
  <2>2. CASE h \in n + 1 .. n + k
    <3>1. PICK i : i = h - n /\ i \in DOMAIN new /\ e = new[i]
      BY <1>6, <1>7, <2>2
    <3>2. Legitimate(e) /\ Past(e) /\ i \in Rows /\ e = Entry(i)
      BY <1>4, <3>1
    <3>3. batch[i] \in Live /\ slots[batch[i]].id = e.id
      BY <1>2, <3>2, RowFacts DEF Entry, Req
    <3>4. QED
      BY <3>2, <3>3 DEF IInv, OwnIds
  <2>3. h \in 1 .. n \/ h \in n + 1 .. n + k
    BY <1>3, <1>5, <1>6
  <2>4. QED
    BY <2>1, <2>2, <2>3
<1>8. ASSUME NEW h \in DOMAIN drawn', NEW l \in DOMAIN drawn', h < l
      PROVE  Apart(drawn'[h], drawn'[l])
  <2>1. h \in 1 .. n \/ h \in n + 1 .. n + k
    BY <1>3, <1>5, <1>6
  <2>2. l \in 1 .. n \/ l \in n + 1 .. n + k
    BY <1>3, <1>5, <1>6
  <2>3. CASE l \in 1 .. n
    <3>1. h \in 1 .. n
      BY <1>3, <1>8, <2>1, <2>3
    <3>2. QED
      BY <1>3, <1>6, <1>8, <2>3, <3>1 DEF NoiseInv, History
  <2>4. CASE h \in 1 .. n /\ l \in n + 1 .. n + k
    <3>1. PICK j : j = l - n /\ j \in DOMAIN new /\ drawn'[l] = new[j]
      BY <1>6, <2>4
    <3>2. drawn'[h] = drawn[h] /\ h \in DOMAIN drawn
      BY <1>3, <1>6, <2>4
    <3>3. Apart(drawn[h], Entry(j)) /\ new[j] = Entry(j)
      BY <1>4, <3>1, <3>2
    <3>4. QED
      BY <3>1, <3>2, <3>3
  <2>5. CASE h \in n + 1 .. n + k /\ l \in n + 1 .. n + k
    <3>1. PICK i : i = h - n /\ i \in DOMAIN new /\ drawn'[h] = new[i]
      BY <1>6, <2>5
    <3>2. PICK j : j = l - n /\ j \in DOMAIN new /\ drawn'[l] = new[j]
      BY <1>6, <2>5
    <3>3. i < j
      BY <1>3, <1>5, <1>8, <2>5, <3>1, <3>2
    <3>4. Apart(Entry(i), Entry(j)) /\ new[i] = Entry(i) /\ new[j] = Entry(j)
      BY <1>4, <3>1, <3>2, <3>3
    <3>5. QED
      BY <3>1, <3>2, <3>4
  <2>6. QED
    BY <2>1, <2>2, <2>3, <2>4, <2>5
<1>9. \A e : Past(e) => Past(e)'
  BY EndStepStreams
<1>10. ASSUME NEW h \in DOMAIN drawn'
       PROVE  Legitimate(drawn[h])' /\ Past(drawn[h])' /\ \A q \in fresh' : q.id # drawn'[h].id
  <2>1. PICK e : e = drawn'[h]
    OBVIOUS
  <2>2. Legitimate(e) /\ Past(e)' /\ \A q \in fresh : q.id # e.id
    BY <1>7, <1>9, <2>1
  <2>3. Past(drawn[h])'
    BY <2>1, <2>2 DEF Past
  <2>4. Legitimate(drawn[h])'
    BY <2>1, <2>2 DEF Legitimate
  <2>5. QED
    BY <1>1, <2>1, <2>2, <2>3, <2>4
<1>11. History'
  BY <1>8, <1>10 DEF History, Apart
<1>12. QED
  BY <1>6, <1>11

(* The end of a step.                                                       *)
LEMMA EndStepNoise ==
    ASSUME IInv, NoiseInv, EndStep
    PROVE  NoiseInv'
<1>1. /\ stage' = [r \in Ranks |-> "idle"] /\ keys' = [r \in Ranks |-> <<>>] /\ partial' = {}
      /\ UNCHANGED <<setup, fresh, slots, userSeed, slotSeed, gens, private, global>>
  BY DEF EndStep
<1>2. /\ 0 \in Ranks /\ Rows' = {} /\ Live' = Live /\ (Legacy' <=> Legacy)
      /\ count' \in [Slots -> Nat] /\ chunks' \in [Slots -> Nat]
      /\ \A r \in Ranks : \A s : Drew(r, s)' = 0
      /\ \A r \in Ranks : \A s \in Slots : Legacy => count'[s] = count[s] + Drew(r, s)
  BY EndStepStreams
<1>3. drawn' \in Seq(Entries) /\ History'
  BY EndStepHistory
<1>4. NoiseTyping'
  <2>1. stage' \in [Ranks -> {"idle", "begun", "logits", "pairs", "done"}]
        /\ keys' = [r \in Ranks |-> keys'[r]]
    BY <1>1
  <2>2. partial' \subseteq Rows' /\ (Legacy' => ~ setup'.chunked /\ partial' = {})
    BY <1>1, <1>2 DEF NoiseInv, NoiseTyping
  <2>3. QED
    BY <1>1, <1>2, <1>3, <2>1, <2>2 DEF NoiseInv, NoiseTyping
<1>5. Streams'
  BY <1>1, <1>2 DEF NoiseInv, Streams
<1>6. Offsets'
  <2>1. ASSUME Legacy, NEW r \in Ranks, NEW s \in Live, slots[s].seed # NoSeed,
               slots[s].temp # Greedy
        PROVE  gens[r][s].offset = 4 * (count'[s] + Drew(r, s)')
    <3>1. gens[r][s].offset = 4 * (count[s] + Drew(r, s))
      BY <2>1 DEF NoiseInv, Offsets
    <3>2. s \in Slots
      BY DEF Live
    <3>3. count'[s] = count[s] + Drew(r, s) /\ count'[s] \in Nat /\ Drew(r, s)' = 0
      BY <1>2, <2>1, <3>2
    <3>4. QED
      BY <3>1, <3>3
  <2>2. QED
    BY <1>1, <1>2, <2>1 DEF Offsets
<1>7. Pending'
  BY <1>1, <1>2 DEF Pending
<1>8. QED
  BY <1>3, <1>4, <1>5, <1>6, <1>7 DEF NoiseInv

(* No stream has been drawn from yet.                                       *)
LEMMA InitNoise == DecodeInit => NoiseInv
<1> SUFFICES ASSUME DecodeInit PROVE NoiseInv
  OBVIOUS
<1>1. PICK w \in Workloads : setup = w.setup /\ fresh = w.pool
  BY DEF DecodeInit, Init
<1>2. /\ slots = [s \in Slots |-> None]
      /\ count = [s \in Slots |-> 0] /\ chunks = [s \in Slots |-> 0] /\ partial = {}
      /\ userSeed = [s \in Slots |-> FALSE] /\ slotSeed = [s \in Slots |-> NoSeed]
      /\ gens = [r \in Ranks |-> [s \in Slots |-> None]]
      /\ private = [r \in Ranks |-> 0] /\ global = [r \in Ranks |-> 0]
      /\ batch = <<>> /\ stage = [r \in Ranks |-> "idle"]
      /\ keys = [r \in Ranks |-> <<>>] /\ drawn = <<>>
  BY DEF DecodeInit, Init
<1>3. 0 \in Ranks
  BY WorkloadAssumption
<1>4. Live = {} /\ DOMAIN drawn = {}
  BY <1>2 DEF Live
<1>5. NoiseTyping
  <2>1. fresh \subseteq Requests
    BY <1>1 DEF Requests
  <2>2. Legacy => ~ setup.chunked
    BY <1>1, WorkloadAssumption DEF Legacy
  <2>3. private \in [Ranks -> Nat] /\ \A r \in Ranks : private[r] % 4 = 0
    BY <1>2
  <2>4. QED
    BY <1>2, <2>1, <2>2, <2>3 DEF NoiseTyping, NoSeed
<1>6. Streams /\ Offsets /\ History /\ Pending
  BY <1>2, <1>3, <1>4 DEF Streams, Offsets, History, Pending
<1>7. QED
  BY <1>5, <1>6 DEF NoiseInv

(* Every step keeps it.                                                     *)
LEMMA NextNoise == IInv /\ NoiseInv /\ [DecodeNext]_allVars => NoiseInv'
<1> SUFFICES ASSUME IInv, NoiseInv, [DecodeNext]_allVars PROVE NoiseInv'
  OBVIOUS
<1>1. ASSUME UNCHANGED vars PROVE NoiseInv'
  BY <1>1, NoiseSame DEF vars, NoiseInv, NoiseTyping
<1>2. ASSUME NEW b \in Batches, StartStep(b) PROVE NoiseInv'
  BY <1>2, ScheduleNoise DEF StartStep
<1>3. ASSUME FinishStep PROVE NoiseInv'
  BY <1>3, EndStepNoise DEF FinishStep
<1>4. ASSUME NEW s \in Slots, FinishRequest(s) PROVE NoiseInv'
  BY <1>4, FinishRequestNoise
<1>5. ASSUME NEW s \in Slots, NEW q \in fresh, AddRequest(s, q) PROVE NoiseInv'
  BY <1>5, AddRequestNoise
<1>6. ASSUME NEW r \in Ranks, RankStep(r) PROVE NoiseInv'
  BY <1>6, RankStepNoise
<1>7. QED
  BY <1>1, <1>2, <1>3, <1>4, <1>5, <1>6 DEF DecodeNext, Stopped, allVars

(* The streams' invariant: whatever samplers the requests go through, on    *)
(* both workers, every draw came from a stream that is now past it.         *)
THEOREM NoiseInvariant == DecodeSpec => []NoiseInv
<1>1. QED
  BY InitNoise, NextNoise, Invariant, PTL DEF DecodeSpec

(* No noise is used twice but by requests with one user seed, a seeded      *)
(* request is drawn with its own seed, and a generator of the legacy runner *)
(* is advanced once per token, however the samplers alternate.              *)
THEOREM NoiseIsOwn == DecodeSpec => []OwnNoise
<1>1. IInv /\ NoiseInv => OwnNoise
  <2> SUFFICES ASSUME IInv, NoiseInv, Idle
               PROVE  /\ \A i, j \in DOMAIN drawn :
                            i < j /\ drawn[i].key = drawn[j].key =>
                              /\ drawn[i].id # drawn[j].id
                              /\ drawn[i].seed = drawn[j].seed /\ drawn[i].seed # NoSeed
                      /\ \A i \in DOMAIN drawn :
                            IF drawn[i].seed # NoSeed THEN drawn[i].key.seed = drawn[i].seed
                            ELSE drawn[i].key.seed \in {NoSeed, RandomSeed(drawn[i].id)}
                      /\ Legacy => \A r \in Ranks, s \in Slots :
                            slots[s] # None /\ slots[s].seed # NoSeed /\ slots[s].temp # Greedy
                              => gens[r][s].offset = 4 * count[s]
    BY DEF OwnNoise
  <2>1. \A i, j \in DOMAIN drawn : i < j => Apart(drawn[i], drawn[j])
    BY DEF NoiseInv, History
  <2>2. \A i \in DOMAIN drawn : Legitimate(drawn[i])
    BY DEF NoiseInv, History
  <2>3. ASSUME Legacy, NEW r \in Ranks, NEW s \in Slots,
               slots[s] # None, slots[s].seed # NoSeed, slots[s].temp # Greedy
        PROVE  gens[r][s].offset = 4 * count[s]
    <3>1. s \in Live
      BY <2>3 DEF Live
    <3>2. gens[r][s].offset = 4 * (count[s] + Drew(r, s)) /\ count[s] \in Nat
      BY <2>3, <3>1 DEF NoiseInv, Offsets, NoiseTyping
    <3>3. Drew(r, s) = 0
      BY BetweenFacts
    <3>4. QED
      BY <3>2, <3>3
  <2>4. QED
    BY <2>1, <2>2, <2>3 DEF Apart, Legitimate
<1>2. QED
  BY <1>1, NoiseInvariant, Invariant, PTL

-----------------------------------------------------------------------------
(* The greatest of a function, and the weight of a set.                     *)

Earlier == {ss \in Nat \X Nat : ss[1] < ss[2]}

(* Some natural number of a set is the least.                               *)
LEMMA LeastNumber ==
    ASSUME NEW T \in SUBSET Nat, T # {}
    PROVE  \E n \in T : \A m \in T : n <= m
<1>1. IsWellFoundedOn(Earlier, Nat)
  BY NatLessThanWellFounded DEF OpToRel, Earlier
<1>2. PICK n \in T : \A y \in T : ~ (<<y, n>> \in Earlier)
  BY <1>1, WFMin
<1>3. ASSUME NEW m \in T PROVE n <= m
  <2>1. ~ (<<m, n>> \in Earlier) /\ m \in Nat /\ n \in Nat
    BY <1>2
  <2>2. ~ (m < n)
    BY <2>1 DEF Earlier
  <2>3. QED
    BY <2>1, <2>2
<1>4. QED
  BY <1>3

(* the value at t is the greatest, and t the first that has it *)
Best(f, t) == t \in DOMAIN f /\ \A u \in DOMAIN f : f[u] < f[t] \/ (f[u] = f[t] /\ t <= u)

(* A function of finitely many numbers has a greatest value.                *)
LEMMA ArgMaxFacts ==
    ASSUME NEW D \in SUBSET Nat, IsFiniteSet(D), D # {}, NEW f \in [D -> Nat]
    PROVE  Best(f, ArgMax(f)) /\ ArgMax(f) \in D
<1> DEFINE T == {Cardinality(Before(f, t)) : t \in D}
<1>1. \A t : Before(f, t) \in SUBSET D
  BY DEF Before
<1>2. \A t : IsFiniteSet(Before(f, t)) /\ Cardinality(Before(f, t)) \in Nat
  BY <1>1, FS_Subset, FS_CardinalityType
<1>3. T \in SUBSET Nat /\ T # {}
  BY <1>2
<1>4. PICK n \in T : \A m \in T : n <= m
  BY <1>3, LeastNumber
<1>5. PICK t \in D : n = Cardinality(Before(f, t))
  OBVIOUS
<1>6. ASSUME NEW u \in Before(f, t) PROVE FALSE
  <2>1. u \in D /\ u \notin Before(f, u) /\ u \in Nat /\ t \in Nat /\ f[u] \in Nat /\ f[t] \in Nat
    BY <1>1 DEF Before
  <2>2. f[u] > f[t] \/ (f[u] = f[t] /\ u < t)
    BY <1>6 DEF Before
  <2>3. ASSUME NEW v \in Before(f, u) PROVE v \in Before(f, t)
    <3>1. v \in D /\ v \in Nat /\ f[v] \in Nat /\ (f[v] > f[u] \/ (f[v] = f[u] /\ v < u))
      BY <2>3 DEF Before
    <3>2. f[v] > f[t] \/ (f[v] = f[t] /\ v < t)
      BY <2>1, <2>2, <3>1
    <3>3. QED
      BY <3>1, <3>2 DEF Before
  <2>4. Before(f, u) \in SUBSET Before(f, t) /\ Before(f, u) # Before(f, t)
    BY <1>6, <2>1, <2>3
  <2>5. Cardinality(Before(f, u)) < Cardinality(Before(f, t))
    BY <1>2, <2>4, FS_Subset
  <2>6. Cardinality(Before(f, t)) <= Cardinality(Before(f, u))
    BY <1>4, <1>5, <2>1
  <2>7. QED
    BY <1>2, <2>5, <2>6
<1>7. ASSUME NEW u \in D PROVE f[u] < f[t] \/ (f[u] = f[t] /\ t <= u)
  <2>1. ~ (f[u] > f[t]) /\ ~ (f[u] = f[t] /\ u < t)
    BY <1>6 DEF Before
  <2>2. f[u] \in Nat /\ f[t] \in Nat /\ u \in Nat /\ t \in Nat
    OBVIOUS
  <2>3. QED
    BY <2>1, <2>2
<1>8. QED
  BY <1>7 DEF ArgMax, Best

(* and only one token is its first.                                         *)
LEMMA ArgMaxIs ==
    ASSUME NEW D \in SUBSET Nat, IsFiniteSet(D), NEW f \in [D -> Nat], NEW t, Best(f, t)
    PROVE  ArgMax(f) = t
<1>1. t \in D
  BY DEF Best
<1>2. Best(f, ArgMax(f)) /\ ArgMax(f) \in D
  BY <1>1, ArgMaxFacts
<1> DEFINE u == ArgMax(f)
<1>3. /\ f[u] < f[t] \/ (f[u] = f[t] /\ t <= u)
      /\ f[t] < f[u] \/ (f[t] = f[u] /\ u <= t)
  BY <1>1, <1>2 DEF Best
<1>4. u \in Nat /\ t \in Nat /\ f[u] \in Nat /\ f[t] \in Nat
  BY <1>1, <1>2
<1> HIDE DEF u
<1>5. u = t
  BY <1>3, <1>4
<1>6. QED
  BY <1>5 DEF u

Weightings == [Vocab -> Nat]

(* The vocabulary is finite.                                                *)
LEMMA VocabFacts == IsFiniteSet(Vocab) /\ Vocab \in SUBSET Nat /\ 0 \in Vocab /\ VocabSize \in Nat
<1>1. VocabSize \in Nat \ {0}
  BY FilterAssumption
<1>2. IsFiniteSet(Vocab)
  BY <1>1, FS_Interval DEF Vocab
<1>3. QED
  BY <1>1, <1>2 DEF Vocab

Cells(w, S) == UNION {{t} \X (1 .. w[t]) : t \in S}

(* The cells of a set of tokens are finitely many.                          *)
LEMMA CellsFacts ==
    ASSUME NEW w \in Weightings, NEW S \in SUBSET Vocab
    PROVE  IsFiniteSet(Cells(w, S)) /\ Mass(w, S) = Cardinality(Cells(w, S)) /\ Mass(w, S) \in Nat
<1> DEFINE C(t) == {t} \X (1 .. w[t])
           f == [t \in S |-> C(t)]
           R == {C(t) : t \in S}
<1>1. IsFiniteSet(S)
  BY VocabFacts, FS_Subset
<1>2. f \in Surjection(S, R)
  BY DEF Surjection
<1>3. IsFiniteSet(R)
  BY <1>1, <1>2, FS_Surjection
<1>4. ASSUME NEW t \in S PROVE IsFiniteSet(C(t))
  <2>1. w[t] \in Nat
    BY DEF Weightings
  <2>2. IsFiniteSet({t})
    BY FS_Singleton
  <2>3. IsFiniteSet(1 .. w[t])
    BY <2>1, FS_Interval
  <2>4. QED
    BY <2>2, <2>3, FS_Product
<1>5. \A c \in R : IsFiniteSet(c)
  BY <1>4
<1>6. IsFiniteSet(UNION R)
  BY <1>3, <1>5, FS_UNION
<1>7. QED
  BY <1>6, FS_CardinalityType DEF Cells, Mass

(* More tokens weigh more.                                                  *)
LEMMA MassMonotone ==
    ASSUME NEW w \in Weightings, NEW T \in SUBSET Vocab, NEW S \in SUBSET T
    PROVE  Mass(w, S) <= Mass(w, T) /\ Mass(w, S) \in Nat /\ Mass(w, T) \in Nat
<1>1. S \in SUBSET Vocab
  OBVIOUS
<1>2. Cells(w, S) \in SUBSET Cells(w, T)
  BY DEF Cells
<1>3. QED
  BY <1>1, <1>2, CellsFacts, FS_Subset

(* A token that weighs something makes a difference.                        *)
LEMMA MassStrict ==
    ASSUME NEW w \in Weightings, NEW T \in SUBSET Vocab, NEW S \in SUBSET T,
           NEW t \in T, t \notin S, w[t] > 0
    PROVE  Mass(w, S) < Mass(w, T)
<1>1. S \in SUBSET Vocab
  OBVIOUS
<1>2. Cells(w, S) \in SUBSET Cells(w, T)
  BY DEF Cells
<1>3. w[t] \in Nat
  BY DEF Weightings
<1>4. <<t, 1>> \in {t} \X (1 .. w[t])
  BY <1>3
<1>5. <<t, 1>> \in Cells(w, T)
  BY <1>4 DEF Cells
<1>6. <<t, 1>> \notin Cells(w, S)
  BY DEF Cells
<1>7. Cells(w, S) # Cells(w, T)
  BY <1>5, <1>6
<1>8. /\ IsFiniteSet(Cells(w, T)) /\ IsFiniteSet(Cells(w, S))
      /\ Mass(w, S) = Cardinality(Cells(w, S)) /\ Mass(w, S) \in Nat
      /\ Mass(w, T) = Cardinality(Cells(w, T)) /\ Mass(w, T) \in Nat
  BY <1>1, CellsFacts
<1>9. Mass(w, S) <= Mass(w, T) /\ Mass(w, S) # Mass(w, T)
  BY <1>2, <1>7, <1>8, FS_Subset
<1>10. QED
  BY <1>8, <1>9

(* Only the tokens' own weights count, and only if there are any.           *)
LEMMA MassSame ==
    ASSUME NEW w \in Weightings, NEW v \in Weightings, NEW S \in SUBSET Vocab, NEW T \in SUBSET Vocab,
           \A t \in S : w[t] > 0 => t \in T /\ v[t] = w[t],
           \A t \in T : v[t] > 0 => t \in S /\ v[t] = w[t]
    PROVE  Mass(w, S) = Mass(v, T)
<1>1. \A t \in Vocab : w[t] \in Nat /\ v[t] \in Nat
  BY DEF Weightings
<1>2. ASSUME NEW c \in Cells(w, S) PROVE c \in Cells(v, T)
  <2>1. PICK t \in S : c \in {t} \X (1 .. w[t])
    BY DEF Cells
  <2>2. w[t] > 0
    BY <1>1, <2>1
  <2>3. t \in T /\ c \in {t} \X (1 .. v[t])
    BY <2>1, <2>2
  <2>4. QED
    BY <2>3 DEF Cells
<1>3. ASSUME NEW c \in Cells(v, T) PROVE c \in Cells(w, S)
  <2>1. PICK t \in T : c \in {t} \X (1 .. v[t])
    BY DEF Cells
  <2>2. v[t] > 0
    BY <1>1, <2>1
  <2>3. t \in S /\ c \in {t} \X (1 .. w[t])
    BY <2>1, <2>2
  <2>4. QED
    BY <2>3 DEF Cells
<1>4. Cells(w, S) = Cells(v, T)
  BY <1>2, <1>3
<1>5. QED
  BY <1>4, CellsFacts

-----------------------------------------------------------------------------
(* Every filter keeps a part of the order's front.                          *)

Closed(w, S) == S \in SUBSET Vocab /\ \A t \in S : Before(w, t) \subseteq S
Positive(w) == \E t \in Vocab : w[t] > 0

Mins(w, m) == {t \in Vocab : \A u \in Vocab : 10 * w[t] >= m * w[u]}
BeforeMass(w, x) == {t \in Vocab : 10 * Mass(w, Before(w, t)) < x}
AboveMass(w, x) == {t \in Vocab : 10 * Mass(w, Above(w, t)) < x}

(* What is before a token, and what is above it.                            *)
LEMMA OrderFacts ==
    ASSUME NEW w \in Weightings, NEW t \in Vocab
    PROVE  /\ w[t] \in Nat /\ t \in Nat /\ DOMAIN w = Vocab
           /\ Before(w, t) = {u \in Vocab : w[u] > w[t] \/ (w[u] = w[t] /\ u < t)}
           /\ Above(w, t) = {u \in Vocab : w[u] > w[t]}
           /\ Above(w, t) \subseteq Before(w, t)
           /\ Before(w, t) \in SUBSET Vocab /\ Above(w, t) \in SUBSET Vocab /\ t \notin Before(w, t)
           /\ \A u \in Before(w, t) : /\ Before(w, u) \subseteq Before(w, t)
                                      /\ Above(w, u) \subseteq Above(w, t)
                                      /\ w[u] >= w[t]
<1>1. /\ w[t] \in Nat /\ t \in Nat /\ DOMAIN w = Vocab
      /\ Before(w, t) = {u \in Vocab : w[u] > w[t] \/ (w[u] = w[t] /\ u < t)}
      /\ Above(w, t) = {u \in Vocab : w[u] > w[t]}
  BY VocabFacts DEF Weightings, Before, Above
<1>2. ASSUME NEW u \in Before(w, t)
      PROVE  /\ Before(w, u) \subseteq Before(w, t) /\ Above(w, u) \subseteq Above(w, t)
             /\ w[u] >= w[t]
  <2>1. /\ u \in Vocab /\ u \in Nat /\ w[u] \in Nat
        /\ w[u] > w[t] \/ (w[u] = w[t] /\ u < t)
    BY <1>1, VocabFacts DEF Weightings
  <2>2. /\ Before(w, u) = {v \in Vocab : w[v] > w[u] \/ (w[v] = w[u] /\ v < u)}
        /\ Above(w, u) = {v \in Vocab : w[v] > w[u]}
    BY DEF Weightings, Before, Above
  <2>3. ASSUME NEW v \in Vocab
        PROVE  /\ w[v] > w[u] => w[v] > w[t]
               /\ w[v] > w[u] \/ (w[v] = w[u] /\ v < u) => w[v] > w[t] \/ (w[v] = w[t] /\ v < t)
    <3>1. v \in Nat /\ w[v] \in Nat
      BY VocabFacts DEF Weightings
    <3>2. QED
      BY <1>1, <2>1, <3>1
  <2>4. Before(w, u) \subseteq Before(w, t)
    BY <1>1, <2>2, <2>3
  <2>5. Above(w, u) \subseteq Above(w, t)
    BY <1>1, <2>2, <2>3
  <2>6. QED
    BY <1>1, <2>1, <2>4, <2>5
<1>3. Above(w, t) \subseteq Before(w, t) /\ t \notin Before(w, t)
  BY <1>1
<1>4. Before(w, t) \in SUBSET Vocab /\ Above(w, t) \in SUBSET Vocab
  BY <1>1
<1>5. QED
  BY <1>1, <1>2, <1>3, <1>4

(* The whole vocabulary is a front, and two fronts have one in common.      *)
LEMMA ClosedFacts ==
    ASSUME NEW w \in Weightings
    PROVE  /\ Closed(w, Vocab)
           /\ \A S, T : Closed(w, S) /\ Closed(w, T) => Closed(w, S \cap T)
<1>1. Closed(w, Vocab)
  BY OrderFacts DEF Closed
<1>2. QED
  BY <1>1 DEF Closed

(* Top-k's tokens are a front,                                              *)
LEMMA EligibleClosed ==
    ASSUME NEW w \in Weightings, NEW k \in Nat
    PROVE  Closed(w, Eligible(w, k))
<1>1. Eligible(w, k) \in SUBSET Vocab
  BY DEF Weightings, Eligible
<1>2. ASSUME NEW t \in Eligible(w, k), NEW u \in Before(w, t)
      PROVE  u \in Eligible(w, k)
  <2>1. t \in Vocab /\ Cardinality(Above(w, t)) < k
    BY <1>1 DEF Eligible
  <2>2. Above(w, u) \in SUBSET Above(w, t) /\ u \in Vocab /\ Above(w, t) \in SUBSET Vocab
    BY <2>1, OrderFacts
  <2>3. IsFiniteSet(Above(w, t))
    BY <2>2, VocabFacts, FS_Subset
  <2>4. /\ Cardinality(Above(w, u)) <= Cardinality(Above(w, t))
        /\ Cardinality(Above(w, u)) \in Nat /\ Cardinality(Above(w, t)) \in Nat
    BY <2>2, <2>3, FS_Subset, FS_CardinalityType
  <2>5. Cardinality(Above(w, u)) < k
    BY <2>1, <2>4
  <2>6. QED
    BY <2>2, <2>5 DEF Eligible, Weightings
<1>3. QED
  BY <1>1, <1>2 DEF Closed

(* min-p's,                                                                 *)
LEMMA MinsClosed ==
    ASSUME NEW w \in Weightings, NEW m \in Nat
    PROVE  Closed(w, Mins(w, m))
<1>1. ASSUME NEW t \in Mins(w, m), NEW u \in Before(w, t)
      PROVE  u \in Mins(w, m)
  <2>1. t \in Vocab
    BY DEF Mins
  <2>2. w[u] >= w[t] /\ w[t] \in Nat /\ u \in Vocab
    BY <2>1, OrderFacts
  <2>3. w[u] \in Nat
    BY <2>2, OrderFacts
  <2>4. ASSUME NEW v \in Vocab PROVE 10 * w[u] >= m * w[v]
    <3>1. 10 * w[t] >= m * w[v]
      BY DEF Mins
    <3>2. w[v] \in Nat
      BY OrderFacts
    <3>3. PICK x : x = m * w[v] /\ x \in Nat
      BY <3>2
    <3>4. QED
      BY <2>2, <2>3, <3>1, <3>3
  <2>5. QED
    BY <2>2, <2>4 DEF Mins
<1>2. QED
  BY <1>1 DEF Closed, Mins

(* and top-p's, with or without the tokens of the same weight.              *)
LEMMA MassClosed ==
    ASSUME NEW w \in Weightings, NEW x \in Nat
    PROVE  /\ Closed(w, BeforeMass(w, x)) /\ Closed(w, AboveMass(w, x))
           /\ BeforeMass(w, x) \subseteq AboveMass(w, x)
<1>1. ASSUME NEW t \in BeforeMass(w, x), NEW u \in Before(w, t)
      PROVE  u \in BeforeMass(w, x)
  <2>1. t \in Vocab /\ 10 * Mass(w, Before(w, t)) < x
    BY DEF BeforeMass
  <2>2. u \in Vocab /\ Before(w, u) \in SUBSET Before(w, t) /\ Before(w, t) \in SUBSET Vocab
    BY <2>1, OrderFacts
  <2>3. /\ Mass(w, Before(w, u)) <= Mass(w, Before(w, t))
        /\ Mass(w, Before(w, u)) \in Nat /\ Mass(w, Before(w, t)) \in Nat
    BY <2>2, MassMonotone
  <2>4. 10 * Mass(w, Before(w, u)) < x
    BY <2>1, <2>3
  <2>5. QED
    BY <2>2, <2>4 DEF BeforeMass
<1>2. ASSUME NEW t \in AboveMass(w, x), NEW u \in Before(w, t)
      PROVE  u \in AboveMass(w, x)
  <2>1. t \in Vocab /\ 10 * Mass(w, Above(w, t)) < x
    BY DEF AboveMass
  <2>2. u \in Vocab /\ Above(w, u) \in SUBSET Above(w, t) /\ Above(w, t) \in SUBSET Vocab
    BY <2>1, OrderFacts
  <2>3. /\ Mass(w, Above(w, u)) <= Mass(w, Above(w, t))
        /\ Mass(w, Above(w, u)) \in Nat /\ Mass(w, Above(w, t)) \in Nat
    BY <2>2, MassMonotone
  <2>4. 10 * Mass(w, Above(w, u)) < x
    BY <2>1, <2>3
  <2>5. QED
    BY <2>2, <2>4 DEF AboveMass
<1>3. ASSUME NEW t \in BeforeMass(w, x) PROVE t \in AboveMass(w, x)
  <2>1. t \in Vocab /\ 10 * Mass(w, Before(w, t)) < x
    BY DEF BeforeMass
  <2>2. Above(w, t) \in SUBSET Before(w, t) /\ Before(w, t) \in SUBSET Vocab
    BY <2>1, OrderFacts
  <2>3. /\ Mass(w, Above(w, t)) <= Mass(w, Before(w, t))
        /\ Mass(w, Above(w, t)) \in Nat /\ Mass(w, Before(w, t)) \in Nat
    BY <2>2, MassMonotone
  <2>4. 10 * Mass(w, Above(w, t)) < x
    BY <2>1, <2>3
  <2>5. QED
    BY <2>1, <2>4 DEF AboveMass
<1>4. BeforeMass(w, x) \in SUBSET Vocab /\ AboveMass(w, x) \in SUBSET Vocab
  BY DEF BeforeMass, AboveMass
<1>5. QED
  BY <1>1, <1>2, <1>3, <1>4 DEF Closed

(* The best token is in every front that has any.                           *)
LEMMA BestFacts ==
    ASSUME NEW w \in Weightings, Positive(w)
    PROVE  /\ ArgMax(w) \in Vocab /\ w[ArgMax(w)] > 0
           /\ Before(w, ArgMax(w)) = {} /\ Above(w, ArgMax(w)) = {}
           /\ \A u \in Vocab : w[u] <= w[ArgMax(w)]
           /\ \A S : Closed(w, S) /\ S # {} => ArgMax(w) \in S
<1> DEFINE b == ArgMax(w)
<1>1. Best(w, b) /\ b \in Vocab
  BY VocabFacts, ArgMaxFacts DEF Weightings
<1>2. \A u \in Vocab : /\ u \in Nat /\ w[u] \in Nat
                       /\ w[u] < w[b] \/ (w[u] = w[b] /\ b <= u)
  BY <1>1, OrderFacts DEF Best, Weightings
<1> HIDE DEF b
<1>3. w[b] > 0 /\ b \in Nat /\ w[b] \in Nat /\ \A u \in Vocab : w[u] <= w[b]
  BY <1>1, <1>2 DEF Positive
<1>4. Before(w, b) = {} /\ Above(w, b) = {}
  <2>1. ASSUME NEW u \in Before(w, b) PROVE FALSE
    <3>1. u \in Vocab /\ (w[u] > w[b] \/ (w[u] = w[b] /\ u < b))
      BY <1>1, OrderFacts
    <3>2. QED
      BY <1>2, <1>3, <3>1
  <2>2. QED
    BY <1>1, <2>1, OrderFacts
<1>5. ASSUME NEW S, Closed(w, S), S # {} PROVE b \in S
  <2>1. PICK t \in S : t \in Vocab
    BY <1>5 DEF Closed
  <2>2. CASE t = b
    BY <2>2
  <2>3. CASE t # b
    <3>1. w[b] > w[t] \/ (w[b] = w[t] /\ b < t)
      BY <1>2, <1>3, <2>1, <2>3
    <3>2. b \in Before(w, t)
      BY <1>1, <2>1, <3>1, OrderFacts
    <3>3. QED
      BY <1>5, <2>1, <3>2 DEF Closed
  <2>4. QED
    BY <2>2, <2>3
<1>6. QED
  BY <1>1, <1>3, <1>4, <1>5 DEF b

(* A front keeps its order and its weight.                                  *)
LEMMA KeepFacts ==
    ASSUME NEW w \in Weightings, NEW S, Closed(w, S)
    PROVE  /\ KeepOnly(w, S) \in Weightings
           /\ \A t \in Vocab : KeepOnly(w, S)[t] = IF t \in S THEN w[t] ELSE 0
           /\ \A t \in S : w[t] > 0 => /\ Before(KeepOnly(w, S), t) = Before(w, t)
                                       /\ Above(KeepOnly(w, S), t) = Above(w, t)
           /\ \A T \in SUBSET S : Mass(KeepOnly(w, S), T) = Mass(w, T)
           /\ Mass(KeepOnly(w, S), Vocab) = Mass(w, S)
<1> DEFINE v == KeepOnly(w, S)
<1>1. /\ v \in Weightings
      /\ \A t \in Vocab : w[t] \in Nat /\ v[t] = IF t \in S THEN w[t] ELSE 0
  BY DEF Weightings, KeepOnly
<1> HIDE DEF v
<1>2. S \in SUBSET Vocab
  BY DEF Closed
<1>3. ASSUME NEW t \in S, w[t] > 0 PROVE Before(v, t) = Before(w, t) /\ Above(v, t) = Above(w, t)
  <2>1. t \in Vocab /\ v[t] = w[t] /\ w[t] \in Nat
    BY <1>1, <1>2
  <2>2. /\ Before(w, t) = {u \in Vocab : w[u] > w[t] \/ (w[u] = w[t] /\ u < t)}
        /\ Above(w, t) = {u \in Vocab : w[u] > w[t]}
        /\ Above(w, t) \subseteq Before(w, t)
    BY <2>1, OrderFacts
  <2>3. /\ Before(v, t) = {u \in Vocab : v[u] > v[t] \/ (v[u] = v[t] /\ u < t)}
        /\ Above(v, t) = {u \in Vocab : v[u] > v[t]}
    BY <1>1, <2>1, OrderFacts
  <2>4. Before(w, t) \subseteq S
    BY DEF Closed
  <2>5. ASSUME NEW u \in Vocab
        PROVE  /\ v[u] > v[t] <=> w[u] > w[t]
               /\ v[u] > v[t] \/ (v[u] = v[t] /\ u < t) <=> w[u] > w[t] \/ (w[u] = w[t] /\ u < t)
    <3>1. CASE u \in S
      BY <1>1, <2>1, <3>1
    <3>2. CASE u \notin S
      <4>1. u \notin Before(w, t)
        BY <2>4, <3>2
      <4>2. ~ (w[u] > w[t] \/ (w[u] = w[t] /\ u < t)) /\ v[u] = 0
        BY <1>1, <2>2, <3>2, <4>1
      <4>3. QED
        BY <1>3, <2>1, <4>2
    <3>3. QED
      BY <3>1, <3>2
  <2>6. Before(v, t) = Before(w, t)
    BY <2>2, <2>3, <2>5
  <2>7. Above(v, t) = Above(w, t)
    BY <2>2, <2>3, <2>5
  <2>8. QED
    BY <2>6, <2>7
<1>4. ASSUME NEW T \in SUBSET S PROVE Mass(v, T) = Mass(w, T)
  <2>1. T \in SUBSET Vocab /\ \A t \in T : v[t] = w[t]
    BY <1>1, <1>2
  <2>2. QED
    BY <1>1, <2>1, MassSame
<1>5. Mass(v, Vocab) = Mass(w, S)
  <2>1. \A t \in Vocab : v[t] > 0 => t \in S /\ w[t] = v[t]
    BY <1>1
  <2>2. \A t \in S : w[t] > 0 => t \in Vocab /\ w[t] = v[t]
    BY <1>1, <1>2
  <2>3. Vocab \in SUBSET Vocab
    OBVIOUS
  <2>4. QED
    BY <1>1, <1>2, <2>1, <2>2, <2>3, MassSame
<1>6. QED
  BY <1>1, <1>3, <1>4, <1>5 DEF v

(* for the tokens that S keeps of w, A says what B does *)
Agree(w, S, A, B) == \A t \in S : w[t] > 0 => (t \in A <=> t \in B)

(* One filter after another keeps what both do.                             *)
LEMMA KeepTwice ==
    ASSUME NEW w \in Weightings, NEW S, Closed(w, S), NEW A, NEW B, Agree(w, S, A, B)
    PROVE  KeepOnly(KeepOnly(w, S), A) = KeepOnly(w, S \cap B)
<1>1. KeepOnly(KeepOnly(w, S), A) = [t \in Vocab |-> IF t \in A THEN IF t \in S THEN w[t] ELSE 0 ELSE 0]
  BY DEF KeepOnly, Weightings
<1>2. KeepOnly(w, S \cap B) = [t \in Vocab |-> IF t \in S \cap B THEN w[t] ELSE 0]
  BY DEF KeepOnly, Weightings
<1>3. ASSUME NEW t \in Vocab
      PROVE  (IF t \in A THEN IF t \in S THEN w[t] ELSE 0 ELSE 0) = IF t \in S \cap B THEN w[t] ELSE 0
  <2>1. w[t] \in Nat
    BY DEF Weightings
  <2>2. CASE w[t] = 0
    BY <2>2
  <2>3. CASE w[t] > 0
    BY <2>3 DEF Agree
  <2>4. QED
    BY <2>1, <2>2, <2>3
<1>4. QED
  BY <1>1, <1>2, <1>3

(* Nothing but a whole vocabulary is what a filter starts with.             *)
LEMMA KeepAll ==
    ASSUME NEW w \in Weightings
    PROVE  KeepOnly(w, Vocab) = w
BY DEF KeepOnly, Weightings

(* Top-k of a front,                                                        *)
LEMMA TopKOf ==
    ASSUME NEW w \in Weightings, NEW S, Closed(w, S), NEW k \in Nat
    PROVE  TopK(KeepOnly(w, S), k) = KeepOnly(w, S \cap Eligible(w, k))
<1> DEFINE v == KeepOnly(w, S)
<1>1. v \in Weightings /\ S \in SUBSET Vocab
  BY KeepFacts DEF Closed
<1>2. \A t \in S : w[t] > 0 => Above(v, t) = Above(w, t)
  BY KeepFacts
<1> HIDE DEF v
<1>3. \A t \in Vocab : /\ t \in Eligible(v, k) <=> Cardinality(Above(v, t)) < k
                       /\ t \in Eligible(w, k) <=> Cardinality(Above(w, t)) < k
  BY <1>1 DEF Eligible, Weightings
<1>4. Agree(w, S, Eligible(v, k), Eligible(w, k))
  BY <1>1, <1>2, <1>3 DEF Agree
<1>5. KeepOnly(v, Eligible(v, k)) = KeepOnly(w, S \cap Eligible(w, k))
  BY <1>4, KeepTwice DEF v
<1>6. QED
  BY <1>5 DEF TopK, v

(* top-p of a front,                                                        *)
LEMMA TopPOf ==
    ASSUME NEW w \in Weightings, NEW S, Closed(w, S), NEW p \in Nat
    PROVE  /\ TopP(KeepOnly(w, S), p) = KeepOnly(w, S \cap BeforeMass(w, p * Mass(w, S)))
           /\ NativeTopP(KeepOnly(w, S), p) = KeepOnly(w, S \cap AboveMass(w, p * Mass(w, S)))
<1> DEFINE v == KeepOnly(w, S)
           x == p * Mass(w, S)
           A == {t \in DOMAIN v : 10 * Mass(v, Before(v, t)) < p * Mass(v, DOMAIN v)}
           B == {t \in DOMAIN v : 10 * Mass(v, Above(v, t)) < p * Mass(v, DOMAIN v)}
<1>1. /\ v \in Weightings /\ S \in SUBSET Vocab /\ DOMAIN v = Vocab
      /\ \A T \in SUBSET S : Mass(v, T) = Mass(w, T)
      /\ Mass(v, Vocab) = Mass(w, S)
  BY KeepFacts DEF Closed, Weightings
<1>2. \A t \in S : w[t] > 0 => Before(v, t) = Before(w, t) /\ Above(v, t) = Above(w, t)
  BY KeepFacts
<1> HIDE DEF v
<1>3. p * Mass(v, DOMAIN v) = x
  BY <1>1
<1> HIDE DEF x
<1>4. ASSUME NEW t \in S, w[t] > 0
      PROVE  (t \in A <=> t \in BeforeMass(w, x)) /\ (t \in B <=> t \in AboveMass(w, x))
  <2>1. t \in Vocab /\ Before(w, t) \in SUBSET S /\ Above(w, t) \in SUBSET S
    BY <1>1, OrderFacts DEF Closed
  <2>2. /\ Mass(v, Before(v, t)) = Mass(w, Before(w, t))
        /\ Mass(v, Above(v, t)) = Mass(w, Above(w, t))
    BY <1>1, <1>2, <1>4, <2>1
  <2>3. /\ t \in A <=> 10 * Mass(v, Before(v, t)) < x
        /\ t \in B <=> 10 * Mass(v, Above(v, t)) < x
    BY <1>1, <1>3, <2>1
  <2>4. QED
    BY <2>1, <2>2, <2>3 DEF BeforeMass, AboveMass
<1>5. Agree(w, S, A, BeforeMass(w, x)) /\ Agree(w, S, B, AboveMass(w, x))
  BY <1>4 DEF Agree
<1>6. TopP(v, p) = KeepOnly(v, A) /\ NativeTopP(v, p) = KeepOnly(v, B)
  BY DEF TopP, NativeTopP
<1> HIDE DEF A, B
<1>7. /\ KeepOnly(v, A) = KeepOnly(w, S \cap BeforeMass(w, x))
      /\ KeepOnly(v, B) = KeepOnly(w, S \cap AboveMass(w, x))
  BY <1>5, KeepTwice DEF v
<1>8. QED
  BY <1>6, <1>7 DEF v, x

(* and min-p, where there is a best token.                                  *)
LEMMA MinPOf ==
    ASSUME NEW w \in Weightings, NEW S, Closed(w, S), Positive(w), S # {}, NEW m \in Nat
    PROVE  MinP(KeepOnly(w, S), m) = KeepOnly(w, S \cap Mins(w, m))
<1> DEFINE v == KeepOnly(w, S)
           b == ArgMax(w)
           A == {t \in DOMAIN v : \A u \in DOMAIN v : 10 * v[t] >= m * v[u]}
<1>1. /\ v \in Weightings /\ S \in SUBSET Vocab /\ DOMAIN v = Vocab
      /\ \A t \in Vocab : v[t] = IF t \in S THEN w[t] ELSE 0
  BY KeepFacts DEF Closed, Weightings
<1> HIDE DEF v
<1>2. b \in S /\ b \in Vocab /\ v[b] = w[b] /\ \A u \in Vocab : w[u] <= w[b]
  BY <1>1, BestFacts
<1> HIDE DEF b
<1>3. ASSUME NEW x \in Nat, NEW y \in Nat, x <= y PROVE m * x <= m * y
  BY <1>3
<1>4. ASSUME NEW t \in S, w[t] > 0
      PROVE  t \in A <=> t \in Mins(w, m)
  <2>1. t \in Vocab /\ v[t] = w[t] /\ w[t] \in Nat /\ w[b] \in Nat
    BY <1>1, <1>2 DEF Weightings
  <2>2. \A u \in Vocab : m * w[u] <= m * w[b] /\ m * v[u] <= m * w[b]
    <3>1. TAKE u \in Vocab
    <3>2. w[u] \in Nat /\ v[u] \in Nat /\ v[u] <= w[b] /\ w[u] <= w[b]
      BY <1>1, <1>2, <2>1 DEF Weightings
    <3>3. QED
      BY <1>3, <2>1, <3>2
  <2>3. PICK x : x = m * w[b] /\ x \in Nat
    BY <2>1
  <2>4. t \in A <=> 10 * w[t] >= x
    <3>1. ASSUME t \in A PROVE 10 * w[t] >= x
      BY <1>1, <1>2, <2>1, <2>3, <3>1
    <3>2. ASSUME 10 * w[t] >= x, NEW u \in Vocab PROVE 10 * v[t] >= m * v[u]
      <4>1. PICK y : y = m * v[u] /\ y \in Nat
        BY <1>1 DEF Weightings
      <4>2. QED
        BY <2>1, <2>2, <2>3, <3>2, <4>1
    <3>3. QED
      BY <1>1, <2>1, <3>1, <3>2
  <2>5. t \in Mins(w, m) <=> 10 * w[t] >= x
    <3>1. ASSUME t \in Mins(w, m) PROVE 10 * w[t] >= x
      BY <1>2, <2>3, <3>1 DEF Mins
    <3>2. ASSUME 10 * w[t] >= x, NEW u \in Vocab PROVE 10 * w[t] >= m * w[u]
      <4>1. PICK y : y = m * w[u] /\ y \in Nat
        BY DEF Weightings
      <4>2. QED
        BY <2>1, <2>2, <2>3, <3>2, <4>1
    <3>3. QED
      BY <2>1, <3>1, <3>2 DEF Mins
  <2>6. QED
    BY <2>4, <2>5
<1>5. Agree(w, S, A, Mins(w, m))
  BY <1>4 DEF Agree
<1>6. MinP(v, m) = KeepOnly(v, A)
  BY DEF MinP
<1> HIDE DEF A
<1>7. QED
  BY <1>5, <1>6, KeepTwice DEF v

(* the tokens that every reading of the filters keeps, and that any does    *)
Strict(w, k, p, m) ==
    Mins(w, m) \cap Eligible(w, k)
        \cap BeforeMass(w, p * Mass(w, Mins(w, m) \cap Eligible(w, k)))
Loose(w, k, p, m) ==
    Mins(w, m) \cap Eligible(w, k) \cap AboveMass(w, p * Mass(w, Vocab))

(* a request's parameters *)
Fitting(w, k, p, m) ==
    w \in Weightings /\ Positive(w) /\ k \in 1 .. VocabSize /\ p \in 1 .. 10 /\ m \in 0 .. 10

(* Portions of a mass.                                                      *)
LEMMA PortionFacts ==
    ASSUME NEW p \in 1 .. 10, NEW x \in Nat, NEW y \in Nat, x <= y
    PROVE  p * x <= p * y /\ p * x \in Nat /\ p * y \in Nat /\ (x > 0 => 0 < p * x)
<1>1. p \in Nat /\ p >= 1
  OBVIOUS
<1>2. PICK d \in Nat : y = x + d
  <2>1. y - x \in Nat /\ y = x + (y - x)
    OBVIOUS
  <2>2. QED
    BY <2>1
<1>3. p * x \in Nat /\ p * d \in Nat /\ p * y \in Nat
  BY <1>1
<1>4. p * y = p * x + p * d
  BY <1>1, <1>2
<1>5. p * x <= p * y
  BY <1>3, <1>4
<1>6. p * x >= x
  <2>1. p - 1 \in Nat
    BY <1>1
  <2>2. p * x = x + (p - 1) * x /\ (p - 1) * x \in Nat
    BY <1>1, <2>1
  <2>3. QED
    BY <1>3, <2>2
<1>7. QED
  BY <1>3, <1>5, <1>6

(* The best token passes every filter.                                      *)
LEMMA BestPasses ==
    ASSUME NEW w, NEW k, NEW p, NEW m, Fitting(w, k, p, m)
    PROVE  /\ ArgMax(w) \in Mins(w, m) /\ ArgMax(w) \in Eligible(w, k)
           /\ \A S \in SUBSET Vocab : ArgMax(w) \in S =>
                 /\ 0 < p * Mass(w, S) /\ p * Mass(w, S) \in Nat
                 /\ ArgMax(w) \in BeforeMass(w, p * Mass(w, S))
<1> DEFINE b == ArgMax(w)
<1>1. w \in Weightings /\ Positive(w) /\ k \in Nat /\ 0 < k /\ p \in 1 .. 10 /\ m \in 0 .. 10
  BY VocabFacts DEF Fitting
<1>2. /\ b \in Vocab /\ w[b] > 0 /\ Before(w, b) = {} /\ Above(w, b) = {}
      /\ \A u \in Vocab : w[u] <= w[b]
  BY <1>1, BestFacts
<1> HIDE DEF b
<1>3. b \in Mins(w, m)
  <2>1. ASSUME NEW u \in Vocab PROVE 10 * w[b] >= m * w[u]
    <3>1. w[u] \in Nat /\ w[b] \in Nat /\ w[u] <= w[b]
      BY <1>1, <1>2 DEF Weightings
    <3>2. \A x, y \in Nat : x <= y => 10 * y >= m * x
      <4>1. TAKE x \in Nat, y \in Nat
      <4>2. \/ m = 0 \/ m = 1 \/ m = 2 \/ m = 3 \/ m = 4 \/ m = 5 \/ m = 6
            \/ m = 7 \/ m = 8 \/ m = 9 \/ m = 10
        BY <1>1
      <4>3. QED
        BY <4>2
    <3>3. QED
      BY <3>1, <3>2
  <2>2. QED
    BY <1>2, <2>1 DEF Mins
<1>4. b \in Eligible(w, k)
  <2>1. Cardinality(Above(w, b)) = 0
    BY <1>2, FS_EmptySet
  <2>2. QED
    BY <1>1, <1>2, <2>1 DEF Eligible, Weightings
<1>5. Mass(w, {}) = 0
  <2>1. Cells(w, {}) = {}
    BY DEF Cells
  <2>2. {} \in SUBSET Vocab
    OBVIOUS
  <2>3. QED
    BY <1>1, <2>1, <2>2, CellsFacts, FS_EmptySet
<1>6. ASSUME NEW S \in SUBSET Vocab, b \in S
      PROVE  /\ 0 < p * Mass(w, S) /\ p * Mass(w, S) \in Nat
             /\ b \in BeforeMass(w, p * Mass(w, S))
  <2>1. {} \in SUBSET S
    OBVIOUS
  <2>2. Mass(w, {}) < Mass(w, S)
    BY <1>1, <1>2, <1>6, <2>1, MassStrict
  <2>3. Mass(w, S) \in Nat /\ Mass(w, S) > 0
    BY <1>1, <1>5, <2>2, CellsFacts
  <2>4. 0 < p * Mass(w, S) /\ p * Mass(w, S) \in Nat
    BY <1>1, <2>3, PortionFacts
  <2>5. 10 * Mass(w, Before(w, b)) = 0
    BY <1>2, <1>5
  <2>6. QED
    BY <1>2, <2>4, <2>5 DEF BeforeMass
<1>7. QED
  BY <1>3, <1>4, <1>6 DEF b

(* More weight, a longer front.                                             *)
LEMMA MassesGrow ==
    ASSUME NEW w, NEW k, NEW p, NEW m, Fitting(w, k, p, m),
           NEW T \in SUBSET Vocab, NEW S \in SUBSET T
    PROVE  /\ BeforeMass(w, p * Mass(w, S)) \subseteq BeforeMass(w, p * Mass(w, T))
           /\ AboveMass(w, p * Mass(w, S)) \subseteq AboveMass(w, p * Mass(w, T))
           /\ BeforeMass(w, p * Mass(w, S)) \subseteq AboveMass(w, p * Mass(w, T))
           /\ p * Mass(w, S) \in Nat /\ p * Mass(w, T) \in Nat
           /\ Closed(w, BeforeMass(w, p * Mass(w, S))) /\ Closed(w, AboveMass(w, p * Mass(w, S)))
<1>1. w \in Weightings /\ p \in 1 .. 10
  BY DEF Fitting
<1>2. Mass(w, S) <= Mass(w, T) /\ Mass(w, S) \in Nat /\ Mass(w, T) \in Nat
  BY <1>1, MassMonotone
<1>3. PICK x, y \in Nat : x = p * Mass(w, S) /\ y = p * Mass(w, T) /\ x <= y
  BY <1>1, <1>2, PortionFacts
<1>4. \A t \in Vocab : Mass(w, Before(w, t)) \in Nat /\ Mass(w, Above(w, t)) \in Nat
  <2>1. TAKE t \in Vocab
  <2>2. Before(w, t) \in SUBSET Vocab /\ Above(w, t) \in SUBSET Vocab
    BY <1>1, OrderFacts
  <2>3. QED
    BY <1>1, <2>2, CellsFacts
<1>5. BeforeMass(w, x) \subseteq BeforeMass(w, y) /\ AboveMass(w, x) \subseteq AboveMass(w, y)
  BY <1>3, <1>4 DEF BeforeMass, AboveMass
<1>6. /\ BeforeMass(w, x) \subseteq AboveMass(w, x)
      /\ Closed(w, BeforeMass(w, x)) /\ Closed(w, AboveMass(w, x))
  BY <1>1, MassClosed
<1>7. QED
  BY <1>3, <1>5, <1>6

(* the samplers' orders of the filters, as sets of tokens *)
AsSets(w, k, p, m) ==
    /\ Upstream(MinP(w, m), k, p) = KeepOnly(w, Strict(w, k, p, m))
    /\ MinP(Upstream(w, k, p), m)
         = KeepOnly(w, Eligible(w, k) \cap BeforeMass(w, p * Mass(w, Eligible(w, k))) \cap Mins(w, m))
    /\ MinP(NativeTopP(TopK(w, k), p), m)
         = KeepOnly(w, Eligible(w, k) \cap AboveMass(w, p * Mass(w, Eligible(w, k))) \cap Mins(w, m))
    /\ KeepOnly(NativeTopP(w, p), Eligible(w, k))
         = KeepOnly(w, AboveMass(w, p * Mass(w, Vocab)) \cap Eligible(w, k))
    /\ MinP(w, m) = KeepOnly(w, Mins(w, m))
    /\ NativeTopP(w, p) = KeepOnly(w, AboveMass(w, p * Mass(w, Vocab)))

(* This is what the orders keep.                                            *)
LEMMA OrdersOf ==
    ASSUME NEW w, NEW k, NEW p, NEW m, Fitting(w, k, p, m)
    PROVE  AsSets(w, k, p, m)
<1> DEFINE M == Mins(w, m)
           E == Eligible(w, k)
           V == Vocab
           b == ArgMax(w)
<1>1. w \in Weightings /\ Positive(w) /\ k \in Nat /\ p \in Nat /\ m \in Nat
  BY VocabFacts DEF Fitting
<1>2. /\ b \in M /\ b \in E /\ b \in Vocab
      /\ \A S \in SUBSET Vocab : b \in S => b \in BeforeMass(w, p * Mass(w, S))
  BY <1>1, BestPasses, BestFacts
<1>3. /\ Closed(w, M) /\ Closed(w, E) /\ Closed(w, V) /\ Closed(w, M \cap E)
      /\ \A S, T : Closed(w, S) /\ Closed(w, T) => Closed(w, S \cap T)
  BY <1>1, ClosedFacts, EligibleClosed, MinsClosed
<1>4. /\ M \in SUBSET Vocab /\ E \in SUBSET Vocab /\ M \cap E \in SUBSET Vocab /\ V \in SUBSET Vocab
      /\ V \cap E = E /\ V \cap M = M
  BY <1>3 DEF Closed
<1> DEFINE BE == BeforeMass(w, p * Mass(w, E))
           AE == AboveMass(w, p * Mass(w, E))
           AV == AboveMass(w, p * Mass(w, V))
<1>5. Closed(w, BE) /\ Closed(w, AE) /\ Closed(w, AV) /\ BE \subseteq AE /\ V \cap AV = AV
  <2>1. E \in SUBSET E /\ V \in SUBSET V
    OBVIOUS
  <2>2. Closed(w, BE) /\ Closed(w, AE) /\ BE \subseteq AE
    BY <1>4, <2>1, MassesGrow
  <2>3. Closed(w, AV)
    BY <1>4, <2>1, MassesGrow
  <2>4. QED
    BY <2>2, <2>3 DEF Closed
<1>6. KeepOnly(w, V) = w
  BY <1>1, KeepAll
<1> HIDE DEF M, E, V, b, BE, AE, AV
<1>7. TopK(w, k) = KeepOnly(w, E)
  <2>1. TopK(KeepOnly(w, V), k) = KeepOnly(w, V \cap E)
    BY <1>1, <1>3, TopKOf DEF E
  <2>2. QED
    BY <1>4, <1>6, <2>1
<1>8. MinP(w, m) = KeepOnly(w, M)
  <2>1. V # {}
    BY <1>2 DEF V
  <2>2. MinP(KeepOnly(w, V), m) = KeepOnly(w, V \cap M)
    BY <1>1, <1>3, <2>1, MinPOf DEF M
  <2>3. QED
    BY <1>4, <1>6, <2>2
<1>9. NativeTopP(w, p) = KeepOnly(w, AV)
  <2>1. NativeTopP(KeepOnly(w, V), p) = KeepOnly(w, V \cap AV)
    BY <1>1, <1>3, TopPOf DEF AV
  <2>2. QED
    BY <1>5, <1>6, <2>1
<1>10. Upstream(MinP(w, m), k, p) = KeepOnly(w, Strict(w, k, p, m))
  <2>1. TopK(MinP(w, m), k) = KeepOnly(w, M \cap E)
    BY <1>1, <1>3, <1>8, TopKOf DEF E
  <2>2. TopP(KeepOnly(w, M \cap E), p) = KeepOnly(w, M \cap E \cap BeforeMass(w, p * Mass(w, M \cap E)))
    BY <1>1, <1>3, TopPOf
  <2>3. QED
    BY <2>1, <2>2 DEF Upstream, Strict, M, E
<1>11. MinP(Upstream(w, k, p), m) = KeepOnly(w, E \cap BE \cap M)
  <2>1. Upstream(w, k, p) = KeepOnly(w, E \cap BE)
    BY <1>1, <1>3, <1>7, TopPOf DEF BE, Upstream
  <2>2. Closed(w, E \cap BE) /\ b \in E \cap BE
    BY <1>2, <1>3, <1>4, <1>5 DEF BE
  <2>3. MinP(KeepOnly(w, E \cap BE), m) = KeepOnly(w, E \cap BE \cap M)
    BY <1>1, <2>2, MinPOf DEF M
  <2>4. QED
    BY <2>1, <2>3
<1>12. MinP(NativeTopP(TopK(w, k), p), m) = KeepOnly(w, E \cap AE \cap M)
  <2>1. NativeTopP(TopK(w, k), p) = KeepOnly(w, E \cap AE)
    BY <1>1, <1>3, <1>7, TopPOf DEF AE
  <2>2. Closed(w, E \cap AE)
    BY <1>3, <1>5
  <2>3. b \in E \cap AE
    BY <1>2, <1>4, <1>5 DEF BE
  <2>4. MinP(KeepOnly(w, E \cap AE), m) = KeepOnly(w, E \cap AE \cap M)
    BY <1>1, <2>2, <2>3, MinPOf DEF M
  <2>5. QED
    BY <2>1, <2>4
<1>13. KeepOnly(NativeTopP(w, p), Eligible(w, k)) = KeepOnly(w, AV \cap E)
  <2>1. Agree(w, AV, E, E)
    BY DEF Agree
  <2>2. KeepOnly(KeepOnly(w, AV), E) = KeepOnly(w, AV \cap E)
    BY <1>1, <1>5, <2>1, KeepTwice
  <2>3. QED
    BY <1>9, <2>2 DEF E
<1>14. QED
  BY <1>8, <1>9, <1>10, <1>11, <1>12, <1>13 DEF AsSets, M, E, V, BE, AE, AV

(* v has the weights of w, for what every reading of the filters keeps at   *)
(* least and what one does at most, the best token among them               *)
Fits(w, k, p, m, v) ==
    /\ v \in Weightings /\ Positive(v)
    /\ \A t \in Vocab : v[t] \in {0, w[t]}
    /\ \A t \in Vocab : Upstream(MinP(w, m), k, p)[t] > 0 => v[t] = w[t] /\ w[t] > 0
    /\ \A t \in Vocab : v[t] > 0 => /\ KeepOnly(w, Eligible(w, k))[t] # 0
                                    /\ NativeTopP(w, p)[t] # 0 /\ MinP(w, m)[t] # 0

(* A set of tokens between the two fits.                                    *)
LEMMA FitsBetween ==
    ASSUME NEW w, NEW k, NEW p, NEW m, Fitting(w, k, p, m), NEW S,
           Strict(w, k, p, m) \subseteq S, S \subseteq Loose(w, k, p, m)
    PROVE  Fits(w, k, p, m, KeepOnly(w, S))
<1> DEFINE M == Mins(w, m)
           E == Eligible(w, k)
           AV == AboveMass(w, p * Mass(w, Vocab))
           Z == Strict(w, k, p, m)
           v == KeepOnly(w, S)
           b == ArgMax(w)
<1>1. w \in Weightings /\ Positive(w) /\ (\A t \in Vocab : w[t] \in Nat) /\ DOMAIN w = Vocab
  BY DEF Fitting, Weightings
<1>2. S \subseteq M /\ S \subseteq E /\ S \subseteq AV
  BY DEF Loose
<1>3. b \in Vocab /\ w[b] > 0 /\ b \in Z
  <2>1. b \in Vocab /\ w[b] > 0
    BY <1>1, BestFacts
  <2>2. b \in M /\ b \in E
    BY BestPasses
  <2>3. M \cap E \in SUBSET Vocab /\ b \in M \cap E
    BY <2>2 DEF Mins
  <2>4. b \in BeforeMass(w, p * Mass(w, M \cap E))
    BY <2>3, BestPasses
  <2>5. QED
    BY <2>1, <2>3, <2>4 DEF Strict
<1>4. AsSets(w, k, p, m)
  BY OrdersOf
<1>5. /\ Upstream(MinP(w, m), k, p) = KeepOnly(w, Z)
      /\ MinP(w, m) = KeepOnly(w, M) /\ NativeTopP(w, p) = KeepOnly(w, AV)
  BY <1>4 DEF AsSets
<1>6. \A T : \A t \in Vocab : KeepOnly(w, T)[t] = IF t \in T THEN w[t] ELSE 0
  BY <1>1 DEF KeepOnly
<1>7. v \in Weightings
  BY <1>1 DEF KeepOnly, Weightings
<1> HIDE DEF M, E, AV, Z, b
<1>8. \A t \in Vocab : v[t] = IF t \in S THEN w[t] ELSE 0
  BY <1>6
<1> HIDE DEF v
<1>9. Positive(v)
  BY <1>3, <1>8 DEF Positive, Z
<1>10. \A t \in Vocab : v[t] \in {0, w[t]}
  BY <1>8
<1>11. ASSUME NEW t \in Vocab, KeepOnly(w, Z)[t] > 0 PROVE v[t] = w[t] /\ w[t] > 0
  <2>1. t \in Z /\ w[t] > 0
    BY <1>6, <1>11
  <2>2. QED
    BY <1>8, <2>1 DEF Z
<1>12. ASSUME NEW t \in Vocab, v[t] > 0
       PROVE  KeepOnly(w, E)[t] # 0 /\ KeepOnly(w, AV)[t] # 0 /\ KeepOnly(w, M)[t] # 0
  <2>1. t \in S /\ w[t] > 0
    BY <1>8, <1>12
  <2>2. QED
    BY <1>1, <1>2, <1>6, <2>1
<1>13. QED
  BY <1>5, <1>7, <1>9, <1>10, <1>11, <1>12 DEF Fits, E, v

(* Every sampler fits, whatever the order in which it filters.              *)
LEMMA OrdersFit ==
    ASSUME NEW w, NEW k, NEW p, NEW m, Fitting(w, k, p, m)
    PROVE  /\ Fits(w, k, p, m, Upstream(MinP(w, m), k, p))
           /\ Fits(w, k, p, m, MinP(Upstream(w, k, p), m))
           /\ \A useMinP \in BOOLEAN : useMinP \/ m = 0 =>
                 Fits(w, k, p, m, Native(w, k, p, m, useMinP))
           /\ k = VocabSize /\ p = 10 /\ m = 0 => Fits(w, k, p, m, w)
<1> DEFINE M == Mins(w, m)
           E == Eligible(w, k)
           AV == AboveMass(w, p * Mass(w, Vocab))
           AE == AboveMass(w, p * Mass(w, E))
           BE == BeforeMass(w, p * Mass(w, E))
           ZM == BeforeMass(w, p * Mass(w, M \cap E))
<1>1. w \in Weightings /\ k \in Nat /\ m \in Nat /\ p \in 1 .. 10 /\ \A t \in Vocab : w[t] \in Nat
  BY VocabFacts DEF Fitting, Weightings
<1>2. M \cap E \in SUBSET E /\ E \in SUBSET Vocab /\ Vocab \in SUBSET Vocab
  BY <1>1 DEF Eligible, Weightings
<1>3. ZM \subseteq BE /\ ZM \subseteq AE
  BY <1>2, MassesGrow
<1>4. BE \subseteq AV /\ AE \subseteq AV
  BY <1>2, MassesGrow
<1>5. Strict(w, k, p, m) = M \cap E \cap ZM /\ Loose(w, k, p, m) = M \cap E \cap AV
  BY DEF Strict, Loose
<1>6. AsSets(w, k, p, m)
  BY OrdersOf
<1>7. /\ Upstream(MinP(w, m), k, p) = KeepOnly(w, Strict(w, k, p, m))
      /\ MinP(Upstream(w, k, p), m) = KeepOnly(w, E \cap BE \cap M)
      /\ MinP(NativeTopP(TopK(w, k), p), m) = KeepOnly(w, E \cap AE \cap M)
      /\ KeepOnly(NativeTopP(w, p), Eligible(w, k)) = KeepOnly(w, AV \cap E)
  BY <1>6 DEF AsSets
<1>8. m = 0 => M = Vocab
  BY <1>1 DEF Mins
<1>9. k = VocabSize => E = Vocab
  <2>1. ASSUME NEW t \in Vocab PROVE Cardinality(Above(w, t)) < VocabSize
    <3>1. Above(w, t) \in SUBSET Vocab /\ t \notin Above(w, t)
      BY <1>1, OrderFacts
    <3>2. Above(w, t) # Vocab /\ IsFiniteSet(Vocab)
      BY <3>1, VocabFacts
    <3>3. /\ Cardinality(Above(w, t)) < Cardinality(Vocab)
          /\ Cardinality(Above(w, t)) \in Nat /\ Cardinality(Vocab) \in Nat
      <4>1. Cardinality(Above(w, t)) <= Cardinality(Vocab) /\ Cardinality(Above(w, t)) # Cardinality(Vocab)
        BY <3>1, <3>2, FS_Subset
      <4>2. IsFiniteSet(Above(w, t))
        BY <3>1, <3>2, FS_Subset
      <4>3. QED
        BY <3>2, <4>1, <4>2, FS_CardinalityType
    <3>4. Cardinality(Vocab) = VocabSize
      <4>1. VocabSize \in Nat /\ VocabSize # 0 /\ 0 \in Int /\ VocabSize - 1 \in Int
        BY FilterAssumption
      <4>2. Cardinality(0 .. VocabSize - 1) = IF 0 > VocabSize - 1 THEN 0 ELSE VocabSize - 1 - 0 + 1
        BY <4>1, FS_Interval
      <4>3. QED
        BY <4>1, <4>2 DEF Vocab
    <3>5. QED
      BY <3>3, <3>4
  <2>2. QED
    BY <1>1, <2>1 DEF Eligible, Weightings
<1> HIDE DEF M, E, AV, AE, BE, ZM
<1>10. Fits(w, k, p, m, KeepOnly(w, Strict(w, k, p, m)))
  <2>1. Strict(w, k, p, m) \subseteq Loose(w, k, p, m)
    BY <1>3, <1>4, <1>5
  <2>2. QED
    BY <2>1, FitsBetween
<1>11. Fits(w, k, p, m, KeepOnly(w, E \cap BE \cap M))
  <2>1. Strict(w, k, p, m) \subseteq E \cap BE \cap M /\ E \cap BE \cap M \subseteq Loose(w, k, p, m)
    BY <1>3, <1>4, <1>5
  <2>2. QED
    BY <2>1, FitsBetween
<1>12. Fits(w, k, p, m, KeepOnly(w, E \cap AE \cap M))
  <2>1. Strict(w, k, p, m) \subseteq E \cap AE \cap M /\ E \cap AE \cap M \subseteq Loose(w, k, p, m)
    BY <1>3, <1>4, <1>5
  <2>2. QED
    BY <2>1, FitsBetween
<1>13. ASSUME m = 0 PROVE Fits(w, k, p, m, KeepOnly(w, AV \cap E))
  <2>1. E \subseteq M
    BY <1>2, <1>8, <1>13
  <2>2. Strict(w, k, p, m) \subseteq AV \cap E /\ AV \cap E \subseteq Loose(w, k, p, m)
    BY <1>3, <1>4, <1>5, <2>1
  <2>3. QED
    BY <2>2, FitsBetween
<1>14. ASSUME k = VocabSize, p = 10, m = 0 PROVE Fits(w, k, p, m, w)
  <2> DEFINE S == {t \in Vocab : w[t] > 0} \cup Strict(w, k, p, m)
  <2>1. M = Vocab /\ E = Vocab
    BY <1>8, <1>9, <1>14
  <2>2. ASSUME NEW t \in Vocab, w[t] > 0 PROVE t \in AV
    <3>1. Above(w, t) \in SUBSET Vocab /\ t \notin Above(w, t)
      BY <1>1, OrderFacts
    <3>2. Mass(w, Above(w, t)) < Mass(w, Vocab)
      BY <1>1, <1>2, <2>2, <3>1, MassStrict
    <3>3. Mass(w, Above(w, t)) \in Nat /\ Mass(w, Vocab) \in Nat
      BY <1>1, <1>2, <3>1, CellsFacts
    <3>4. 10 * Mass(w, Above(w, t)) < 10 * Mass(w, Vocab)
      BY <3>2, <3>3
    <3>5. QED
      BY <1>14, <3>4 DEF AV, AboveMass
  <2>3. S \subseteq Loose(w, k, p, m) /\ Strict(w, k, p, m) \subseteq S
    BY <1>3, <1>4, <1>5, <2>1, <2>2
  <2>4. Fits(w, k, p, m, KeepOnly(w, S))
    BY <2>3, FitsBetween
  <2>5. KeepOnly(w, S) = w
    <3>1. w = [t \in Vocab |-> w[t]] /\ DOMAIN w = Vocab
      BY <1>1 DEF Weightings
    <3>2. \A t \in Vocab : (IF t \in S THEN w[t] ELSE 0) = w[t]
      BY <1>1
    <3>3. QED
      BY <3>1, <3>2 DEF KeepOnly
  <2>6. QED
    BY <2>4, <2>5
<1>15. ASSUME NEW useMinP \in BOOLEAN, useMinP \/ m = 0
       PROVE  Fits(w, k, p, m, Native(w, k, p, m, useMinP))
  <2>1. CASE useMinP
    BY <1>7, <1>12, <2>1 DEF Native
  <2>2. CASE ~ useMinP
    BY <1>7, <1>13, <1>15, <2>2 DEF Native
  <2>3. QED
    BY <2>1, <2>2
<1>16. QED
  BY <1>7, <1>10, <1>11, <1>14, <1>15

(* The tokens topk returns are the eligible ones if there are k of these.   *)
LEMMA PickedFacts ==
    ASSUME NEW w \in Weightings, NEW k \in Nat, Cardinality(Eligible(w, k)) = k
    PROVE  KeepOnly(w, {t \in Vocab : Cardinality(Before(w, t)) < k}) = TopK(w, k)
<1>1. /\ DOMAIN w = Vocab /\ IsFiniteSet(Vocab) /\ Eligible(w, k) \in SUBSET Vocab
      /\ Closed(w, Eligible(w, k))
  BY VocabFacts, EligibleClosed DEF Weightings, Eligible
<1>2. \A t \in Vocab : t \in Eligible(w, k) <=> Cardinality(Above(w, t)) < k
  BY <1>1 DEF Eligible
<1>3. ASSUME NEW t \in Vocab
      PROVE  Cardinality(Before(w, t)) < k <=> t \in Eligible(w, k)
  <2>1. /\ Before(w, t) \in SUBSET Vocab /\ Above(w, t) \in SUBSET Before(w, t)
        /\ t \notin Before(w, t)
    BY OrderFacts
  <2>2. IsFiniteSet(Before(w, t)) /\ IsFiniteSet(Eligible(w, k))
    BY <1>1, <2>1, FS_Subset
  <2>3. /\ Cardinality(Above(w, t)) <= Cardinality(Before(w, t))
        /\ Cardinality(Before(w, t)) \in Nat /\ Cardinality(Above(w, t)) \in Nat
    BY <2>1, <2>2, FS_Subset, FS_CardinalityType
  <2>4. ASSUME t \in Eligible(w, k) PROVE Cardinality(Before(w, t)) < k
    <3>1. Before(w, t) \in SUBSET Eligible(w, k)
      BY <1>1, <2>4 DEF Closed
    <3>2. Before(w, t) # Eligible(w, k)
      BY <2>1, <2>4
    <3>3. /\ Cardinality(Before(w, t)) <= Cardinality(Eligible(w, k))
          /\ Cardinality(Before(w, t)) # Cardinality(Eligible(w, k))
      BY <2>2, <3>1, <3>2, FS_Subset
    <3>4. QED
      BY <2>3, <3>3
  <2>5. ASSUME Cardinality(Before(w, t)) < k PROVE t \in Eligible(w, k)
    BY <1>2, <2>3, <2>5
  <2>6. QED
    BY <2>4, <2>5
<1>4. {t \in Vocab : Cardinality(Before(w, t)) < k} = Eligible(w, k)
  BY <1>1, <1>3
<1>5. QED
  BY <1>4 DEF TopK

(* Prefiltered, specialised or neither: top-k and top-p keep the same.      *)
LEMMA FilteredRow ==
    ASSUME NEW ws, NEW hinted \in BOOLEAN, NEW ks, NEW ps, NEW i \in DOMAIN ws,
           DOMAIN ks = DOMAIN ws,
           \A j \in DOMAIN ws : ws[j] \in Weightings /\ ks[j] \in Nat,
           hinted => \A j \in DOMAIN ks : ks[j] = HintK
    PROVE  Filtered(ws, hinted, ks, ps)[i] = Upstream(ws[i], ks[i], ps[i])
<1> DEFINE kOf == IF hinted THEN [j \in DOMAIN ks |-> HintK] ELSE ks
           usesP == \E j \in DOMAIN ps : ps[j] # 10
           usesK == \E j \in DOMAIN ks : kOf[j] # VocabSize
           sorted == usesK /\ usesP /\ (hinted \/ Len(ws) >= PrefilterRows)
           picked(j) == {t \in Vocab : Cardinality(Before(ws[j], t)) < kOf[j]}
<1>1. DOMAIN kOf = DOMAIN ws /\ \A j \in DOMAIN ws : kOf[j] = ks[j]
  OBVIOUS
<1>2. Filtered(ws, hinted, ks, ps)[i]
        = IF sorted /\ Prefiltered(ws, kOf) THEN TopP(KeepOnly(ws[i], picked(i)), ps[i])
          ELSE Upstream(ws[i], kOf[i], ps[i])
  BY DEF Filtered
<1> HIDE DEF sorted
<1>3. CASE sorted /\ Prefiltered(ws, kOf)
  <2>1. Cardinality(Eligible(ws[i], kOf[i])) = kOf[i]
    BY <1>3 DEF Prefiltered
  <2>2. KeepOnly(ws[i], picked(i)) = TopK(ws[i], kOf[i])
    BY <1>1, <2>1, PickedFacts
  <2> HIDE DEF kOf, picked
  <2>3. QED
    BY <1>1, <1>2, <1>3, <2>2 DEF Upstream
<1>4. CASE ~ (sorted /\ Prefiltered(ws, kOf))
  BY <1>1, <1>2, <1>4
<1>5. QED
  BY <1>3, <1>4

(* noise of every token *)
Noisy(key) == \A t \in Vocab : Noise(key, t) \in Nat \ {0}

(* The scores have a best token, and it has weight.                         *)
LEMMA ScoreFacts ==
    ASSUME NEW v \in Weightings, NEW key, Noisy(key)
    PROVE  /\ Scores(key, v) \in [Vocab -> Nat]
           /\ \A t \in Vocab : Scores(key, v)[t] = v[t] * Noise(key, t)
           /\ Best(Scores(key, v), ArgMax(Scores(key, v))) /\ ArgMax(Scores(key, v)) \in Vocab
           /\ Positive(v) => v[ArgMax(Scores(key, v))] > 0
<1> DEFINE s == Scores(key, v)
           t == ArgMax(s)
<1>1. /\ s \in [Vocab -> Nat]
      /\ \A u \in Vocab : s[u] = v[u] * Noise(key, u) /\ v[u] \in Nat /\ Noise(key, u) \in Nat \ {0}
  <2>1. \A u \in Vocab : v[u] \in Nat /\ Noise(key, u) \in Nat \ {0}
    BY DEF Weightings, Noisy
  <2>2. s = [u \in Vocab |-> v[u] * Noise(key, u)]
    BY DEF Scores, Weightings
  <2>3. \A x, y \in Nat : x * y \in Nat
    OBVIOUS
  <2>4. QED
    BY <2>1, <2>2, <2>3
<1> HIDE DEF s
<1>2. Best(s, t) /\ t \in Vocab
  BY <1>1, VocabFacts, ArgMaxFacts
<1> HIDE DEF t
<1>3. ASSUME Positive(v) PROVE v[t] > 0
  <2>1. PICK u \in Vocab : v[u] > 0
    BY <1>3 DEF Positive
  <2>2. \A x, y \in Nat : x > 0 /\ y > 0 => x * y > 0
    OBVIOUS
  <2>3. s[u] > 0
    BY <1>1, <2>1, <2>2
  <2>4. s[t] > 0
    <3>1. s[u] \in Nat /\ s[t] \in Nat /\ (s[u] < s[t] \/ s[u] = s[t])
      BY <1>1, <1>2 DEF Best
    <3>2. QED
      BY <2>3, <3>1
  <2>5. CASE v[t] = 0
    <3>1. \A y \in Nat : 0 * y = 0
      OBVIOUS
    <3>2. s[t] = 0
      BY <1>1, <1>2, <2>5, <3>1
    <3>3. QED
      BY <2>4, <3>2
  <2>6. v[t] \in Nat
    BY <1>1, <1>2
  <2>7. QED
    BY <2>5, <2>6
<1>4. QED
  BY <1>1, <1>2, <1>3 DEF s, t

(* What is drawn from weights that fit.                                     *)
LEMMA DrawFacts ==
    ASSUME NEW w, NEW k, NEW p, NEW m, Fitting(w, k, p, m), NEW v, Fits(w, k, p, m, v),
           NEW key, Noisy(key), NEW t, t = ArgMax(Scores(key, v))
    PROVE  /\ t \in Vocab
           /\ KeepOnly(w, Eligible(w, k))[t] # 0 /\ NativeTopP(w, p)[t] # 0 /\ MinP(w, m)[t] # 0
           /\ \A u \in Vocab : Upstream(MinP(w, m), k, p)[u] > 0
                                 => Scores(key, w)[u] <= Scores(key, w)[t]
<1>1. w \in Weightings /\ v \in Weightings /\ Positive(v)
  BY DEF Fitting, Fits
<1>2. t \in Vocab /\ v[t] > 0 /\ Best(Scores(key, v), t)
  BY <1>1, ScoreFacts
<1>3. v[t] = w[t]
  <2>1. v[t] \in {0, w[t]}
    BY <1>2 DEF Fits
  <2>2. QED
    BY <1>2, <2>1
<1>4. ASSUME NEW u \in Vocab, Upstream(MinP(w, m), k, p)[u] > 0
      PROVE  Scores(key, w)[u] <= Scores(key, w)[t]
  <2>1. v[u] = w[u]
    BY <1>4 DEF Fits
  <2>2. /\ Scores(key, v)[u] = v[u] * Noise(key, u) /\ Scores(key, w)[u] = w[u] * Noise(key, u)
        /\ Scores(key, v)[t] = v[t] * Noise(key, t) /\ Scores(key, w)[t] = w[t] * Noise(key, t)
        /\ Scores(key, v)[u] \in Nat /\ Scores(key, v)[t] \in Nat /\ DOMAIN Scores(key, v) = Vocab
    BY <1>1, <1>2, ScoreFacts
  <2>3. Scores(key, v)[u] <= Scores(key, v)[t]
    BY <1>2, <2>2 DEF Best
  <2>4. QED
    BY <1>3, <2>1, <2>2, <2>3
<1>5. QED
  BY <1>2, <1>4 DEF Fits

-----------------------------------------------------------------------------
(* Shards.                                                                  *)

ShardOf(r) == r * ShardSize .. (r + 1) * ShardSize - 1

(* The shards make up the vocabulary, one after the other.                  *)
LEMMA ShardFacts ==
    ASSUME ShardSize * Cardinality(Ranks) = VocabSize
    PROVE  /\ Ranks \in SUBSET Nat /\ IsFiniteSet(Ranks) /\ 0 \in Ranks
           /\ \A r \in Ranks : /\ ShardOf(r) \in SUBSET Vocab /\ ShardOf(r) # {}
                               /\ IsFiniteSet(ShardOf(r))
           /\ \A t \in Vocab : \E r \in Ranks : t \in ShardOf(r)
           /\ \A q, r \in Ranks : \A t \in ShardOf(q), u \in ShardOf(r) : q < r => t < u
<1> DEFINE n == Cardinality(Ranks)
           z == ShardSize
<1>1. /\ Ranks = 0 .. n - 1 /\ 0 \in Ranks /\ IsFiniteSet(Ranks)
      /\ VocabSize \in Nat \ {0} /\ n \in Nat
  BY FilterAssumption, WorkloadAssumption, FS_CardinalityType
<1>2. n >= 1
  BY <1>1
<1>3. z * n = VocabSize /\ z \in Int
  <2>1. VocabSize \in Int /\ n \in Int /\ n > 0
    BY <1>1, <1>2
  <2> HIDE DEF n
  <2>2. VocabSize \div n \in Int
    BY <2>1
  <2>3. QED
    BY <2>2 DEF ShardSize, n
<1> HIDE DEF n, z
<1>4. z \in Nat /\ VocabSize = n * z
  <2>3. VocabSize = n * z
    BY <1>1, <1>3
  <2>4. z >= 0
    <3>1. CASE z < 0
      <4>1. PICK d \in Nat : z = -d /\ d >= 1
        <5>1. 0 - z \in Nat /\ z = -(0 - z) /\ 0 - z >= 1
          BY <1>3, <3>1
        <5>2. QED
          BY <5>1
      <4>2. n * d \in Nat /\ n * z = -(n * d)
        BY <1>1, <4>1
      <4>3. QED
        BY <1>1, <2>3, <4>2
    <3>2. QED
      BY <1>3, <3>1
  <2>5. QED
    BY <1>3, <2>3, <2>4
<1>5. z >= 1
  <2>1. n * 0 = 0
    BY <1>1
  <2>2. QED
    BY <1>1, <1>4, <2>1
<1>6. \A a, b \in Nat : a <= b => a * z <= b * z /\ a * z \in Nat /\ b * z \in Nat
  <2>1. TAKE a \in Nat, b \in Nat
  <2>2. ASSUME a <= b PROVE a * z <= b * z /\ a * z \in Nat /\ b * z \in Nat
    <3>1. PICK d \in Nat : b = a + d
      <4>1. b - a \in Nat /\ b = a + (b - a)
        BY <2>2
      <4>2. QED
        BY <4>1
    <3>2. a * z \in Nat /\ d * z \in Nat /\ b * z = a * z + d * z
      BY <1>4, <3>1
    <3>3. QED
      BY <3>2
  <2>3. QED
    BY <2>2
<1>7. ASSUME NEW r \in Ranks
      PROVE  /\ r \in Nat /\ r + 1 <= n /\ r * z \in Nat
             /\ (r + 1) * z = r * z + z /\ (r + 1) * z <= n * z
  <2>1. r \in Nat /\ r + 1 <= n
    BY <1>1
  <2>2. QED
    BY <1>1, <1>4, <1>6, <2>1
<1>8. ASSUME NEW r \in Ranks
      PROVE  ShardOf(r) \in SUBSET Vocab /\ ShardOf(r) # {} /\ IsFiniteSet(ShardOf(r))
  <2>1. ShardOf(r) = r * z .. r * z + z - 1
    BY <1>4, <1>7 DEF ShardOf, z
  <2>2. r * z \in Nat /\ r * z + z <= VocabSize
    BY <1>4, <1>7
  <2>3. r * z \in ShardOf(r)
    BY <1>4, <1>5, <2>1, <2>2
  <2>4. ShardOf(r) \in SUBSET Vocab
    BY <1>1, <1>4, <2>1, <2>2 DEF Vocab
  <2>5. QED
    BY <2>3, <2>4, VocabFacts, FS_Subset
<1>9. ASSUME NEW t \in Vocab PROVE \E r \in Ranks : t \in ShardOf(r)
  <2> DEFINE T == {r \in Nat : t < (r + 1) * z}
  <2>1. t \in Nat /\ t < n * z
    BY <1>1, <1>4 DEF Vocab
  <2>2. n - 1 \in T
    <3>1. n - 1 \in Nat /\ (n - 1) + 1 = n
      BY <1>1, <1>2
    <3>2. QED
      BY <2>1, <3>1
  <2>3. PICK q \in T : \A r \in T : q <= r
    BY <2>2, LeastNumber
  <2>4. q \in Nat /\ t < (q + 1) * z /\ q <= n - 1
    BY <2>2, <2>3
  <2>5. q \in Ranks
    BY <1>1, <2>4
  <2>6. q * z <= t
    <3>1. CASE q = 0
      <4>1. q * z = 0
        BY <1>4, <3>1
      <4>2. QED
        BY <2>1, <4>1
    <3>2. CASE q >= 1
      <4>1. q - 1 \in Nat /\ (q - 1) + 1 = q /\ ~ (q <= q - 1)
        BY <2>4, <3>2
      <4>2. q - 1 \notin T
        BY <2>3, <4>1
      <4>3. ~ (t < q * z)
        BY <4>1, <4>2
      <4>4. q * z \in Nat
        BY <1>7, <2>5
      <4>5. QED
        BY <2>1, <4>3, <4>4
    <3>3. QED
      BY <2>4, <3>1, <3>2
  <2>7. q * z \in Nat /\ (q + 1) * z \in Nat
    BY <1>4, <1>7, <2>5
  <2>8. t \in q * z .. (q + 1) * z - 1
    BY <2>1, <2>4, <2>6, <2>7
  <2>9. QED
    BY <2>5, <2>8 DEF ShardOf, z
<1>10. ASSUME NEW q \in Ranks, NEW r \in Ranks, NEW t \in ShardOf(q), NEW u \in ShardOf(r), q < r
       PROVE  t < u
  <2>1. q \in Nat /\ r \in Nat /\ q + 1 <= r
    BY <1>7, <1>10
  <2>2. (q + 1) * z <= r * z /\ (q + 1) * z \in Nat /\ r * z \in Nat
    BY <1>6, <2>1
  <2>3. t \in q * z .. (q + 1) * z - 1 /\ u \in r * z .. (r + 1) * z - 1
    BY DEF ShardOf, z
  <2>4. q * z \in Nat /\ (r + 1) * z \in Nat
    BY <1>4, <1>7
  <2>5. QED
    BY <2>2, <2>3, <2>4
<1>11. Ranks \in SUBSET Nat
  BY <1>1
<1>12. QED
  BY <1>1, <1>8, <1>9, <1>10, <1>11

(* A shard's scores are a part of the whole.                                *)
LEMMA ShardScoresFacts ==
    ASSUME ShardSize * Cardinality(Ranks) = VocabSize, NEW w \in Weightings, NEW key, Noisy(key),
           NEW r \in Ranks
    PROVE  /\ ShardScores(r, key, w) \in [ShardOf(r) -> Nat]
           /\ \A t \in ShardOf(r) : ShardScores(r, key, w)[t] = Scores(key, w)[t]
           /\ Best(ShardScores(r, key, w), ArgMax(ShardScores(r, key, w)))
           /\ ArgMax(ShardScores(r, key, w)) \in ShardOf(r)
<1>1. ShardOf(r) \in SUBSET Vocab /\ ShardOf(r) # {} /\ IsFiniteSet(ShardOf(r))
  BY ShardFacts
<1>2. ShardScores(r, key, w) = [t \in ShardOf(r) |-> w[t] * Noise(key, t)]
  BY DEF ShardScores, ShardOf
<1>3. \A t \in Vocab : Scores(key, w)[t] = w[t] * Noise(key, t) /\ Scores(key, w)[t] \in Nat
  BY ScoreFacts
<1>4. /\ ShardScores(r, key, w) \in [ShardOf(r) -> Nat]
      /\ \A t \in ShardOf(r) : ShardScores(r, key, w)[t] = Scores(key, w)[t]
  BY <1>1, <1>2, <1>3
<1>5. ShardOf(r) \in SUBSET Nat
  BY <1>1, VocabFacts
<1>6. QED
  BY <1>1, <1>4, <1>5, ArgMaxFacts

(* The best of the shards' best tokens is the best token.                   *)
LEMMA ShardsReduce ==
    ASSUME ShardSize * Cardinality(Ranks) = VocabSize, NEW w \in Weightings, NEW key, Noisy(key),
           NEW f, f = [q \in Ranks |-> ShardScores(q, key, w)[ArgMax(ShardScores(q, key, w))]]
    PROVE  ArgMax(ShardScores(ArgMax(f), key, w)) = ArgMax(Scores(key, w))
<1> DEFINE s == Scores(key, w)
           best(q) == ArgMax(ShardScores(q, key, w))
           b == ArgMax(f)
           t == best(b)
<1>1. s \in [Vocab -> Nat]
  BY ScoreFacts
<1>2. ASSUME NEW q \in Ranks
      PROVE  /\ best(q) \in ShardOf(q) /\ best(q) \in Vocab /\ best(q) \in Nat
             /\ f[q] = s[best(q)] /\ f[q] \in Nat /\ q \in Nat
             /\ \A u \in ShardOf(q) : s[u] < s[best(q)] \/ (s[u] = s[best(q)] /\ best(q) <= u)
  <2>1. /\ ShardScores(q, key, w) \in [ShardOf(q) -> Nat]
        /\ \A u \in ShardOf(q) : ShardScores(q, key, w)[u] = s[u]
        /\ Best(ShardScores(q, key, w), best(q))
        /\ best(q) \in ShardOf(q)
    BY ShardScoresFacts
  <2>2. best(q) \in Vocab /\ best(q) \in Nat /\ q \in Nat
    BY <2>1, ShardFacts, VocabFacts
  <2>3. f[q] = ShardScores(q, key, w)[best(q)]
    OBVIOUS
  <2> HIDE DEF s, best
  <2>4. f[q] = s[best(q)] /\ f[q] \in Nat
    BY <1>1, <2>1, <2>2, <2>3
  <2>5. DOMAIN ShardScores(q, key, w) = ShardOf(q)
    BY <2>1
  <2>6. QED
    BY <2>1, <2>2, <2>4, <2>5 DEF Best
<1>3. f \in [Ranks -> Nat]
  BY <1>2
<1>4. Best(f, b) /\ b \in Ranks
  BY <1>3, ShardFacts, ArgMaxFacts
<1>5. ASSUME NEW u \in Vocab PROVE s[u] < s[t] \/ (s[u] = s[t] /\ t <= u)
  <2>1. PICK q \in Ranks : u \in ShardOf(q)
    BY ShardFacts
  <2>2. s[u] < s[best(q)] \/ (s[u] = s[best(q)] /\ best(q) <= u)
    BY <1>2, <2>1
  <2>3. f[q] < f[b] \/ (f[q] = f[b] /\ b <= q)
    BY <1>3, <1>4, <2>1 DEF Best
  <2>4. /\ f[q] = s[best(q)] /\ f[b] = s[t] /\ f[q] \in Nat /\ f[b] \in Nat
        /\ q \in Nat /\ b \in Nat /\ u \in Nat /\ t \in Nat /\ t \in ShardOf(b)
    BY <1>2, <1>4, VocabFacts
  <2>5. s[u] \in Nat /\ best(q) \in Nat
    BY <1>1, <1>2
  <2>6. CASE f[q] < f[b]
    <3> HIDE DEF s, best, b, t
    <3>1. QED
      BY <2>2, <2>4, <2>5, <2>6
  <2>7. CASE f[q] = f[b] /\ b < q
    <3>1. t < u
      BY <1>4, <2>1, <2>4, <2>7, ShardFacts
    <3> HIDE DEF s, best, b, t
    <3>2. QED
      BY <2>2, <2>4, <2>5, <2>7, <3>1
  <2>8. CASE q = b
    BY <2>2, <2>8
  <2> HIDE DEF s, best, b, t
  <2>9. QED
    BY <2>3, <2>4, <2>6, <2>7, <2>8
<1>6. t \in Vocab
  BY <1>2, <1>4
<1> HIDE DEF s, best, b, t
<1>7. Best(s, t)
  BY <1>1, <1>5, <1>6 DEF Best
<1>8. ArgMax(s) = t
  BY <1>1, <1>7, VocabFacts, ArgMaxIs
<1>9. QED
  BY <1>8 DEF s, best, b, t

-----------------------------------------------------------------------------
(* The tokens: the ranks' invariant.                                        *)

(* upstream's filter of row i, and the samplers that draw by position *)
Kept(i) == Upstream(Processed(i), Req(i).k, Req(i).p)
ByPosition == WorkerUnfiltered \/ WorkerGumbel \/ ~ AllRandom

(* what row i's token is drawn from, on every rank *)
WeightsNow(i) ==
    IF IF Legacy THEN Unfiltered ELSE WorkerUnfiltered THEN Raw(i)
    ELSE IF IF Legacy THEN SeededRows # {} ELSE ByPosition THEN Kept(i)
    ELSE IF SeededRows # {} THEN MinP(Upstream(Tempered(i), Req(i).k, Req(i).p), Req(i).minP)
    ELSE Native(Tempered(i), Req(i).k, Req(i).p, Req(i).minP, ~ NoMinP)

(* rank r's key of a row that draws from a generator, if the row has one *)
RowKey(r, i) ==
    IF Legacy /\ LegacyGumbel(r) /\ i \in SeededRows
    THEN Key("gumbel", gens[r][batch[i]].seed, gens[r][batch[i]].offset \div 4, 0)
    ELSE MultinomialKey(r, i, Rows \ SeededRows)

(* what rank r will draw with *)
KeysOf(r) ==
    IF IF Legacy THEN Unfiltered ELSE FALSE THEN PrivateKeys(r)
    ELSE IF IF Legacy THEN AllGreedy ELSE FALSE THEN <<>>
    ELSE IF IF Legacy THEN FALSE ELSE ByPosition THEN PositionKeys
    ELSE IF SeededRows = {} THEN NativeKeys(r)
    ELSE [i \in Rows |-> RowKey(r, i)]

(* the rows whose generators it advances, and what it makes of the others *)
AdvancedRows == IF IF Legacy THEN AllGreedy ELSE ByPosition THEN {} ELSE SeededRows
GensOf(r) ==
    [s \in Slots |-> IF \E i \in AdvancedRows : batch[i] = s
                     THEN [gens[r][s] EXCEPT !.offset = @ + 4] ELSE gens[r][s]]
PrivateOf(r) == private[r] + 4 * IF Legacy /\ Unfiltered THEN Size ELSE 0
GlobalOf(r) ==
    global[r] + IF IF Legacy THEN Unfiltered \/ AllGreedy ELSE ByPosition THEN 0
                ELSE IF SeededRows = {} THEN 1 ELSE Cardinality(Rows \ SeededRows)

(* what comes of the draw *)
OutOf(ks) ==
    [i \in Rows |-> IF Req(i).temp = Greedy THEN ArgMax(Raw(i))
                    ELSE ArgMax(Scores(ks[i], WeightsNow(i)))]
PairsOf(r, ks) ==
    [i \in Rows |->
        LET scores == ShardScores(r, ks[i], Raw(i))
        IN  [token |-> ArgMax(scores), value |-> scores[ArgMax(scores)]]]

HasKeys(r) == stage[r] \in {"pairs", "done"}

(* Ranks that have both drawn, or both not, have the same streams; and one  *)
(* that has not is where one that has was.                                  *)
InStreams ==
    \A q, r \in Ranks :
        /\ (HasKeys(q) <=> HasKeys(r)) =>
              gens[q] = gens[r] /\ private[q] = private[r] /\ global[q] = global[r]
        /\ HasKeys(q) /\ HasKeys(r) => keys[q] = keys[r]
        /\ HasKeys(q) /\ ~ HasKeys(r) =>
              /\ keys[q] = KeysOf(r) /\ gens[q] = GensOf(r)
              /\ private[q] = PrivateOf(r) /\ global[q] = GlobalOf(r)

(* What a rank has come to is what its keys say.                            *)
Outcome(r) ==
    /\ stage[r] \in {"logits", "pairs"} => Legacy
    /\ stage[r] \in {"logits", "pairs", "done"} /\ Legacy => (sharded[r] <=> ShardedBatch)
    /\ stage[r] = "pairs" => Unfiltered /\ ShardedBatch
    /\ HasKeys(r) /\ Legacy /\ ShardedBatch => pairs[r] = PairsOf(r, keys[r])
    /\ stage[r] = "done" => out[r] = OutOf(keys[r])
    /\ HasKeys(r) /\ keys[r] = <<>> => AllGreedy

TokenTyping ==
    /\ sharded = [r \in Ranks |-> sharded[r]]
    /\ pairs = [r \in Ranks |-> pairs[r]] /\ out = [r \in Ranks |-> out[r]]

TokenInv == TokenTyping /\ InStreams /\ \A r \in Ranks : Outcome(r)

(* Nothing of a batch but the ranks' progress changes in it.                *)
LEMMA BatchSame ==
    ASSUME UNCHANGED requestVars
    PROVE  /\ Rows' = Rows /\ Size' = Size /\ SeededRows' = SeededRows
           /\ (Legacy' <=> Legacy) /\ (Unfiltered' <=> Unfiltered) /\ (AllGreedy' <=> AllGreedy)
           /\ (ByPosition' <=> ByPosition) /\ (ShardedBatch' <=> ShardedBatch)
           /\ AdvancedRows' = AdvancedRows /\ PositionKeys' = PositionKeys
           /\ \A i : /\ Req(i)' = Req(i) /\ Raw(i)' = Raw(i) /\ WeightsNow(i)' = WeightsNow(i)
<1>1. UNCHANGED <<setup, slots, count, chunks, userSeed, slotSeed, batch>>
  BY DEF requestVars
<1>2. Rows' = Rows /\ Size' = Size /\ (Legacy' <=> Legacy) /\ (Family' <=> Family)
  BY <1>1 DEF Rows, Size, Legacy, Family
<1>3. \A i : Req(i)' = Req(i) /\ Raw(i)' = Raw(i)
  BY <1>1 DEF Req, Raw
<1>4. \A i : Tempered(i)' = Tempered(i)
  BY <1>3 DEF Tempered
<1>5. \A i : Processed(i)' = Processed(i) /\ Kept(i)' = Kept(i)
  BY <1>3, <1>4 DEF Processed, Kept
<1>6. /\ SeededRows' = SeededRows /\ (AllGreedy' <=> AllGreedy) /\ (AllRandom' <=> AllRandom)
      /\ (AllUnit' <=> AllUnit) /\ (NoTopK' <=> NoTopK) /\ (NoTopP' <=> NoTopP)
      /\ (NoMinP' <=> NoMinP) /\ (UniformK' <=> UniformK)
      /\ (AnyUserSeed' <=> AnyUserSeed) /\ (AllUserSeeds' <=> AllUserSeeds)
  BY <1>1, <1>2, <1>3 DEF SeededRows, AllGreedy, AllRandom, AllUnit, NoTopK, NoTopP, NoMinP,
     UniformK, AnyUserSeed, AllUserSeeds
<1>7. UnfilteredMetadata' <=> UnfilteredMetadata
  BY <1>2, <1>6 DEF UnfilteredMetadata
<1>8. (Unfiltered' <=> Unfiltered) /\ (ShardedBatch' <=> ShardedBatch)
  BY <1>1, <1>2, <1>7 DEF Unfiltered, SamplerVocab, ShardedBatch
<1>9. (WorkerUnfiltered' <=> WorkerUnfiltered) /\ (WorkerGumbel' <=> WorkerGumbel)
  BY <1>2, <1>3, <1>6 DEF WorkerUnfiltered, WorkerGumbel
<1>10. ByPosition' <=> ByPosition
  BY <1>6, <1>9 DEF ByPosition
<1>11. AdvancedRows' = AdvancedRows
  BY <1>2, <1>6, <1>10 DEF AdvancedRows
<1>12. PositionKeys' = PositionKeys
  BY <1>1, <1>2 DEF PositionKeys
<1>13. \A i : WeightsNow(i)' = WeightsNow(i)
  BY <1>2, <1>3, <1>4, <1>5, <1>6, <1>8, <1>9, <1>10 DEF WeightsNow
<1>14. QED
  BY <1>2, <1>3, <1>6, <1>8, <1>10, <1>11, <1>12, <1>13

(* The keys come from the batch and the rank's own streams.                 *)
LEMMA KeysSame ==
    ASSUME UNCHANGED requestVars, NEW q \in Ranks, NEW r \in Ranks,
           gens'[q] = gens[r], private'[q] = private[r], global'[q] = global[r]
    PROVE  /\ KeysOf(q)' = KeysOf(r) /\ GensOf(q)' = GensOf(r)
           /\ PrivateOf(q)' = PrivateOf(r) /\ GlobalOf(q)' = GlobalOf(r)
<1>1. /\ Rows' = Rows /\ Size' = Size /\ SeededRows' = SeededRows /\ batch' = batch
      /\ (Legacy' <=> Legacy) /\ (Unfiltered' <=> Unfiltered) /\ (AllGreedy' <=> AllGreedy)
      /\ (ByPosition' <=> ByPosition)
      /\ AdvancedRows' = AdvancedRows /\ PositionKeys' = PositionKeys
      /\ \A i : Req(i)' = Req(i)
  BY BatchSame DEF requestVars
<1>2. setup' = setup
  BY DEF requestVars
<1>3. LegacyGumbel(q)' <=> LegacyGumbel(r)
  <2>1. (AllRandom' <=> AllRandom) /\ (NoTopP' <=> NoTopP) /\ (NoTopK' <=> NoTopK)
    BY <1>1 DEF AllRandom, NoTopP, NoTopK
  <2>2. LegacyGumbelVocab' <=> LegacyGumbelVocab
    BY <1>2 DEF LegacyGumbelVocab
  <2>3. QED
    BY <1>1, <2>1, <2>2 DEF LegacyGumbel
<1>4. \A i : MultinomialKey(q, i, Rows \ SeededRows)' = MultinomialKey(r, i, Rows \ SeededRows)
  BY <1>1 DEF MultinomialKey, RowsBelow
<1>5. \A i : RowKey(q, i)' = RowKey(r, i)
  BY <1>1, <1>3, <1>4 DEF RowKey
<1>6. PrivateKeys(q)' = PrivateKeys(r) /\ NativeKeys(q)' = NativeKeys(r)
  BY <1>1 DEF PrivateKeys, NativeKeys
<1>7. KeysOf(q)' = KeysOf(r)
  <2>1. [i \in Rows |-> RowKey(q, i)]' = [i \in Rows |-> RowKey(r, i)]
    BY <1>1, <1>5
  <2>2. QED
    BY <1>1, <1>6, <2>1 DEF KeysOf
<1>8. GensOf(q)' = GensOf(r)
  BY <1>1 DEF GensOf
<1>9. PrivateOf(q)' = PrivateOf(r) /\ GlobalOf(q)' = GlobalOf(r)
  BY <1>1 DEF PrivateOf, GlobalOf
<1>10. QED
  BY <1>7, <1>8, <1>9

(* A logit's exponential is not negative, and not all are masked; noise is  *)
(* positive.                                                                *)
LogitsAndNoise ==
    /\ \A id, n \in Nat : /\ \A t \in Vocab : Weight(id, n, t) \in Nat
                          /\ \E t \in Vocab : Weight(id, n, t) > 0
    /\ \A key \in Keys : Noisy(key)

(* A row's weights and parameters are what the filters expect.              *)
LEMMA RowWeights ==
    ASSUME LogitsAndNoise, IInv, NoiseInv, batch # <<>>, NEW i \in Rows
    PROVE  /\ Fitting(Tempered(i), Req(i).k, Req(i).p, Req(i).minP)
           /\ Raw(i) \in Weightings /\ Tempered(i) \in Weightings /\ Processed(i) \in Weightings
           /\ Req(i).k \in Nat
<1>1. /\ Req(i) \in Requests /\ Req(i).id \in Nat
      /\ Req(i).k \in 1 .. VocabSize /\ Req(i).p \in 1 .. 10 /\ Req(i).minP \in 0 .. 10
  BY RowStreams, FilterAssumption
<1>2. count[batch[i]] \in Nat
  <2>1. batch[i] \in Slots
    BY RowFacts
  <2>2. QED
    BY <2>1 DEF NoiseInv, NoiseTyping
<1> DEFINE R == Raw(i)
           T == Tempered(i)
<1>3. /\ R = [t \in Vocab |-> Weight(Req(i).id, count[batch[i]], t)]
      /\ T = R \/ T = [t \in Vocab |-> R[t] * R[t]]
  BY DEF Raw, Tempered
<1> HIDE DEF R, T
<1>4. R \in Weightings /\ Positive(R)
  BY <1>1, <1>2, <1>3 DEF LogitsAndNoise, Weightings, Positive
<1>5. T \in Weightings /\ Positive(T)
  <2>1. CASE T = R
    BY <1>4, <2>1
  <2>2. CASE T = [t \in Vocab |-> R[t] * R[t]]
    <3>1. \A x \in Nat : x * x \in Nat /\ (x > 0 => x * x > 0)
      OBVIOUS
    <3>2. \A t \in Vocab : R[t] \in Nat
      BY <1>4 DEF Weightings
    <3>3. \A t \in Vocab : T[t] \in Nat /\ (R[t] > 0 => T[t] > 0)
      BY <2>2, <3>1, <3>2
    <3>4. QED
      BY <1>4, <2>2, <3>3 DEF Weightings, Positive
  <2>3. QED
    BY <1>3, <2>1, <2>2
<1>6. Processed(i) \in Weightings
  BY <1>5 DEF Processed, MinP, KeepOnly, Weightings, T
<1>7. Fitting(T, Req(i).k, Req(i).p, Req(i).minP)
  BY <1>1, <1>5 DEF Fitting
<1>8. Req(i).k \in Nat
  BY <1>1, VocabFacts
<1>9. QED
  BY <1>4, <1>5, <1>6, <1>7, <1>8 DEF R, T

(* What every row's weights are filtered to by top-k and top-p.             *)
LEMMA FilteredRows ==
    ASSUME LogitsAndNoise, IInv, NoiseInv, batch # <<>>,
           NEW ws, DOMAIN ws = Rows, \A i \in Rows : ws[i] \in Weightings,
           NEW hinted \in BOOLEAN, hinted => UniformK
    PROVE  \A i \in Rows : Filtered(ws, hinted, Ks, Ps)[i] = Upstream(ws[i], Req(i).k, Req(i).p)
<1>1. /\ DOMAIN Ks = Rows /\ DOMAIN Ps = Rows
      /\ \A i \in Rows : Ks[i] = Req(i).k /\ Ps[i] = Req(i).p
  BY DEF Ks, Ps
<1>2. \A j \in Rows : ws[j] \in Weightings /\ Ks[j] \in Nat
  BY <1>1, RowWeights
<1>3. hinted => \A j \in DOMAIN Ks : Ks[j] = HintK
  BY <1>1 DEF UniformK
<1>4. TAKE i \in Rows
<1>5. Filtered(ws, hinted, Ks, Ps)[i] = Upstream(ws[i], Ks[i], Ps[i])
  BY <1>1, <1>2, <1>3, FilteredRow
<1>6. QED
  BY <1>1, <1>5

(* A token of a greedy row is the best one whatever the weights.            *)
LEMMA FinishFacts ==
    ASSUME NEW r \in Ranks, NEW ks, NEW ws, Finish(r, ks, ws), ks = KeysOf(r),
           \A i \in Rows : Req(i).temp # Greedy => ws[i] = WeightsNow(i)
    PROVE  /\ stage' = [stage EXCEPT ![r] = "done"] /\ keys' = [keys EXCEPT ![r] = KeysOf(r)]
           /\ out' = [out EXCEPT ![r] = OutOf(KeysOf(r))]
           /\ UNCHANGED <<requestVars, sharded, pairs>>
<1>1. [i \in Rows |-> IF Req(i).temp = Greedy THEN ArgMax(Raw(i)) ELSE ArgMax(Scores(ks[i], ws[i]))]
        = OutOf(KeysOf(r))
  BY DEF OutOf
<1>2. QED
  BY <1>1 DEF Finish

(* a rank has drawn *)
Sampled(r) ==
    /\ stage[r] = IF Legacy THEN "logits" ELSE "begun"
    /\ UNCHANGED <<requestVars, sharded>>
    /\ keys' = [keys EXCEPT ![r] = KeysOf(r)] /\ gens' = [gens EXCEPT ![r] = GensOf(r)]
    /\ private' = [private EXCEPT ![r] = PrivateOf(r)]
    /\ global' = [global EXCEPT ![r] = GlobalOf(r)]
    /\ \/ /\ stage' = [stage EXCEPT ![r] = "done"] /\ out' = [out EXCEPT ![r] = OutOf(KeysOf(r))]
          /\ UNCHANGED pairs /\ ~ (Legacy /\ ShardedBatch)
       \/ /\ stage' = [stage EXCEPT ![r] = "pairs"] /\ UNCHANGED out
          /\ pairs' = [pairs EXCEPT ![r] = PairsOf(r, KeysOf(r))]
          /\ Legacy /\ Unfiltered /\ ShardedBatch

(* Streams a sampler leaves alone.                                          *)
LEMMA StreamsStay ==
    ASSUME NoiseInv, NEW r \in Ranks
    PROVE  /\ AdvancedRows = {} => gens = [gens EXCEPT ![r] = GensOf(r)]
           /\ ~ (Legacy /\ Unfiltered) => private = [private EXCEPT ![r] = PrivateOf(r)]
           /\ (IF Legacy THEN Unfiltered \/ AllGreedy ELSE ByPosition)
                 => global = [global EXCEPT ![r] = GlobalOf(r)]
<1>1. AdvancedRows = {} => gens = [gens EXCEPT ![r] = GensOf(r)]
  BY NoAdvance DEF GensOf
<1>2. private \in [Ranks -> Nat] /\ global \in [Ranks -> Nat]
  BY DEF NoiseInv, NoiseTyping
<1>3. ASSUME ~ (Legacy /\ Unfiltered) PROVE private = [private EXCEPT ![r] = PrivateOf(r)]
  <2>1. PrivateOf(r) = private[r] + 4 * 0
    BY <1>3 DEF PrivateOf
  <2>2. QED
    BY <1>2, <2>1
<1>4. ASSUME IF Legacy THEN Unfiltered \/ AllGreedy ELSE ByPosition
      PROVE  global = [global EXCEPT ![r] = GlobalOf(r)]
  <2>1. GlobalOf(r) = global[r] + 0
    BY <1>4 DEF GlobalOf
  <2>2. QED
    BY <1>2, <2>1
<1>5. QED
  BY <1>1, <1>3, <1>4

(* The unfiltered samplers, on a shard or all of the vocabulary.            *)
LEMMA UnfilteredSampled ==
    ASSUME IInv, NoiseInv, NEW r \in Ranks, Outcome(r), SampleUnfiltered(r) \/ SampleShard(r)
    PROVE  Sampled(r)
<1>1. stage[r] = "logits" /\ Unfiltered
  BY DEF SampleUnfiltered, SampleShard
<1>2. Legacy /\ SeededRows = {} /\ (sharded[r] <=> ShardedBatch)
  BY <1>1 DEF Unfiltered, UnfilteredMetadata, Outcome
<1>3. KeysOf(r) = PrivateKeys(r) /\ \A i : WeightsNow(i) = Raw(i)
  BY <1>1, <1>2 DEF KeysOf, WeightsNow
<1>4. AdvancedRows = {} /\ PrivateOf(r) = private[r] + 4 * Size
  BY <1>1, <1>2 DEF AdvancedRows, PrivateOf
<1>5. /\ private' = [private EXCEPT ![r] = PrivateOf(r)]
      /\ gens' = [gens EXCEPT ![r] = GensOf(r)] /\ global' = [global EXCEPT ![r] = GlobalOf(r)]
  <2>1. private' = [private EXCEPT ![r] = @ + 4 * Size] /\ gens' = gens /\ global' = global
    BY DEF SampleUnfiltered, SampleShard, AdvancePrivate
  <2>2. QED
    BY <1>1, <1>2, <1>4, <2>1, StreamsStay
<1>6. CASE SampleUnfiltered(r)
  <2> DEFINE ws == [i \in Rows |-> Raw(i)]
  <2>1. Finish(r, KeysOf(r), ws)
    BY <1>3, <1>6 DEF SampleUnfiltered
  <2>2. \A i \in Rows : ws[i] = WeightsNow(i)
    BY <1>3
  <2> HIDE DEF ws
  <2>3. /\ stage' = [stage EXCEPT ![r] = "done"] /\ keys' = [keys EXCEPT ![r] = KeysOf(r)]
        /\ out' = [out EXCEPT ![r] = OutOf(KeysOf(r))]
        /\ UNCHANGED <<requestVars, sharded, pairs>>
    BY <2>1, <2>2, FinishFacts
  <2>4. ~ ShardedBatch
    BY <1>2, <1>6 DEF SampleUnfiltered
  <2>5. ~ (Legacy /\ ShardedBatch) /\ stage[r] = IF Legacy THEN "logits" ELSE "begun"
    BY <1>1, <1>2, <2>4
  <2>6. QED
    BY <1>5, <2>3, <2>5 DEF Sampled
<1>7. CASE SampleShard(r)
  <2>1. /\ stage' = [stage EXCEPT ![r] = "pairs"] /\ keys' = [keys EXCEPT ![r] = KeysOf(r)]
        /\ pairs' = [pairs EXCEPT ![r] = PairsOf(r, KeysOf(r))]
        /\ UNCHANGED <<requestVars, sharded, out>> /\ ShardedBatch
    BY <1>2, <1>3, <1>7 DEF SampleShard, PairsOf
  <2>2. QED
    BY <1>1, <1>2, <1>5, <2>1 DEF Sampled
<1>8. QED
  BY <1>6, <1>7

(* Greedy rows alone.                                                       *)
LEMMA GreedySampled ==
    ASSUME IInv, NoiseInv, NEW r \in Ranks, SampleGreedy(r)
    PROVE  Sampled(r)
<1>1. stage[r] = "logits" /\ Legacy /\ ~ Unfiltered /\ AllGreedy
  BY DEF SampleGreedy, LegacySampling
<1>2. KeysOf(r) = <<>> /\ AdvancedRows = {}
  BY <1>1 DEF KeysOf, AdvancedRows
<1> DEFINE ws == [i \in Rows |-> Raw(i)]
<1>3. Finish(r, KeysOf(r), ws)
  BY <1>2 DEF SampleGreedy
<1>4. \A i \in Rows : Req(i).temp # Greedy => ws[i] = WeightsNow(i)
  BY <1>1 DEF AllGreedy
<1> HIDE DEF ws
<1>5. /\ stage' = [stage EXCEPT ![r] = "done"] /\ keys' = [keys EXCEPT ![r] = KeysOf(r)]
      /\ out' = [out EXCEPT ![r] = OutOf(KeysOf(r))]
      /\ UNCHANGED <<requestVars, sharded, pairs>>
  BY <1>3, <1>4, FinishFacts
<1>6. UNCHANGED <<gens, private, global>>
  BY DEF SampleGreedy
<1>7. /\ private' = [private EXCEPT ![r] = PrivateOf(r)]
      /\ gens' = [gens EXCEPT ![r] = GensOf(r)] /\ global' = [global EXCEPT ![r] = GlobalOf(r)]
  BY <1>1, <1>2, <1>6, StreamsStay
<1>8. ~ ShardedBatch
  BY <1>1 DEF ShardedBatch, Unfiltered, UnfilteredMetadata, SamplerVocab, Family
<1>9. QED
  BY <1>1, <1>5, <1>7, <1>8 DEF Sampled

(* Only an unfiltered batch is sharded.                                     *)
LEMMA ShardedUnfiltered == Legacy /\ ShardedBatch => Unfiltered
BY DEF ShardedBatch, Unfiltered, UnfilteredMetadata, SamplerVocab, Family

(* The seeded samplers: from generators, one draw after the other.          *)
LEMMA SeededSampled ==
    ASSUME LogitsAndNoise, IInv, NoiseInv, NEW r \in Ranks,
           SampleLegacyGumbel(r) \/ SampleSeeded(r) \/ SampleWorkerSeeded(r)
    PROVE  Sampled(r)
<1> DEFINE U == Rows \ SeededRows
           ks == [i \in Rows |-> RowKey(r, i)]
<1>1. stage[r] = IF Legacy THEN "logits" ELSE "begun"
  BY DEF SampleLegacyGumbel, SampleSeeded, SampleWorkerSeeded, LegacySampling, WorkerSampling
<1>2. batch # <<>>
  BY <1>1, InStep
<1>3. {i \in Rows : gens[r][batch[i]] = None} = U /\ Rows \ U = SeededRows
  <2>1. \A i \in Rows : gens[r][batch[i]] = None <=> Req(i).seed = NoSeed
    BY <1>2, RowStreams
  <2>2. QED
    BY <2>1 DEF SeededRows
<1>4. SeededRows # {}
  <2>1. CASE SampleLegacyGumbel(r) \/ SampleSeeded(r)
    BY <2>1 DEF SampleLegacyGumbel, SampleSeeded, LegacyGumbel
  <2>2. CASE SampleWorkerSeeded(r)
    <3>1. PICK i \in Rows : userSeed[batch[i]]
      BY <2>2 DEF SampleWorkerSeeded, AnyUserSeed
    <3>2. Req(i).seed # NoSeed
      BY <1>2, <3>1, RowStreams
    <3>3. QED
      BY <3>2 DEF SeededRows
  <2>3. QED
    BY <2>1, <2>2
<1>5. IF Legacy THEN ~ Unfiltered /\ ~ AllGreedy ELSE ~ ByPosition
  BY DEF SampleLegacyGumbel, SampleSeeded, SampleWorkerSeeded, LegacySampling, WorkerSampling,
     ByPosition, WorkerUnfiltered
<1>6. KeysOf(r) = ks /\ AdvancedRows = SeededRows
  BY <1>4, <1>5 DEF KeysOf, AdvancedRows
<1>7. \A i : WeightsNow(i) = IF Legacy THEN Kept(i)
                             ELSE MinP(Upstream(Tempered(i), Req(i).k, Req(i).p), Req(i).minP)
  <2>1. ~ Legacy => ~ WorkerUnfiltered
    BY <1>5 DEF ByPosition
  <2>2. QED
    BY <1>4, <1>5, <2>1 DEF WeightsNow
<1>8. \E ws : /\ Finish(r, ks, ws)
              /\ \A i \in Rows : ws[i] = WeightsNow(i)
  <2>1. CASE SampleLegacyGumbel(r) \/ SampleSeeded(r)
    <3> DEFINE ps == [i \in Rows |-> Processed(i)]
    <3>1. DOMAIN ps = Rows /\ \A i \in Rows : ps[i] \in Weightings /\ ps[i] = Processed(i)
      BY <1>2, RowWeights
    <3>2. Legacy
      BY <2>1 DEF SampleLegacyGumbel, SampleSeeded, LegacySampling
    <3>3. PICK hinted \in BOOLEAN : Finish(r, ks, Filtered(ps, hinted, Ks, Ps)) /\ (hinted => UniformK)
      <4>1. CASE SampleLegacyGumbel(r)
        <5>1. LegacyGumbel(r)
          BY <4>1 DEF SampleLegacyGumbel
        <5>2. ks = [i \in Rows |->
                      IF i \in SeededRows
                      THEN Key("gumbel", gens[r][batch[i]].seed, gens[r][batch[i]].offset \div 4, 0)
                      ELSE MultinomialKey(r, i, Rows \ SeededRows)]
          BY <3>2, <5>1 DEF RowKey
        <5> HIDE DEF ks
        <5>3. Finish(r, ks, Filtered(ps, UniformK, Ks, Ps))
          BY <4>1, <5>2 DEF SampleLegacyGumbel
        <5>4. UniformK \in BOOLEAN
          BY DEF UniformK
        <5>5. QED
          BY <5>3, <5>4
      <4>2. CASE SampleSeeded(r)
        <5>1. ks = [i \in Rows |-> MultinomialKey(r, i, Rows \ SeededRows)]
          BY <4>2 DEF SampleSeeded, RowKey
        <5> HIDE DEF ks
        <5>2. Finish(r, ks, Filtered(ps, FALSE, Ks, Ps))
          BY <4>2, <5>1 DEF SampleSeeded
        <5>3. QED
          BY <5>2
      <4>3. QED
        BY <2>1, <4>1, <4>2
    <3> HIDE DEF ps, ks
    <3>4. \A i \in Rows : Filtered(ps, hinted, Ks, Ps)[i] = Upstream(ps[i], Req(i).k, Req(i).p)
      BY <1>2, <3>1, <3>3, FilteredRows
    <3>5. \A i \in Rows : Filtered(ps, hinted, Ks, Ps)[i] = WeightsNow(i)
      BY <1>7, <3>1, <3>2, <3>4 DEF Kept
    <3>6. QED
      BY <3>3, <3>5
  <2>2. CASE SampleWorkerSeeded(r)
    <3> DEFINE ts == [i \in Rows |-> Tempered(i)]
               fs == Filtered(ts, WorkerHinted, Ks, Ps)
               ws == [i \in Rows |-> MinP(fs[i], Req(i).minP)]
    <3>1. DOMAIN ts = Rows /\ \A i \in Rows : ts[i] \in Weightings /\ ts[i] = Tempered(i)
      BY <1>2, RowWeights
    <3>2. ~ Legacy
      BY <2>2 DEF SampleWorkerSeeded, WorkerSampling
    <3>3. ks = [i \in Rows |-> MultinomialKey(r, i, U)]
      BY <3>2 DEF RowKey
    <3> HIDE DEF ks, U
    <3>4. Finish(r, ks, ws)
      BY <1>3, <2>2, <3>3 DEF SampleWorkerSeeded
    <3>5. WorkerHinted \in BOOLEAN /\ (WorkerHinted => UniformK)
      BY DEF WorkerHinted
    <3>6. \A i \in Rows : ws[i] = MinP(fs[i], Req(i).minP)
      OBVIOUS
    <3> HIDE DEF ts, ws
    <3>7. \A i \in Rows : fs[i] = Upstream(ts[i], Req(i).k, Req(i).p)
      BY <1>2, <3>1, <3>5, FilteredRows
    <3>8. \A i \in Rows : ws[i] = WeightsNow(i)
      BY <1>7, <3>1, <3>2, <3>6, <3>7
    <3>9. QED
      BY <3>4, <3>8
  <2>3. QED
    BY <2>1, <2>2
<1>9. /\ AdvanceRows(r, SeededRows) /\ AdvanceGlobal(r, Cardinality(U)) /\ UNCHANGED private
  BY <1>3 DEF SampleLegacyGumbel, SampleSeeded, SampleWorkerSeeded
<1> HIDE DEF ks
<1>10. /\ stage' = [stage EXCEPT ![r] = "done"] /\ keys' = [keys EXCEPT ![r] = KeysOf(r)]
       /\ out' = [out EXCEPT ![r] = OutOf(KeysOf(r))]
       /\ UNCHANGED <<requestVars, sharded, pairs>>
  <2>1. PICK ws : Finish(r, KeysOf(r), ws) /\ \A i \in Rows : ws[i] = WeightsNow(i)
    BY <1>6, <1>8
  <2>2. QED
    BY <2>1, FinishFacts
<1>11. gens' = [gens EXCEPT ![r] = GensOf(r)]
  BY <1>6, <1>9 DEF AdvanceRows, GensOf
<1>12. global' = [global EXCEPT ![r] = GlobalOf(r)]
  <2>1. GlobalOf(r) = global[r] + Cardinality(U)
    BY <1>4, <1>5 DEF GlobalOf
  <2>2. QED
    BY <1>9, <2>1 DEF AdvanceGlobal
<1>13. private' = [private EXCEPT ![r] = PrivateOf(r)]
  BY <1>5, <1>9, StreamsStay
<1>14. ~ (Legacy /\ ShardedBatch)
  BY <1>5, ShardedUnfiltered
<1>15. QED
  BY <1>1, <1>10, <1>11, <1>12, <1>13, <1>14 DEF Sampled

(* The native samplers: a position for all rows.                            *)
LEMMA NativeSampled ==
    ASSUME IInv, NoiseInv, NEW r \in Ranks, SampleNative(r) \/ SampleWorkerNative(r)
    PROVE  Sampled(r)
<1>1. stage[r] = IF Legacy THEN "logits" ELSE "begun"
  BY DEF SampleNative, SampleWorkerNative, LegacySampling, WorkerSampling
<1>2. batch # <<>> /\ Size \in Nat \ {0} /\ Rows = 1 .. Size
  BY <1>1, InStep
<1>3. SeededRows = {}
  <2>1. CASE SampleNative(r)
    BY <2>1 DEF SampleNative
  <2>2. CASE SampleWorkerNative(r)
    <3>1. \A i \in Rows : Req(i).seed = NoSeed
      BY <1>2, <2>2, RowStreams DEF SampleWorkerNative, AnyUserSeed
    <3>2. QED
      BY <3>1 DEF SeededRows
  <2>3. QED
    BY <2>1, <2>2
<1>4. IF Legacy THEN ~ Unfiltered /\ ~ AllGreedy ELSE ~ ByPosition
  <2>1. CASE SampleNative(r)
    BY <2>1 DEF SampleNative, LegacySampling
  <2>2. CASE SampleWorkerNative(r)
    <3>1. 1 \in Rows
      BY <1>2
    <3>2. ~ WorkerGumbel
      BY <2>2, <3>1 DEF SampleWorkerNative, WorkerGumbel, AllUserSeeds, AnyUserSeed
    <3>3. QED
      BY <2>2, <3>2 DEF SampleWorkerNative, WorkerSampling, ByPosition
  <2>3. QED
    BY <2>1, <2>2
<1>5. KeysOf(r) = NativeKeys(r) /\ AdvancedRows = {}
  BY <1>3, <1>4 DEF KeysOf, AdvancedRows
<1>6. \A i : WeightsNow(i) = Native(Tempered(i), Req(i).k, Req(i).p, Req(i).minP, ~ NoMinP)
  <2>1. ~ Legacy => ~ WorkerUnfiltered
    BY <1>4 DEF ByPosition
  <2>2. QED
    BY <1>3, <1>4, <2>1 DEF WeightsNow
<1>7. PICK hinted \in BOOLEAN : Finish(r, KeysOf(r), NativeWeights(hinted)) /\ (hinted => UniformK)
  <2>1. CASE SampleNative(r)
    <3>1. Finish(r, KeysOf(r), NativeWeights(Family /\ UniformK))
      BY <1>5, <2>1 DEF SampleNative
    <3>2. QED
      BY <3>1
  <2>2. CASE SampleWorkerNative(r)
    <3>1. Finish(r, KeysOf(r), NativeWeights(WorkerHinted))
      BY <1>5, <2>2 DEF SampleWorkerNative
    <3>2. WorkerHinted \in BOOLEAN /\ (WorkerHinted => UniformK)
      BY DEF WorkerHinted
    <3>3. QED
      BY <3>1, <3>2
  <2>3. QED
    BY <2>1, <2>2
<1>8. \A i \in Rows : NativeWeights(hinted)[i] = WeightsNow(i)
  <2>1. TAKE i \in Rows
  <2>2. NativeWeights(hinted)[i]
          = Native(Tempered(i), IF hinted THEN HintK ELSE Req(i).k, Req(i).p, Req(i).minP, ~ NoMinP)
    BY DEF NativeWeights
  <2>3. (IF hinted THEN HintK ELSE Req(i).k) = Req(i).k
    BY <1>7 DEF UniformK
  <2>4. QED
    BY <1>6, <2>2, <2>3
<1>9. /\ stage' = [stage EXCEPT ![r] = "done"] /\ keys' = [keys EXCEPT ![r] = KeysOf(r)]
      /\ out' = [out EXCEPT ![r] = OutOf(KeysOf(r))]
      /\ UNCHANGED <<requestVars, sharded, pairs>>
  BY <1>7, <1>8, FinishFacts
<1>10. AdvanceGlobal(r, 1) /\ UNCHANGED <<gens, private>>
  BY DEF SampleNative, SampleWorkerNative
<1>11. gens' = [gens EXCEPT ![r] = GensOf(r)] /\ private' = [private EXCEPT ![r] = PrivateOf(r)]
  BY <1>4, <1>5, <1>10, StreamsStay
<1>12. global' = [global EXCEPT ![r] = GlobalOf(r)]
  <2>1. GlobalOf(r) = global[r] + 1
    BY <1>3, <1>4 DEF GlobalOf
  <2>2. QED
    BY <1>10, <2>1 DEF AdvanceGlobal
<1>13. ~ (Legacy /\ ShardedBatch)
  BY <1>4, ShardedUnfiltered
<1>14. QED
  BY <1>1, <1>9, <1>11, <1>12, <1>13 DEF Sampled

(* V2's samplers that draw by seed and position.                            *)
LEMMA PositionSampled ==
    ASSUME LogitsAndNoise, IInv, NoiseInv, NEW r \in Ranks, SampleByPosition(r)
    PROVE  Sampled(r)
<1>1. stage[r] = "begun" /\ ~ Legacy /\ ByPosition
  BY DEF SampleByPosition, WorkerSampling, ByPosition
<1>2. batch # <<>>
  BY <1>1, InStep
<1>3. KeysOf(r) = PositionKeys /\ AdvancedRows = {}
  BY <1>1 DEF KeysOf, AdvancedRows
<1>4. \A i : WeightsNow(i) = IF WorkerUnfiltered THEN Raw(i) ELSE Kept(i)
  BY <1>1 DEF WeightsNow
<1> DEFINE ps == [i \in Rows |-> Processed(i)]
           fs == Filtered(ps, WorkerGumbel, Ks, Ps)
           ws == IF WorkerUnfiltered THEN [i \in Rows |-> Raw(i)] ELSE fs
<1>5. DOMAIN ps = Rows /\ \A i \in Rows : ps[i] \in Weightings /\ ps[i] = Processed(i)
  BY <1>2, RowWeights
<1>6. Finish(r, KeysOf(r), ws) /\ UNCHANGED <<gens, private, global>>
  BY <1>3 DEF SampleByPosition
<1>7. WorkerGumbel \in BOOLEAN /\ (WorkerGumbel => UniformK)
  BY DEF WorkerGumbel
<1> HIDE DEF ps
<1>8. \A i \in Rows : fs[i] = Upstream(ps[i], Req(i).k, Req(i).p)
  BY <1>2, <1>5, <1>7, FilteredRows
<1> HIDE DEF fs
<1>9. \A i \in Rows : ws[i] = WeightsNow(i)
  BY <1>4, <1>5, <1>8 DEF Kept
<1> HIDE DEF ws
<1>10. /\ stage' = [stage EXCEPT ![r] = "done"] /\ keys' = [keys EXCEPT ![r] = KeysOf(r)]
       /\ out' = [out EXCEPT ![r] = OutOf(KeysOf(r))]
       /\ UNCHANGED <<requestVars, sharded, pairs>>
  BY <1>6, <1>9, FinishFacts
<1>11. /\ private' = [private EXCEPT ![r] = PrivateOf(r)]
       /\ gens' = [gens EXCEPT ![r] = GensOf(r)] /\ global' = [global EXCEPT ![r] = GlobalOf(r)]
  BY <1>1, <1>3, <1>6, StreamsStay
<1>12. QED
  BY <1>1, <1>10, <1>11 DEF Sampled

(* Whatever a sampler's keys are, there is one per row if any row draws.    *)
LEMMA KeysOfRows ==
    ASSUME IInv, NEW r \in Ranks, stage[r] # "idle", KeysOf(r) = <<>>
    PROVE  AllGreedy
<1>1. Size \in Nat \ {0} /\ Rows = 1 .. Size
  BY InStep
<1>2. 1 \in Rows
  BY <1>1
<1>3. CASE Legacy /\ ~ Unfiltered /\ AllGreedy
  BY <1>3
<1>4. CASE ~ (Legacy /\ ~ Unfiltered /\ AllGreedy)
  <2>1. DOMAIN KeysOf(r) = Rows
    BY <1>4 DEF KeysOf, PrivateKeys, PositionKeys, NativeKeys
  <2>2. DOMAIN <<>> = {}
    OBVIOUS
  <2>3. QED
    BY <1>2, <2>1, <2>2
<1>5. QED
  BY <1>3, <1>4

(* A step that draws nothing leaves the streams where they are.             *)
LEMMA StreamsSame ==
    ASSUME InStreams, UNCHANGED <<requestVars, gens, private, global, keys>>,
           \A q \in Ranks : HasKeys(q)' <=> HasKeys(q)
    PROVE  InStreams'
<1>1. \A q, r \in Ranks :
          (HasKeys(q)' <=> HasKeys(r)') =>
              gens'[q] = gens'[r] /\ private'[q] = private'[r] /\ global'[q] = global'[r]
  BY DEF InStreams
<1>2. \A q, r \in Ranks : HasKeys(q)' /\ HasKeys(r)' => keys'[q] = keys'[r]
  BY DEF InStreams
<1>3. ASSUME NEW q \in Ranks, NEW r \in Ranks, HasKeys(q)', ~ HasKeys(r)'
      PROVE  /\ keys'[q] = KeysOf(r)' /\ gens'[q] = GensOf(r)'
             /\ private'[q] = PrivateOf(r)' /\ global'[q] = GlobalOf(r)'
  <2>1. /\ KeysOf(r)' = KeysOf(r) /\ GensOf(r)' = GensOf(r)
        /\ PrivateOf(r)' = PrivateOf(r) /\ GlobalOf(r)' = GlobalOf(r)
    BY KeysSame
  <2>2. HasKeys(q) /\ ~ HasKeys(r)
    BY <1>3
  <2>3. QED
    BY <2>1, <2>2 DEF InStreams
<1>4. QED
  BY <1>1, <1>2, <1>3 DEF InStreams

(* Nor does what a rank has come to change by the others' steps.            *)
LEMMA OutcomeSame ==
    ASSUME UNCHANGED requestVars, NEW q \in Ranks, Outcome(q),
           stage'[q] = stage[q], sharded'[q] = sharded[q], pairs'[q] = pairs[q],
           keys'[q] = keys[q], out'[q] = out[q]
    PROVE  Outcome(q)'
<1>1. /\ Rows' = Rows /\ (Legacy' <=> Legacy) /\ (Unfiltered' <=> Unfiltered)
      /\ (AllGreedy' <=> AllGreedy) /\ (ShardedBatch' <=> ShardedBatch)
      /\ \A i : /\ Req(i)' = Req(i) /\ Raw(i)' = Raw(i) /\ WeightsNow(i)' = WeightsNow(i)
  BY BatchSame
<1>2. OutOf(keys[q])' = OutOf(keys[q])
  BY <1>1 DEF OutOf
<1>3. PairsOf(q, keys[q])' = PairsOf(q, keys[q])
  BY <1>1 DEF PairsOf
<1>4. HasKeys(q)' <=> HasKeys(q)
  BY DEF HasKeys
<1>5. QED
  BY <1>1, <1>2, <1>3, <1>4 DEF Outcome

(* A draw leaves the ranks in step.                                         *)
LEMMA SampledStreams ==
    ASSUME NoiseInv, InStreams, NEW r \in Ranks, Sampled(r)
    PROVE  /\ InStreams'
           /\ HasKeys(r)' /\ \A q \in Ranks \ {r} : stage'[q] = stage[q] /\ keys'[q] = keys[q]
<1>1. /\ stage \in [Ranks -> {"idle", "begun", "logits", "pairs", "done"}]
      /\ gens = [q \in Ranks |-> [s \in Slots |-> gens[q][s]]]
      /\ private \in [Ranks -> Nat] /\ global \in [Ranks -> Nat] /\ keys = [q \in Ranks |-> keys[q]]
  BY DEF NoiseInv, NoiseTyping
<1>2. /\ keys' = [keys EXCEPT ![r] = KeysOf(r)] /\ gens' = [gens EXCEPT ![r] = GensOf(r)]
      /\ private' = [private EXCEPT ![r] = PrivateOf(r)]
      /\ global' = [global EXCEPT ![r] = GlobalOf(r)]
      /\ stage' = [stage EXCEPT ![r] = "done"] \/ stage' = [stage EXCEPT ![r] = "pairs"]
      /\ UNCHANGED requestVars
      /\ stage[r] = IF Legacy THEN "logits" ELSE "begun"
  BY DEF Sampled
<1>3. /\ keys'[r] = KeysOf(r) /\ gens'[r] = GensOf(r)
      /\ private'[r] = PrivateOf(r) /\ global'[r] = GlobalOf(r) /\ stage'[r] \in {"pairs", "done"}
  BY <1>1, <1>2
<1>4. \A q \in Ranks \ {r} : /\ keys'[q] = keys[q] /\ gens'[q] = gens[q] /\ private'[q] = private[q]
                             /\ global'[q] = global[q] /\ stage'[q] = stage[q]
  BY <1>1, <1>2
<1>5. HasKeys(r)' /\ ~ HasKeys(r) /\ \A q \in Ranks \ {r} : HasKeys(q)' <=> HasKeys(q)
  BY <1>2, <1>3, <1>4 DEF HasKeys
<1>6. ASSUME NEW q \in Ranks \ {r}, ~ HasKeys(q)
      PROVE  /\ KeysOf(q)' = KeysOf(r) /\ GensOf(q)' = GensOf(r)
             /\ PrivateOf(q)' = PrivateOf(r) /\ GlobalOf(q)' = GlobalOf(r)
  <2>1. gens'[q] = gens[r] /\ private'[q] = private[r] /\ global'[q] = global[r]
    BY <1>4, <1>5, <1>6 DEF InStreams
  <2>2. QED
    BY <1>2, <2>1, KeysSame
<1>7. ASSUME NEW q \in Ranks \ {r}, HasKeys(q)
      PROVE  /\ keys[q] = KeysOf(r) /\ gens[q] = GensOf(r)
             /\ private[q] = PrivateOf(r) /\ global[q] = GlobalOf(r)
  BY <1>5, <1>7 DEF InStreams
<1>8. \A p, q \in Ranks :
          (HasKeys(p)' <=> HasKeys(q)') =>
              gens'[p] = gens'[q] /\ private'[p] = private'[q] /\ global'[p] = global'[q]
  <2>1. ASSUME NEW p \in Ranks \ {r}, NEW q \in Ranks \ {r}, HasKeys(p)' <=> HasKeys(q)'
        PROVE  gens'[p] = gens'[q] /\ private'[p] = private'[q] /\ global'[p] = global'[q]
    BY <1>4, <1>5, <2>1 DEF InStreams
  <2>2. \A q \in Ranks \ {r} : HasKeys(q)' =>
            gens'[q] = gens'[r] /\ private'[q] = private'[r] /\ global'[q] = global'[r]
    BY <1>3, <1>4, <1>5, <1>7
  <2>3. QED
    BY <1>5, <2>1, <2>2
<1>9. \A p, q \in Ranks : HasKeys(p)' /\ HasKeys(q)' => keys'[p] = keys'[q]
  <2>1. \A p, q \in Ranks \ {r} : HasKeys(p)' /\ HasKeys(q)' => keys'[p] = keys'[q]
    BY <1>4, <1>5 DEF InStreams
  <2>2. \A q \in Ranks \ {r} : HasKeys(q)' => keys'[q] = keys'[r]
    BY <1>3, <1>4, <1>5, <1>7
  <2>3. QED
    BY <2>1, <2>2
<1>10. ASSUME NEW p \in Ranks, NEW q \in Ranks, HasKeys(p)', ~ HasKeys(q)'
       PROVE  /\ keys'[p] = KeysOf(q)' /\ gens'[p] = GensOf(q)'
              /\ private'[p] = PrivateOf(q)' /\ global'[p] = GlobalOf(q)'
  <2>1. q # r /\ ~ HasKeys(q)
    BY <1>5, <1>10
  <2>2. CASE p = r
    BY <1>3, <1>6, <2>1, <2>2
  <2>3. CASE p # r
    <3>1. HasKeys(p)
      BY <1>5, <1>10, <2>3
    <3>2. QED
      BY <1>4, <1>6, <1>7, <2>1, <2>3, <3>1
  <2>4. QED
    BY <2>2, <2>3
<1>11. QED
  BY <1>4, <1>5, <1>8, <1>9, <1>10 DEF InStreams

(* And with the outcome it should have.                                     *)
LEMMA SampledTokens ==
    ASSUME IInv, NoiseInv, TokenInv, NEW r \in Ranks, Sampled(r)
    PROVE  TokenInv'
<1>1. InStreams' /\ HasKeys(r)' /\ \A q \in Ranks \ {r} : stage'[q] = stage[q] /\ keys'[q] = keys[q]
  BY SampledStreams DEF TokenInv
<1>2. /\ sharded = [q \in Ranks |-> sharded[q]] /\ Outcome(r)
      /\ pairs = [q \in Ranks |-> pairs[q]] /\ out = [q \in Ranks |-> out[q]]
  BY DEF TokenInv, TokenTyping
<1>3. /\ UNCHANGED <<requestVars, sharded>> /\ keys' = [keys EXCEPT ![r] = KeysOf(r)]
      /\ stage[r] = IF Legacy THEN "logits" ELSE "begun"
      /\ \/ /\ stage' = [stage EXCEPT ![r] = "done"] /\ out' = [out EXCEPT ![r] = OutOf(KeysOf(r))]
            /\ UNCHANGED pairs /\ ~ (Legacy /\ ShardedBatch)
         \/ /\ stage' = [stage EXCEPT ![r] = "pairs"] /\ UNCHANGED out
            /\ pairs' = [pairs EXCEPT ![r] = PairsOf(r, KeysOf(r))]
            /\ Legacy /\ Unfiltered /\ ShardedBatch
  BY DEF Sampled
<1>4. TokenTyping'
  BY <1>2, <1>3 DEF TokenTyping
<1>5. ASSUME NEW q \in Ranks \ {r} PROVE Outcome(q)'
  <2>1. sharded'[q] = sharded[q] /\ pairs'[q] = pairs[q] /\ out'[q] = out[q] /\ Outcome(q)
    BY <1>2, <1>3 DEF TokenInv
  <2>2. QED
    BY <1>1, <1>3, <2>1, OutcomeSame
<1>6. Outcome(r)'
  <2>1. /\ Rows' = Rows /\ (Legacy' <=> Legacy) /\ (Unfiltered' <=> Unfiltered)
        /\ (AllGreedy' <=> AllGreedy) /\ (ShardedBatch' <=> ShardedBatch)
        /\ \A i : /\ Req(i)' = Req(i) /\ Raw(i)' = Raw(i) /\ WeightsNow(i)' = WeightsNow(i)
    BY <1>3, BatchSame
  <2>2. keys'[r] = KeysOf(r) /\ r \in DOMAIN stage
    BY <1>3 DEF NoiseInv, NoiseTyping
  <2>3. PICK ks : ks = KeysOf(r)
    OBVIOUS
  <2>4. OutOf(ks)' = OutOf(ks) /\ PairsOf(r, ks)' = PairsOf(r, ks)
    BY <2>1 DEF OutOf, PairsOf
  <2>5. keys'[r] = <<>> => AllGreedy
    BY <1>3, <2>2, KeysOfRows
  <2>6. Legacy => (sharded[r] <=> ShardedBatch)
    BY <1>2, <1>3 DEF Outcome
  <2>7. CASE stage' = [stage EXCEPT ![r] = "done"]
    <3>1. stage'[r] = "done" /\ out'[r] = OutOf(ks) /\ ~ (Legacy /\ ShardedBatch)
      BY <1>2, <1>3, <2>2, <2>3, <2>7
    <3>2. out'[r] = OutOf(keys[r])'
      BY <2>2, <2>3, <2>4, <3>1
    <3>3. QED
      BY <1>3, <2>1, <2>5, <2>6, <3>1, <3>2 DEF Outcome
  <2>8. CASE stage' = [stage EXCEPT ![r] = "pairs"]
    <3>1. stage'[r] = "pairs" /\ pairs'[r] = PairsOf(r, ks) /\ Legacy /\ Unfiltered /\ ShardedBatch
      BY <1>2, <1>3, <2>2, <2>3, <2>8
    <3>2. pairs'[r] = PairsOf(r, keys[r])'
      BY <2>2, <2>3, <2>4, <3>1
    <3>3. QED
      BY <1>3, <2>1, <2>5, <2>6, <3>1, <3>2 DEF Outcome
  <2>9. QED
    BY <1>3, <2>7, <2>8
<1>7. QED
  BY <1>1, <1>4, <1>5, <1>6 DEF TokenInv

(* Logits, all of the vocabulary's or a shard's.                            *)
LEMMA LogitsTokens ==
    ASSUME NoiseInv, TokenInv, NEW r \in Ranks, ComputeLogits(r)
    PROVE  TokenInv'
<1>1. /\ stage \in [Ranks -> {"idle", "begun", "logits", "pairs", "done"}]
      /\ sharded = [q \in Ranks |-> sharded[q]]
      /\ pairs = [q \in Ranks |-> pairs[q]] /\ out = [q \in Ranks |-> out[q]]
  BY DEF TokenInv, TokenTyping, NoiseInv, NoiseTyping
<1>2. /\ stage[r] = "begun" /\ Legacy /\ stage' = [stage EXCEPT ![r] = "logits"]
      /\ sharded' = [sharded EXCEPT ![r] = ShardedBatch]
      /\ UNCHANGED <<requestVars, gens, private, global, pairs, keys, out>>
  BY DEF ComputeLogits
<1>3. TokenTyping'
  BY <1>1, <1>2 DEF TokenTyping
<1>4. InStreams'
  <2>1. \A q \in Ranks : HasKeys(q)' <=> HasKeys(q)
    BY <1>1, <1>2 DEF HasKeys
  <2>2. QED
    BY <1>2, <2>1, StreamsSame DEF TokenInv
<1>5. ASSUME NEW q \in Ranks \ {r} PROVE Outcome(q)'
  BY <1>1, <1>2, OutcomeSame DEF TokenInv
<1>6. Outcome(r)'
  <2>1. (Legacy' <=> Legacy) /\ (ShardedBatch' <=> ShardedBatch)
    BY <1>2, BatchSame
  <2>2. stage'[r] = "logits" /\ sharded'[r] = ShardedBatch
    BY <1>1, <1>2
  <2>3. ~ HasKeys(r)'
    BY <2>2 DEF HasKeys
  <2>4. QED
    BY <1>2, <2>1, <2>2, <2>3 DEF Outcome
<1>7. QED
  BY <1>3, <1>4, <1>5, <1>6 DEF TokenInv

(* A rank's key is one there is noise for.                                  *)
LEMMA DrawnKeys ==
    ASSUME LogitsAndNoise, NoiseInv, TokenInv, NEW r \in Ranks, HasKeys(r), HasKeys(0), ~ AllGreedy,
           NEW i \in Rows
    PROVE  keys[r] = keys[0] /\ Noisy(keys[r][i])
<1>1. 0 \in Ranks
  BY WorkloadAssumption
<1>2. keys[r] = keys[0]
  BY <1>1 DEF TokenInv, InStreams
<1>3. keys[0] # <<>>
  BY <1>1 DEF TokenInv, Outcome
<1>4. keys[0][i] \in Keys
  BY <1>3 DEF NoiseInv, Pending
<1>5. QED
  BY <1>2, <1>4 DEF LogitsAndNoise

(* Reducing the pairs gives the token the whole vocabulary's scores give.   *)
LEMMA PairsReduced ==
    ASSUME LogitsAndNoise, IInv, NoiseInv, TokenInv, NEW r \in Ranks, ReducePairs(r)
    PROVE  [i \in Rows |-> pairs[ArgMax([q \in Ranks |-> pairs[q][i].value])][i].token] = OutOf(keys[r])
<1>1. /\ stage[r] = "pairs" /\ \A q \in Ranks : stage[q] \in {"pairs", "done"}
  BY DEF ReducePairs
<1>2. batch # <<>> /\ Size \in Nat \ {0} /\ Rows = 1 .. Size
  BY <1>1, InStep
<1>3. Legacy /\ Unfiltered /\ ShardedBatch
  BY <1>1 DEF TokenInv, Outcome
<1>4. /\ ShardSize * Cardinality(Ranks) = VocabSize /\ AllRandom
      /\ \A i \in Rows : Req(i).temp # Greedy /\ WeightsNow(i) = Raw(i)
  BY <1>3 DEF ShardedBatch, UnfilteredMetadata, AllRandom, WeightsNow
<1>5. ~ AllGreedy
  <2>1. 1 \in Rows
    BY <1>2
  <2>2. QED
    BY <1>4, <2>1 DEF AllGreedy
<1>6. 0 \in Ranks /\ \A q \in Ranks : HasKeys(q)
  BY <1>1, WorkloadAssumption DEF HasKeys
<1>7. PICK ks : ks = keys[0]
  OBVIOUS
<1>8. keys[r] = ks /\ \A i \in Rows : Noisy(ks[i])
  <2>1. keys[r] = keys[0] /\ \A i \in Rows : Noisy(keys[r][i])
    <3>1. keys[r] = keys[0]
      BY <1>6 DEF TokenInv, InStreams
    <3>2. ASSUME NEW i \in Rows PROVE Noisy(keys[r][i])
      BY <1>5, <1>6, DrawnKeys
    <3>3. QED
      BY <3>1, <3>2
  <2>2. QED
    BY <1>7, <2>1
<1>9. \A q \in Ranks : pairs[q] = PairsOf(q, ks)
  <2>1. \A q \in Ranks : pairs[q] = PairsOf(q, keys[q]) /\ keys[q] = keys[0]
    BY <1>3, <1>6 DEF TokenInv, Outcome, InStreams
  <2>2. QED
    BY <1>7, <2>1
<1> DEFINE best(q, i) == ArgMax(ShardScores(q, ks[i], Raw(i)))
<1>10. \A q \in Ranks, i \in Rows :
          /\ pairs[q][i].token = best(q, i)
          /\ pairs[q][i].value = ShardScores(q, ks[i], Raw(i))[best(q, i)]
  <2>1. TAKE q \in Ranks, i \in Rows
  <2>2. pairs[q][i] = [token |-> best(q, i), value |-> ShardScores(q, ks[i], Raw(i))[best(q, i)]]
    BY <1>9 DEF PairsOf
  <2> HIDE DEF best
  <2>3. QED
    BY <2>2
<1>11. ASSUME NEW i \in Rows
       PROVE  pairs[ArgMax([q \in Ranks |-> pairs[q][i].value])][i].token = ArgMax(Scores(ks[i], Raw(i)))
  <2>1. Raw(i) \in Weightings /\ Noisy(ks[i])
    BY <1>2, <1>8, RowWeights
  <2> DEFINE f == [q \in Ranks |-> ShardScores(q, ks[i], Raw(i))[best(q, i)]]
  <2>2. [q \in Ranks |-> pairs[q][i].value] = f
    BY <1>10
  <2>3. f \in [Ranks -> Nat]
    BY <1>4, <2>1, ShardScoresFacts
  <2>4. ArgMax(ShardScores(ArgMax(f), ks[i], Raw(i))) = ArgMax(Scores(ks[i], Raw(i)))
    BY <1>4, <2>1, ShardsReduce
  <2> HIDE DEF f
  <2>5. ArgMax(f) \in Ranks
    BY <1>4, <1>6, <2>3, ArgMaxFacts, ShardFacts
  <2>6. QED
    BY <1>10, <2>2, <2>4, <2>5
<1>12. OutOf(ks) = [i \in Rows |-> ArgMax(Scores(ks[i], Raw(i)))]
  BY <1>4 DEF OutOf
<1>13. QED
  BY <1>8, <1>11, <1>12

(* So a rank that reduces them comes to its own token.                      *)
LEMMA ReduceTokens ==
    ASSUME LogitsAndNoise, IInv, NoiseInv, TokenInv, NEW r \in Ranks, ReducePairs(r)
    PROVE  TokenInv'
<1>1. /\ stage \in [Ranks -> {"idle", "begun", "logits", "pairs", "done"}]
      /\ sharded = [q \in Ranks |-> sharded[q]]
      /\ pairs = [q \in Ranks |-> pairs[q]] /\ out = [q \in Ranks |-> out[q]]
  BY DEF TokenInv, TokenTyping, NoiseInv, NoiseTyping
<1>2. PICK ks : ks = keys[r]
  OBVIOUS
<1>3. /\ stage[r] = "pairs" /\ stage' = [stage EXCEPT ![r] = "done"]
      /\ out' = [out EXCEPT ![r] = OutOf(ks)]
      /\ UNCHANGED <<requestVars, gens, private, global, sharded, pairs, keys>>
  BY <1>2, PairsReduced DEF ReducePairs
<1>4. TokenTyping'
  BY <1>1, <1>3 DEF TokenTyping
<1>5. InStreams'
  <2>1. \A q \in Ranks : HasKeys(q)' <=> HasKeys(q)
    BY <1>1, <1>3 DEF HasKeys
  <2>2. QED
    BY <1>3, <2>1, StreamsSame DEF TokenInv
<1>6. ASSUME NEW q \in Ranks \ {r} PROVE Outcome(q)'
  BY <1>1, <1>3, OutcomeSame DEF TokenInv
<1>7. Outcome(r)'
  <2>1. /\ Rows' = Rows /\ (Legacy' <=> Legacy) /\ (AllGreedy' <=> AllGreedy)
        /\ (ShardedBatch' <=> ShardedBatch)
        /\ \A i : /\ Req(i)' = Req(i) /\ Raw(i)' = Raw(i) /\ WeightsNow(i)' = WeightsNow(i)
    BY <1>3, BatchSame
  <2>2. OutOf(ks)' = OutOf(ks) /\ PairsOf(r, ks)' = PairsOf(r, ks)
    BY <2>1 DEF OutOf, PairsOf
  <2>3. /\ stage'[r] = "done" /\ out'[r] = OutOf(ks) /\ keys'[r] = ks
        /\ sharded'[r] = sharded[r] /\ pairs'[r] = pairs[r]
    BY <1>1, <1>2, <1>3
  <2>4. out'[r] = OutOf(keys[r])' /\ PairsOf(r, keys[r])' = PairsOf(r, ks)
    BY <2>2, <2>3
  <2>5. Outcome(r) /\ HasKeys(r)
    BY <1>3 DEF TokenInv, HasKeys
  <2>6. /\ Legacy /\ (sharded[r] <=> ShardedBatch) /\ (Legacy /\ ShardedBatch => pairs[r] = PairsOf(r, ks))
        /\ (ks = <<>> => AllGreedy)
    BY <1>2, <1>3, <2>5 DEF Outcome
  <2>7. QED
    BY <2>1, <2>3, <2>4, <2>6 DEF Outcome
<1>8. QED
  BY <1>4, <1>5, <1>6, <1>7 DEF TokenInv

(* One lemma for whatever a rank does.                                      *)
LEMMA RankStepTokens ==
    ASSUME LogitsAndNoise, IInv, NoiseInv, TokenInv, NEW r \in Ranks, RankStep(r)
    PROVE  TokenInv'
<1>1. Outcome(r)
  BY DEF TokenInv
<1>2. CASE ComputeLogits(r)
  BY <1>2, LogitsTokens
<1>3. CASE ReducePairs(r)
  BY <1>3, ReduceTokens
<1>4. CASE SampleUnfiltered(r) \/ SampleShard(r)
  BY <1>1, <1>4, UnfilteredSampled, SampledTokens
<1>5. CASE SampleGreedy(r)
  BY <1>5, GreedySampled, SampledTokens
<1>6. CASE SampleLegacyGumbel(r) \/ SampleSeeded(r) \/ SampleWorkerSeeded(r)
  BY <1>6, SeededSampled, SampledTokens
<1>7. CASE SampleNative(r) \/ SampleWorkerNative(r)
  BY <1>7, NativeSampled, SampledTokens
<1>8. CASE SampleByPosition(r)
  BY <1>8, PositionSampled, SampledTokens
<1>9. QED
  BY <1>2, <1>3, <1>4, <1>5, <1>6, <1>7, <1>8 DEF RankStep

(* Where no rank has drawn, only the streams matter.                        *)
LEMMA NothingDrawn ==
    ASSUME TokenTyping', \A r \in Ranks : stage'[r] \in {"idle", "begun"},
           \A q, r \in Ranks : gens'[q] = gens'[r] /\ private'[q] = private'[r] /\ global'[q] = global'[r]
    PROVE  TokenInv'
<1>1. \A r \in Ranks : ~ HasKeys(r)'
  BY DEF HasKeys
<1>2. InStreams'
  BY <1>1 DEF InStreams
<1>3. \A r \in Ranks : Outcome(r)'
  BY <1>1 DEF Outcome
<1>4. QED
  BY <1>2, <1>3 DEF TokenInv

(* Requests come and go, and steps start and end, when no rank has drawn or *)
(* when all have.                                                           *)
LEMMA BetweenTokens ==
    ASSUME IInv, NoiseInv, TokenInv,
           \/ \E s \in Slots : FinishRequest(s) \/ \E q \in fresh : AddRequest(s, q)
           \/ \E b \in Batches : Schedule(b)
           \/ EndStep
    PROVE  TokenInv'
<1>1. /\ sharded = [q \in Ranks |-> sharded[q]]
      /\ pairs = [q \in Ranks |-> pairs[q]] /\ out = [q \in Ranks |-> out[q]]
  BY DEF TokenInv, TokenTyping
<1>2. \A q, r \in Ranks : gens[q] = gens[r] /\ private[q] = private[r] /\ global[q] = global[r]
  <2>1. (\A r \in Ranks : stage[r] = "idle") \/ \A r \in Ranks : stage[r] = "done"
    BY DEF FinishRequest, AddRequest, Schedule, EndStep, Idle
  <2>2. \A q, r \in Ranks : HasKeys(q) <=> HasKeys(r)
    BY <2>1 DEF HasKeys
  <2>3. QED
    BY <2>2 DEF TokenInv, InStreams
<1>3. CASE \E s \in Slots : FinishRequest(s)
  <2>1. UNCHANGED <<sharded, pairs, out, stage, gens, private, global>> /\ Idle
    BY <1>3 DEF FinishRequest
  <2>2. TokenTyping' /\ \A r \in Ranks : stage'[r] \in {"idle", "begun"}
    BY <1>1, <2>1 DEF TokenTyping, Idle
  <2>3. QED
    BY <1>2, <2>1, <2>2, NothingDrawn
<1>4. ASSUME NEW s \in Slots, NEW p \in fresh, AddRequest(s, p) PROVE TokenInv'
  <2>1. UNCHANGED <<sharded, pairs, out, stage, private, global>> /\ Idle
    BY <1>4 DEF AddRequest
  <2>2. TokenTyping' /\ \A r \in Ranks : stage'[r] \in {"idle", "begun"}
    BY <1>1, <2>1 DEF TokenTyping, Idle
  <2>3. \A q, r \in Ranks : gens'[q] = gens'[r]
    <3>1. PICK g : gens' = [r \in Ranks |-> [gens[r] EXCEPT ![s] = g]]
      BY <1>4 DEF AddRequest
    <3>2. QED
      BY <1>2, <3>1
  <2>4. QED
    BY <1>2, <2>1, <2>2, <2>3, NothingDrawn
<1>5. CASE \E b \in Batches : Schedule(b)
  <2>1. UNCHANGED <<sharded, pairs, out, gens, private, global>> /\ stage' = [r \in Ranks |-> "begun"]
    BY <1>5 DEF Schedule
  <2>2. TokenTyping' /\ \A r \in Ranks : stage'[r] \in {"idle", "begun"}
    BY <1>1, <2>1 DEF TokenTyping
  <2>3. QED
    BY <1>2, <2>1, <2>2, NothingDrawn
<1>6. CASE EndStep
  <2>1. /\ UNCHANGED <<sharded, gens, private, global>> /\ stage' = [r \in Ranks |-> "idle"]
        /\ pairs' = [r \in Ranks |-> <<>>] /\ out' = [r \in Ranks |-> <<>>]
    BY <1>6 DEF EndStep
  <2>2. TokenTyping' /\ \A r \in Ranks : stage'[r] \in {"idle", "begun"}
    BY <1>1, <2>1 DEF TokenTyping
  <2>3. QED
    BY <1>2, <2>1, <2>2, NothingDrawn
<1>7. QED
  BY <1>3, <1>4, <1>5, <1>6

(* At first no rank has drawn.                                              *)
LEMMA InitTokens == DecodeInit => TokenInv
<1>1. SUFFICES ASSUME DecodeInit PROVE TokenInv
  OBVIOUS
<1>2. /\ gens = [r \in Ranks |-> [s \in Slots |-> None]]
      /\ private = [r \in Ranks |-> 0] /\ global = [r \in Ranks |-> 0]
      /\ stage = [r \in Ranks |-> "idle"] /\ sharded = [r \in Ranks |-> FALSE]
      /\ pairs = [r \in Ranks |-> <<>>] /\ out = [r \in Ranks |-> <<>>]
  BY <1>1 DEF DecodeInit, Init
<1>3. \A r \in Ranks : stage[r] = "idle" /\ ~ HasKeys(r)
  BY <1>2 DEF HasKeys
<1>4. InStreams
  BY <1>2, <1>3 DEF InStreams
<1>5. \A r \in Ranks : Outcome(r)
  BY <1>3 DEF Outcome
<1>6. TokenTyping
  BY <1>2 DEF TokenTyping
<1>7. QED
  BY <1>4, <1>5, <1>6 DEF TokenInv

(* Every step keeps the tokens' invariant.                                  *)
LEMMA NextTokens ==
    ASSUME LogitsAndNoise
    PROVE  IInv /\ NoiseInv /\ TokenInv /\ [DecodeNext]_allVars => TokenInv'
<1>1. SUFFICES ASSUME IInv, NoiseInv, TokenInv, [DecodeNext]_allVars PROVE TokenInv'
  OBVIOUS
<1>2. CASE \E b \in Batches : StartStep(b)
  BY <1>1, <1>2, BetweenTokens DEF StartStep
<1>3. CASE FinishStep
  BY <1>1, <1>3, BetweenTokens DEF FinishStep
<1>4. CASE \E s \in Slots : FinishRequest(s) \/ \E q \in fresh : AddRequest(s, q)
  BY <1>1, <1>4, BetweenTokens
<1>5. CASE \E r \in Ranks : RankStep(r)
  BY <1>1, <1>5, RankStepTokens
<1>6. CASE UNCHANGED vars
  <2>1. UNCHANGED <<requestVars, gens, private, global, stage, sharded, pairs, keys, out>>
    BY <1>6 DEF vars, requestVars
  <2>2. TokenTyping'
    BY <1>1, <2>1 DEF TokenInv, TokenTyping
  <2>3. \A q \in Ranks : HasKeys(q)' <=> HasKeys(q)
    BY <2>1 DEF HasKeys
  <2>4. InStreams'
    BY <1>1, <2>1, <2>3, StreamsSame DEF TokenInv
  <2>5. \A q \in Ranks : Outcome(q)'
    <3>1. TAKE q \in Ranks
    <3>2. Outcome(q)
      BY <1>1 DEF TokenInv
    <3>3. QED
      BY <2>1, <3>2, OutcomeSame
  <2>6. QED
    BY <2>2, <2>4, <2>5 DEF TokenInv
<1>7. QED
  BY <1>1, <1>2, <1>3, <1>4, <1>5, <1>6 DEF DecodeNext, Stopped, allVars

(* The ranks' streams are the same whenever they have all drawn or none     *)
(* has, and what each draws and makes of it is a function of the batch and  *)
(* its streams, whichever sampler takes the batch.                          *)
THEOREM TokenInvariant ==
    ASSUME LogitsAndNoise
    PROVE  DecodeSpec => []TokenInv
<1>1. IInv /\ NoiseInv /\ TokenInv /\ [DecodeNext]_allVars => TokenInv'
  BY NextTokens
<1>2. QED
  BY <1>1, InitTokens, Invariant, NoiseInvariant, PTL DEF DecodeSpec

(* The filters a sampler uses are one reading of the request's.             *)
LEMMA WeightsFit ==
    ASSUME LogitsAndNoise, IInv, NoiseInv, batch # <<>>, NEW i \in Rows
    PROVE  Fits(Tempered(i), Req(i).k, Req(i).p, Req(i).minP, WeightsNow(i))
<1> DEFINE q == Req(i)
<1>1. Fitting(Tempered(i), q.k, q.p, q.minP)
  BY RowWeights
<1>2. /\ Fits(Tempered(i), q.k, q.p, q.minP, Upstream(MinP(Tempered(i), q.minP), q.k, q.p))
      /\ Fits(Tempered(i), q.k, q.p, q.minP, MinP(Upstream(Tempered(i), q.k, q.p), q.minP))
      /\ \A useMinP \in BOOLEAN : useMinP \/ q.minP = 0 =>
            Fits(Tempered(i), q.k, q.p, q.minP, Native(Tempered(i), q.k, q.p, q.minP, useMinP))
      /\ q.k = VocabSize /\ q.p = 10 /\ q.minP = 0 => Fits(Tempered(i), q.k, q.p, q.minP, Tempered(i))
  BY <1>1, OrdersFit
<1>3. CASE IF Legacy THEN Unfiltered ELSE WorkerUnfiltered
  <2>1. q.k = VocabSize /\ q.p = 10 /\ q.minP = 0 /\ q.temp = Unit
    BY <1>3 DEF Unfiltered, UnfilteredMetadata, WorkerUnfiltered, AllUnit, NoTopK, NoTopP, NoMinP
  <2>2. WeightsNow(i) = Raw(i) /\ Raw(i) = Tempered(i)
    BY <1>3, <2>1 DEF WeightsNow, Tempered
  <2>3. QED
    BY <1>2, <2>1, <2>2
<1>4. CASE /\ ~ IF Legacy THEN Unfiltered ELSE WorkerUnfiltered
           /\ IF Legacy THEN SeededRows # {} ELSE ByPosition
  <2>1. WeightsNow(i) = Upstream(MinP(Tempered(i), q.minP), q.k, q.p)
    BY <1>4 DEF WeightsNow, Kept, Processed
  <2>2. QED
    BY <1>2, <2>1
<1>5. CASE /\ ~ IF Legacy THEN Unfiltered ELSE WorkerUnfiltered
           /\ ~ IF Legacy THEN SeededRows # {} ELSE ByPosition
           /\ SeededRows # {}
  <2>1. WeightsNow(i) = MinP(Upstream(Tempered(i), q.k, q.p), q.minP)
    BY <1>5 DEF WeightsNow
  <2>2. QED
    BY <1>2, <2>1
<1>6. CASE /\ ~ IF Legacy THEN Unfiltered ELSE WorkerUnfiltered
           /\ ~ IF Legacy THEN SeededRows # {} ELSE ByPosition
           /\ SeededRows = {}
  <2>1. WeightsNow(i) = Native(Tempered(i), q.k, q.p, q.minP, ~ NoMinP)
    BY <1>6 DEF WeightsNow
  <2>2. (~ NoMinP) \in BOOLEAN /\ (~ NoMinP \/ q.minP = 0)
    BY DEF NoMinP
  <2>3. QED
    BY <1>2, <2>1, <2>2
<1>7. QED
  BY <1>3, <1>4, <1>5, <1>6

(* Whatever sampler takes the batch, and whatever the requests, the ranks,  *)
(* the vocabulary, the logits and the noise: the ranks sample one token per *)
(* row, which the row's request admits and no token that all readings of    *)
(* its filters admit beats.                                                 *)
THEOREM TokensAreRight ==
    ASSUME LogitsAndNoise
    PROVE  DecodeSpec => []TokensRight
<1>1. ASSUME IInv, NoiseInv, TokenInv PROVE TokensRight
  <2>1. SUFFICES ASSUME \A r \in Ranks : stage[r] = "done", NEW i \in Rows
                 PROVE  LET t == out[0][i]
                            scores == Scores(keys[0][i], Tempered(i))
                        IN  /\ \A r \in Ranks : out[r][i] = t
                            /\ IF Req(i).temp = Greedy THEN t = ArgMax(Raw(i))
                               ELSE /\ t \in Loosest(i)
                                    /\ \A u \in Strictest(i) : scores[u] <= scores[t]
    BY DEF TokensRight
  <2>2. 0 \in Ranks /\ \A r \in Ranks : HasKeys(r)
    BY <2>1, WorkloadAssumption DEF HasKeys
  <2>3. batch # <<>>
    BY <1>1, <2>1, <2>2, InStep
  <2>4. PICK ks : ks = keys[0]
    OBVIOUS
  <2>5. \A r \in Ranks : out[r] = OutOf(ks)
    <3>1. \A r \in Ranks : out[r] = OutOf(keys[r]) /\ keys[r] = keys[0]
      BY <1>1, <2>1, <2>2 DEF TokenInv, Outcome, InStreams
    <3>2. QED
      BY <2>4, <3>1
  <2>6. \A r \in Ranks : out[r][i] = out[0][i]
    BY <2>2, <2>5
  <2>7. CASE Req(i).temp = Greedy
    <3>1. out[0][i] = ArgMax(Raw(i))
      BY <2>2, <2>5, <2>7 DEF OutOf
    <3>2. QED
      BY <2>6, <2>7, <3>1
  <2>8. CASE Req(i).temp # Greedy
    <3>1. Noisy(ks[i])
      <4>1. ~ AllGreedy
        BY <2>8 DEF AllGreedy
      <4>2. Noisy(keys[0][i])
        BY <1>1, <2>2, <4>1, DrawnKeys
      <4>3. QED
        BY <2>4, <4>2
    <3> DEFINE t == ArgMax(Scores(ks[i], WeightsNow(i)))
               w == Tempered(i)
               q == Req(i)
    <3>2. out[0][i] = t
      BY <2>2, <2>5, <2>8 DEF OutOf
    <3>3. Fitting(w, q.k, q.p, q.minP) /\ Fits(w, q.k, q.p, q.minP, WeightsNow(i))
      BY <1>1, <2>3, RowWeights, WeightsFit
    <3>4. /\ t \in Vocab
          /\ KeepOnly(w, Eligible(w, q.k))[t] # 0 /\ NativeTopP(w, q.p)[t] # 0
          /\ MinP(w, q.minP)[t] # 0
          /\ \A u \in Vocab : Upstream(MinP(w, q.minP), q.k, q.p)[u] > 0
                                => Scores(ks[i], w)[u] <= Scores(ks[i], w)[t]
      <4> HIDE DEF w, q
      <4>1. QED
        BY <3>1, <3>3, DrawFacts
    <3>5. DOMAIN w = Vocab
      BY <1>1, <2>3, RowWeights DEF Weightings
    <3> HIDE DEF t
    <3>6. t \in Loosest(i)
      BY <3>4, <3>5 DEF Loosest
    <3>7. \A u \in Strictest(i) : Scores(ks[i], w)[u] <= Scores(ks[i], w)[t]
      BY <3>4 DEF Strictest, Processed
    <3>8. QED
      BY <2>4, <2>6, <2>8, <3>2, <3>6, <3>7
  <2>9. QED
    BY <2>7, <2>8
<1>2. QED
  BY <1>1, Invariant, NoiseInvariant, TokenInvariant, PTL
=============================================================================
