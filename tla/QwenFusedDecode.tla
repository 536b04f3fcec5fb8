---------------------------- MODULE QwenFusedDecode ----------------------------
(* What the V2 worker's model reads in the next step                        *)
(* (v1/worker/qwen_fused_next_input_ids.py, v1/sample/                      *)
(* uniform_sample_counts.py, patches 0096 and 0097), together with          *)
(* Sampling, which makes the tokens.  The input buffer is normally filled   *)
(* from last_sampled_tokens.  After a step in which every row decodes, the  *)
(* kernel that stores the sampled tokens also writes them to the buffer,    *)
(* and if the next step has the same requests in the same order, nothing is *)
(* copied.  A row is one token: a decode, or a piece of a prompt of one     *)
(* token, which only is_prefilling tells apart.                             *)
EXTENDS Sampling

VARIABLES
    primed,         \* request ids the buffer was written for, or None
    pending,        \* request ids of the step, if it may write the buffer
    lastSampled,    \* lastSampled[r][s], last_sampled_tokens
    inputIds        \* inputIds[r][i], the buffer

inputVars == <<primed, pending, lastSampled, inputIds>>
allVars == <<vars, inputVars>>

PromptToken == VocabSize

Positions == 1 .. Cardinality(Slots)

Ids(b) == [i \in DOMAIN b |-> slots[b[i]].id]

IsPrefilling(b, i) == count[b[i]] = 0

(* Every row one token of a decode: the guards of the selectors.            *)
UniformDecode(b) == Family /\ \A i \in DOMAIN b : ~IsPrefilling(b, i)

(* mutant: any order of the same requests will do *)
SameRequestsAnyOrder(b) ==
    primed # None /\ {primed[i] : i \in DOMAIN primed} = {Ids(b)[i] : i \in DOMAIN b}

SameRequests(b) == primed = Ids(b)

(* select_qwen_fused_decode_inputs, else combine_sampled_and_draft_tokens.  *)
PrepareInputs(b) ==
    /\ primed' = IF Family THEN None ELSE primed
    /\ pending' = IF UniformDecode(b) THEN Ids(b) ELSE IF Family THEN None ELSE pending
    /\ inputIds' =
         IF UniformDecode(b) /\ SameRequests(b) THEN inputIds
         ELSE [r \in Ranks |-> [i \in Positions |->
                 IF i \notin DOMAIN b THEN inputIds[r][i]
                 ELSE IF IsPrefilling(b, i) THEN PromptToken
                 ELSE lastSampled[r][b[i]]]]
    /\ UNCHANGED lastSampled

(* The rows that get their token: all in a uniform decode, whose counts are *)
(* cached ones.                                                             *)
SampledRows == IF UniformDecode(batch) THEN Rows ELSE Rows \ partial

(* select_qwen_next_input_ids_buffer and _post_update_kernel.               *)
PostUpdate ==
    /\ primed' = pending
    /\ pending' = None
    /\ lastSampled' = [r \in Ranks |-> [s \in Slots |->
            IF \E i \in SampledRows : batch[i] = s
            THEN out[r][CHOOSE i \in SampledRows : batch[i] = s]
            ELSE lastSampled[r][s]]]
    /\ inputIds' =
         IF pending = None THEN inputIds
         ELSE [r \in Ranks |-> [i \in Positions |->
                 IF i \in SampledRows THEN out[r][i] ELSE inputIds[r][i]]]

StartStep(b) ==
    /\ Schedule(b)
    /\ IF Legacy THEN UNCHANGED inputVars ELSE PrepareInputs(b)

FinishStep ==
    /\ EndStep
    /\ IF Legacy THEN UNCHANGED inputVars ELSE PostUpdate

DecodeInit ==
    /\ Init
    /\ primed = None
    /\ pending = None
    /\ lastSampled = [r \in Ranks |-> [s \in Slots |-> 0]]
    /\ inputIds = [r \in Ranks |-> [i \in Positions |-> 0]]

DecodeNext ==
    \/ \E b \in Batches : StartStep(b)
    \/ FinishStep
    \/ (\E s \in Slots : FinishRequest(s) \/ \E q \in fresh : AddRequest(s, q)) /\ UNCHANGED inputVars
    \/ (\E r \in Ranks : RankStep(r)) /\ UNCHANGED inputVars
    \/ Stopped /\ UNCHANGED inputVars

DecodeSpec == DecodeInit /\ [][DecodeNext]_allVars

----------------------------------------------------------------------------
(* While a step runs, the model reads for every decoding row the token its  *)
(* request got last, also where nothing was copied because the previous     *)
(* step had written it; for the other rows it reads the prompt.             *)
InputsRight ==
    ~Legacy /\ batch # <<>> =>
        \A r \in Ranks : \A i \in Rows :
            inputIds[r][i] = IF IsPrefilling(batch, i) THEN PromptToken
                             ELSE lastSampled[r][batch[i]]
=============================================================================
