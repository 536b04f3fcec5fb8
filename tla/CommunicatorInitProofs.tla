----------------------- MODULE CommunicatorInitProofs -----------------------
(* For every group size, set of plans and number of faults: the ranks agree *)
(* on the communicator, and none leaks what it made.                        *)
EXTENDS CommunicatorInit, WellFoundedInduction, TLAPS

-----------------------------------------------------------------------------
(* The inductive invariant.                                                 *)

Calls ==
    [kind : {"plan"}, value : Plans] \union [kind : {"handles"}, value : Buffers]
        \union [kind : {"vote"}, value : BOOLEAN]

Typing ==
    /\ step \in [Ranks -> {"begin", "consensus", "allocate", "exchange", "open",
                           "compile", "register", "vote", "decide", "built",
                           "raised"}]
    /\ buffer \in [Ranks -> Buffers]
    /\ plan \in [Ranks -> Plans]
    /\ memory \in [Ranks -> [Buffers -> {"none", "live", "freed"}]]
    /\ opened \in [Ranks -> SUBSET (Buffers \X Ranks)]
    /\ \A r \in Ranks : opened[r] \subseteq Buffers \X Peers(r)
    /\ comm \in [Ranks -> {"none", "disabled", "enabled"}]
    /\ calls \in [Ranks -> Seq(Calls)]
    /\ faults \in 0 .. MaxFaults

Voted(r) == step[r] \in {"decide", "built", "raised"}

(* how many collectives a rank has entered by the time it is at its step *)
CallCount(r) ==
    LET n == Len(calls[r])
        exchanged == IF buffer[r] = "meta" THEN 0 ELSE 1
    IN  /\ step[r] = "begin" => n = 0 /\ buffer[r] = "meta"
        /\ step[r] = "consensus" => n = 1 /\ buffer[r] = "meta"
        /\ step[r] = "allocate" => n = 1 + exchanged
        /\ step[r] \in {"exchange", "open"} => n = 2 + exchanged
        /\ step[r] \in {"compile", "register"} => n = 3
        /\ step[r] = "vote" => n \in 0 .. 3 /\ (comm[r] = "enabled" => n = 3)
        /\ Voted(r) => n \in 1 .. 4

(* The calls are r's plan, the exchanges, and at last its vote.             *)
CallOrder(r) ==
    \A n \in 1 .. Len(calls[r]) :
        /\ calls[r][n].kind = IF n = Len(calls[r]) /\ Voted(r) THEN "vote"
                              ELSE IF n = 1 THEN "plan" ELSE "handles"
        /\ calls[r][n].kind = "plan" => calls[r][n].value = plan[r]

(* A vote for the communicator is the fourth call, of a rank that has it.   *)
Ballot(r) ==
    LET vote == calls[r][Len(calls[r])].value
    IN  Voted(r) =>
          /\ comm[r] = "enabled" => vote = TRUE
          /\ vote = TRUE => Len(calls[r]) = 4 /\ (step[r] = "decide" => comm[r] = "enabled")

(* What r has for the communicator, and that it has nothing.                *)
Prepared(r) ==
    /\ opened[r] = Buffers \X Peers(r)
    /\ \A b \in Buffers : memory[r][b] = "live"

Clean(r) ==
    /\ opened[r] = {}
    /\ \A b \in Buffers : memory[r][b] # "live"

Holdings(r) ==
    /\ step[r] \in {"allocate", "exchange", "open"} /\ buffer[r] = "data" =>
          /\ {"meta"} \X Peers(r) \subseteq opened[r]
          /\ memory[r]["meta"] = "live"
    /\ step[r] \in {"exchange", "open"} => memory[r][buffer[r]] = "live"
    /\ step[r] \in {"compile", "register"} => Prepared(r)
    /\ step[r] = "vote" \/ Voted(r) =>
          IF comm[r] = "enabled" THEN Prepared(r) ELSE Clean(r)
    /\ comm[r] = "enabled" => step[r] \in {"vote", "decide", "built"}

(* Past its consensus, a rank knows that all have its plan.                 *)
PlansAgreed(r) ==
    step[r] \in {"allocate", "exchange", "open", "compile", "register"}
        \/ comm[r] = "enabled"
      => \A q \in Ranks : plan[q] = plan[r]

(* Why a rank has ended: its vote completed, and it did what the votes say, *)
(* or some rank will never vote.                                            *)
Outcome(r) ==
    /\ step[r] = "built" => Completed(r) /\ (comm[r] = "enabled" <=> AllAvailable(r))
    /\ step[r] = "raised" => Stuck(r)

(* what r's own state says of r *)
Local(r) == CallCount(r) /\ CallOrder(r) /\ Ballot(r) /\ Holdings(r)

IInv ==
    /\ Typing
    /\ \A r \in Ranks : Local(r)
    /\ \A r \in Ranks : PlansAgreed(r)
    /\ \A r \in Ranks : Outcome(r)

-----------------------------------------------------------------------------
(* What the operators of the model do.                                      *)

(* A call is appended to the caller's calls and changes nothing else.       *)
LEMMA EnterFacts ==
    ASSUME Typing, NEW r \in Ranks, NEW kind, NEW value,
           [kind |-> kind, value |-> value] \in Calls, Enter(r, kind, value)
    PROVE  /\ calls' \in [Ranks -> Seq(Calls)]
           /\ \A q \in Ranks \ {r} : calls'[q] = calls[q]
           /\ Len(calls'[r]) = Len(calls[r]) + 1
           /\ \A n \in 1 .. Len(calls[r]) : calls'[r][n] = calls[r][n]
           /\ calls'[r][Len(calls'[r])].kind = kind
           /\ calls'[r][Len(calls'[r])].value = value
<1>1. calls \in [Ranks -> Seq(Calls)]
  BY DEF Typing
<1> DEFINE call == [kind |-> kind, value |-> value]
<1>2. call.kind = kind /\ call.value = value /\ call \in Calls
  OBVIOUS
<1>3. calls' = [calls EXCEPT ![r] = Append(calls[r], call)]
  BY DEF Enter
<1> HIDE DEF call
<1>4. /\ Append(calls[r], call) \in Seq(Calls)
      /\ Len(Append(calls[r], call)) = Len(calls[r]) + 1
      /\ \A n \in 1 .. Len(calls[r]) : Append(calls[r], call)[n] = calls[r][n]
      /\ Append(calls[r], call)[Len(calls[r]) + 1] = call
  BY <1>1, <1>2
<1>5. QED
  BY <1>1, <1>2, <1>3, <1>4

(* Release leaves the rank clean and the others as they were.               *)
LEMMA ReleaseFacts ==
    ASSUME Typing, NEW r \in Ranks, Release(r)
    PROVE  /\ opened' \in [Ranks -> SUBSET (Buffers \X Ranks)]
           /\ \A q \in Ranks : opened'[q] \subseteq Buffers \X Peers(q)
           /\ memory' \in [Ranks -> [Buffers -> {"none", "live", "freed"}]]
           /\ \A q \in Ranks \ {r} : opened'[q] = opened[q] /\ memory'[q] = memory[q]
           /\ Clean(r)'
<1>1. memory \in [Ranks -> [Buffers -> {"none", "live", "freed"}]]
  BY DEF Typing
<1>2. memory' = [memory EXCEPT ![r] =
                    [b \in Buffers |-> IF memory[r][b] = "live" THEN "freed" ELSE memory[r][b]]]
  BY DEF Release
<1>3. /\ memory' \in [Ranks -> [Buffers -> {"none", "live", "freed"}]]
      /\ \A q \in Ranks \ {r} : memory'[q] = memory[q]
      /\ \A b \in Buffers : memory'[r][b] # "live"
  BY <1>1, <1>2
<1>4. /\ opened' \in [Ranks -> SUBSET (Buffers \X Ranks)]
      /\ \A q \in Ranks : opened'[q] \subseteq Buffers \X Peers(q)
      /\ \A q \in Ranks \ {r} : opened'[q] = opened[q]
      /\ opened'[r] = {}
  BY DEF Typing, Release
<1>5. QED
  BY <1>3, <1>4 DEF Clean

(* A set of naturals has a least element.                                   *)
LEMMA LeastNatural ==
    ASSUME NEW S, S \subseteq Nat, S # {}
    PROVE  \E x \in S : \A y \in S : x <= y
<1> DEFINE below == OpToRel(<, Nat)
<1>1. IsWellFoundedOn(below, Nat)
  BY NatLessThanWellFounded
<1>2. \A x, y \in Nat : <<y, x>> \in below <=> y < x
  BY DEF OpToRel
<1> HIDE DEF below
<1>3. PICK x \in S : \A y \in S : ~ (<<y, x>> \in below)
  BY <1>1, WFMin
<1>4. ASSUME NEW y \in S PROVE x <= y
  <2>1. x \in Nat /\ y \in Nat
    OBVIOUS
  <2>2. ~ (y < x)
    BY <1>2, <1>3, <2>1
  <2>3. QED
    BY <2>1, <2>2
<1>5. QED
  BY <1>4

(* The next handle is one that is not open.                                 *)
LEMMA NextPeerFacts ==
    ASSUME NEW r \in Ranks, Unopened(r) # {}
    PROVE  /\ NextPeer(r) \in Peers(r)
           /\ <<buffer[r], NextPeer(r)>> \notin opened[r]
<1>1. Unopened(r) \subseteq Nat
  BY FaultsAssumption DEF Unopened, Peers, Ranks
<1>2. \E p \in Unopened(r) : \A q \in Unopened(r) : p <= q
  BY <1>1, LeastNatural
<1>3. NextPeer(r) \in Unopened(r)
  BY <1>2 DEF NextPeer
<1>4. QED
  BY <1>3 DEF Unopened

-----------------------------------------------------------------------------
(* The steps of one rank.                                                   *)

(* A step of r leaves the other ranks' state alone, and r's calls grow.     *)
Frame(r) ==
    /\ \A q \in Ranks \ {r} :
          /\ step'[q] = step[q]
          /\ buffer'[q] = buffer[q]
          /\ calls'[q] = calls[q]
          /\ memory'[q] = memory[q]
          /\ opened'[q] = opened[q]
          /\ comm'[q] = comm[q]
    /\ plan' = plan
    /\ Len(calls'[r]) >= Len(calls[r])
    /\ \A n \in 1 .. Len(calls[r]) : calls'[r][n] = calls[r][n]
    /\ ~ Ended(r)

(* The order of r's calls survives one more exchange, or the vote.          *)
LEMMA OneMoreCall ==
    ASSUME NEW r \in Ranks, CallOrder(r), ~ Voted(r), plan' = plan,
           Len(calls[r]) \in Nat,
           Len(calls[r]) = 0 => Voted(r)',
           Len(calls'[r]) = Len(calls[r]) + 1,
           \A n \in 1 .. Len(calls[r]) : calls'[r][n] = calls[r][n],
           calls'[r][Len(calls'[r])].kind = IF Voted(r)' THEN "vote" ELSE "handles"
    PROVE  CallOrder(r)'
<1>1. ASSUME NEW n \in 1 .. Len(calls'[r])
      PROVE  /\ calls'[r][n].kind = IF n = Len(calls'[r]) /\ Voted(r)' THEN "vote"
                                    ELSE IF n = 1 THEN "plan" ELSE "handles"
             /\ calls'[r][n].kind = "plan" => calls'[r][n].value = plan[r]
  <2>1. CASE n = Len(calls'[r])
    BY <2>1
  <2>2. CASE n # Len(calls'[r])
    <3>1. n \in 1 .. Len(calls[r])
      BY <2>2
    <3>2. /\ calls[r][n].kind = IF n = 1 THEN "plan" ELSE "handles"
          /\ calls[r][n].kind = "plan" => calls[r][n].value = plan[r]
      BY <3>1 DEF CallOrder
    <3>3. QED
      BY <2>2, <3>1, <3>2
  <2>3. QED
    BY <2>1, <2>2
<1>2. QED
  BY <1>1 DEF CallOrder

(* A step that raises before the vote leads to the vote, with nothing held. *)
LEMMA RaiseBeforeVote ==
    ASSUME Typing, NEW r \in Ranks, Local(r), faults' \in 0 .. MaxFaults,
           step[r] \in {"begin", "consensus", "allocate", "exchange", "open", "compile",
                        "register"},
           RaiseGuarded(r) \/ RaiseUnguarded(r)
    PROVE  Typing' /\ Frame(r) /\ Local(r)'
<1> USE DEF RaiseGuarded, RaiseUnguarded
<1>1. Typing'
  BY ReleaseFacts DEF Typing
<1>2. Frame(r)
  BY ReleaseFacts DEF Frame, Typing, Ended
<1>3. step'[r] = "vote" /\ comm'[r] # "enabled" /\ calls' = calls
  BY DEF Typing
<1>4. CallCount(r)'
  BY <1>3 DEF Local, CallCount, Typing, Voted
<1>5. CallOrder(r)' /\ Ballot(r)'
  BY <1>3 DEF Local, CallOrder, Ballot, Typing, Voted
<1>6. Holdings(r)'
  BY <1>3, ReleaseFacts DEF Holdings
<1>7. QED
  BY <1>1, <1>2, <1>4, <1>5, <1>6 DEF Local

(* The vote that ends in an exception leaves the rank with nothing held.    *)
LEMMA RaiseInVoteLocal ==
    ASSUME Typing, NEW r \in Ranks, Local(r), UNCHANGED faults,
           step[r] = "decide", RaiseInVote(r)
    PROVE  Typing' /\ Frame(r) /\ Local(r)'
<1> USE DEF RaiseInVote
<1>1. Typing'
  BY ReleaseFacts DEF Typing
<1>2. Frame(r)
  BY ReleaseFacts DEF Frame, Typing, Ended
<1>3. step'[r] = "raised" /\ comm'[r] # "enabled" /\ calls' = calls
  BY DEF Typing
<1>4. CallCount(r)' /\ CallOrder(r)' /\ Ballot(r)'
  BY <1>3 DEF Local, CallCount, CallOrder, Ballot, Voted
<1>5. Holdings(r)'
  BY <1>3, ReleaseFacts DEF Holdings, Voted
<1>6. QED
  BY <1>1, <1>2, <1>4, <1>5 DEF Local

(* The exchange of the plans is the first collective call of a rank.        *)
LEMMA BeginConsensusLocal ==
    ASSUME Typing, NEW r \in Ranks, Local(r), BeginConsensus(r)
    PROVE  Typing' /\ Frame(r) /\ Local(r)'
<1> USE DEF BeginConsensus
<1>1. [kind |-> "plan", value |-> plan[r]] \in Calls
  BY DEF Calls, Typing
<1>2. /\ calls' \in [Ranks -> Seq(Calls)]
      /\ \A q \in Ranks \ {r} : calls'[q] = calls[q]
      /\ Len(calls'[r]) = Len(calls[r]) + 1
      /\ \A n \in 1 .. Len(calls[r]) : calls'[r][n] = calls[r][n]
      /\ calls'[r][Len(calls'[r])].kind = "plan"
      /\ calls'[r][Len(calls'[r])].value = plan[r]
  BY <1>1, EnterFacts
<1>3. step'[r] = "consensus" /\ Len(calls[r]) = 0 /\ buffer[r] = "meta"
  BY DEF Typing, Local, CallCount
<1>4. Typing'
  BY <1>2 DEF Typing
<1>5. Frame(r)
  BY <1>2, <1>3 DEF Frame, Typing, Ended
<1>6. CallCount(r)' /\ CallOrder(r)' /\ Ballot(r)'
  BY <1>2, <1>3 DEF CallCount, CallOrder, Ballot, Voted
<1>7. Holdings(r)'
  BY <1>3 DEF Holdings, Local, Voted
<1>8. QED
  BY <1>4, <1>5, <1>6, <1>7 DEF Local

(* Equal plans lead to the allocation of the signals, others to the vote.   *)
LEMMA EndConsensusLocal ==
    ASSUME Typing, NEW r \in Ranks, Local(r), EndConsensus(r)
    PROVE  Typing' /\ Frame(r) /\ Local(r)'
<1> USE DEF EndConsensus
<1>1. CASE SamePlans(r)
  <2>1. Typing'
    BY <1>1 DEF Typing
  <2>2. Frame(r)
    BY <1>1 DEF Frame, Typing, Ended
  <2>3. /\ step'[r] = "allocate" /\ calls' = calls /\ buffer' = buffer /\ plan' = plan
        /\ buffer[r] = "meta" /\ Len(calls[r]) = 1
    BY <1>1 DEF Typing, Local, CallCount
  <2>4. CallCount(r)' /\ Ballot(r)'
    BY <2>3 DEF CallCount, Ballot, Voted
  <2>5. CallOrder(r)'
    BY <2>3 DEF Local, CallOrder, Voted
  <2>6. Holdings(r)'
    BY <1>1, <2>3 DEF Local, Holdings, Voted
  <2>7. QED
    BY <2>1, <2>2, <2>4, <2>5, <2>6 DEF Local
<1>2. CASE ~ SamePlans(r)
  BY <1>2, RaiseBeforeVote DEF Typing
<1>3. QED
  BY <1>1, <1>2

(* A buffer is live when its handles are exchanged.                         *)
LEMMA AllocateLocal ==
    ASSUME Typing, NEW r \in Ranks, Local(r), Allocate(r)
    PROVE  Typing' /\ Frame(r) /\ Local(r)'
<1> USE DEF Allocate
<1>1. [kind |-> "handles", value |-> buffer[r]] \in Calls
  BY DEF Calls, Typing
<1>2. /\ calls' \in [Ranks -> Seq(Calls)]
      /\ \A q \in Ranks \ {r} : calls'[q] = calls[q]
      /\ Len(calls'[r]) = Len(calls[r]) + 1
      /\ \A n \in 1 .. Len(calls[r]) : calls'[r][n] = calls[r][n]
      /\ calls'[r][Len(calls'[r])].kind = "handles"
  BY <1>1, EnterFacts
<1>3. /\ step'[r] = "exchange" /\ buffer' = buffer
      /\ \/ buffer[r] = "meta" /\ Len(calls[r]) = 1 /\ Len(calls'[r]) = 2
         \/ buffer[r] = "data" /\ Len(calls[r]) = 2 /\ Len(calls'[r]) = 3
  <2>1. buffer[r] \in {"meta", "data"} /\ step'[r] = "exchange" /\ buffer' = buffer
    BY DEF Typing, Buffers
  <2>2. CallCount(r)
    BY DEF Local
  <2>3. Len(calls[r]) = IF buffer[r] = "meta" THEN 1 ELSE 2
    BY <2>1, <2>2 DEF CallCount
  <2>4. QED
    BY <1>2, <2>1, <2>3
<1>4. /\ memory' \in [Ranks -> [Buffers -> {"none", "live", "freed"}]]
      /\ \A q \in Ranks \ {r} : memory'[q] = memory[q]
      /\ memory'[r][buffer[r]] = "live"
      /\ \A b \in Buffers \ {buffer[r]} : memory'[r][b] = memory[r][b]
  BY DEF Typing
<1>5. Typing'
  BY <1>2, <1>4 DEF Typing
<1>6. Frame(r)
  BY <1>2, <1>3, <1>4 DEF Frame, Typing, Ended
<1>7. CallCount(r)' /\ Ballot(r)'
  <2>1. step'[r] = "exchange" /\ buffer'[r] = buffer[r]
    BY <1>3
  <2>2. CASE buffer[r] = "meta" /\ Len(calls'[r]) = 2
    BY <2>1, <2>2 DEF CallCount, Ballot, Voted
  <2>3. CASE buffer[r] = "data" /\ Len(calls'[r]) = 3
    BY <2>1, <2>3 DEF CallCount, Ballot, Voted
  <2>4. QED
    BY <1>3, <2>2, <2>3
<1>8. CallOrder(r)'
  BY <1>2, <1>3, OneMoreCall DEF Voted, Local
<1>9. Holdings(r)'
  BY <1>3, <1>4 DEF Holdings, Local, Voted, Typing, Buffers
<1>10. QED
  BY <1>5, <1>6, <1>7, <1>8, <1>9 DEF Local

(* A handle is opened from a peer, once.                                    *)
LEMMA OpenLocal ==
    ASSUME Typing, NEW r \in Ranks, Local(r), Open(r)
    PROVE  Typing' /\ Frame(r) /\ Local(r)'
<1> USE DEF Open
<1>1. NextPeer(r) \in Peers(r)
  BY NextPeerFacts
<1>2. /\ opened' \in [Ranks -> SUBSET (Buffers \X Ranks)]
      /\ \A q \in Ranks \ {r} : opened'[q] = opened[q]
      /\ opened[r] \subseteq opened'[r]
      /\ \A q \in Ranks : opened'[q] \subseteq Buffers \X Peers(q)
  <2>1. <<buffer[r], NextPeer(r)>> \in Buffers \X Peers(r)
    BY <1>1 DEF Typing
  <2>2. Peers(r) \subseteq Ranks
    BY DEF Peers
  <2>3. QED
    BY <2>1, <2>2 DEF Typing
<1>3. Typing'
  BY <1>2 DEF Typing
<1>4. Frame(r)
  BY <1>2 DEF Frame, Typing, Ended
<1>5. CallCount(r)' /\ CallOrder(r)' /\ Ballot(r)'
  BY DEF Local, CallCount, CallOrder, Ballot, Voted
<1>6. Holdings(r)'
  BY <1>2 DEF Local, Holdings, Voted
<1>7. QED
  BY <1>3, <1>4, <1>5, <1>6 DEF Local

(* With all handles open, the data buffer follows the signals, and the     *)
(* compilation the data buffer.                                             *)
LEMMA BufferMadeLocal ==
    ASSUME Typing, NEW r \in Ranks, Local(r), BufferMade(r)
    PROVE  Typing' /\ Frame(r) /\ Local(r)'
<1> USE DEF BufferMade
<1>1. {buffer[r]} \X Peers(r) \subseteq opened[r] /\ memory[r][buffer[r]] = "live"
  <2>1. \A p \in Peers(r) : <<buffer[r], p>> \in opened[r]
    BY DEF Unopened
  <2>2. QED
    BY <2>1 DEF Local, Holdings
<1>2. CallCount(r)
  BY DEF Local
<1>3. CASE buffer[r] = "meta"
  <2>1. /\ buffer' = [buffer EXCEPT ![r] = "data"]
        /\ step' = [step EXCEPT ![r] = "allocate"]
    BY <1>3
  <2>2. step'[r] = "allocate" /\ buffer'[r] = "data" /\ Len(calls[r]) = 2
    BY <1>2, <1>3, <2>1 DEF Typing, CallCount
  <2>3. Typing' /\ Frame(r)
    BY <2>1 DEF Typing, Frame, Ended, Buffers
  <2>4. CallCount(r)' /\ Ballot(r)'
    BY <2>2 DEF CallCount, Ballot, Voted
  <2>5. CallOrder(r)'
    BY <2>2 DEF Local, CallOrder, Voted
  <2>6. Holdings(r)'
    BY <1>1, <1>3, <2>2 DEF Local, Holdings, Voted
  <2>7. QED
    BY <2>3, <2>4, <2>5, <2>6 DEF Local
<1>4. CASE buffer[r] = "data"
  <2>1. buffer' = buffer /\ step' = [step EXCEPT ![r] = "compile"]
    BY <1>4
  <2>2. step'[r] = "compile" /\ Len(calls[r]) = 3
    BY <1>2, <1>4, <2>1 DEF Typing, CallCount
  <2>3. Typing' /\ Frame(r)
    BY <2>1 DEF Typing, Frame, Ended
  <2>4. CallCount(r)' /\ Ballot(r)'
    BY <2>1, <2>2 DEF CallCount, Ballot, Voted
  <2>5. CallOrder(r)'
    BY <2>2 DEF Local, CallOrder, Voted
  <2>6. Holdings(r)'
    <3>1. {"meta"} \X Peers(r) \subseteq opened[r] /\ memory[r]["meta"] = "live"
      BY <1>4 DEF Local, Holdings
    <3>2. Prepared(r)'
      BY <1>1, <1>4, <3>1 DEF Prepared, Typing, Buffers
    <3>3. comm'[r] # "enabled"
      BY DEF Local, Holdings
    <3>4. QED
      BY <2>2, <3>2, <3>3 DEF Holdings, Voted
  <2>7. QED
    BY <2>3, <2>4, <2>5, <2>6 DEF Local
<1>5. QED
  BY <1>3, <1>4

(* A rank votes once, for what it has, and calls nothing afterwards.        *)
LEMMA VoteLocal ==
    ASSUME Typing, NEW r \in Ranks, Local(r), Vote(r)
    PROVE  Typing' /\ Frame(r) /\ Local(r)'
<1>1. [kind |-> "vote", value |-> comm[r] = "enabled"] \in Calls
  BY DEF Calls
<1>2. /\ calls' \in [Ranks -> Seq(Calls)]
      /\ \A q \in Ranks \ {r} : calls'[q] = calls[q]
      /\ Len(calls'[r]) = Len(calls[r]) + 1
      /\ \A n \in 1 .. Len(calls[r]) : calls'[r][n] = calls[r][n]
      /\ calls'[r][Len(calls'[r])].kind = "vote"
      /\ calls'[r][Len(calls'[r])].value = (comm[r] = "enabled")
  BY <1>1, EnterFacts DEF Vote
<1>3. /\ step'[r] = "decide" /\ ~ Voted(r) /\ Voted(r)'
      /\ UNCHANGED <<buffer, plan, memory, opened, comm, faults>>
  BY DEF Vote, Typing, Voted
<1>4. /\ Len(calls[r]) \in Nat
      /\ Len(calls'[r]) \in 1 .. 4
      /\ comm[r] = "enabled" => Len(calls'[r]) = 4
  <2>1. Len(calls[r]) \in 0 .. 3
    BY DEF Local, CallCount, Vote
  <2>2. /\ Len(calls[r]) \in Int
        /\ Len(calls'[r]) \in Int
        /\ Len(calls'[r]) = Len(calls[r]) + 1
    BY <1>2 DEF Typing
  <2>3. ASSUME comm[r] = "enabled" PROVE Len(calls'[r]) = 4
    <3>1. Len(calls[r]) = 3
      BY <2>3 DEF Local, CallCount, Vote
    <3>2. QED
      BY <2>2, <3>1
  <2>4. Len(calls[r]) \in Nat
    BY <2>1
  <2>5. Len(calls'[r]) \in 1 .. 4
    <3>1. \A n, m \in Int : n \in 0 .. 3 /\ m = n + 1 => m \in 1 .. 4
      OBVIOUS
    <3>2. QED
      BY <2>1, <2>2, <3>1
  <2>6. QED
    BY <2>3, <2>4, <2>5
<1>5. Typing'
  BY <1>2 DEF Vote, Typing
<1>6. Frame(r)
  BY <1>2, <1>4 DEF Vote, Frame, Typing, Ended
<1>7. CallCount(r)'
  BY <1>3, <1>4 DEF CallCount
<1>8. CallOrder(r)'
  BY <1>2, <1>3, <1>4, OneMoreCall DEF Local
<1>9. Ballot(r)'
  <2>1. (calls'[r][Len(calls'[r])].value = TRUE) <=> comm[r] = "enabled"
    BY <1>2
  <2>2. QED
    BY <1>3, <1>4, <2>1 DEF Ballot
<1>10. Holdings(r)'
  BY <1>3 DEF Vote, Local, Holdings, Prepared, Clean
<1>11. QED
  BY <1>5, <1>6, <1>7, <1>8, <1>9, <1>10 DEF Local

(* The vote of all decides whether the rank keeps what it holds.            *)
LEMMA DecideLocal ==
    ASSUME Typing, NEW r \in Ranks, Local(r), Decide(r)
    PROVE  Typing' /\ Frame(r) /\ Local(r)'
<1> USE DEF Decide
<1>1. step'[r] = "built" /\ calls' = calls /\ plan' = plan
  BY DEF Typing
<1>2. CASE AllAvailable(r)
  <2>1. memory' = memory /\ opened' = opened /\ comm' = comm
    BY <1>2
  <2>2. Typing' /\ Frame(r)
    BY <2>1 DEF Typing, Frame, Ended
  <2>3. CallCount(r)' /\ CallOrder(r)' /\ Ballot(r)'
    BY <1>1, <2>1 DEF Local, CallCount, CallOrder, Ballot, Voted
  <2>4. Holdings(r)'
    BY <1>1, <2>1 DEF Local, Holdings, Voted, Prepared, Clean
  <2>5. QED
    BY <2>2, <2>3, <2>4 DEF Local
<1>3. CASE ~ AllAvailable(r)
  <2>1. Release(r) /\ comm' = [comm EXCEPT ![r] = "none"]
    BY <1>3
  <2>2. Typing' /\ Frame(r) /\ Clean(r)'
    BY <2>1, ReleaseFacts DEF Typing, Frame, Ended
  <2>3. comm'[r] = "none"
    BY <2>1 DEF Typing
  <2>4. CallCount(r)' /\ CallOrder(r)' /\ Ballot(r)'
    BY <1>1, <2>3 DEF Local, CallCount, CallOrder, Ballot, Voted
  <2>5. Holdings(r)'
    BY <1>1, <2>2, <2>3 DEF Holdings, Voted
  <2>6. QED
    BY <2>2, <2>4, <2>5 DEF Local
<1>4. QED
  BY <1>2, <1>3

(* Every step of r keeps what r's own state says of r, and the frame.       *)
LEMMA LocalStep ==
    ASSUME Typing, NEW r \in Ranks, Local(r), Construct(r) \/ Fail(r) \/ Timeout(r)
    PROVE  Typing' /\ Frame(r) /\ Local(r)'
<1>1. CASE Exchange(r)
  <2>1. /\ step' = [step EXCEPT ![r] = "open"]
        /\ UNCHANGED <<buffer, plan, calls, memory, opened, comm, faults>>
        /\ step[r] = "exchange"
    BY <1>1 DEF Exchange
  <2>2. Typing'
    BY <2>1 DEF Typing
  <2>3. Frame(r)
    BY <2>1 DEF Typing, Frame, Ended
  <2>4. step'[r] = "open"
    BY <2>1 DEF Typing
  <2>5. CallCount(r)' /\ CallOrder(r)' /\ Ballot(r)'
    BY <2>1, <2>4 DEF Local, CallCount, CallOrder, Ballot, Voted
  <2>6. Holdings(r)'
    BY <2>1, <2>4 DEF Local, Holdings, Voted
  <2>7. QED
    BY <2>2, <2>3, <2>5, <2>6 DEF Local
<1>2. CASE Compile(r)
  BY <1>2 DEF Compile, Typing, Frame, Ended, Local, CallCount, CallOrder, Ballot,
              Holdings, Voted, Prepared
<1>3. CASE Register(r)
  BY <1>3 DEF Register, Typing, Frame, Ended, Local, CallCount, CallOrder, Ballot,
              Holdings, Voted, Prepared
<1>4. CASE FailBegin(r) \/ FailAllocate(r) \/ FailCompile(r) \/ FailRegister(r)
  <2>1. faults' \in 0 .. MaxFaults
    BY <1>4, FaultsAssumption
    DEF FailBegin, FailAllocate, FailCompile, FailRegister, Fault, Typing
  <2>2. QED
    BY <1>4, <2>1, RaiseBeforeVote DEF FailBegin, FailAllocate, FailCompile, FailRegister
<1>5. CASE FailOpen(r)
  <2>1. faults' \in 0 .. MaxFaults
    BY <1>5, FaultsAssumption DEF FailOpen, Fault, Typing
  <2>2. QED
    BY <1>5, <2>1, RaiseBeforeVote DEF FailOpen
<1>6. CASE Timeout(r)
  <2>1. faults' \in 0 .. MaxFaults
    BY <1>6 DEF Timeout, Typing
  <2>2. QED
    BY <1>6, <2>1, RaiseBeforeVote, RaiseInVoteLocal DEF Timeout
<1>7. QED
  BY <1>1, <1>2, <1>3, <1>4, <1>5, <1>6, BeginConsensusLocal, EndConsensusLocal,
     AllocateLocal, OpenLocal, BufferMadeLocal, VoteLocal, DecideLocal
     DEF Construct, Fail

-----------------------------------------------------------------------------
(* What a step of one rank leaves true of all of them.                      *)

(* A step of one rank leaves what the others' own state says of them.       *)
LEMMA OthersLocal ==
    ASSUME NEW r \in Ranks, Frame(r), NEW q \in Ranks \ {r}, Local(q)
    PROVE  Local(q)'
  BY DEF Frame, Local, CallCount, CallOrder, Ballot, Holdings, Prepared, Clean, Voted

(* Calls are never taken back, and a rank that has ended is done.           *)
LEMMA CallsGrow ==
    ASSUME Typing, Typing', NEW r \in Ranks, Frame(r), NEW q \in Ranks
    PROVE  /\ Len(calls[q]) \in Nat
           /\ Len(calls'[q]) \in Nat
           /\ Len(calls'[q]) >= Len(calls[q])
           /\ \A n \in 1 .. Len(calls[q]) : calls'[q][n] = calls[q][n]
           /\ Ended(q) => /\ step'[q] = step[q]
                          /\ comm'[q] = comm[q]
                          /\ calls'[q] = calls[q]
<1>1. Len(calls[q]) \in Nat /\ Len(calls'[q]) \in Nat
  BY DEF Typing
<1>2. CASE q = r
  BY <1>1, <1>2 DEF Frame
<1>3. CASE q # r
  BY <1>1, <1>3 DEF Frame
<1>4. QED
  BY <1>2, <1>3

(* A completed call stays completed with the same contributions, and a      *)
(* stuck one stays stuck.                                                   *)
LEMMA CallsStand ==
    ASSUME Typing, Typing', NEW r \in Ranks, Frame(r), NEW q \in Ranks,
           calls'[q] = calls[q], Len(calls[q]) >= 1
    PROVE  /\ Completed(q) => Completed(q)' /\ (AllAvailable(q)' <=> AllAvailable(q))
           /\ Stuck(q) => Stuck(q)'
<1> DEFINE n == Len(calls[q])
<1>1. /\ n \in Nat /\ n >= 1
      /\ Len(calls'[q]) = n
      /\ calls'[q][n] = calls[q][n]
  BY DEF Typing
<1>2. ASSUME NEW p \in Ranks, Len(calls[p]) >= n
      PROVE  Len(calls'[p]) >= n /\ calls'[p][n] = calls[p][n]
  <2>1. n \in 1 .. Len(calls[p])
    BY <1>1, <1>2, CallsGrow
  <2>2. QED
    BY <1>1, <1>2, <2>1, CallsGrow
<1> HIDE DEF n
<1>3. ASSUME Completed(q)
      PROVE  Completed(q)' /\ (AllAvailable(q)' <=> AllAvailable(q))
  <2>1. \A p \in Ranks : Len(calls[p]) >= n /\ calls[p][n].kind = calls[q][n].kind
    BY <1>3 DEF Completed, SameCall, n
  <2>2. \A p \in Ranks : Len(calls'[p]) >= n /\ calls'[p][n] = calls[p][n]
    BY <1>2, <2>1
  <2>3. \A p \in Ranks : Len(calls'[p]) >= n /\ calls'[p][n].kind = calls'[q][n].kind
    BY <1>1, <2>1, <2>2
  <2>4. Completed(q)'
    BY <1>1, <2>3 DEF Completed, SameCall
  <2>5. Contributions(q)' = Contributions(q)
    BY <1>1, <2>2 DEF Contributions, n
  <2>6. QED
    BY <2>4, <2>5 DEF AllAvailable
<1>4. ASSUME Stuck(q) PROVE Stuck(q)'
  <2>1. PICK p \in Ranks :
            \/ Len(calls[p]) >= n /\ calls[p][n].kind # calls[q][n].kind
            \/ Len(calls[p]) < n /\ Ended(p)
    BY <1>4 DEF Stuck, SameCall, n
  <2>2. CASE Len(calls[p]) >= n /\ calls[p][n].kind # calls[q][n].kind
    BY <1>1, <1>2, <2>2 DEF Stuck, SameCall
  <2>3. CASE Len(calls[p]) < n /\ Ended(p)
    <3>1. calls'[p] = calls[p] /\ Ended(p)'
      BY <2>3, CallsGrow DEF Ended
    <3>2. QED
      BY <1>1, <2>3, <3>1 DEF Stuck
  <2>4. QED
    BY <2>1, <2>2, <2>3
<1>5. QED
  BY <1>3, <1>4

(* Ranks that completed their consensus with one plan have the same plan.   *)
LEMMA ConsensusPlans ==
    ASSUME IInv, NEW r \in Ranks, step[r] = "consensus", Completed(r), SamePlans(r)
    PROVE  \A q \in Ranks : plan[q] = plan[r]
<1>1. Len(calls[r]) = 1
  BY DEF IInv, Local, CallCount
<1>2. ASSUME NEW q \in Ranks PROVE plan[q] = plan[r]
  <2>1. Len(calls[q]) >= 1
    BY <1>1 DEF Completed
  <2>2. calls[q][1].value = plan[q]
    <3>1. calls[r][1].kind = "plan" /\ 1 \in 1 .. Len(calls[r])
      BY <1>1 DEF IInv, Local, CallOrder, Voted
    <3>2. calls[q][1].kind = "plan" /\ 1 \in 1 .. Len(calls[q])
      BY <1>1, <2>1, <3>1 DEF Completed, SameCall, IInv, Typing
    <3>3. QED
      BY <3>2 DEF IInv, Local, CallOrder
  <2>3. calls[q][1].value \in Contributions(r)
    BY <1>1 DEF Contributions
  <2>4. QED
    BY <2>2, <2>3 DEF SamePlans
<1>3. QED
  BY <1>2

(* Who is past the consensus has seen the plans of all, and they stay.      *)
LEMMA PlansAgreedStep ==
    ASSUME IInv, Typing', NEW r \in Ranks, Frame(r),
           Construct(r) \/ Fail(r) \/ Timeout(r),
           NEW q \in Ranks
    PROVE  PlansAgreed(q)'
<1>1. CASE q # r
  BY <1>1 DEF IInv, PlansAgreed, Frame
<1>2. CASE q = r
  <2>1. SUFFICES ASSUME \/ step'[r] \in {"allocate", "exchange", "open", "compile", "register"}
                        \/ comm'[r] = "enabled"
                 PROVE  \A p \in Ranks : plan[p] = plan[r]
    BY <1>2 DEF PlansAgreed, Frame
  <2>2. CASE EndConsensus(r) /\ SamePlans(r)
    BY <2>2, ConsensusPlans DEF EndConsensus
  <2>3. CASE ~ (EndConsensus(r) /\ SamePlans(r))
    <3>1. \/ step[r] \in {"allocate", "exchange", "open", "compile", "register"}
          \/ comm[r] = "enabled"
      BY <2>1, <2>3 DEF Construct, Fail, Timeout, RaiseGuarded, RaiseUnguarded, RaiseInVote,
         BeginConsensus, EndConsensus, Allocate, Exchange, Open, BufferMade, Compile, Register,
         Vote, Decide, FailBegin, FailAllocate, FailOpen, FailCompile, FailRegister, IInv, Typing
    <3>2. QED
      BY <3>1 DEF IInv, PlansAgreed
  <2>4. QED
    BY <2>2, <2>3
<1>3. QED
  BY <1>1, <1>2

(* A rank that has ended had all the votes, or waited for one that never    *)
(* comes; neither changes afterwards.                                       *)
LEMMA OutcomeStep ==
    ASSUME IInv, Typing', NEW r \in Ranks, Frame(r),
           Construct(r) \/ Fail(r) \/ Timeout(r),
           NEW q \in Ranks
    PROVE  Outcome(q)'
<1> USE DEF IInv
<1>1. Voted(q) => Len(calls[q]) >= 1
  BY DEF Local, CallCount
<1>2. CASE Ended(q)
  <2>1. /\ step'[q] = step[q]
        /\ comm'[q] = comm[q]
        /\ calls'[q] = calls[q]
        /\ Len(calls[q]) >= 1
    BY <1>1, <1>2, CallsGrow DEF Ended, Voted
  <2>2. QED
    BY <2>1, CallsStand DEF Outcome
<1>3. CASE ~ Ended(q) /\ q # r
  BY <1>3 DEF Frame, Ended, Outcome
<1>4. CASE q = r /\ Decide(r)
  <2>1. /\ step'[r] = "built" /\ calls' = calls /\ Completed(r) /\ step[r] = "decide"
        /\ Len(calls[r]) >= 1
    BY <1>1, <1>4 DEF Decide, Typing, Voted
  <2>2. Completed(r)' /\ (AllAvailable(r)' <=> AllAvailable(r))
    BY <2>1, CallsStand
  <2>3. AllAvailable(r) => comm[r] = "enabled"
    <3>1. calls[r][Len(calls[r])].value \in Contributions(r)
      BY DEF Contributions
    <3>2. AllAvailable(r) => calls[r][Len(calls[r])].value = TRUE
      BY <3>1 DEF AllAvailable
    <3>3. QED
      BY <2>1, <3>2 DEF Local, Ballot, Voted
  <2>4. comm'[r] = "enabled" <=> AllAvailable(r)
    BY <1>4, <2>3 DEF Decide, Typing
  <2>5. QED
    BY <1>4, <2>1, <2>2, <2>4 DEF Outcome
<1>5. CASE q = r /\ step[r] = "decide" /\ Stuck(r) /\ RaiseInVote(r)
  <2>1. step'[r] = "raised" /\ calls' = calls /\ Len(calls[r]) >= 1
    BY <1>1, <1>5 DEF RaiseInVote, Typing, Voted
  <2>2. Stuck(r)'
    BY <1>5, <2>1, CallsStand
  <2>3. QED
    BY <1>5, <2>1, <2>2 DEF Outcome
<1>6. CASE q = r /\ step'[r] \notin {"built", "raised"}
  BY <1>6 DEF Outcome
<1>7. \/ Decide(r)
      \/ step[r] = "decide" /\ Stuck(r) /\ RaiseInVote(r)
      \/ step'[r] \notin {"built", "raised"}
  BY DEF Construct, Fail, Timeout, RaiseGuarded, RaiseUnguarded,
     BeginConsensus, EndConsensus, Allocate, Exchange, Open, BufferMade, Compile, Register,
     Vote, FailBegin, FailAllocate, FailOpen, FailCompile, FailRegister, Typing
<1>8. QED
  BY <1>2, <1>3, <1>4, <1>5, <1>6, <1>7

-----------------------------------------------------------------------------
(* The theorems.                                                            *)

(* At first no rank has called or holds anything.                           *)
LEMMA InitCorrect == Init => IInv
<1> SUFFICES ASSUME Init PROVE IInv
  OBVIOUS
<1> USE DEF Init
<1>1. Typing
  BY FaultsAssumption DEF Typing, Buffers
<1>2. \A r \in Ranks : step[r] = "begin" /\ comm[r] = "none" /\ calls[r] = <<>>
  OBVIOUS
<1>3. ASSUME NEW r \in Ranks PROVE Local(r) /\ PlansAgreed(r) /\ Outcome(r)
  <2>1. CallCount(r) /\ CallOrder(r) /\ Ballot(r)
    BY <1>2 DEF CallCount, CallOrder, Ballot, Voted
  <2>2. Holdings(r) /\ PlansAgreed(r) /\ Outcome(r)
    BY <1>2 DEF Holdings, PlansAgreed, Outcome, Voted
  <2>3. QED
    BY <2>1, <2>2 DEF Local
<1>4. QED
  BY <1>1, <1>3 DEF IInv

(* What every rank has called, holds and knows at each step of its          *)
(* constructor, in every reachable state.                                   *)
THEOREM Invariant == Spec => []IInv
<1>1. IInv /\ [Next]_vars => IInv'
  <2> SUFFICES ASSUME IInv, [Next]_vars PROVE IInv'
    OBVIOUS
  <2>1. CASE UNCHANGED vars
    <3>1. Typing'
      BY <2>1 DEF vars, IInv, Typing
    <3>2. \A r \in Ranks : Local(r)'
      BY <2>1 DEF vars, IInv, Local, CallCount, CallOrder, Ballot, Holdings, Prepared,
                  Clean, Voted
    <3>3. \A r \in Ranks : PlansAgreed(r)'
      BY <2>1 DEF vars, IInv, PlansAgreed
    <3>4. ASSUME NEW r \in Ranks PROVE Outcome(r)'
      <4>1. (Completed(r)' <=> Completed(r)) /\ (Stuck(r)' <=> Stuck(r))
        BY <2>1 DEF vars, Completed, SameCall, Stuck, Ended
      <4>2. AllAvailable(r)' <=> AllAvailable(r)
        BY <2>1 DEF vars, AllAvailable, Contributions
      <4>3. QED
        BY <2>1, <4>1, <4>2 DEF vars, IInv, Outcome
    <3>5. QED
      BY <3>1, <3>2, <3>3, <3>4 DEF IInv
  <2>2. ASSUME NEW r \in Ranks, Construct(r) \/ Fail(r) \/ Timeout(r) PROVE IInv'
    <3>1. Typing' /\ Frame(r) /\ Local(r)'
      BY <2>2, LocalStep DEF IInv
    <3>2. \A q \in Ranks : Local(q)'
      BY <3>1, OthersLocal DEF IInv
    <3>3. \A q \in Ranks : PlansAgreed(q)' /\ Outcome(q)'
      BY <2>2, <3>1, PlansAgreedStep, OutcomeStep
    <3>4. QED
      BY <3>1, <3>2, <3>3 DEF IInv
  <2>3. QED
    BY <2>1, <2>2 DEF Next
<1>2. QED
  BY <1>1, InitCorrect, PTL DEF Spec

(* Every variable keeps its type, and no rank enters more collectives than  *)
(* its constructor has.                                                     *)
THEOREM TypeCorrect == Spec => []TypeOK
<1>1. IInv => TypeOK
  <2> SUFFICES ASSUME IInv, NEW r \in Ranks
               PROVE  /\ Len(calls[r]) <= 4
                      /\ \A n \in 1 .. Len(calls[r]) :
                            calls[r][n].kind \in {"plan", "handles", "vote"}
    BY DEF IInv, Typing, TypeOK
  <2>1. CallCount(r) /\ CallOrder(r) /\ Typing
    BY DEF IInv, Local
  <2>2. Len(calls[r]) <= 4
    <3>1. PICK n \in Nat : n = Len(calls[r])
      BY <2>1 DEF Typing
    <3>2. n \in {0, 1, 3} \/ n \in 0 .. 3 \/ n \in 1 .. 4
      <4>1. CASE Voted(r)
        BY <2>1, <3>1, <4>1 DEF CallCount
      <4>2. CASE step[r] = "vote"
        BY <2>1, <3>1, <4>2 DEF CallCount
      <4>3. CASE step[r] \in {"begin", "consensus", "compile", "register"}
        BY <2>1, <3>1, <4>3 DEF CallCount
      <4>4. CASE step[r] \in {"allocate", "exchange", "open"}
        <5>1. buffer[r] \in {"meta", "data"}
          BY <2>1 DEF Typing, Buffers
        <5>2. \/ Len(calls[r]) = IF buffer[r] = "meta" THEN 1 ELSE 2
              \/ Len(calls[r]) = IF buffer[r] = "meta" THEN 2 ELSE 3
          BY <2>1, <4>4, <5>1 DEF CallCount
        <5>3. n = 1 \/ n = 2 \/ n = 3
          BY <3>1, <5>2
        <5>4. QED
          BY <5>3
      <4>5. QED
        BY <2>1, <4>1, <4>2, <4>3, <4>4 DEF Typing, Voted
    <3>3. n <= 4
      BY <3>2
    <3>4. QED
      BY <3>1, <3>3
  <2>3. ASSUME NEW n \in 1 .. Len(calls[r])
        PROVE  calls[r][n].kind \in {"plan", "handles", "vote"}
    BY <2>1 DEF CallOrder, Typing
  <2>4. QED
    BY <2>2, <2>3
<1>2. QED
  BY <1>1, Invariant, PTL

(* A rank that ends without the communicator has nothing left of it.        *)
THEOREM EndedRanksAreClean == Spec => []NothingLeaks
<1>1. IInv => NothingLeaks
  BY DEF IInv, Local, Holdings, Voted, Clean, NothingLeaks, Ended, Usable
<1>2. QED
  BY <1>1, Invariant, PTL

(* If one rank has the communicator, every rank has prepared and voted for  *)
(* it, with the same plan.                                                  *)
LEMMA UsableMeansAll ==
    ASSUME IInv, NEW r \in Ranks, Usable(r), NEW q \in Ranks
    PROVE  /\ Ended(q) => Usable(q)
           /\ Prepared(q)
           /\ plan[q] = plan[r]
<1> USE DEF IInv
<1>1. /\ step[r] = "built" /\ comm[r] = "enabled"
      /\ Completed(r) /\ AllAvailable(r)
  BY DEF Usable, Outcome
<1>2. /\ Len(calls[r]) = 4
      /\ calls[r][4].kind = "vote"
  BY <1>1 DEF Local, Ballot, CallOrder, Voted
<1>3. ASSUME NEW p \in Ranks
      PROVE  Len(calls[p]) = 4 /\ calls[p][4].kind = "vote" /\ calls[p][4].value = TRUE /\ Voted(p)
  <2>1. /\ Len(calls[p]) >= 4
        /\ calls[p][4].kind = "vote"
    BY <1>1, <1>2 DEF Completed, SameCall
  <2>2. Len(calls[p]) = 4 /\ Voted(p)
    <3>1. 4 \in 1 .. Len(calls[p])
      BY <2>1 DEF Typing
    <3>2. PICK n \in 1 .. Len(calls[p]) : n = 4
      BY <3>1
    <3>3. calls[p][n].kind = IF n = Len(calls[p]) /\ Voted(p) THEN "vote"
                             ELSE IF n = 1 THEN "plan" ELSE "handles"
      BY DEF Local, CallOrder
    <3>4. ASSUME ~ (n = Len(calls[p]) /\ Voted(p)) PROVE FALSE
      <4>1. calls[p][n].kind = "handles"
        BY <3>2, <3>3, <3>4
      <4>2. QED
        BY <2>1, <3>2, <4>1
    <3>5. QED
      BY <3>2, <3>4
  <2>3. calls[p][4].value \in Contributions(r)
    BY <1>2 DEF Contributions
  <2>4. QED
    BY <1>1, <2>1, <2>2, <2>3 DEF AllAvailable
<1>4. step[q] # "raised"
  <2> SUFFICES ASSUME Stuck(q) PROVE FALSE
    BY DEF Outcome
  <2>1. PICK p \in Ranks :
            \/ Len(calls[p]) >= 4 /\ ~ SameCall(q, p, 4)
            \/ Len(calls[p]) < 4
    BY <1>3 DEF Stuck
  <2>2. Len(calls[p]) = 4 /\ SameCall(q, p, 4)
    BY <1>3 DEF SameCall
  <2>3. QED
    BY <2>1, <2>2
<1>5. step[q] = "built" => comm[q] = "enabled"
  <2>1. Contributions(q) = {TRUE}
    BY <1>3 DEF Contributions
  <2>2. QED
    BY <2>1 DEF Outcome, AllAvailable
<1>6. step[q] = "decide" => comm[q] = "enabled"
  BY <1>3 DEF Local, Ballot
<1>7. step[q] \in {"decide", "built"} /\ comm[q] = "enabled"
  BY <1>3, <1>4, <1>5, <1>6 DEF Voted
<1>8. QED
  BY <1>1, <1>7 DEF Local, Holdings, Voted, Ended, Usable, PlansAgreed

(* The ranks never disagree on whether to use the custom kernels.           *)
THEOREM RanksAgree == Spec => []Agreement
<1>1. IInv => Agreement
  BY UsableMeansAll DEF Agreement
<1>2. QED
  BY <1>1, Invariant, PTL

(* A rank that may launch kernels has every peer's buffers, all still       *)
(* allocated, and the plan of all.                                          *)
THEOREM MappingsAreUsable == Spec => []UsableMappings
<1>1. IInv => UsableMappings
  BY UsableMeansAll DEF UsableMappings, Prepared
<1>2. QED
  BY <1>1, Invariant, PTL
=============================================================================
