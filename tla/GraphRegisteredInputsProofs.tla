--------------------- MODULE GraphRegisteredInputsProofs --------------------
(* For any number of ranks, any captures and any faults: the rows lead to   *)
(* live tensors, of the same call as far as the counts can tell.            *)
EXTENDS GraphRegisteredInputs, FiniteSetTheorems, TLAPS

-----------------------------------------------------------------------------
(* The inductive invariant.  A rank that has raised is of no interest any   *)
(* more.  The others' exchanges pair up by their number; what a rank reads  *)
(* of a peer's broadcast must be about the slots its own tensors get, also  *)
(* when the peer is an exchange ahead.                                      *)

Tensor == [call : Nat \X Nat, base : Bases, off : Offsets]
Address == (Bases \X Nat) \X Offsets

Active(r) == phase[r] # "raised"

(* the rank has made its broadcast of the exchange it is in *)
Open(r) == turn[r] > r

(* the exchanges the rank has completed *)
Closed(r) == Len(posted[r]) - (IF Open(r) THEN 1 ELSE 0)

Where(r, t) == <<LiveHandle(r, t.base), t.off>>

(* the captures up to k of which the rank has registered calls *)
Registrations(r, k) == {j \in 1 .. k : CapturedCalls(r, j) # {}}

(* Slot s of rank r is the i-th of n of its x-th registration.              *)
Numbered(r, s, x, i, n) ==
    LET call == graphs[r][s].call
    IN  /\ Cardinality(Registrations(r, call[1])) = x
        /\ Cardinality({c \in CapturedCalls(r, call[1]) : c <= call[2]}) = i
        /\ Cardinality(CapturedCalls(r, call[1])) = n

Typing ==
    /\ plan \in CapturePlans
    /\ phase \in [Ranks -> {"idle", "body", "gather", "raised"}]
    /\ done \in [Ranks -> 0 .. Len(plan)]
    /\ work \in [Ranks -> Seq({"small", "large"})]
    /\ turn \in [Ranks -> 0 .. NRanks]
    /\ segment \in [Ranks -> [Bases -> Nat]]
    /\ pending \in [Ranks -> Seq(Tensor)]
    /\ graphs \in [Ranks -> Seq(Tensor)]
    /\ rows \in [Ranks -> Seq([Ranks -> Address])]
    /\ posted \in [Ranks -> Seq(Seq(Address))]
    /\ refs \in [Ranks -> SUBSET Tensor]
    /\ handles = [r \in Ranks |-> handles[r]]

(* The pending tensors are the last of those captured.                      *)
Pending(r) ==
    /\ phase[r] = "idle" => pending[r] = <<>>
    /\ phase[r] = "gather" => pending[r] # <<>>
    /\ phase[r] # "gather" => turn[r] = 0
    /\ phase[r] # "idle" => done[r] < Len(plan)
    /\ Len(graphs[r]) = Len(rows[r]) + Len(pending[r])
    /\ \A i \in DOMAIN pending[r] : pending[r][i] = graphs[r][Len(rows[r]) + i]

(* The calls still to come are the rest of the capture, and those captured  *)
(* are registered ones, in order.                                           *)
Calls(r) ==
    /\ phase[r] = "body" =>
          LET calls == plan[done[r] + 1].calls
          IN  /\ Len(work[r]) <= Len(calls)
              /\ \A i \in DOMAIN work[r] :
                    work[r][i] = calls[Len(calls) - Len(work[r]) + i]
              /\ \A i \in DOMAIN pending[r] :
                    pending[r][i].call[2] <= Len(calls) - Len(work[r])
    /\ \A s \in DOMAIN graphs[r] :
          LET call == graphs[r][s].call
          IN  /\ call[1] \in 1 .. Len(plan) /\ call[2] \in RegisteredCalls(call[1])
              /\ IF s <= Len(rows[r]) THEN call[1] <= done[r] ELSE call[1] = done[r] + 1

Numbers(r) ==
    /\ Cardinality(Registrations(r, done[r])) = Closed(r)
    /\ \A i \in DOMAIN pending[r] :
          Numbered(r, Len(rows[r]) + i, Closed(r) + 1, i, Len(pending[r]))

(* What is kept and what is exported is alive, and what has been sent is    *)
(* where the tensors are.                                                   *)
Memory(r) ==
    /\ \A s \in 1 .. Len(rows[r]) : graphs[r][s] \in refs[r]
    /\ \A b \in DOMAIN handles[r] :
          handles[r][b] = LiveHandle(r, b) /\ \E t \in Kept(r) : t.base = b
    /\ phase[r] = "gather" =>
          \A i \in DOMAIN pending[r] : pending[r][i].base \in DOMAIN handles[r]

Exchange(r) ==
    /\ Open(r) => posted[r] # <<>> /\ posted[r][Len(posted[r])] = LocalMeta(r)
    /\ \A q \in Ranks : q < turn[r] => Len(posted[q]) > Closed(r)

(* An exchange apart at most; then the one behind has sent its tensors.     *)
InStep(r, q) ==
    /\ Closed(q) <= Closed(r) + 1
    /\ Closed(q) = Closed(r) => Len(rows[q]) = Len(rows[r])
    /\ Closed(q) = Closed(r) + 1 =>
          /\ Open(r)
          /\ Len(rows[q]) = Len(rows[r]) + Len(pending[r])
          /\ Len(posted[q][Closed(q)]) = Len(pending[r])

(* What q sends in the exchange r is at, or will be at next.                *)
NextOf(r, q) ==
    LET x == Closed(r) + 1
    IN  x <= Len(posted[q]) =>
            \A i \in DOMAIN posted[q][x] :
                LET s == Len(rows[r]) + i
                IN  /\ s \in DOMAIN graphs[q]
                    /\ posted[q][x][i] = Where(q, graphs[q][s])
                    /\ Numbered(q, s, x, i, Len(posted[q][x]))

Matched(r, q) ==
    \A s \in DOMAIN rows[r] :
        /\ s \in DOMAIN graphs[q]
        /\ rows[r][s][q] = Where(q, graphs[q][s])
        /\ \E x, i, n \in Nat : Numbered(r, s, x, i, n) /\ Numbered(q, s, x, i, n)

RankInv(r) == Pending(r) /\ Calls(r) /\ Numbers(r) /\ Memory(r) /\ Exchange(r)

PairInv(r, q) == InStep(r, q) /\ NextOf(r, q) /\ Matched(r, q)

IInv ==
    /\ Typing
    /\ \A r \in Ranks : Active(r) => RankInv(r)
    /\ \A r, q \in Ranks : Active(r) /\ Active(q) => PairInv(r, q)

-----------------------------------------------------------------------------
(* What a step leaves alone.                                                *)

(* what other ranks' invariants see of rank q *)
SameShared(q) ==
    /\ turn'[q] = turn[q] /\ segment'[q] = segment[q] /\ pending'[q] = pending[q]
    /\ graphs'[q] = graphs[q] /\ rows'[q] = rows[q] /\ posted'[q] = posted[q]

SameRank(q) ==
    /\ SameShared(q)
    /\ phase'[q] = phase[q] /\ done'[q] = done[q] /\ work'[q] = work[q]
    /\ refs'[q] = refs[q] /\ handles'[q] = handles[q]

(* The numbering of a rank's slots depends on what it has captured.         *)
LEMMA NumberedSame ==
    ASSUME NEW q, graphs'[q] = graphs[q]
    PROVE  /\ \A k : CapturedCalls(q, k)' = CapturedCalls(q, k)
           /\ \A k : Registrations(q, k)' = Registrations(q, k)
           /\ \A s, x, i, n : Numbered(q, s, x, i, n)' <=> Numbered(q, s, x, i, n)
<1>1. \A k : CapturedCalls(q, k)' = CapturedCalls(q, k)
  BY DEF CapturedCalls
<1>2. \A k : Registrations(q, k)' = Registrations(q, k)
  BY <1>1 DEF Registrations
<1>3. \A s, x, i, n : Numbered(q, s, x, i, n)' <=> Numbered(q, s, x, i, n)
  <2> SUFFICES ASSUME NEW s, NEW x, NEW i, NEW n
               PROVE  Numbered(q, s, x, i, n)' <=> Numbered(q, s, x, i, n)
    OBVIOUS
  <2>1. graphs'[q][s].call = graphs[q][s].call
    OBVIOUS
  <2>2. QED
    BY <1>1, <1>2, <2>1 DEF Numbered
<1>4. QED
  BY <1>1, <1>2, <1>3

(* A rank that does nothing keeps its invariant.                            *)
LEMMA RankSame ==
    ASSUME NEW q \in Ranks, RankInv(q), SameRank(q), plan' = plan,
           \A p \in Ranks : /\ Len(posted[p]) \in Nat /\ Len(posted'[p]) \in Nat
                            /\ Len(posted'[p]) >= Len(posted[p])
    PROVE  RankInv(q)'
<1> USE DEF SameRank, SameShared
<1>1. Open(q)' = Open(q) /\ Closed(q)' = Closed(q)
  BY DEF Open, Closed
<1>2. Pending(q)'
  BY DEF RankInv, Pending
<1>3. Calls(q)'
  BY DEF RankInv, Calls, RegisteredCalls
<1>4. Numbers(q)'
  BY <1>1, NumberedSame DEF RankInv, Numbers
<1>5. Memory(q)'
  BY DEF RankInv, Memory, LiveHandle, Kept
<1>6. Exchange(q)'
  <2>1. LocalMeta(q)' = LocalMeta(q)
    BY DEF LocalMeta
  <2>2. Open(q)' => posted'[q] # <<>> /\ posted'[q][Len(posted'[q])] = LocalMeta(q)'
    BY <1>1, <2>1 DEF RankInv, Exchange
  <2>3. Closed(q) \in Int
    BY DEF Closed
  <2>4. ASSUME NEW p \in Ranks, p < turn'[q] PROVE Len(posted'[p]) > Closed(q)'
    <3>1. Len(posted[p]) > Closed(q)
      BY <2>4 DEF RankInv, Exchange
    <3>2. QED
      BY <1>1, <2>3, <3>1
  <2>5. QED
    BY <2>2, <2>4 DEF Exchange
<1>7. QED
  BY <1>2, <1>3, <1>4, <1>5, <1>6 DEF RankInv

(* Nor do two ranks disturb what holds between them if neither captures,    *)
(* sends or registers.                                                      *)
LEMMA PairSame ==
    ASSUME NEW r \in Ranks, NEW q \in Ranks, PairInv(r, q), SameShared(r), SameShared(q)
    PROVE  PairInv(r, q)'
<1> USE DEF SameShared
<1>1. /\ Open(r)' = Open(r) /\ Closed(r)' = Closed(r) /\ Closed(q)' = Closed(q)
  BY DEF Open, Closed
<1>2. \A t : Where(q, t)' = Where(q, t)
  BY DEF Where, LiveHandle
<1>3. InStep(r, q)'
  BY <1>1 DEF PairInv, InStep
<1>4. NextOf(r, q)'
  BY <1>1, <1>2, NumberedSame DEF PairInv, NextOf
<1>5. Matched(r, q)'
  BY <1>2, NumberedSame DEF PairInv, Matched
<1>6. QED
  BY <1>3, <1>4, <1>5 DEF PairInv

(* So a step of rank r is a matter of r, and of r and any other rank.       *)
LEMMA StepOf ==
    ASSUME IInv, NEW r \in Ranks, plan' = plan, Typing',
           \A q \in Ranks \ {r} : SameRank(q),
           Len(posted'[r]) >= Len(posted[r]),
           Active(r)' => RankInv(r)',
           Active(r)' => \A q \in Ranks : Active(q)' => PairInv(r, q)' /\ PairInv(q, r)'
    PROVE  IInv'
<1>1. \A p \in Ranks : /\ Len(posted[p]) \in Nat /\ Len(posted'[p]) \in Nat
                       /\ Len(posted'[p]) >= Len(posted[p])
  <2>1. \A p \in Ranks : Len(posted[p]) \in Nat /\ Len(posted'[p]) \in Nat
    <3>1. /\ posted \in [Ranks -> Seq(Seq(Address))]
          /\ posted' \in [Ranks -> Seq(Seq(Address))]
      BY DEF IInv, Typing
    <3>2. QED
      BY <3>1
  <2>2. \A p \in Ranks \ {r} : posted'[p] = posted[p]
    BY DEF SameRank, SameShared
  <2>3. QED
    BY <2>1, <2>2
<1>2. \A q \in Ranks \ {r} : Active(q)' <=> Active(q)
  BY DEF Active, SameRank
<1>3. ASSUME NEW q \in Ranks, Active(q)' PROVE RankInv(q)'
  <2>1. CASE q = r
    BY <1>3, <2>1
  <2>2. CASE q # r
    <3>1. RankInv(q) /\ SameRank(q)
      BY <1>2, <1>3, <2>2 DEF IInv
    <3>2. QED
      BY <1>1, <3>1, RankSame
  <2>3. QED
    BY <2>1, <2>2
<1>4. ASSUME NEW p \in Ranks, NEW q \in Ranks, Active(p)', Active(q)' PROVE PairInv(p, q)'
  <2>1. CASE p = r \/ q = r
    BY <1>4, <2>1
  <2>2. CASE p # r /\ q # r
    <3>1. PairInv(p, q)
      BY <1>2, <1>4, <2>2 DEF IInv
    <3>2. QED
      BY <2>2, <3>1, PairSame DEF SameRank
  <2>3. QED
    BY <2>1, <2>2
<1>5. QED
  BY <1>3, <1>4 DEF IInv

(* And if the others see nothing of the step, of r alone.                   *)
LEMMA QuietStepOf ==
    ASSUME IInv, NEW r \in Ranks, Active(r), plan' = plan, Typing',
           \A q \in Ranks \ {r} : SameRank(q), SameShared(r),
           Active(r)' => RankInv(r)'
    PROVE  IInv'
<1>1. \A q \in Ranks \ {r} : Active(q)' <=> Active(q)
  BY DEF Active, SameRank
<1>2. ASSUME NEW q \in Ranks, Active(q)'
      PROVE  PairInv(r, q)' /\ PairInv(q, r)'
  <2>1. Active(q)
    BY <1>1, <1>2
  <2>2. PairInv(r, q) /\ PairInv(q, r) /\ SameShared(q)
    BY <2>1 DEF IInv, SameRank
  <2>3. QED
    BY <2>2, PairSame
<1>3. Len(posted'[r]) >= Len(posted[r])
  <2>1. posted'[r] = posted[r] /\ Len(posted[r]) \in Nat
    BY DEF SameShared, IInv, Typing
  <2>2. QED
    BY <2>1
<1>4. QED
  BY <1>2, <1>3, StepOf

(* The parts of a tensor's description.                                     *)
LEMMA TensorParts ==
    ASSUME NEW t \in Tensor
    PROVE  /\ t.call \in Nat \X Nat /\ t.call[1] \in Nat /\ t.call[2] \in Nat
           /\ t.base \in Bases /\ t.off \in Offsets
BY DEF Tensor

(* The types of what a rank has.                                            *)
LEMMA Types ==
    ASSUME Typing, NEW r \in Ranks
    PROVE  /\ phase[r] \in {"idle", "body", "gather", "raised"}
           /\ done[r] \in Nat /\ Len(plan) \in Nat /\ done[r] <= Len(plan)
           /\ turn[r] \in Nat /\ r \in Nat
           /\ work[r] \in Seq({"small", "large"})
           /\ pending[r] \in Seq(Tensor) /\ graphs[r] \in Seq(Tensor)
           /\ rows[r] \in Seq([Ranks -> Address]) /\ posted[r] \in Seq(Seq(Address))
           /\ \A i \in DOMAIN pending[r] : pending[r][i] \in Tensor
           /\ \A s \in DOMAIN graphs[r] : graphs[r][s] \in Tensor
           /\ \A k \in 1 .. Len(plan) : plan[k].calls \in Seq({"small", "large"})
<1>1. plan \in Seq(Capture)
  BY CaptureAssumption DEF Typing
<1>2. Len(plan) \in Nat /\ \A k \in 1 .. Len(plan) : plan[k] \in Capture
  BY <1>1
<1>3. done[r] \in 0 .. Len(plan) /\ turn[r] \in 0 .. NRanks
  BY DEF Typing
<1>4. r \in Nat /\ NRanks \in Nat
  BY CaptureAssumption DEF Ranks
<1>5. /\ pending[r] \in Seq(Tensor) /\ graphs[r] \in Seq(Tensor)
      /\ rows[r] \in Seq([Ranks -> Address]) /\ posted[r] \in Seq(Seq(Address))
  BY DEF Typing
<1>6. QED
  BY <1>2, <1>3, <1>4, <1>5 DEF Typing, Capture

(* The counts of an active rank.                                            *)
LEMMA Counts ==
    ASSUME IInv, NEW r \in Ranks, Active(r)
    PROVE  /\ Len(posted[r]) \in Nat /\ Closed(r) \in Nat
           /\ Len(posted[r]) = Closed(r) + (IF Open(r) THEN 1 ELSE 0)
           /\ Round(r) = Closed(r) + 1
           /\ Len(rows[r]) \in Nat /\ Len(pending[r]) \in Nat
           /\ Len(graphs[r]) = Len(rows[r]) + Len(pending[r])
           /\ DOMAIN rows[r] = 1 .. Len(rows[r])
           /\ DOMAIN pending[r] = 1 .. Len(pending[r])
           /\ DOMAIN graphs[r] = 1 .. Len(graphs[r])
           /\ Open(r) => phase[r] = "gather"
<1>1. Typing /\ RankInv(r)
  BY DEF IInv
<1>2. /\ pending[r] \in Seq(Tensor) /\ graphs[r] \in Seq(Tensor)
      /\ rows[r] \in Seq([Ranks -> Address]) /\ posted[r] \in Seq(Seq(Address))
      /\ turn[r] \in Nat /\ r \in Nat
  BY <1>1, Types
<1>3. Len(posted[r]) \in Nat
  BY <1>2
<1>4. Open(r) => Len(posted[r]) # 0
  BY <1>1, <1>2 DEF RankInv, Exchange
<1>5. Closed(r) \in Nat /\ Len(posted[r]) = Closed(r) + (IF Open(r) THEN 1 ELSE 0)
  BY <1>3, <1>4 DEF Closed
<1>6. Round(r) = Closed(r) + 1
  <2>1. CASE turn[r] > r
    <3>1. Round(r) = Len(posted[r]) + 0 /\ Closed(r) = Len(posted[r]) - 1
      BY <2>1 DEF Round, Closed, Open
    <3>2. QED
      BY <1>3, <3>1
  <2>2. CASE ~ turn[r] > r
    <3>1. Round(r) = Len(posted[r]) + 1 /\ Closed(r) = Len(posted[r]) - 0
      BY <2>2 DEF Round, Closed, Open
    <3>2. QED
      BY <1>3, <3>1
  <2>3. QED
    BY <2>1, <2>2
<1>7. Open(r) => phase[r] = "gather"
  BY <1>1, <1>2 DEF Open, RankInv, Pending
<1>8. Len(graphs[r]) = Len(rows[r]) + Len(pending[r])
  BY <1>1 DEF RankInv, Pending
<1>9. /\ Len(rows[r]) \in Nat /\ DOMAIN rows[r] = 1 .. Len(rows[r])
      /\ Len(pending[r]) \in Nat /\ DOMAIN pending[r] = 1 .. Len(pending[r])
      /\ DOMAIN graphs[r] = 1 .. Len(graphs[r])
  BY <1>2
<1>10. QED
  BY <1>3, <1>5, <1>6, <1>7, <1>8, <1>9

-----------------------------------------------------------------------------
(* The steps that no other rank sees.                                       *)

(* A rank that raises takes no part any more.                               *)
LEMMA RaiseCorrect ==
    ASSUME IInv, NEW r \in Ranks, Raise(r),
           UNCHANGED <<plan, segment, registry, graphs, exchange>>
    PROVE  IInv'
<1> USE DEF registry, exchange
<1>1. Typing
  BY DEF IInv
<1>2. Typing'
  BY <1>1 DEF Typing, Raise
<1>3. \A q \in Ranks \ {r} : SameRank(q)
  BY <1>1 DEF Typing, Raise, SameRank, SameShared
<1>4. ~ Active(r)'
  BY <1>1 DEF Typing, Raise, Active
<1>5. Len(posted'[r]) >= Len(posted[r])
  <2>1. posted' = posted /\ posted[r] \in Seq(Seq(Address))
    BY <1>1, Types
  <2>2. QED
    BY <2>1
<1>6. QED
  BY <1>2, <1>3, <1>4, <1>5, StepOf

(* A capture begins.                                                        *)
LEMMA EnterCaptureCorrect ==
    ASSUME IInv, NEW r \in Ranks, EnterCapture(r)
    PROVE  IInv'
<1> USE DEF registry, exchange
<1>1. Typing /\ Active(r) /\ RankInv(r)
  BY DEF IInv, EnterCapture, Active
<1>2. /\ phase' = [phase EXCEPT ![r] = "body"] /\ phase[r] = "idle"
      /\ work' = [work EXCEPT ![r] = plan[done[r] + 1].calls]
      /\ UNCHANGED <<plan, done, segment, pending, refs, rows, handles, graphs, turn, posted>>
  BY DEF EnterCapture
<1>3. /\ done[r] < Len(plan) /\ done[r] \in Nat /\ Len(plan) \in Nat
      /\ plan[done[r] + 1].calls \in Seq({"small", "large"})
  BY <1>1, Types DEF EnterCapture
<1>4. Typing'
  BY <1>1, <1>2, <1>3 DEF Typing
<1>5. \A q \in Ranks \ {r} : SameRank(q)
  BY <1>1, <1>2 DEF Typing, SameRank, SameShared
<1>6. SameShared(r)
  BY <1>2 DEF SameShared
<1>7. RankInv(r)'
  <2>1. phase'[r] = "body" /\ work'[r] = plan[done[r] + 1].calls
    BY <1>1, <1>2 DEF Typing
  <2>2. pending[r] = <<>> /\ turn[r] = 0
    BY <1>1, <1>2 DEF RankInv, Pending
  <2>3. Pending(r)'
    BY <1>1, <1>2, <1>3, <2>1, <2>2 DEF RankInv, Pending
  <2>4. Calls(r)'
    <3> DEFINE calls == plan[done[r] + 1].calls
    <3>1. Len(calls) \in Nat /\ work'[r] = calls
      BY <1>3, <2>1
    <3>2. /\ Len(work'[r]) <= Len(calls) /\ pending'[r] = <<>>
          /\ \A i \in DOMAIN work'[r] : work'[r][i] = calls[Len(calls) - Len(work'[r]) + i]
      <4> HIDE DEF calls
      <4>1. \A i \in 1 .. Len(calls) : Len(calls) - Len(calls) + i = i
        BY <3>1
      <4>2. DOMAIN calls = 1 .. Len(calls)
        BY <1>3 DEF calls
      <4>3. pending'[r] = <<>> /\ Len(work'[r]) <= Len(calls)
        BY <1>2, <2>2, <3>1
      <4>4. \A i \in DOMAIN work'[r] : work'[r][i] = calls[Len(calls) - Len(work'[r]) + i]
        BY <3>1, <4>1, <4>2
      <4>5. QED
        BY <4>3, <4>4
    <3>3. \A s \in DOMAIN graphs[r] :
              LET call == graphs[r][s].call
              IN  /\ call[1] \in 1 .. Len(plan) /\ call[2] \in RegisteredCalls(call[1])
                  /\ IF s <= Len(rows[r]) THEN call[1] <= done[r] ELSE call[1] = done[r] + 1
      BY <1>1 DEF RankInv, Calls
    <3>4. \A k : RegisteredCalls(k)' = RegisteredCalls(k)
      BY <1>2 DEF RegisteredCalls
    <3>5. /\ plan' = plan /\ done' = done /\ graphs' = graphs /\ rows' = rows
          /\ DOMAIN pending'[r] = {}
      BY <1>2, <3>2
    <3> HIDE DEF calls
    <3>6. QED
      BY <3>2, <3>3, <3>4, <3>5 DEF Calls, calls
  <2>5. Numbers(r)'
    BY <1>1, <1>2, NumberedSame DEF RankInv, Numbers, Closed, Open
  <2>6. Memory(r)'
    BY <1>1, <1>2, <2>1 DEF RankInv, Memory, LiveHandle, Kept
  <2>7. Exchange(r)'
    BY <1>1, <1>2 DEF RankInv, Exchange, Open, Closed, LocalMeta
  <2>8. QED
    BY <2>3, <2>4, <2>5, <2>6, <2>7 DEF RankInv
<1>8. QED
  BY <1>1, <1>2, <1>4, <1>5, <1>6, <1>7, QuietStepOf

(* A call passes that registers nothing: it is staged or missed.            *)
LEMMA PassCorrect ==
    ASSUME IInv, NEW r \in Ranks, InBody(r),
           work' = [work EXCEPT ![r] = Tail(@)],
           UNCHANGED <<plan, phase, done, segment, pending, registry, graphs, exchange>>
    PROVE  IInv'
<1> USE DEF registry, exchange
<1>1. Typing /\ Active(r) /\ RankInv(r) /\ phase[r] = "body" /\ work[r] # <<>>
  BY DEF IInv, InBody, Active
<1>2. work[r] \in Seq({"small", "large"})
  BY <1>1, Types
<1>3. /\ Tail(work[r]) \in Seq({"small", "large"})
      /\ Len(Tail(work[r])) = Len(work[r]) - 1 /\ Len(work[r]) \in Nat \ {0}
      /\ \A i \in 1 .. Len(work[r]) - 1 : Tail(work[r])[i] = work[r][i + 1]
      /\ DOMAIN work[r] = 1 .. Len(work[r])
      /\ DOMAIN Tail(work[r]) = 1 .. Len(work[r]) - 1
  BY <1>1, <1>2
<1>4. Typing' /\ work'[r] = Tail(work[r])
  BY <1>1, <1>3 DEF Typing
<1>5. \A q \in Ranks \ {r} : SameRank(q)
  BY <1>1 DEF Typing, SameRank, SameShared
<1>6. SameShared(r)
  BY DEF SameShared
<1>7. RankInv(r)'
  <2>1. Pending(r)'
    BY <1>1 DEF RankInv, Pending
  <2>2. Calls(r)'
    <3> DEFINE calls == plan[done[r] + 1].calls
               n == Len(calls)
               w == Len(work[r])
    <3>1. n \in Nat
      <4>1. done[r] \in Nat /\ Len(plan) \in Nat /\ done[r] < Len(plan)
        BY <1>1, Types DEF RankInv, Pending
      <4>2. calls \in Seq({"small", "large"})
        BY <1>1, <4>1, Types
      <4>3. QED
        BY <4>2
    <3>2. /\ w <= n
          /\ \A i \in DOMAIN work[r] : work[r][i] = calls[n - w + i]
          /\ \A i \in DOMAIN pending[r] : pending[r][i].call[2] <= n - w
          /\ \A s \in DOMAIN graphs[r] :
                LET call == graphs[r][s].call
                IN  /\ call[1] \in 1 .. Len(plan) /\ call[2] \in RegisteredCalls(call[1])
                    /\ IF s <= Len(rows[r]) THEN call[1] <= done[r] ELSE call[1] = done[r] + 1
      BY <1>1 DEF RankInv, Calls
    <3>3. \A i \in DOMAIN pending[r] : pending[r][i].call[2] \in Nat
      <4>1. \A i \in DOMAIN pending[r] : pending[r][i] \in Tensor
        BY <1>1, Types
      <4>2. QED
        BY <4>1, TensorParts
    <3> HIDE DEF n, w
    <3>4. w \in Nat \ {0} /\ Len(work'[r]) = w - 1 /\ DOMAIN work'[r] = 1 .. w - 1
          /\ DOMAIN work[r] = 1 .. w
      BY <1>3, <1>4 DEF w
    <3>5. \A i \in 1 .. w - 1 : work'[r][i] = work[r][i + 1]
      BY <1>3, <1>4 DEF w
    <3>6. \A i \in 1 .. w - 1 : work'[r][i] = calls[n - (w - 1) + i]
      <4>1. \A i \in 1 .. w - 1 : i + 1 \in 1 .. w /\ n - w + (i + 1) = n - (w - 1) + i
        BY <3>1, <3>4
      <4>2. QED
        BY <3>2, <3>4, <3>5, <4>1
    <3>7. \A i \in DOMAIN pending[r] : pending[r][i].call[2] <= n - (w - 1)
      BY <3>1, <3>2, <3>3, <3>4
    <3>8. w - 1 <= n
      BY <3>1, <3>2, <3>4
    <3>9. QED
      BY <1>1, <3>2, <3>4, <3>6, <3>7, <3>8 DEF Calls, RegisteredCalls, n
  <2>3. Numbers(r)'
    BY <1>1, NumberedSame DEF RankInv, Numbers, Closed, Open
  <2>4. Memory(r)'
    BY <1>1 DEF RankInv, Memory, LiveHandle, Kept
  <2>5. Exchange(r)'
    BY <1>1 DEF RankInv, Exchange, Open, Closed, LocalMeta
  <2>6. QED
    BY <2>1, <2>2, <2>3, <2>4, <2>5 DEF RankInv
<1>8. QED
  BY <1>1, <1>4, <1>5, <1>6, <1>7, QuietStepOf

(* The calls captured in a capture are some of its registered ones.         *)
LEMMA CapturedFacts ==
    ASSUME IInv, NEW r \in Ranks, Active(r)
    PROVE  /\ \A k : /\ CapturedCalls(r, k) \subseteq RegisteredCalls(k)
                     /\ CapturedCalls(r, k) # {} => k \in 1 .. Len(plan)
                     /\ CapturedCalls(r, k) \subseteq Nat
                     /\ IsFiniteSet(CapturedCalls(r, k))
           /\ \A k \in Nat : IsFiniteSet(Registrations(r, k))
           /\ \A s \in DOMAIN graphs[r] :
                 graphs[r][s].call[2] \in CapturedCalls(r, graphs[r][s].call[1])
<1>1. Typing /\ Calls(r)
  BY DEF IInv, RankInv
<1>2. \A s \in DOMAIN graphs[r] :
          LET call == graphs[r][s].call
          IN  call[1] \in 1 .. Len(plan) /\ call[2] \in RegisteredCalls(call[1])
  BY <1>1 DEF Calls
<1>3. \A k : /\ CapturedCalls(r, k) \subseteq RegisteredCalls(k)
             /\ CapturedCalls(r, k) # {} => k \in 1 .. Len(plan)
  BY <1>2 DEF CapturedCalls
<1>4. ASSUME NEW k
      PROVE  CapturedCalls(r, k) \subseteq Nat /\ IsFiniteSet(CapturedCalls(r, k))
  <2>1. CASE CapturedCalls(r, k) = {}
    BY <2>1, FS_EmptySet
  <2>2. CASE CapturedCalls(r, k) # {}
    <3>1. plan[k].calls \in Seq({"small", "large"})
      BY <1>1, <1>3, <2>2, Types
    <3>2. /\ Len(plan[k].calls) \in Nat
          /\ RegisteredCalls(k) \subseteq 1 .. Len(plan[k].calls)
      BY <3>1 DEF RegisteredCalls
    <3>3. IsFiniteSet(1 .. Len(plan[k].calls))
      BY <3>2, FS_Interval
    <3>4. CapturedCalls(r, k) \in SUBSET (1 .. Len(plan[k].calls))
      BY <1>3, <3>2
    <3>5. QED
      BY <3>2, <3>3, <3>4, FS_Subset
  <2>3. QED
    BY <2>1, <2>2
<1>5. ASSUME NEW k \in Nat PROVE IsFiniteSet(Registrations(r, k))
  <2>1. IsFiniteSet(1 .. k) /\ Registrations(r, k) \in SUBSET (1 .. k)
    BY FS_Interval DEF Registrations
  <2>2. QED
    BY <2>1, FS_Subset
<1>6. \A s \in DOMAIN graphs[r] :
          graphs[r][s].call[2] \in CapturedCalls(r, graphs[r][s].call[1])
  BY DEF CapturedCalls
<1>7. QED
  BY <1>3, <1>4, <1>5, <1>6

(* Nothing is pending: the capture has none.                                *)
LEMMA NoneCaptured ==
    ASSUME IInv, NEW r \in Ranks, Active(r), pending[r] = <<>>
    PROVE  CapturedCalls(r, done[r] + 1) = {}
<1>1. /\ Len(graphs[r]) = Len(rows[r]) /\ DOMAIN graphs[r] = 1 .. Len(graphs[r])
      /\ Len(rows[r]) \in Nat /\ done[r] \in Nat
  <2>1. Len(pending[r]) = 0
    OBVIOUS
  <2>2. done[r] \in Nat
    BY Types DEF IInv
  <2>3. /\ Len(graphs[r]) = Len(rows[r]) + Len(pending[r]) /\ Len(rows[r]) \in Nat
        /\ DOMAIN graphs[r] = 1 .. Len(graphs[r])
    BY Counts
  <2>4. QED
    BY <2>1, <2>2, <2>3
<1>2. \A s \in DOMAIN graphs[r] : graphs[r][s].call[1] <= done[r]
  <2>1. \A s \in DOMAIN graphs[r] : s <= Len(rows[r])
    BY <1>1
  <2>2. QED
    BY <2>1 DEF IInv, RankInv, Calls
<1>3. \A s \in DOMAIN graphs[r] : graphs[r][s].call[1] # done[r] + 1
  BY <1>1, <1>2
<1>4. QED
  BY <1>3 DEF CapturedCalls

(* The captures up to k are those before it, and k.                         *)
LEMMA OneMoreRegistration ==
    ASSUME IInv, NEW r \in Ranks, Active(r), NEW k \in Nat
    PROVE  /\ CapturedCalls(r, k + 1) = {} => Registrations(r, k + 1) = Registrations(r, k)
           /\ CapturedCalls(r, k + 1) # {} =>
                 /\ Registrations(r, k + 1) = Registrations(r, k) \cup {k + 1}
                 /\ Cardinality(Registrations(r, k + 1))
                       = Cardinality(Registrations(r, k)) + 1
<1>1. 1 .. k + 1 = (1 .. k) \cup {k + 1} /\ k + 1 \notin 1 .. k
  OBVIOUS
<1>2. CapturedCalls(r, k + 1) = {} => Registrations(r, k + 1) = Registrations(r, k)
  BY <1>1 DEF Registrations
<1>3. CapturedCalls(r, k + 1) # {} =>
          Registrations(r, k + 1) = Registrations(r, k) \cup {k + 1}
  BY <1>1 DEF Registrations
<1>4. k + 1 \notin Registrations(r, k) /\ IsFiniteSet(Registrations(r, k))
  BY <1>1, CapturedFacts DEF Registrations
<1>5. QED
  BY <1>2, <1>3, <1>4, FS_AddElement

(* A capture without registered inputs is over.                             *)
LEMMA FinishBodyCorrect ==
    ASSUME IInv, NEW r \in Ranks, FinishBody(r)
    PROVE  IInv'
<1> USE DEF registry, exchange
<1>1. Typing /\ Active(r) /\ RankInv(r)
  BY DEF IInv, FinishBody, Active
<1>2. /\ phase' = [phase EXCEPT ![r] = "idle"] /\ phase[r] = "body"
      /\ pending[r] = <<>>
      /\ done' = [done EXCEPT ![r] = @ + 1]
      /\ UNCHANGED <<plan, work, segment, pending, refs, rows, handles, graphs, turn, posted>>
  BY DEF FinishBody
<1>3. done[r] < Len(plan) /\ done[r] \in Nat /\ Len(plan) \in Nat
  BY <1>1, <1>2, Types DEF RankInv, Pending
<1>4. Typing'
  <2>1. done' \in [Ranks -> 0 .. Len(plan)]
    <3>1. done[r] + 1 \in 0 .. Len(plan) /\ done \in [Ranks -> 0 .. Len(plan)]
      BY <1>1, <1>3 DEF Typing
    <3>2. QED
      BY <1>2, <3>1
  <2>2. QED
    BY <1>1, <1>2, <2>1 DEF Typing
<1>5. \A q \in Ranks \ {r} : SameRank(q)
  BY <1>1, <1>2 DEF Typing, SameRank, SameShared
<1>6. SameShared(r)
  BY <1>2 DEF SameShared
<1>7. RankInv(r)'
  <2>1. phase'[r] = "idle" /\ done'[r] = done[r] + 1 /\ turn[r] = 0
    BY <1>1, <1>2 DEF Typing, RankInv, Pending
  <2>2. Pending(r)'
    BY <1>1, <1>2, <2>1 DEF RankInv, Pending
  <2>3. Calls(r)'
    <3>1. \A s \in DOMAIN graphs[r] :
              LET call == graphs[r][s].call
              IN  /\ call[1] \in 1 .. Len(plan) /\ call[2] \in RegisteredCalls(call[1])
                  /\ IF s <= Len(rows[r]) THEN call[1] <= done[r] ELSE call[1] = done[r] + 1
      BY <1>1 DEF RankInv, Calls
    <3>2. \A s \in DOMAIN graphs[r] : s <= Len(rows[r])
      <4>1. Len(pending[r]) = 0
        BY <1>2
      <4>2. /\ Len(graphs[r]) = Len(rows[r]) + Len(pending[r]) /\ Len(rows[r]) \in Nat
            /\ DOMAIN graphs[r] = 1 .. Len(graphs[r])
        BY <1>1, Counts
      <4>3. QED
        BY <4>1, <4>2
    <3>3. \A s \in DOMAIN graphs[r] : graphs[r][s].call[1] <= done[r] + 1
      BY <1>3, <3>1, <3>2
    <3>4. \A k : RegisteredCalls(k)' = RegisteredCalls(k)
      BY <1>2 DEF RegisteredCalls
    <3>5. /\ plan' = plan /\ graphs' = graphs /\ rows' = rows
      BY <1>2
    <3>6. QED
      BY <2>1, <3>1, <3>2, <3>3, <3>4, <3>5 DEF Calls
  <2>4. Numbers(r)'
    <3>1. CapturedCalls(r, done[r] + 1) = {}
      BY <1>1, <1>2, NoneCaptured
    <3>2. Registrations(r, done[r] + 1) = Registrations(r, done[r])
      BY <1>1, <1>3, <3>1, OneMoreRegistration
    <3>3. ASSUME NEW k, k = done'[r] PROVE Registrations(r, done[r])' = Registrations(r, k)
      <4>1. Registrations(r, done[r])' = Registrations(r, k)'
        BY <3>3 DEF Registrations, CapturedCalls
      <4>2. QED
        BY <1>2, <4>1, NumberedSame
    <3>4. Cardinality(Registrations(r, done[r])) = Closed(r)
      BY <1>1 DEF RankInv, Numbers
    <3>5. Closed(r)' = Closed(r)
      BY <1>2 DEF Closed, Open
    <3>6. Registrations(r, done[r])' = Registrations(r, done[r])
      BY <2>1, <3>2, <3>3
    <3>7. DOMAIN pending'[r] = {}
      BY <1>2
    <3>8. QED
      BY <3>4, <3>5, <3>6, <3>7 DEF Numbers
  <2>5. Memory(r)'
    BY <1>1, <1>2, <2>1 DEF RankInv, Memory, LiveHandle, Kept
  <2>6. Exchange(r)'
    BY <1>1, <1>2 DEF RankInv, Exchange, Open, Closed, LocalMeta
  <2>7. QED
    BY <2>2, <2>3, <2>4, <2>5, <2>6 DEF RankInv
<1>8. QED
  BY <1>1, <1>2, <1>4, <1>5, <1>6, <1>7, QuietStepOf

(* The pending tensors' segments are exported.                              *)
LEMMA StartRegistrationCorrect ==
    ASSUME IInv, NEW r \in Ranks, StartRegistration(r)
    PROVE  IInv'
<1> USE DEF exchange
<1> DEFINE hs == [b \in DOMAIN handles[r] \cup BasesOf(pending[r]) |->
                    IF b \in DOMAIN handles[r] THEN handles[r][b] ELSE LiveHandle(r, b)]
<1>1. Typing /\ Active(r) /\ RankInv(r)
  BY DEF IInv, StartRegistration, Active
<1>2. /\ phase' = [phase EXCEPT ![r] = "gather"] /\ phase[r] = "body"
      /\ pending[r] # <<>>
      /\ handles' = [handles EXCEPT ![r] = hs]
      /\ UNCHANGED <<plan, done, work, segment, pending, refs, rows, graphs, turn, posted>>
  BY DEF StartRegistration
<1> HIDE DEF hs
<1>3. Typing'
  BY <1>1, <1>2 DEF Typing
<1>4. \A q \in Ranks \ {r} : SameRank(q)
  <2>1. handles = [q \in Ranks |-> handles[q]]
    BY <1>1 DEF Typing
  <2>2. \A q \in Ranks \ {r} : handles'[q] = handles[q]
    BY <1>2, <2>1
  <2>3. \A q \in Ranks \ {r} : phase'[q] = phase[q]
    BY <1>1, <1>2 DEF Typing
  <2>4. QED
    BY <1>2, <2>2, <2>3 DEF SameRank, SameShared
<1>5. SameShared(r)
  BY <1>2 DEF SameShared
<1>6. phase'[r] = "gather" /\ handles'[r] = hs
  <2>1. handles = [q \in Ranks |-> handles[q]]
    BY <1>1 DEF Typing
  <2>2. handles'[r] = hs
    BY <1>2, <2>1
  <2>3. QED
    BY <1>1, <1>2, <2>2 DEF Typing
<1>7. RankInv(r)'
  <2>1. turn[r] = 0
    BY <1>1, <1>2 DEF RankInv, Pending
  <2>2. Pending(r)'
    BY <1>1, <1>2, <1>6, <2>1 DEF RankInv, Pending
  <2>3. Calls(r)'
    BY <1>1, <1>2, <1>6 DEF RankInv, Calls, RegisteredCalls
  <2>4. Numbers(r)'
    BY <1>1, <1>2, NumberedSame DEF RankInv, Numbers, Closed, Open
  <2>5. Memory(r)'
    <3>1. /\ \A b \in DOMAIN handles[r] :
                handles[r][b] = LiveHandle(r, b) /\ \E t \in Kept(r) : t.base = b
          /\ \A s \in 1 .. Len(rows[r]) : graphs[r][s] \in refs[r]
      BY <1>1 DEF RankInv, Memory
    <3>2. \A b \in BasesOf(pending[r]) : \E t \in Kept(r) : t.base = b
      BY DEF BasesOf, Kept
    <3>3. /\ DOMAIN hs = DOMAIN handles[r] \cup BasesOf(pending[r])
          /\ \A b \in DOMAIN hs : hs[b] = LiveHandle(r, b) /\ \E t \in Kept(r) : t.base = b
      BY <3>1, <3>2 DEF hs
    <3>4. \A i \in DOMAIN pending[r] : pending[r][i].base \in DOMAIN hs
      BY <3>3 DEF BasesOf
    <3>5. Kept(r)' = Kept(r) /\ \A b : LiveHandle(r, b)' = LiveHandle(r, b)
      BY <1>2 DEF Kept, LiveHandle
    <3>6. QED
      BY <1>2, <1>6, <3>1, <3>3, <3>4, <3>5 DEF Memory
  <2>6. Exchange(r)'
    <3>1. \A q \in Ranks : q \in Nat
      BY DEF Ranks
    <3>2. turn'[r] = 0
      BY <1>2, <2>1
    <3>3. QED
      BY <3>1, <3>2 DEF Exchange, Open
  <2>7. QED
    BY <2>2, <2>3, <2>4, <2>5, <2>6 DEF RankInv
<1>8. QED
  BY <1>1, <1>2, <1>3, <1>4, <1>5, <1>7, QuietStepOf

-----------------------------------------------------------------------------
(* The steps that others may see.                                           *)

(* A segment that no kept tensor is in can go: no row, handle or broadcast  *)
(* that counts is about it.                                                 *)
LEMMA ReallocateCorrect ==
    ASSUME IInv, NEW r \in Ranks, NEW b \in Bases, Reallocate(r, b)
    PROVE  IInv'
<1> USE DEF registry, exchange
<1>1. Typing /\ Active(r) /\ RankInv(r)
  BY DEF IInv, Reallocate, Active
<1>2. /\ phase[r] = "idle"
      /\ \A t \in Kept(r) : t.base # b
      /\ segment' = [segment EXCEPT ![r][b] = @ + 1]
      /\ UNCHANGED <<plan, phase, done, work, pending, refs, rows, handles, opened, graphs,
                     turn, posted>>
  BY DEF Reallocate
<1>3. /\ segment' \in [Ranks -> [Bases -> Nat]]
      /\ \A q \in Ranks \ {r} : segment'[q] = segment[q]
      /\ \A a : a # b => segment'[r][a] = segment[r][a]
  <2>1. segment \in [Ranks -> [Bases -> Nat]]
    BY <1>1 DEF Typing
  <2>2. segment[r] \in [Bases -> Nat] /\ segment[r][b] + 1 \in Nat
    BY <2>1
  <2>3. segment' = [segment EXCEPT ![r] = [segment[r] EXCEPT ![b] = segment[r][b] + 1]]
    BY <1>2
  <2>4. [segment[r] EXCEPT ![b] = segment[r][b] + 1] \in [Bases -> Nat]
    BY <2>2
  <2>5. segment'[r] = [segment[r] EXCEPT ![b] = segment[r][b] + 1]
    BY <2>1, <2>3
  <2>6. \A a : a # b => segment'[r][a] = segment[r][a]
    BY <2>5
  <2>7. QED
    BY <2>1, <2>3, <2>4, <2>6
<1>4. Typing'
  BY <1>1, <1>2, <1>3 DEF Typing
<1>5. \A q \in Ranks \ {r} : SameRank(q)
  BY <1>2, <1>3 DEF SameRank, SameShared
<1>6. \A s \in DOMAIN graphs[r] : graphs[r][s].base # b
  <2>1. pending[r] = <<>>
    BY <1>1, <1>2 DEF RankInv, Pending
  <2>2. Len(pending[r]) = 0
    BY <2>1
  <2>3. /\ Len(graphs[r]) = Len(rows[r]) + Len(pending[r]) /\ Len(rows[r]) \in Nat
        /\ DOMAIN graphs[r] = 1 .. Len(graphs[r])
    BY <1>1, Counts
  <2>4. DOMAIN graphs[r] = 1 .. Len(rows[r])
    BY <2>2, <2>3
  <2>5. QED
    BY <1>1, <1>2, <2>4 DEF RankInv, Memory, Kept
<1>7. \A s \in DOMAIN graphs[r] : Where(r, graphs[r][s])' = Where(r, graphs[r][s])
  BY <1>2, <1>3, <1>6 DEF Where, LiveHandle
<1>8. Open(r)' = Open(r) /\ Closed(r)' = Closed(r)
  BY <1>2 DEF Open, Closed
<1>9. RankInv(r)'
  <2>1. Pending(r)' /\ Calls(r)'
    BY <1>1, <1>2 DEF RankInv, Pending, Calls, RegisteredCalls
  <2>2. Numbers(r)'
    BY <1>1, <1>2, <1>8, NumberedSame DEF RankInv, Numbers
  <2>3. Memory(r)'
    <3>1. Kept(r)' = Kept(r)
      BY <1>2 DEF Kept
    <3>2. \A a \in DOMAIN handles[r] :
              handles[r][a] = LiveHandle(r, a) /\ \E t \in Kept(r) : t.base = a
      BY <1>1 DEF RankInv, Memory
    <3>3. \A a \in DOMAIN handles[r] : LiveHandle(r, a)' = LiveHandle(r, a)
      BY <1>2, <1>3, <3>2 DEF LiveHandle
    <3>4. QED
      BY <1>1, <1>2, <3>1, <3>2, <3>3 DEF RankInv, Memory
  <2>4. Exchange(r)'
    <3>1. LocalMeta(r)' = LocalMeta(r)
      BY <1>2 DEF LocalMeta
    <3>2. QED
      BY <1>1, <1>2, <1>8, <3>1 DEF RankInv, Exchange
  <2>5. QED
    BY <2>1, <2>2, <2>3, <2>4 DEF RankInv
<1>10. ASSUME NEW p \in Ranks, NEW q \in Ranks, Active(p)', Active(q)'
       PROVE  PairInv(p, q)'
  <2>1. PairInv(p, q)
    BY <1>2, <1>10 DEF IInv, Active
  <2>2. \A x \in Ranks : Open(x)' = Open(x) /\ Closed(x)' = Closed(x)
    BY <1>2 DEF Open, Closed
  <2>3. \A s \in DOMAIN graphs[q] : Where(q, graphs[q][s])' = Where(q, graphs[q][s])
    BY <1>2, <1>3, <1>7 DEF Where, LiveHandle
  <2>4. InStep(p, q)'
    BY <1>2, <2>1, <2>2 DEF PairInv, InStep
  <2>5. NextOf(p, q)'
    BY <1>2, <2>1, <2>2, <2>3, NumberedSame DEF PairInv, NextOf
  <2>6. Matched(p, q)'
    BY <1>2, <2>1, <2>3, NumberedSame DEF PairInv, Matched
  <2>7. QED
    BY <2>4, <2>5, <2>6 DEF PairInv
<1>11. Len(posted'[r]) >= Len(posted[r])
  <2>1. posted'[r] = posted[r] /\ Len(posted[r]) \in Nat
    BY <1>1, <1>2, Counts
  <2>2. QED
    BY <2>1
<1>12. QED
  BY <1>2, <1>4, <1>5, <1>9, <1>10, <1>11, StepOf

(* The next call of a capture is a new one of its registered calls.         *)
LEMMA NextCallFacts ==
    ASSUME IInv, NEW r \in Ranks, InBody(r), Registers(r)
    PROVE  \A k, c :
              k = done[r] + 1 /\ c = Len(plan[k].calls) - Len(work[r]) + 1 =>
                 /\ NextCall(r) = <<k, c>> /\ k \in 1 .. Len(plan)
                 /\ c \in Nat /\ c \in RegisteredCalls(k)
                 /\ \A d \in CapturedCalls(r, k) : d < c
                 /\ Len(plan[k].calls) - Len(Tail(work[r])) = c
<1>0. SUFFICES ASSUME NEW k, NEW c, k = done[r] + 1,
                      c = Len(plan[k].calls) - Len(work[r]) + 1
               PROVE  /\ NextCall(r) = <<k, c>> /\ k \in 1 .. Len(plan)
                      /\ c \in Nat /\ c \in RegisteredCalls(k)
                      /\ \A d \in CapturedCalls(r, k) : d < c
                      /\ Len(plan[k].calls) - Len(Tail(work[r])) = c
  OBVIOUS
<1> DEFINE calls == plan[k].calls
           n == Len(calls)
           w == Len(work[r])
<1>1. Typing /\ Active(r) /\ RankInv(r) /\ phase[r] = "body" /\ work[r] # <<>>
  BY DEF IInv, InBody, Active
<1>2. done[r] \in Nat /\ Len(plan) \in Nat /\ done[r] < Len(plan)
  BY <1>1, Types DEF RankInv, Pending
<1>3. k \in 1 .. Len(plan)
  BY <1>0, <1>2
<1>4. calls \in Seq({"small", "large"}) /\ work[r] \in Seq({"small", "large"})
  BY <1>1, <1>3, Types
<1>5. /\ w <= n
      /\ \A i \in DOMAIN work[r] : work[r][i] = calls[n - w + i]
      /\ \A i \in DOMAIN pending[r] : pending[r][i].call[2] <= n - w
  BY <1>0, <1>1 DEF RankInv, Calls
<1>6. /\ n \in Nat /\ w \in Nat \ {0} /\ 1 \in DOMAIN work[r]
      /\ Head(work[r]) = work[r][1] /\ Len(Tail(work[r])) = w - 1
  BY <1>1, <1>4
<1>7. DOMAIN calls = 1 .. n
  BY <1>4
<1>8. ~ plan[k].piecewise /\ Head(work[r]) = "small"
  BY <1>0 DEF Registers
<1>9. c = n - w + 1 /\ calls[c] = "small"
  BY <1>0, <1>5, <1>6, <1>8
<1>10. NextCall(r) = <<k, c>>
  BY <1>0 DEF NextCall
<1> HIDE DEF n, w, calls
<1>11. c \in 1 .. n /\ n - (w - 1) = c /\ c \in Nat
  BY <1>5, <1>6, <1>9
<1>12. c \in RegisteredCalls(k)
  BY <1>7, <1>8, <1>9, <1>11 DEF RegisteredCalls, calls
<1>13. Len(plan[k].calls) - Len(Tail(work[r])) = c
  BY <1>6, <1>11 DEF n, calls
<1>14. ASSUME NEW d \in CapturedCalls(r, k) PROVE d < c
  <2> DEFINE m == Len(rows[r])
             l == Len(pending[r])
  <2>1. PICK s \in DOMAIN graphs[r] : graphs[r][s].call[1] = k /\ graphs[r][s].call[2] = d
    BY <1>14 DEF CapturedCalls
  <2>2. graphs[r][s].call[1] # done[r] /\ ~ (graphs[r][s].call[1] <= done[r])
    BY <1>0, <1>2, <2>1
  <2>3. ~ (s <= m)
    BY <1>1, <2>2 DEF RankInv, Calls
  <2>4. /\ DOMAIN graphs[r] = 1 .. m + l /\ m \in Nat /\ l \in Nat
        /\ DOMAIN pending[r] = 1 .. l
    BY <1>1, Counts
  <2>5. \A i \in DOMAIN pending[r] : pending[r][i] = graphs[r][m + i]
    BY <1>1 DEF RankInv, Pending
  <2> HIDE DEF m, l
  <2>6. s - m \in DOMAIN pending[r] /\ m + (s - m) = s
    BY <2>1, <2>3, <2>4
  <2>7. pending[r][s - m] = graphs[r][s]
    BY <2>5, <2>6
  <2>8. d <= n - w
    BY <1>5, <2>1, <2>6, <2>7
  <2>9. d \in Nat
    BY <1>1, <1>14, CapturedFacts
  <2>10. QED
    BY <1>6, <1>9, <2>8, <2>9
<1>15. QED
  BY <1>3, <1>10, <1>11, <1>12, <1>13, <1>14

(* A captured call is the last of its rank's.                               *)
LEMMA CaptureNumbers ==
    ASSUME IInv, NEW r \in Ranks, InBody(r), Registers(r), NEW t \in Tensor,
           t.call = NextCall(r), graphs'[r] = Append(graphs[r], t)
    PROVE  \A m, n, y, a :
              m = Len(rows[r]) /\ n = Len(pending[r]) /\ y = Closed(r) + 1 /\ a = done[r] + 1 =>
                 /\ \A s \in 1 .. m : \A x, i, l :
                       Numbered(r, s, x, i, l)' <=> Numbered(r, s, x, i, l)
                 /\ \A k \in 0 .. done[r] : Registrations(r, k)' = Registrations(r, k)
                 /\ \A i \in 1 .. n + 1 : Numbered(r, m + i, y, i, n + 1)'
<1>0. SUFFICES ASSUME NEW m, m = Len(rows[r]), NEW n, n = Len(pending[r]),
                      NEW y, y = Closed(r) + 1, NEW a, a = done[r] + 1
               PROVE  /\ \A s \in 1 .. m : \A x, i, l :
                            Numbered(r, s, x, i, l)' <=> Numbered(r, s, x, i, l)
                      /\ \A k \in 0 .. done[r] : Registrations(r, k)' = Registrations(r, k)
                      /\ \A i \in 1 .. n + 1 : Numbered(r, m + i, y, i, n + 1)'
  OBVIOUS
<1>1. Typing /\ Active(r) /\ RankInv(r)
  BY DEF IInv, InBody, Active
<1>2. PICK c : c = Len(plan[a].calls) - Len(work[r]) + 1
  OBVIOUS
<1>3. /\ t.call = <<a, c>> /\ c \in Nat
      /\ \A d \in CapturedCalls(r, a) : d < c
  BY <1>0, <1>2, NextCallFacts
<1>4. done[r] \in Nat /\ Closed(r) \in Nat /\ a = done[r] + 1 /\ a \in Nat \ {0}
      /\ y = Closed(r) + 1
  <2>1. done[r] \in Nat
    BY <1>1, Types
  <2>2. Closed(r) \in Nat
    BY <1>1, Counts
  <2>3. QED
    BY <1>0, <2>1, <2>2
<1>5. /\ m \in Nat /\ n \in Nat /\ Len(graphs[r]) = m + n
      /\ DOMAIN graphs[r] = 1 .. m + n /\ DOMAIN pending[r] = 1 .. n
  BY <1>0, <1>1, Counts
<1>6. /\ DOMAIN graphs'[r] = (1 .. m + n) \cup {m + n + 1}
      /\ \A s \in 1 .. m + n : graphs'[r][s] = graphs[r][s]
      /\ graphs'[r][m + n + 1] = t
  <2>1. graphs[r] \in Seq(Tensor)
    BY <1>1, Types
  <2>2. DOMAIN graphs'[r] = 1 .. m + n + 1
    <3>1. \A g \in Seq(Tensor) : DOMAIN Append(g, t) = 1 .. Len(g) + 1
      OBVIOUS
    <3>2. DOMAIN graphs'[r] = 1 .. Len(graphs[r]) + 1
      BY <2>1, <3>1
    <3>3. QED
      BY <1>5, <3>2
  <2>3. 1 .. m + n + 1 = (1 .. m + n) \cup {m + n + 1}
    BY <1>5
  <2>4. QED
    BY <1>5, <2>1, <2>2, <2>3
<1>7. /\ \A s \in 1 .. m : graphs[r][s].call[1] \in 0 .. done[r]
      /\ \A s \in m + 1 .. m + n : graphs[r][s].call[1] = a
  <2>1. \A s \in 1 .. m + n :
            /\ graphs[r][s].call[1] \in 1 .. Len(plan)
            /\ IF s <= m THEN graphs[r][s].call[1] <= done[r] ELSE graphs[r][s].call[1] = a
    BY <1>0, <1>1, <1>5 DEF RankInv, Calls
  <2>2. QED
    BY <1>4, <1>5, <2>1
<1>8. ASSUME NEW j
      PROVE  CapturedCalls(r, j)' = IF j = a THEN CapturedCalls(r, a) \cup {c}
                                    ELSE CapturedCalls(r, j)
  <2> DEFINE S(f) == {f[s].call[2] : s \in {u \in DOMAIN f : f[u].call[1] = j}}
             f0 == graphs[r]
             f1 == graphs'[r]
             e == m + n + 1
             D == 1 .. m + n
  <2>1. CapturedCalls(r, j) = S(f0) /\ CapturedCalls(r, j)' = S(f1)
    BY DEF CapturedCalls
  <2>2. /\ DOMAIN f0 = D /\ DOMAIN f1 = D \cup {e} /\ e \notin D
        /\ \A s \in D : f1[s] = f0[s]
    BY <1>5, <1>6
  <2>3. f1[e].call[1] = a /\ f1[e].call[2] = c
    BY <1>3, <1>6
  <2> HIDE DEF f0, f1, e, D
  <2>4. CASE j = a
    <3>1. S(f1) \subseteq S(f0) \cup {c}
      BY <2>2, <2>3, <2>4
    <3>2. S(f0) \cup {c} \subseteq S(f1)
      BY <2>2, <2>3, <2>4
    <3>3. S(f1) = S(f0) \cup {c}
      BY <3>1, <3>2
    <3> HIDE DEF S
    <3>4. CapturedCalls(r, j)' = CapturedCalls(r, j) \cup {c}
      BY <2>1, <3>3
    <3>5. QED
      BY <2>4, <3>4
  <2>5. CASE j # a
    <3>1. S(f1) = S(f0)
      BY <2>2, <2>3, <2>5
    <3>2. QED
      BY <2>1, <2>5, <3>1
  <2>6. QED
    BY <2>4, <2>5
<1>9. \A j \in 0 .. done[r] : Registrations(r, j)' = Registrations(r, j)
  <2> SUFFICES ASSUME NEW j \in 0 .. done[r]
               PROVE  Registrations(r, j)' = Registrations(r, j)
    OBVIOUS
  <2>1. \A i \in 1 .. j : i # a
    BY <1>4
  <2>2. \A i \in 1 .. j : CapturedCalls(r, i)' = CapturedCalls(r, i)
    BY <1>8, <2>1
  <2>3. QED
    BY <2>2 DEF Registrations
<1>10. ASSUME NEW s \in 1 .. m, NEW x, NEW i, NEW l
       PROVE  Numbered(r, s, x, i, l)' <=> Numbered(r, s, x, i, l)
  <2>1. PICK b : graphs[r][s].call[1] = b
    OBVIOUS
  <2>2. PICK e : graphs[r][s].call[2] = e
    OBVIOUS
  <2>3. s \in 1 .. m + n
    BY <1>5
  <2>4. graphs'[r][s] = graphs[r][s]
    BY <1>6, <2>3
  <2>5. b \in 0 .. done[r] /\ b # a
    BY <1>4, <1>7, <2>1
  <2>6. /\ CapturedCalls(r, b)' = CapturedCalls(r, b)
        /\ Registrations(r, b)' = Registrations(r, b)
    BY <1>8, <1>9, <2>5
  <2>7. Numbered(r, s, x, i, l) <=>
            /\ Cardinality(Registrations(r, b)) = x
            /\ Cardinality({d \in CapturedCalls(r, b) : d <= e}) = i
            /\ Cardinality(CapturedCalls(r, b)) = l
    BY <2>1, <2>2 DEF Numbered
  <2>8. graphs'[r][s].call[1] = b /\ graphs'[r][s].call[2] = e
    BY <2>1, <2>2, <2>4
  <2>9. Numbered(r, s, x, i, l)' <=>
            /\ Cardinality(Registrations(r, b)') = x
            /\ Cardinality({d \in CapturedCalls(r, b)' : d <= e}) = i
            /\ Cardinality(CapturedCalls(r, b)') = l
    <3>1. /\ Registrations(r, graphs[r][s].call[1])' = Registrations(r, b)'
          /\ CapturedCalls(r, graphs[r][s].call[1])' = CapturedCalls(r, b)'
      BY <2>8 DEF Registrations, CapturedCalls
    <3>2. QED
      BY <2>8, <3>1 DEF Numbered
  <2>10. QED
    BY <2>6, <2>7, <2>9
<1>11. /\ CapturedCalls(r, a)' = CapturedCalls(r, a) \cup {c}
       /\ IsFiniteSet(CapturedCalls(r, a)) /\ c \notin CapturedCalls(r, a)
       /\ CapturedCalls(r, a) \subseteq Nat
       /\ Cardinality(CapturedCalls(r, a)) = n
       /\ Cardinality(CapturedCalls(r, a) \cup {c}) = n + 1
  <2>1. CapturedCalls(r, a)' = CapturedCalls(r, a) \cup {c}
    BY <1>8
  <2>2. IsFiniteSet(CapturedCalls(r, a)) /\ CapturedCalls(r, a) \subseteq Nat
    BY <1>1, CapturedFacts
  <2>3. c \notin CapturedCalls(r, a)
    BY <1>3
  <2>4. Cardinality(CapturedCalls(r, a)) = n
    <3>1. CASE pending[r] = <<>>
      <4>1. CapturedCalls(r, a) = {} /\ n = 0
        BY <1>0, <1>1, <3>1, NoneCaptured
      <4>2. QED
        BY <4>1, FS_EmptySet
    <3>2. CASE pending[r] # <<>>
      <4>1. n # 0 /\ 1 \in DOMAIN pending[r]
        <5>1. pending[r] \in Seq(Tensor)
          BY <1>1, Types
        <5>2. QED
          BY <1>0, <3>2, <5>1
      <4>2. Numbered(r, m + 1, Closed(r) + 1, 1, n)
        BY <1>0, <1>1, <4>1 DEF RankInv, Numbers
      <4>3. graphs[r][m + 1].call[1] = a
        BY <1>5, <1>7, <4>1
      <4>4. QED
        BY <1>0, <4>2, <4>3 DEF Numbered
    <3>3. QED
      BY <3>1, <3>2
  <2>5. QED
    BY <2>1, <2>2, <2>3, <2>4, FS_AddElement
<1>12. Cardinality(Registrations(r, a)') = y
  <2>1. /\ Cardinality(Registrations(r, done[r])) = Closed(r)
        /\ IsFiniteSet(Registrations(r, done[r]))
    BY <1>1, <1>4, CapturedFacts DEF RankInv, Numbers
  <2>2. PICK d : d = done[r]
    OBVIOUS
  <2>3. Registrations(r, a)' = Registrations(r, d)' \cup {a}
    <3>1. 1 .. a = (1 .. d) \cup {a}
      BY <1>4, <2>2
    <3>2. a \in 1 .. a /\ CapturedCalls(r, a)' # {}
      BY <1>4, <1>11
    <3> DEFINE C(j) == CapturedCalls(r, j)'
    <3>3. /\ Registrations(r, a)' = {j \in 1 .. a : C(j) # {}}
          /\ Registrations(r, d)' = {j \in 1 .. d : C(j) # {}}
      BY DEF Registrations
    <3>4. C(a) # {}
      BY <3>2
    <3> HIDE DEF C
    <3>5. QED
      BY <3>1, <3>3, <3>4
  <2>4. Registrations(r, d)' = Registrations(r, d)
    BY <1>4, <1>9, <2>2
  <2>5. a \notin Registrations(r, d)
    BY <1>4, <2>2 DEF Registrations
  <2>6. Cardinality(Registrations(r, d) \cup {a}) = Cardinality(Registrations(r, d)) + 1
    BY <2>1, <2>2, <2>5, FS_AddElement
  <2>7. Registrations(r, a)' = Registrations(r, d) \cup {a}
    BY <2>3, <2>4
  <2>8. QED
    BY <1>4, <2>1, <2>2, <2>6, <2>7
<1>13. ASSUME NEW i \in 1 .. n + 1
       PROVE  Numbered(r, m + i, y, i, n + 1)'
  <2>1. PICK e : graphs'[r][m + i].call[2] = e
    OBVIOUS
  <2>2. /\ graphs'[r][m + i].call[1] = a
        /\ Cardinality({d \in CapturedCalls(r, a)' : d <= e}) = i
    <3>1. CASE i = n + 1
      <4>1. m + i = m + n + 1
        BY <1>5, <3>1
      <4>2. graphs'[r][m + i] = t /\ t.call[1] = a /\ t.call[2] = c
        BY <1>3, <1>6, <4>1
      <4>3. e = c
        BY <2>1, <4>2
      <4>4. {d \in CapturedCalls(r, a) \cup {c} : d <= c} = CapturedCalls(r, a) \cup {c}
        <5>1. \A d \in CapturedCalls(r, a) : d <= c
          BY <1>3, <1>11
        <5>2. c <= c
          BY <1>3
        <5>3. QED
          BY <5>1, <5>2
      <4>5. QED
        BY <1>11, <3>1, <4>2, <4>3, <4>4
    <3>2. CASE i # n + 1
      <4>1. i \in 1 .. n /\ m + i \in 1 .. m + n /\ m + i \in m + 1 .. m + n
        BY <1>5, <3>2
      <4>2. graphs'[r][m + i] = graphs[r][m + i] /\ graphs[r][m + i].call[1] = a
        BY <1>6, <1>7, <4>1
      <4>3. Numbered(r, m + i, Closed(r) + 1, i, n)
        BY <1>0, <1>1, <1>5, <4>1 DEF RankInv, Numbers
      <4>4. Cardinality({d \in CapturedCalls(r, a) : d <= e}) = i
        BY <2>1, <4>2, <4>3 DEF Numbered
      <4>5. e \in CapturedCalls(r, a)
        BY <1>1, <1>5, <2>1, <4>1, <4>2, CapturedFacts
      <4>6. ~ (c <= e)
        BY <1>3, <1>11, <4>5
      <4>7. {d \in CapturedCalls(r, a) \cup {c} : d <= e}
                = {d \in CapturedCalls(r, a) : d <= e}
        BY <4>6
      <4>8. QED
        BY <1>11, <4>2, <4>4, <4>7
    <3>3. QED
      BY <3>1, <3>2
  <2>3. Numbered(r, m + i, y, i, n + 1)' <=>
            /\ Cardinality(Registrations(r, a)') = y
            /\ Cardinality({d \in CapturedCalls(r, a)' : d <= e}) = i
            /\ Cardinality(CapturedCalls(r, a)') = n + 1
    <3> DEFINE s == m + i
    <3>1. graphs'[r][s].call[1] = a /\ graphs'[r][s].call[2] = e
      BY <2>1, <2>2
    <3> HIDE DEF s
    <3>2. /\ Registrations(r, graphs[r][s].call[1])' = Registrations(r, a)'
          /\ CapturedCalls(r, graphs[r][s].call[1])' = CapturedCalls(r, a)'
      BY <3>1 DEF Registrations, CapturedCalls
    <3>3. Numbered(r, s, y, i, n + 1)' <=>
              /\ Cardinality(Registrations(r, a)') = y
              /\ Cardinality({d \in CapturedCalls(r, a)' : d <= e}) = i
              /\ Cardinality(CapturedCalls(r, a)') = n + 1
      BY <3>1, <3>2 DEF Numbered
    <3>4. QED
      BY <3>3 DEF s
  <2>4. QED
    BY <1>11, <1>12, <2>2, <2>3
<1>14. QED
  BY <1>9, <1>10, <1>13

(* A rank that has not sent anything new is not behind.                     *)
LEMMA NotBehind ==
    ASSUME IInv, NEW r \in Ranks, NEW q \in Ranks, Active(r), Active(q), ~ Open(r)
    PROVE  Closed(q) <= Closed(r) /\ Len(rows[q]) <= Len(rows[r])
<1> DEFINE m == Len(rows[r])
           l == Len(rows[q])
           n == Len(pending[q])
<1>1. InStep(r, q) /\ InStep(q, r)
  BY DEF IInv, PairInv
<1>2. /\ Closed(r) \in Nat /\ Closed(q) \in Nat /\ m \in Nat /\ l \in Nat /\ n \in Nat
  BY Counts
<1>3. /\ Closed(q) <= Closed(r) + 1 /\ Closed(r) <= Closed(q) + 1
      /\ Closed(q) # Closed(r) + 1
      /\ Closed(q) = Closed(r) => l = m
      /\ Closed(r) = Closed(q) + 1 => m = l + n
  BY <1>1 DEF InStep
<1> HIDE DEF l, m, n
<1>4. Closed(q) <= Closed(r) /\ l <= m
  BY <1>2, <1>3
<1>5. QED
  BY <1>4 DEF l, m

(* A kernel is captured with the row that its tensor will have.             *)
LEMMA CaptureCallCorrect ==
    ASSUME IInv, NEW r \in Ranks, CaptureCall(r)
    PROVE  IInv'
<1> USE DEF registry, exchange
<1>1. /\ Typing /\ Active(r) /\ RankInv(r) /\ InBody(r) /\ Registers(r)
      /\ phase[r] = "body" /\ work[r] # <<>>
  BY DEF IInv, CaptureCall, InBody, Active
<1>2. /\ work' = [work EXCEPT ![r] = Tail(@)]
      /\ UNCHANGED <<plan, phase, done, segment, refs, rows, handles, turn, posted>>
  BY DEF CaptureCall
<1>3. PICK a, c : a = done[r] + 1 /\ c = Len(plan[a].calls) - Len(work[r]) + 1
  OBVIOUS
<1>4. /\ NextCall(r) = <<a, c>> /\ a \in 1 .. Len(plan)
      /\ c \in Nat /\ c \in RegisteredCalls(a)
      /\ Len(plan[a].calls) - Len(Tail(work[r])) = c
  BY <1>1, <1>3, NextCallFacts
<1>5. PICK t \in Tensor : /\ t.call = <<a, c>>
                          /\ pending' = [pending EXCEPT ![r] = Append(@, t)]
                          /\ graphs' = [graphs EXCEPT ![r] = Append(@, t)]
  <2>1. PICK b \in Bases : \E o \in Place(r, b) :
          LET u == [call |-> NextCall(r), base |-> b, off |-> o]
          IN  /\ pending' = [pending EXCEPT ![r] = Append(@, u)]
              /\ graphs' = [graphs EXCEPT ![r] = Append(@, u)]
    BY DEF CaptureCall
  <2>2. PICK o \in Place(r, b) :
          LET u == [call |-> NextCall(r), base |-> b, off |-> o]
          IN  /\ pending' = [pending EXCEPT ![r] = Append(@, u)]
              /\ graphs' = [graphs EXCEPT ![r] = Append(@, u)]
    BY <2>1
  <2>3. o \in Offsets
    BY DEF Place
  <2>4. <<a, c>> \in Nat \X Nat
    <3>1. Len(plan) \in Nat
      BY <1>1, Types
    <3>2. QED
      BY <1>4, <3>1
  <2>5. [call |-> NextCall(r), base |-> b, off |-> o] \in Tensor
    BY <1>4, <2>3, <2>4 DEF Tensor
  <2>6. QED
    BY <1>4, <2>2, <2>5
<1>6. PICK m, n, y : m = Len(rows[r]) /\ n = Len(pending[r]) /\ y = Closed(r) + 1
  OBVIOUS
<1>7. /\ pending[r] \in Seq(Tensor) /\ graphs[r] \in Seq(Tensor)
      /\ pending'[r] = Append(pending[r], t) /\ graphs'[r] = Append(graphs[r], t)
      /\ work[r] \in Seq({"small", "large"}) /\ work'[r] = Tail(work[r])
  <2>1. /\ pending[r] \in Seq(Tensor) /\ graphs[r] \in Seq(Tensor)
        /\ work[r] \in Seq({"small", "large"})
    BY <1>1, Types
  <2>2. QED
    BY <1>1, <1>2, <1>5, <2>1 DEF Typing
<1>8. Typing'
  <2>1. /\ Append(pending[r], t) \in Seq(Tensor) /\ Append(graphs[r], t) \in Seq(Tensor)
        /\ Tail(work[r]) \in Seq({"small", "large"})
    BY <1>1, <1>7
  <2>2. QED
    BY <1>1, <1>2, <1>5, <2>1 DEF Typing
<1>9. \A q \in Ranks \ {r} : SameRank(q)
  BY <1>1, <1>2, <1>5 DEF Typing, SameRank, SameShared
<1>10. /\ m \in Nat /\ n \in Nat /\ Len(graphs[r]) = m + n /\ DOMAIN graphs[r] = 1 .. m + n
       /\ DOMAIN pending[r] = 1 .. n /\ DOMAIN rows[r] = 1 .. m /\ y \in Nat
       /\ ~ Open(r) /\ Len(posted[r]) = Closed(r) /\ Closed(r) \in Nat
  <2>1. /\ Len(posted[r]) = Closed(r) + (IF Open(r) THEN 1 ELSE 0)
        /\ ~ Open(r) /\ Closed(r) \in Nat
    BY <1>1, Counts
  <2>2. /\ m \in Nat /\ n \in Nat /\ Len(graphs[r]) = m + n
        /\ DOMAIN graphs[r] = 1 .. Len(graphs[r])
        /\ DOMAIN pending[r] = 1 .. n /\ DOMAIN rows[r] = 1 .. m
    BY <1>1, <1>6, Counts
  <2>3. Len(posted[r]) = Closed(r) /\ y \in Nat
    BY <1>6, <2>1
  <2>4. QED
    BY <2>1, <2>2, <2>3
<1>11. /\ Len(pending'[r]) = n + 1 /\ DOMAIN pending'[r] = 1 .. n + 1
       /\ \A i \in 1 .. n : pending'[r][i] = pending[r][i]
       /\ pending'[r][n + 1] = t
  <2>1. \A f \in Seq(Tensor) : /\ Len(Append(f, t)) = Len(f) + 1
                               /\ DOMAIN Append(f, t) = 1 .. Len(f) + 1
                               /\ DOMAIN f = 1 .. Len(f)
                               /\ \A i \in 1 .. Len(f) : Append(f, t)[i] = f[i]
                               /\ Append(f, t)[Len(f) + 1] = t
    OBVIOUS
  <2>2. QED
    BY <1>6, <1>7, <2>1
<1>12. /\ Len(graphs'[r]) = m + n + 1 /\ DOMAIN graphs'[r] = 1 .. m + n + 1
       /\ \A s \in 1 .. m + n : graphs'[r][s] = graphs[r][s]
       /\ graphs'[r][m + n + 1] = t
  <2>1. \A f \in Seq(Tensor) : /\ Len(Append(f, t)) = Len(f) + 1
                               /\ DOMAIN Append(f, t) = 1 .. Len(f) + 1
                               /\ \A i \in 1 .. Len(f) : Append(f, t)[i] = f[i]
                               /\ Append(f, t)[Len(f) + 1] = t
    OBVIOUS
  <2>2. QED
    BY <1>7, <1>10, <2>1
<1>13. /\ \A s \in 1 .. m : \A x, i, l : Numbered(r, s, x, i, l)' <=> Numbered(r, s, x, i, l)
       /\ \A k \in 0 .. done[r] : Registrations(r, k)' = Registrations(r, k)
       /\ \A i \in 1 .. n + 1 : Numbered(r, m + i, y, i, n + 1)'
  BY <1>1, <1>3, <1>4, <1>5, <1>6, <1>7, CaptureNumbers
<1>14. /\ \A q \in Ranks : Open(q)' = Open(q) /\ Closed(q)' = Closed(q)
       /\ \A q, u : Where(q, u)' = Where(q, u)
  BY <1>2 DEF Open, Closed, Where, LiveHandle
<1>15. RankInv(r)'
  <2>1. /\ phase'[r] = "body" /\ turn'[r] = 0 /\ turn[r] = 0 /\ done'[r] = done[r]
        /\ done[r] < Len(plan) /\ Len(rows'[r]) = m
    BY <1>1, <1>2, <1>6 DEF RankInv, Pending
  <2>2. Pending(r)'
    <3>1. \A i \in 1 .. n : pending[r][i] = graphs[r][m + i]
      BY <1>1, <1>6, <1>10 DEF RankInv, Pending
    <3>2. \A i \in 1 .. n + 1 : pending'[r][i] = graphs'[r][m + i]
      <4> SUFFICES ASSUME NEW i \in 1 .. n + 1 PROVE pending'[r][i] = graphs'[r][m + i]
        OBVIOUS
      <4>1. CASE i = n + 1
        <5>1. m + i = m + n + 1
          BY <1>10, <4>1
        <5>2. QED
          BY <1>11, <1>12, <4>1, <5>1
      <4>2. CASE i # n + 1
        <5>1. i \in 1 .. n /\ m + i \in 1 .. m + n
          BY <1>10, <4>2
        <5>2. QED
          BY <1>11, <1>12, <3>1, <5>1
      <4>3. QED
        BY <4>1, <4>2
    <3>3. Len(graphs'[r]) = Len(rows'[r]) + Len(pending'[r])
      BY <1>10, <1>11, <1>12, <2>1
    <3>4. QED
      BY <1>2, <1>11, <2>1, <3>2, <3>3 DEF Pending
  <2>3. Calls(r)'
    <3> DEFINE calls == plan[a].calls
               l == Len(calls)
               w == Len(work[r])
    <3>1. l \in Nat /\ calls \in Seq({"small", "large"})
      BY <1>1, <1>4, Types
    <3>2. /\ w <= l
          /\ \A i \in DOMAIN work[r] : work[r][i] = calls[l - w + i]
          /\ \A i \in 1 .. n : pending[r][i].call[2] <= l - w
          /\ \A s \in 1 .. m + n :
                /\ graphs[r][s].call[1] \in 1 .. Len(plan)
                /\ graphs[r][s].call[2] \in RegisteredCalls(graphs[r][s].call[1])
                /\ IF s <= m THEN graphs[r][s].call[1] <= done[r]
                             ELSE graphs[r][s].call[1] = a
      BY <1>1, <1>3, <1>6, <1>10 DEF RankInv, Calls
    <3>3. \A i \in 1 .. n : pending[r][i].call[2] \in Nat
      <4>1. \A i \in 1 .. n : pending[r][i] \in Tensor
        BY <1>1, <1>10, Types
      <4>2. QED
        BY <4>1, TensorParts
    <3>4. /\ w \in Nat \ {0} /\ Len(work'[r]) = w - 1 /\ DOMAIN work[r] = 1 .. w
          /\ DOMAIN work'[r] = 1 .. w - 1
          /\ \A i \in 1 .. w - 1 : work'[r][i] = work[r][i + 1]
      BY <1>1, <1>7
    <3>5. c = l - w + 1
      BY <1>3
    <3> HIDE DEF l, w
    <3>6. \A i \in 1 .. w - 1 : work'[r][i] = calls[l - (w - 1) + i]
      <4>1. l \in Nat /\ w \in Nat
        BY <3>1, <3>4
      <4>2. \A i \in 1 .. w - 1 : i + 1 \in 1 .. w /\ l - w + (i + 1) = l - (w - 1) + i
        BY <4>1
      <4>3. QED
        BY <3>2, <3>4, <4>2
    <3>7. w - 1 <= l /\ l - (w - 1) = c
      BY <3>1, <3>2, <3>4, <3>5
    <3>8. \A i \in 1 .. n + 1 : pending'[r][i].call[2] <= l - (w - 1)
      <4> SUFFICES ASSUME NEW i \in 1 .. n + 1 PROVE pending'[r][i].call[2] <= c
        BY <3>7
      <4>1. CASE i = n + 1
        BY <1>4, <1>5, <1>11, <4>1
      <4>2. CASE i # n + 1
        <5>1. i \in 1 .. n
          BY <1>10, <4>2
        <5>2. pending[r][i].call[2] <= l - w /\ pending[r][i].call[2] \in Nat
          BY <3>2, <3>3, <5>1
        <5>3. QED
          BY <1>11, <3>1, <3>4, <3>5, <5>1, <5>2
      <4>3. QED
        BY <4>1, <4>2
    <3>9. \A s \in 1 .. m + n + 1 :
                /\ graphs'[r][s].call[1] \in 1 .. Len(plan)
                /\ graphs'[r][s].call[2] \in RegisteredCalls(graphs'[r][s].call[1])
                /\ IF s <= m THEN graphs'[r][s].call[1] <= done[r]
                             ELSE graphs'[r][s].call[1] = a
      <4> SUFFICES ASSUME NEW s \in 1 .. m + n + 1
                   PROVE  /\ graphs'[r][s].call[1] \in 1 .. Len(plan)
                          /\ graphs'[r][s].call[2] \in RegisteredCalls(graphs'[r][s].call[1])
                          /\ IF s <= m THEN graphs'[r][s].call[1] <= done[r]
                                       ELSE graphs'[r][s].call[1] = a
        OBVIOUS
      <4>1. CASE s = m + n + 1
        <5>1. ~ (s <= m)
          BY <1>10, <4>1
        <5>2. graphs'[r][s].call[1] = a /\ graphs'[r][s].call[2] = c
          BY <1>5, <1>12, <4>1
        <5>3. QED
          BY <1>4, <5>1, <5>2
      <4>2. CASE s # m + n + 1
        <5>1. s \in 1 .. m + n
          BY <1>10, <4>2
        <5>2. QED
          BY <1>12, <3>2, <5>1
      <4>3. QED
        BY <4>1, <4>2
    <3>10. \A k : RegisteredCalls(k)' = RegisteredCalls(k)
      BY <1>2 DEF RegisteredCalls
    <3>11. done'[r] + 1 = a /\ plan' = plan /\ Len(plan'[a].calls) = l /\ plan'[a].calls = calls
      BY <1>2, <1>3, <2>1 DEF l
    <3> HIDE DEF calls
    <3>12. QED
      BY <1>11, <1>12, <2>1, <3>4, <3>6, <3>7, <3>8, <3>9, <3>10, <3>11 DEF Calls
  <2>4. Numbers(r)'
    <3>1. Cardinality(Registrations(r, done[r])) = Closed(r)
      BY <1>1 DEF RankInv, Numbers
    <3>2. Cardinality(Registrations(r, done[r]))' = Closed(r)'
      <4>1. PICK k : k = done[r]
        OBVIOUS
      <4>2. k \in 0 .. done[r]
        BY <1>1, <4>1, Types
      <4>3. Registrations(r, k)' = Registrations(r, k) /\ k = done'[r]
        BY <1>2, <1>13, <4>1, <4>2
      <4>4. Registrations(r, done[r])' = Registrations(r, k)'
        BY <4>3 DEF Registrations, CapturedCalls
      <4>5. QED
        BY <1>14, <3>1, <4>1, <4>3, <4>4
    <3>3. Closed(r)' + 1 = y
      BY <1>6, <1>14
    <3>4. QED
      BY <1>11, <1>13, <2>1, <3>2, <3>3 DEF Numbers
  <2>5. Memory(r)'
    <3>1. /\ \A s \in 1 .. m : graphs[r][s] \in refs[r]
          /\ \A b \in DOMAIN handles[r] :
                handles[r][b] = LiveHandle(r, b) /\ \E u \in Kept(r) : u.base = b
      BY <1>1, <1>6 DEF RankInv, Memory
    <3>2. \A s \in 1 .. m : graphs'[r][s] \in refs'[r]
      <4>1. \A s \in 1 .. m : s \in 1 .. m + n
        BY <1>10
      <4>2. QED
        BY <1>2, <1>12, <3>1, <4>1
    <3>3. \A u \in Kept(r) : u \in Kept(r)'
      <4>1. \A i \in 1 .. n : i \in 1 .. n + 1 /\ pending'[r][i] = pending[r][i]
        BY <1>10, <1>11
      <4>2. QED
        BY <1>2, <1>10, <1>11, <4>1 DEF Kept
    <3>4. \A b : LiveHandle(r, b)' = LiveHandle(r, b)
      BY <1>2 DEF LiveHandle
    <3>5. \A b \in DOMAIN handles'[r] :
              handles'[r][b] = LiveHandle(r, b)' /\ \E u \in Kept(r)' : u.base = b
      BY <1>2, <3>1, <3>3, <3>4
    <3>6. QED
      BY <2>1, <3>2, <3>5 DEF Memory
  <2>6. Exchange(r)'
    <3>1. \A q \in Ranks : q \in Nat
      BY DEF Ranks
    <3>2. QED
      BY <2>1, <3>1 DEF Exchange, Open
  <2>7. QED
    BY <2>2, <2>3, <2>4, <2>5, <2>6 DEF RankInv
<1>16. ASSUME NEW q \in Ranks, Active(q)'
       PROVE  PairInv(r, q)' /\ PairInv(q, r)'
  <2>1. Active(q) /\ PairInv(r, q) /\ PairInv(q, r)
    BY <1>1, <1>2, <1>16 DEF IInv, Active
  <2>2. /\ Closed(q) \in Nat /\ Len(rows[q]) \in Nat /\ Len(pending[q]) \in Nat
        /\ DOMAIN pending[q] = 1 .. Len(pending[q])
        /\ DOMAIN rows[q] = 1 .. Len(rows[q])
    BY <2>1, Counts
  <2>3. Closed(q) <= Closed(r) /\ Len(rows[q]) <= m
    BY <1>1, <1>6, <1>10, <2>1, NotBehind
  <2>4. InStep(r, q)'
    BY <1>2, <1>10, <1>14, <2>1, <2>2, <2>3 DEF PairInv, InStep
  <2>5. InStep(q, r)'
    <3>1. CASE q = r
      BY <2>4, <3>1
    <3>2. CASE q # r
      <4>1. pending'[q] = pending[q]
        BY <1>9, <3>2 DEF SameRank, SameShared
      <4>2. QED
        BY <1>2, <1>14, <2>1, <4>1 DEF PairInv, InStep
    <3>3. QED
      BY <3>1, <3>2
  <2>6. NextOf(r, q)'
    <3>1. CASE q = r
      <4>1. Len(posted'[r]) = Closed(r)' /\ Closed(r)' \in Nat
        BY <1>2, <1>10, <1>14
      <4>2. ~ (Closed(r)' + 1 <= Len(posted'[r]))
        BY <4>1
      <4>3. QED
        BY <3>1, <4>2 DEF NextOf
    <3>2. CASE q # r
      <4>1. graphs'[q] = graphs[q]
        BY <1>9, <3>2 DEF SameRank, SameShared
      <4>2. QED
        BY <1>2, <1>14, <2>1, <4>1, NumberedSame DEF PairInv, NextOf
    <3>3. QED
      BY <3>1, <3>2
  <2>7. NextOf(q, r)'
    <3>1. CASE q = r
      BY <2>6, <3>1
    <3>2. CASE q # r
      <4>1. ASSUME NEW x, x = Closed(q) + 1, x <= Len(posted[r]), NEW i \in DOMAIN posted[r][x]
            PROVE  Len(rows[q]) + i \in 1 .. m
        <5>1. Closed(r) = Closed(q) + 1
          BY <1>10, <2>1, <2>2, <4>1 DEF PairInv, InStep
        <5>2. m = Len(rows[q]) + Len(pending[q]) /\ Len(posted[r][x]) = Len(pending[q])
          BY <1>6, <2>1, <4>1, <5>1 DEF PairInv, InStep
        <5>3. posted[r][x] \in Seq(Address)
          <6>1. posted[r] \in Seq(Seq(Address)) /\ x \in 1 .. Len(posted[r])
            BY <1>1, <1>10, <2>2, <4>1, Types
          <6>2. QED
            BY <6>1
        <5>4. i \in 1 .. Len(pending[q])
          BY <4>1, <5>2, <5>3
        <5> DEFINE l == Len(rows[q])
                   k == Len(pending[q])
        <5>5. l \in Nat /\ k \in Nat /\ m = l + k /\ i \in 1 .. k
          BY <2>2, <5>2, <5>4
        <5> HIDE DEF l, k
        <5>6. l + i \in 1 .. m
          BY <5>5
        <5>7. QED
          BY <5>6 DEF l
      <4>2. \A s \in 1 .. m : /\ s \in DOMAIN graphs'[r] /\ graphs'[r][s] = graphs[r][s]
                              /\ s \in 1 .. m + n
        BY <1>10, <1>12
      <4>3. QED
        BY <1>2, <1>13, <1>14, <2>1, <4>1, <4>2 DEF PairInv, NextOf
    <3>3. QED
      BY <3>1, <3>2
  <2>8. \A s \in 1 .. m : /\ s \in DOMAIN graphs'[r] /\ graphs'[r][s] = graphs[r][s]
    BY <1>10, <1>12
  <2>9. \A s \in DOMAIN rows[r] : s \in 1 .. m
    BY <1>10
  <2>10. \A s \in DOMAIN rows[q] : s \in 1 .. m
    BY <1>10, <2>2, <2>3
  <2>11. /\ Matched(r, q) /\ Matched(q, r) /\ rows' = rows
    BY <1>2, <2>1 DEF PairInv
  <2>12. Matched(r, q)' /\ Matched(q, r)'
    <3>1. CASE q = r
      BY <1>13, <1>14, <2>8, <2>9, <2>11, <3>1 DEF Matched
    <3>2. CASE q # r
      <4>1. graphs'[q] = graphs[q]
        BY <1>9, <3>2 DEF SameRank, SameShared
      <4>2. \A s, x, i, l : Numbered(q, s, x, i, l)' <=> Numbered(q, s, x, i, l)
        BY <4>1, NumberedSame
      <4>3. Matched(r, q)'
        BY <1>13, <1>14, <2>8, <2>9, <2>11, <4>1, <4>2 DEF Matched
      <4>4. Matched(q, r)'
        BY <1>13, <1>14, <2>8, <2>10, <2>11, <4>1, <4>2 DEF Matched
      <4>5. QED
        BY <4>3, <4>4
    <3>3. QED
      BY <3>1, <3>2
  <2>13. QED
    BY <2>4, <2>5, <2>6, <2>7, <2>12 DEF PairInv
<1>17. Len(posted'[r]) >= Len(posted[r])
  BY <1>2, <1>10
<1>18. QED
  BY <1>2, <1>8, <1>9, <1>15, <1>16, <1>17, StepOf

(* r's metadata is n addresses, of the tensors of the slots after the m-th, *)
(* which make up r's y-th registration.                                     *)
MetaIs(r, m, n, y) ==
    /\ LocalMeta(r) \in Seq(Address) /\ Len(LocalMeta(r)) = n
    /\ DOMAIN LocalMeta(r) = 1 .. n
    /\ \A i \in 1 .. n : /\ m + i \in DOMAIN graphs[r]
                         /\ pending[r][i] = graphs[r][m + i]
                         /\ LocalMeta(r)[i] = Where(r, graphs[r][m + i])
                         /\ Numbered(r, m + i, y, i, n)

(* What a rank sends, or has sent last, is where its pending tensors are.   *)
LEMMA MetaRight ==
    ASSUME IInv, NEW r \in Ranks, Active(r), phase[r] = "gather"
    PROVE  \A m, n, y :
              m = Len(rows[r]) /\ n = Len(pending[r]) /\ y = Closed(r) + 1 => MetaIs(r, m, n, y)
<1>0. SUFFICES ASSUME NEW m, m = Len(rows[r]), NEW n, n = Len(pending[r]),
                      NEW y, y = Closed(r) + 1
               PROVE  MetaIs(r, m, n, y)
  OBVIOUS
<1>1. Typing /\ RankInv(r)
  BY DEF IInv
<1>2. /\ m \in Nat /\ n \in Nat /\ DOMAIN graphs[r] = 1 .. m + n /\ DOMAIN pending[r] = 1 .. n
  <2>1. /\ m \in Nat /\ n \in Nat /\ Len(graphs[r]) = m + n
        /\ DOMAIN graphs[r] = 1 .. Len(graphs[r]) /\ DOMAIN pending[r] = 1 .. n
    BY <1>0, Counts
  <2>2. QED
    BY <2>1
<1>3. \A i \in 1 .. n : /\ pending[r][i] \in Tensor
                        /\ pending[r][i] = graphs[r][m + i]
                        /\ Numbered(r, m + i, y, i, n)
                        /\ pending[r][i].base \in DOMAIN handles[r]
  <2>1. \A i \in 1 .. n : pending[r][i] \in Tensor
    BY <1>1, <1>2, Types
  <2>2. \A i \in 1 .. n : pending[r][i] = graphs[r][m + i]
    BY <1>0, <1>1, <1>2 DEF RankInv, Pending
  <2>3. \A i \in 1 .. n : Numbered(r, m + i, y, i, n)
    BY <1>0, <1>1, <1>2 DEF RankInv, Numbers
  <2>4. \A i \in 1 .. n : pending[r][i].base \in DOMAIN handles[r]
    BY <1>1, <1>2 DEF RankInv, Memory
  <2>5. QED
    BY <2>1, <2>2, <2>3, <2>4
<1>4. DOMAIN LocalMeta(r) = 1 .. n
  BY <1>2 DEF LocalMeta
<1>5. \A i \in 1 .. n : m + i \in DOMAIN graphs[r]
  BY <1>2
<1>6. \A i \in 1 .. n : /\ LocalMeta(r)[i] = Where(r, pending[r][i])
                        /\ LocalMeta(r)[i] \in Address
  <2> SUFFICES ASSUME NEW i \in 1 .. n
               PROVE  /\ LocalMeta(r)[i] = Where(r, pending[r][i])
                      /\ LocalMeta(r)[i] \in Address
    OBVIOUS
  <2>1. PICK t \in Tensor : t = pending[r][i]
    BY <1>3
  <2>2. LocalMeta(r)[i] = <<handles[r][t.base], t.off>>
    BY <1>2, <2>1 DEF LocalMeta
  <2>3. handles[r][t.base] = LiveHandle(r, t.base)
    BY <1>1, <1>3, <2>1 DEF RankInv, Memory
  <2>4. t.base \in Bases /\ t.off \in Offsets
    BY TensorParts
  <2>5. LiveHandle(r, t.base) \in Bases \X Nat
    <3>1. segment[r] \in [Bases -> Nat]
      BY <1>1 DEF Typing
    <3>2. segment[r][t.base] \in Nat
      BY <2>4, <3>1
    <3>3. QED
      BY <2>4, <3>2 DEF LiveHandle
  <2>6. QED
    BY <2>1, <2>2, <2>3, <2>4, <2>5 DEF Where, Address
<1>7. LocalMeta(r) \in Seq(Address) /\ Len(LocalMeta(r)) = n
  <2>1. LocalMeta(r) = [i \in 1 .. n |-> LocalMeta(r)[i]]
    BY <1>2 DEF LocalMeta
  <2>2. PICK f : f = LocalMeta(r)
    OBVIOUS
  <2>3. f = [i \in 1 .. n |-> f[i]] /\ \A i \in 1 .. n : f[i] \in Address
    BY <1>6, <2>1, <2>2
  <2>4. f \in Seq(Address) /\ Len(f) = n
    BY <1>2, <2>3
  <2>5. QED
    BY <2>2, <2>4
<1>8. QED
  BY <1>3, <1>4, <1>5, <1>6, <1>7 DEF MetaIs

(* A broadcast is sent, or received.                                        *)
LEMMA BroadcastCorrect ==
    ASSUME IInv, NEW r \in Ranks, Broadcast(r)
    PROVE  IInv'
<1> USE DEF registry
<1>1. /\ Typing /\ Active(r) /\ RankInv(r) /\ phase[r] = "gather"
  BY DEF IInv, Broadcast, Active
<1>2. /\ turn[r] < NRanks /\ turn' = [turn EXCEPT ![r] = @ + 1]
      /\ UNCHANGED <<plan, phase, done, work, segment, pending, refs, rows, handles, graphs>>
      /\ IF turn[r] = r
         THEN posted' = [posted EXCEPT ![r] = Append(@, LocalMeta(r))]
         ELSE Len(posted[turn[r]]) >= Round(r) /\ posted' = posted
  BY DEF Broadcast
<1>3. PICK m, n, y : m = Len(rows[r]) /\ n = Len(pending[r]) /\ y = Closed(r) + 1
  OBVIOUS
<1>4. /\ LocalMeta(r) \in Seq(Address) /\ Len(LocalMeta(r)) = n
      /\ DOMAIN LocalMeta(r) = 1 .. n
      /\ \A i \in 1 .. n : /\ m + i \in DOMAIN graphs[r]
                           /\ LocalMeta(r)[i] = Where(r, graphs[r][m + i])
                           /\ Numbered(r, m + i, y, i, n)
  <2>1. MetaIs(r, m, n, y)
    BY <1>1, <1>3, MetaRight
  <2>2. QED
    BY <2>1 DEF MetaIs
<1>5. /\ turn[r] \in Nat /\ r \in Nat /\ NRanks \in Nat /\ turn'[r] = turn[r] + 1
      /\ \A q \in Ranks : q \in Nat
      /\ \A q \in Ranks \ {r} : turn'[q] = turn[q]
  <2>1. turn[r] \in Nat /\ r \in Nat
    BY <1>1, Types
  <2>2. QED
    BY <1>1, <1>2, <2>1, CaptureAssumption DEF Typing, Ranks
<1>6. /\ posted' \in [Ranks -> Seq(Seq(Address))]
      /\ \A q \in Ranks \ {r} : posted'[q] = posted[q]
  <2>1. posted \in [Ranks -> Seq(Seq(Address))] /\ posted[r] \in Seq(Seq(Address))
    BY <1>1, Types DEF Typing
  <2>2. Append(posted[r], LocalMeta(r)) \in Seq(Seq(Address))
    BY <1>4, <2>1
  <2>3. QED
    BY <1>2, <2>1, <2>2
<1>7. Typing'
  <2>1. turn' \in [Ranks -> 0 .. NRanks]
    <3>1. turn \in [Ranks -> 0 .. NRanks] /\ turn[r] + 1 \in 0 .. NRanks
      BY <1>1, <1>2, <1>5 DEF Typing
    <3>2. QED
      BY <1>2, <3>1
  <2>2. QED
    BY <1>1, <1>2, <1>6, <2>1 DEF Typing
<1>8. \A q \in Ranks \ {r} : SameRank(q)
  BY <1>2, <1>5, <1>6 DEF SameRank, SameShared
<1>9. /\ Len(posted[r]) = Closed(r) + (IF Open(r) THEN 1 ELSE 0) /\ Closed(r) \in Nat
      /\ Round(r) = Closed(r) + 1 /\ posted[r] \in Seq(Seq(Address))
      /\ m \in Nat /\ n \in Nat /\ y \in Nat
  <2>1. /\ Len(posted[r]) = Closed(r) + (IF Open(r) THEN 1 ELSE 0) /\ Closed(r) \in Nat
        /\ Round(r) = Closed(r) + 1
    BY <1>1, Counts
  <2>2. m \in Nat /\ n \in Nat
    BY <1>1, <1>3, Counts
  <2>3. posted[r] \in Seq(Seq(Address))
    BY <1>1, Types
  <2>4. QED
    BY <1>3, <2>1, <2>2, <2>3
<1>10. /\ turn[r] # r => posted'[r] = posted[r] /\ Open(r)' = Open(r)
       /\ turn[r] = r => /\ ~ Open(r) /\ Open(r)' /\ Len(posted[r]) = Closed(r)
                         /\ Len(posted'[r]) = y
                         /\ posted'[r][y] = LocalMeta(r)
                         /\ \A x \in 1 .. Closed(r) : posted'[r][x] = posted[r][x]
  <2>1. CASE turn[r] # r
    <3>1. turn'[r] > r <=> turn[r] > r
      BY <1>5, <2>1
    <3>2. QED
      BY <1>2, <2>1, <3>1 DEF Open
  <2>2. CASE turn[r] = r
    <3>1. ~ (turn[r] > r) /\ turn'[r] > r
      BY <1>5, <2>2
    <3>2. ~ Open(r) /\ Open(r)'
      BY <3>1 DEF Open
    <3>3. Len(posted[r]) = Closed(r)
      BY <1>9, <3>2
    <3>4. posted'[r] = Append(posted[r], LocalMeta(r))
      BY <1>1, <1>2, <2>2 DEF Typing
    <3>5. \A f \in Seq(Seq(Address)) : \A e :
              /\ Len(Append(f, e)) = Len(f) + 1 /\ Append(f, e)[Len(f) + 1] = e
              /\ \A x \in 1 .. Len(f) : Append(f, e)[x] = f[x]
      OBVIOUS
    <3>6. QED
      BY <1>3, <1>9, <2>2, <3>2, <3>3, <3>4, <3>5
  <2>3. QED
    BY <2>1, <2>2
<1>11. \A q \in Ranks : Closed(q)' = Closed(q) /\ (q # r => Open(q)' = Open(q))
  <2> SUFFICES ASSUME NEW q \in Ranks PROVE Closed(q)' = Closed(q) /\ (q # r => Open(q)' = Open(q))
    OBVIOUS
  <2>1. CASE q # r
    BY <1>5, <1>6, <2>1 DEF Open, Closed
  <2>2. CASE q = r /\ turn[r] # r
    BY <1>10, <2>2 DEF Closed
  <2>3. CASE q = r /\ turn[r] = r
    <3>1. Closed(r)' = Len(posted'[r]) - 1
      BY <1>10, <2>3 DEF Closed
    <3>2. QED
      BY <1>3, <1>9, <1>10, <2>3, <3>1
  <2>4. QED
    BY <2>1, <2>2, <2>3
<1>12. \A q, u : Where(q, u)' = Where(q, u)
  BY <1>2 DEF Where, LiveHandle
<1>13. \A q : \A s, x, i, l : Numbered(q, s, x, i, l)' <=> Numbered(q, s, x, i, l)
  BY <1>2, NumberedSame
<1>14. RankInv(r)'
  <2>1. Pending(r)'
    BY <1>1, <1>2 DEF RankInv, Pending
  <2>2. Calls(r)'
    BY <1>1, <1>2 DEF RankInv, Calls, RegisteredCalls
  <2>3. Numbers(r)'
    BY <1>1, <1>2, <1>11, NumberedSame DEF RankInv, Numbers
  <2>4. Memory(r)'
    BY <1>1, <1>2 DEF RankInv, Memory, LiveHandle, Kept
  <2>5. Exchange(r)'
    <3>1. LocalMeta(r)' = LocalMeta(r)
      BY <1>2 DEF LocalMeta
    <3>2. Exchange(r)
      BY <1>1 DEF RankInv
    <3>3. Open(r)' => posted'[r] # <<>> /\ posted'[r][Len(posted'[r])] = LocalMeta(r)'
      <4>1. CASE turn[r] # r
        BY <1>10, <3>1, <3>2, <4>1 DEF Exchange
      <4>2. CASE turn[r] = r
        <5>1. Len(posted'[r]) = y /\ posted'[r][y] = LocalMeta(r) /\ y # 0
          BY <1>3, <1>9, <1>10, <4>2
        <5>2. QED
          BY <3>1, <5>1
      <4>3. QED
        BY <4>1, <4>2
    <3>4. ASSUME NEW q \in Ranks, q < turn'[r] PROVE Len(posted'[q]) > Closed(r)'
      <4>1. CASE q < turn[r] /\ q # r
        BY <1>6, <1>11, <3>2, <4>1 DEF Exchange
      <4>2. CASE q < turn[r] /\ q = r
        <5>1. turn[r] # r
          BY <1>5, <4>2
        <5>2. QED
          BY <1>10, <1>11, <3>2, <4>2, <5>1 DEF Exchange
      <4>3. CASE q = turn[r]
        <5>1. CASE q = r
          BY <1>3, <1>9, <1>10, <1>11, <4>3, <5>1
        <5>2. CASE q # r
          <6>1. Len(posted[q]) >= Round(r) /\ posted'[q] = posted[q]
            BY <1>2, <1>6, <4>3, <5>2
          <6>2. Len(posted[q]) \in Nat
            <7>1. posted[q] \in Seq(Seq(Address))
              BY <1>1, Types
            <7>2. QED
              BY <7>1
          <6>3. QED
            BY <1>9, <1>11, <6>1, <6>2
        <5>3. QED
          BY <5>1, <5>2
      <4>4. QED
        BY <1>5, <3>4, <4>1, <4>2, <4>3
    <3>5. QED
      BY <3>3, <3>4 DEF Exchange
  <2>6. QED
    BY <2>1, <2>2, <2>3, <2>4, <2>5 DEF RankInv
<1>15. ASSUME NEW q \in Ranks, Active(q)'
       PROVE  PairInv(r, q)' /\ PairInv(q, r)'
  <2>1. Active(q) /\ PairInv(r, q) /\ PairInv(q, r)
    BY <1>1, <1>2, <1>15 DEF IInv, Active
  <2>2. Matched(r, q)' /\ Matched(q, r)'
    BY <1>2, <1>12, <1>13, <2>1 DEF PairInv, Matched
  <2>3. InStep(r, q) /\ InStep(q, r) /\ NextOf(r, q) /\ NextOf(q, r)
    BY <2>1 DEF PairInv
  <2>4. CASE turn[r] # r
    <3>1. posted' = posted /\ \A p \in Ranks : Open(p)' = Open(p)
      BY <1>2, <1>10, <1>11, <2>4
    <3>2. InStep(r, q)' /\ InStep(q, r)'
      BY <1>2, <1>11, <2>3, <3>1 DEF InStep
    <3>3. NextOf(r, q)' /\ NextOf(q, r)'
      BY <1>2, <1>11, <1>12, <1>13, <2>3, <3>1 DEF NextOf
    <3>4. QED
      BY <2>2, <3>2, <3>3 DEF PairInv
  <2>5. CASE turn[r] = r /\ q = r
    <3>1. InStep(r, r)'
      <4>1. Closed(r)' # Closed(r)' + 1 /\ Closed(r)' <= Closed(r)' + 1
        BY <1>9, <1>11
      <4>2. QED
        BY <4>1 DEF InStep
    <3>2. NextOf(r, r)'
      <4>1. /\ Closed(r)' + 1 = y /\ posted'[r][y] = LocalMeta(r) /\ Len(rows'[r]) = m
            /\ graphs' = graphs
        BY <1>2, <1>3, <1>10, <1>11, <2>5
      <4>2. QED
        BY <1>4, <1>12, <1>13, <4>1 DEF NextOf
    <3>3. QED
      BY <2>2, <2>5, <3>1, <3>2 DEF PairInv
  <2>6. CASE turn[r] = r /\ q # r
    <3>1. /\ posted'[q] = posted[q] /\ Open(q)' = Open(q) /\ ~ Open(r)
          /\ Closed(r)' = Closed(r) /\ Closed(q)' = Closed(q)
      BY <1>6, <1>10, <1>11, <2>6
    <3>2. Closed(q) \in Nat
      BY <2>1, Counts
    <3>3. InStep(r, q)'
      BY <1>2, <2>3, <3>1 DEF InStep
    <3>4. Closed(r) = Closed(q) + 1 => posted'[r][Closed(r)] = posted[r][Closed(r)]
      <4>1. Closed(r) = Closed(q) + 1 => Closed(r) \in 1 .. Closed(r)
        BY <1>9, <3>2
      <4>2. QED
        BY <1>10, <2>6, <4>1
    <3>5. InStep(q, r)'
      BY <1>2, <2>3, <3>1, <3>4 DEF InStep
    <3>6. NextOf(r, q)'
      BY <1>2, <1>12, <1>13, <2>3, <3>1 DEF NextOf
    <3>7. NextOf(q, r)'
      <4>1. CASE Closed(q) = Closed(r)
        <5>1. /\ Closed(q)' + 1 = y /\ posted'[r][y] = LocalMeta(r) /\ Len(rows'[q]) = m
              /\ graphs' = graphs
          BY <1>2, <1>3, <1>10, <2>3, <2>6, <3>1, <4>1 DEF InStep
        <5>2. QED
          BY <1>4, <1>12, <1>13, <5>1 DEF NextOf
      <4>2. CASE Closed(q) # Closed(r)
        <5>1. ASSUME NEW x, x = Closed(q) + 1, x <= y
              PROVE  x <= Len(posted[r]) /\ posted'[r][x] = posted[r][x]
          <6>1. x \in 1 .. Closed(r)
            BY <1>3, <1>9, <3>2, <4>2, <5>1
          <6>2. QED
            BY <1>10, <2>6, <6>1
        <5>2. PICK x : x = Closed(q) + 1
          OBVIOUS
        <5>3. Closed(q)' + 1 = x /\ Len(posted'[r]) = y
          BY <1>10, <2>6, <3>1, <5>2
        <5>4. x <= y => x <= Len(posted[r]) /\ posted'[r][x] = posted[r][x]
          BY <5>1, <5>2
        <5>5. QED
          BY <1>2, <1>12, <1>13, <2>3, <5>2, <5>3, <5>4 DEF NextOf
      <4>3. QED
        BY <4>1, <4>2
    <3>8. QED
      BY <2>2, <3>3, <3>5, <3>6, <3>7 DEF PairInv
  <2>7. QED
    BY <2>4, <2>5, <2>6
<1>16. Len(posted'[r]) >= Len(posted[r])
  BY <1>3, <1>9, <1>10
<1>17. QED
  BY <1>2, <1>7, <1>8, <1>14, <1>15, <1>16, StepOf

(* The rows of an exchange get the addresses that every rank has sent.      *)
LEMMA RegisterCorrect ==
    ASSUME IInv, NEW r \in Ranks, Register(r)
    PROVE  IInv'
<1>1. /\ Typing /\ Active(r) /\ RankInv(r) /\ phase[r] = "gather" /\ turn[r] = NRanks
  BY DEF IInv, Register, Active
<1>2. /\ \A q \in Ranks : Len(Gathered(r, q)) = Len(pending[r])
      /\ rows' = [rows EXCEPT ![r] = @ \o NewRows(r)]
      /\ refs' = [refs EXCEPT ![r] = Kept(r)]
      /\ pending' = [pending EXCEPT ![r] = <<>>]
      /\ turn' = [turn EXCEPT ![r] = 0]
      /\ phase' = [phase EXCEPT ![r] = "idle"]
      /\ done' = [done EXCEPT ![r] = @ + 1]
      /\ UNCHANGED <<plan, work, segment, handles, graphs, posted>>
  BY DEF Register, SameCount, KeepInputs
<1>3. PICK m, n, c, y : /\ m = Len(rows[r]) /\ n = Len(pending[r])
                        /\ c = Closed(r) /\ y = Closed(r) + 1
  OBVIOUS
<1>4. /\ m \in Nat /\ n \in Nat \ {0} /\ c \in Nat /\ y = c + 1 /\ Round(r) = y
      /\ Open(r) /\ Len(posted[r]) = y
      /\ DOMAIN graphs[r] = 1 .. m + n /\ DOMAIN pending[r] = 1 .. n
      /\ DOMAIN rows[r] = 1 .. m /\ done[r] \in Nat /\ done[r] < Len(plan) /\ Len(plan) \in Nat
  <2>1. Open(r)
    BY <1>1, CaptureAssumption DEF Open, Ranks
  <2>2. /\ Closed(r) \in Nat /\ Round(r) = Closed(r) + 1 /\ Len(posted[r]) = Closed(r) + 1
    BY <1>1, <2>1, Counts
  <2>3. /\ m \in Nat /\ n \in Nat /\ Len(graphs[r]) = m + n
        /\ DOMAIN graphs[r] = 1 .. Len(graphs[r])
        /\ DOMAIN pending[r] = 1 .. n /\ DOMAIN rows[r] = 1 .. m
    BY <1>1, <1>3, Counts
  <2>4. n # 0
    <3>1. pending[r] # <<>> /\ pending[r] \in Seq(Tensor)
      BY <1>1, Types DEF RankInv, Pending
    <3>2. QED
      BY <1>3, <3>1
  <2>5. done[r] \in Nat /\ done[r] < Len(plan) /\ Len(plan) \in Nat
    BY <1>1, Types DEF RankInv, Pending
  <2>6. QED
    BY <1>3, <2>1, <2>2, <2>3, <2>4, <2>5
<1>5. \A q \in Ranks : /\ posted[q] \in Seq(Seq(Address)) /\ Len(posted[q]) \in Nat
                       /\ Len(posted[q]) >= y /\ Gathered(r, q) = posted[q][y]
                       /\ posted[q][y] \in Seq(Address) /\ Len(posted[q][y]) = n
                       /\ DOMAIN posted[q][y] = 1 .. n
  <2> SUFFICES ASSUME NEW q \in Ranks
               PROVE  /\ posted[q] \in Seq(Seq(Address)) /\ Len(posted[q]) \in Nat
                      /\ Len(posted[q]) >= y /\ Gathered(r, q) = posted[q][y]
                      /\ posted[q][y] \in Seq(Address) /\ Len(posted[q][y]) = n
                      /\ DOMAIN posted[q][y] = 1 .. n
    OBVIOUS
  <2>1. posted[q] \in Seq(Seq(Address)) /\ Len(posted[q]) \in Nat
    <3>1. posted[q] \in Seq(Seq(Address))
      BY <1>1, Types
    <3>2. QED
      BY <3>1
  <2>2. q < turn[r]
    BY <1>1, CaptureAssumption DEF Ranks
  <2>3. Len(posted[q]) > c
    BY <1>1, <1>3, <2>2 DEF RankInv, Exchange
  <2>4. Len(posted[q]) >= y /\ y \in 1 .. Len(posted[q])
    BY <1>4, <2>1, <2>3
  <2>5. posted[q][y] \in Seq(Address)
    BY <2>1, <2>4
  <2>6. Gathered(r, q) = posted[q][y]
    BY <1>4 DEF Gathered
  <2>7. Len(posted[q][y]) = n
    BY <1>2, <1>3, <2>6
  <2>8. QED
    BY <2>1, <2>4, <2>5, <2>6, <2>7
<1>6. MetaIs(r, m, n, y)
  BY <1>1, <1>3, MetaRight
<1>7. /\ Len(NewRows(r)) = n /\ NewRows(r) \in Seq([Ranks -> Address])
      /\ \A i \in 1 .. n : \A q \in Ranks :
            NewRows(r)[i][q] = IF q = r THEN Where(r, graphs[r][m + i]) ELSE posted[q][y][i]
  <2>1. ASSUME NEW i \in 1 .. n
        PROVE  /\ NewRows(r)[i] \in [Ranks -> Address]
               /\ \A q \in Ranks : NewRows(r)[i][q] =
                    IF q = r THEN Where(r, graphs[r][m + i]) ELSE posted[q][y][i]
    <3> DEFINE row == [q \in Ranks |->
                         IF q = r THEN <<LiveHandle(r, pending[r][i].base), pending[r][i].off>>
                         ELSE Gathered(r, q)[i]]
    <3>1. NewRows(r)[i] = row
      BY <1>4 DEF NewRows
    <3>2. /\ pending[r][i] = graphs[r][m + i]
          /\ LocalMeta(r)[i] = Where(r, graphs[r][m + i])
          /\ LocalMeta(r)[i] \in Address
      BY <1>6 DEF MetaIs
    <3>3. <<LiveHandle(r, pending[r][i].base), pending[r][i].off>> = Where(r, graphs[r][m + i])
      BY <3>2 DEF Where
    <3>4. \A q \in Ranks : Gathered(r, q)[i] = posted[q][y][i] /\ posted[q][y][i] \in Address
      BY <1>5
    <3>5. \A q \in Ranks : row[q] = IF q = r THEN Where(r, graphs[r][m + i]) ELSE posted[q][y][i]
      BY <3>3, <3>4
    <3>6. \A q \in Ranks : row[q] \in Address
      BY <3>2, <3>4, <3>5
    <3>7. row \in [Ranks -> Address]
      BY <3>6
    <3> HIDE DEF row
    <3>8. QED
      BY <3>1, <3>5, <3>7
  <2>2. PICK f : f = NewRows(r)
    OBVIOUS
  <2>3. f = [i \in 1 .. n |-> f[i]] /\ \A i \in 1 .. n : f[i] \in [Ranks -> Address]
    BY <1>4, <2>1, <2>2 DEF NewRows
  <2>4. f \in Seq([Ranks -> Address]) /\ Len(f) = n
    BY <1>4, <2>3
  <2>5. QED
    BY <2>1, <2>2, <2>4
<1>8. /\ rows'[r] \in Seq([Ranks -> Address]) /\ Len(rows'[r]) = m + n
      /\ DOMAIN rows'[r] = 1 .. m + n
      /\ \A s \in 1 .. m : rows'[r][s] = rows[r][s]
      /\ \A i \in 1 .. n : rows'[r][m + i] = NewRows(r)[i]
  <2>1. rows[r] \in Seq([Ranks -> Address]) /\ rows'[r] = rows[r] \o NewRows(r)
    BY <1>1, <1>2, Types DEF Typing
  <2>2. PICK f, g : f = rows[r] /\ g = NewRows(r)
    OBVIOUS
  <2>3. /\ f \in Seq([Ranks -> Address]) /\ g \in Seq([Ranks -> Address])
        /\ Len(f) = m /\ Len(g) = n /\ rows'[r] = f \o g
    BY <1>3, <1>7, <2>1, <2>2
  <2>4. /\ f \o g \in Seq([Ranks -> Address]) /\ Len(f \o g) = m + n
        /\ DOMAIN (f \o g) = 1 .. m + n
        /\ \A s \in 1 .. m : (f \o g)[s] = f[s]
        /\ \A i \in 1 .. n : (f \o g)[m + i] = g[i]
    <3> DEFINE S == [Ranks -> Address]
    <3>1. f \in Seq(S) /\ g \in Seq(S) /\ Len(f) = m /\ Len(g) = n /\ m \in Nat /\ n \in Nat
      BY <1>4, <2>3
    <3> HIDE DEF S
    <3>2. f \o g \in Seq(S)
      BY <3>1
    <3>3. Len(f \o g) = m + n
      BY <3>1
    <3>4. DOMAIN (f \o g) = 1 .. m + n
      BY <3>2, <3>3
    <3>5. \A s \in 1 .. m : (f \o g)[s] = f[s]
      BY <3>1
    <3>6. \A i \in 1 .. n : (f \o g)[m + i] = g[i]
      <4>1. \A i \in 1 .. n : ~ (m + i <= m) /\ m + i \in 1 .. m + n /\ m + i - m = i
        BY <3>1
      <4>2. QED
        BY <3>1, <4>1
    <3>7. QED
      BY <3>2, <3>3, <3>4, <3>5, <3>6 DEF S
  <2>5. QED
    BY <2>2, <2>3, <2>4
<1>9. \A t \in Kept(r) : t \in Tensor
  BY <1>1, Types DEF Kept, Typing
<1>10. Typing'
  <2>1. done' \in [Ranks -> 0 .. Len(plan)]
    <3>1. done[r] + 1 \in 0 .. Len(plan) /\ done \in [Ranks -> 0 .. Len(plan)]
      BY <1>1, <1>4 DEF Typing
    <3>2. QED
      BY <1>2, <3>1
  <2>2. rows' \in [Ranks -> Seq([Ranks -> Address])]
    <3>1. rows \in [Ranks -> Seq([Ranks -> Address])]
      BY <1>1 DEF Typing
    <3>2. rows' = [rows EXCEPT ![r] = rows'[r]]
      BY <1>2, <3>1
    <3>3. QED
      BY <1>8, <3>1, <3>2
  <2>3. turn' \in [Ranks -> 0 .. NRanks]
    BY <1>1, <1>2, CaptureAssumption DEF Typing
  <2>4. refs' \in [Ranks -> SUBSET Tensor]
    BY <1>1, <1>2, <1>9 DEF Typing
  <2>5. pending' \in [Ranks -> Seq(Tensor)]
    BY <1>1, <1>2 DEF Typing
  <2>6. QED
    BY <1>1, <1>2, <2>1, <2>2, <2>3, <2>4, <2>5 DEF Typing
<1>11. \A q \in Ranks \ {r} : SameRank(q)
  BY <1>1, <1>2 DEF Typing, SameRank, SameShared
<1>12. /\ phase'[r] = "idle" /\ pending'[r] = <<>> /\ turn'[r] = 0 /\ refs'[r] = Kept(r)
       /\ done'[r] = done[r] + 1
  BY <1>1, <1>2 DEF Typing
<1>13. ~ Open(r)' /\ Closed(r)' = y /\ r \in Nat
  <2>1. r \in Nat
    BY DEF Ranks
  <2>2. ~ Open(r)'
    BY <1>12, <2>1 DEF Open
  <2>3. QED
    BY <1>2, <1>4, <2>1, <2>2 DEF Closed
<1>14. \A q \in Ranks \ {r} : Open(q)' = Open(q) /\ Closed(q)' = Closed(q)
  BY <1>2, <1>11 DEF Open, Closed, SameRank, SameShared
<1>15. \A q, u : Where(q, u)' = Where(q, u)
  BY <1>2 DEF Where, LiveHandle
<1>16. \A q : \A s, x, i, l : Numbered(q, s, x, i, l)' <=> Numbered(q, s, x, i, l)
  BY <1>2, NumberedSame
<1>17. RankInv(r)'
  <2>1. Pending(r)'
    <3>1. Len(graphs'[r]) = m + n
      <4>1. Len(graphs[r]) = Len(rows[r]) + Len(pending[r])
        BY <1>1, Counts
      <4>2. QED
        BY <1>2, <1>3, <4>1
    <3>2. Len(pending'[r]) = 0 /\ DOMAIN pending'[r] = {}
      BY <1>12
    <3>3. Len(graphs'[r]) = Len(rows'[r]) + Len(pending'[r])
      BY <1>4, <1>8, <3>1, <3>2
    <3>4. QED
      BY <1>12, <3>2, <3>3 DEF Pending
  <2>2. Calls(r)'
    <3>1. \A s \in 1 .. m + n :
            /\ graphs[r][s].call[1] \in 1 .. Len(plan)
            /\ graphs[r][s].call[2] \in RegisteredCalls(graphs[r][s].call[1])
            /\ IF s <= m THEN graphs[r][s].call[1] <= done[r]
                         ELSE graphs[r][s].call[1] = done[r] + 1
      BY <1>1, <1>3, <1>4 DEF RankInv, Calls
    <3>2. \A s \in 1 .. m + n : graphs[r][s].call[1] <= done[r] + 1
      BY <1>4, <3>1
    <3>3. \A k : RegisteredCalls(k)' = RegisteredCalls(k)
      BY <1>2 DEF RegisteredCalls
    <3>4. /\ plan' = plan /\ graphs' = graphs /\ DOMAIN graphs[r] = 1 .. m + n
          /\ \A s \in 1 .. m + n : s <= Len(rows'[r])
      BY <1>2, <1>4, <1>8
    <3>5. QED
      BY <1>12, <3>1, <3>2, <3>3, <3>4 DEF Calls
  <2>3. Numbers(r)'
    <3>1. PICK k : k = done[r] + 1
      OBVIOUS
    <3>2. Cardinality(Registrations(r, k)) = y
      <4>1. Numbered(r, m + 1, y, 1, n) /\ m + 1 \in DOMAIN graphs[r]
        BY <1>4, <1>6 DEF MetaIs
      <4>2. graphs[r][m + 1].call[1] = k
        <5>1. ~ (m + 1 <= m)
          BY <1>4
        <5>2. QED
          BY <1>1, <1>3, <3>1, <4>1, <5>1 DEF RankInv, Calls
      <4>3. QED
        BY <4>1, <4>2 DEF Numbered
    <3>3. Registrations(r, k)' = Registrations(r, k)
      BY <1>2, NumberedSame
    <3>4. Registrations(r, done[r])' = Registrations(r, k)'
      BY <1>12, <3>1 DEF Registrations, CapturedCalls
    <3>5. DOMAIN pending'[r] = {}
      BY <1>12
    <3>6. QED
      BY <1>13, <3>2, <3>3, <3>4, <3>5 DEF Numbers
  <2>4. Memory(r)'
    <3>1. \A s \in 1 .. m + n : graphs'[r][s] \in refs'[r]
      <4> SUFFICES ASSUME NEW s \in 1 .. m + n PROVE graphs[r][s] \in Kept(r)
        BY <1>2, <1>12
      <4>1. CASE s <= m
        <5>1. s \in 1 .. m
          BY <1>4, <4>1
        <5>2. QED
          BY <1>1, <1>3, <5>1 DEF RankInv, Memory, Kept
      <4>2. CASE ~ (s <= m)
        <5>1. s - m \in 1 .. n /\ m + (s - m) = s
          BY <1>4, <4>2
        <5>2. pending[r][s - m] = graphs[r][s]
          BY <1>6, <5>1 DEF MetaIs
        <5>3. QED
          BY <1>4, <5>1, <5>2 DEF Kept
      <4>3. QED
        BY <4>1, <4>2
    <3>2. Kept(r)' = Kept(r)
      <4>1. DOMAIN pending'[r] = {}
        BY <1>12
      <4>2. Kept(r)' = refs'[r] \cup {}
        BY <4>1 DEF Kept
      <4>3. QED
        BY <1>12, <4>2
    <3>3. \A b \in DOMAIN handles[r] :
              handles[r][b] = LiveHandle(r, b) /\ \E u \in Kept(r) : u.base = b
      BY <1>1 DEF RankInv, Memory
    <3>4. \A b : LiveHandle(r, b)' = LiveHandle(r, b)
      BY <1>2 DEF LiveHandle
    <3>5. QED
      BY <1>2, <1>8, <1>12, <3>1, <3>2, <3>3, <3>4 DEF Memory
  <2>5. Exchange(r)'
    <3>1. \A q \in Ranks : q \in Nat
      BY DEF Ranks
    <3>2. QED
      BY <1>12, <3>1 DEF Exchange, Open
  <2>6. QED
    BY <2>1, <2>2, <2>3, <2>4, <2>5 DEF RankInv
<1>18. ASSUME NEW q \in Ranks, Active(q)'
       PROVE  PairInv(r, q)' /\ PairInv(q, r)'
  <2>1. Active(q) /\ PairInv(r, q) /\ PairInv(q, r)
    <3>1. Active(q)
      BY <1>1, <1>2, <1>18 DEF Active, Typing
    <3>2. QED
      BY <1>1, <3>1 DEF IInv
  <2>2. InStep(r, q) /\ InStep(q, r) /\ NextOf(r, q) /\ NextOf(q, r) /\ Matched(r, q) /\ Matched(q, r)
    BY <2>1 DEF PairInv
  <2>3. Matched(r, q)'
    <3> SUFFICES ASSUME NEW s \in 1 .. m + n
                 PROVE  /\ s \in DOMAIN graphs[q]
                        /\ rows'[r][s][q] = Where(q, graphs[q][s])
                        /\ \E x, i, l \in Nat : Numbered(r, s, x, i, l) /\ Numbered(q, s, x, i, l)
      BY <1>2, <1>8, <1>15, <1>16 DEF Matched
    <3>1. CASE s <= m
      <4>1. s \in DOMAIN rows[r] /\ rows'[r][s] = rows[r][s]
        BY <1>4, <1>8, <3>1
      <4>2. QED
        BY <2>2, <4>1 DEF Matched
    <3>2. CASE ~ (s <= m)
      <4>1. PICK i : i = s - m
        OBVIOUS
      <4>2. i \in 1 .. n /\ s = m + i /\ i \in Nat /\ y \in Nat /\ n \in Nat
        BY <1>4, <3>2, <4>1
      <4>3. Numbered(r, s, y, i, n)
        BY <1>6, <4>2 DEF MetaIs
      <4>4. /\ s \in DOMAIN graphs[q] /\ rows'[r][s][q] = Where(q, graphs[q][s])
            /\ Numbered(q, s, y, i, n)
        <5>1. rows'[r][s] = NewRows(r)[i]
          BY <1>8, <4>2
        <5>2. CASE q = r
          <6>1. s \in DOMAIN graphs[r]
            BY <1>4
          <6>2. NewRows(r)[i][r] = Where(r, graphs[r][s])
            BY <1>7, <4>2
          <6>3. QED
            BY <4>3, <5>1, <5>2, <6>1, <6>2
        <5>3. CASE q # r
          <6>1. NewRows(r)[i][q] = posted[q][y][i]
            BY <1>7, <4>2, <5>3
          <6>2. /\ y <= Len(posted[q]) /\ i \in DOMAIN posted[q][y] /\ Len(posted[q][y]) = n
            BY <1>4, <1>5, <4>2
          <6>3. \A j \in DOMAIN posted[q][y] :
                    /\ m + j \in DOMAIN graphs[q]
                    /\ posted[q][y][j] = Where(q, graphs[q][m + j])
                    /\ Numbered(q, m + j, y, j, Len(posted[q][y]))
            BY <1>3, <2>2, <6>2 DEF NextOf
          <6>4. QED
            BY <4>2, <5>1, <6>1, <6>2, <6>3
        <5>4. QED
          BY <5>2, <5>3
      <4>5. QED
        BY <4>2, <4>3, <4>4
    <3>3. QED
      BY <3>1, <3>2
  <2>4. CASE q = r
    <3>1. InStep(r, r)'
      <4>1. Closed(r)' # Closed(r)' + 1 /\ Closed(r)' <= Closed(r)' + 1
        BY <1>4, <1>13
      <4>2. QED
        BY <4>1 DEF InStep
    <3>2. NextOf(r, r)'
      <4>1. ~ (Closed(r)' + 1 <= Len(posted'[r]))
        BY <1>2, <1>4, <1>13
      <4>2. QED
        BY <4>1 DEF NextOf
    <3>3. QED
      BY <2>3, <2>4, <3>1, <3>2 DEF PairInv
  <2>5. CASE q # r
    <3>1. /\ Closed(q)' = Closed(q) /\ Open(q)' = Open(q) /\ pending'[q] = pending[q]
          /\ rows'[q] = rows[q]
      BY <1>11, <1>14, <2>5 DEF SameRank, SameShared
    <3>2. PICK d, l, k : d = Closed(q) /\ l = Len(rows[q]) /\ k = Len(pending[q])
      OBVIOUS
    <3>3. /\ d \in Nat /\ l \in Nat /\ k \in Nat
          /\ Len(posted[q]) = d + (IF Open(q) THEN 1 ELSE 0)
      BY <2>1, <3>2, Counts
    <3>4. /\ d <= y /\ c <= d
          /\ d = c => Open(q) /\ Len(posted[q]) = y
      <4>1. d <= c + 1
        BY <1>3, <2>2, <3>2 DEF InStep
      <4>2. Len(posted[q]) >= y
        BY <1>5
      <4>3. CASE Open(q)
        BY <1>4, <3>3, <4>1, <4>2, <4>3
      <4>4. CASE ~ Open(q)
        BY <1>4, <3>3, <4>1, <4>2, <4>4
      <4>5. QED
        BY <4>3, <4>4
    <3>5. d = y => l = m + n
      BY <1>3, <1>4, <2>2, <3>2 DEF InStep
    <3>6. d = c => l = m
      BY <1>3, <2>2, <3>2 DEF InStep
    <3>7. d = c => k = n
      <4> SUFFICES ASSUME d = c PROVE k = n
        OBVIOUS
      <4>1. Open(q) /\ Len(posted[q]) = y
        BY <3>4
      <4>2. phase[q] = "gather" /\ RankInv(q)
        BY <2>1, <4>1, Counts DEF IInv
      <4>3. posted[q][y] = LocalMeta(q)
        BY <4>1, <4>2 DEF RankInv, Exchange
      <4>4. MetaIs(q, l, k, d + 1)
        BY <2>1, <3>2, <4>2, MetaRight
      <4>5. QED
        BY <1>5, <4>3, <4>4 DEF MetaIs
    <3>8. InStep(r, q)'
      <4>1. d <= y + 1 /\ d # y + 1
        BY <1>4, <3>3, <3>4
      <4>2. QED
        BY <1>8, <1>13, <3>1, <3>2, <3>5, <4>1 DEF InStep
    <3>9. InStep(q, r)'
      <4>1. y <= d + 1
        BY <1>4, <3>3, <3>4
      <4>2. y = d => m + n = l
        BY <3>5
      <4>3. y = d + 1 => Open(q) /\ m + n = l + k /\ Len(posted[r][y]) = k
        <5> SUFFICES ASSUME y = d + 1 PROVE Open(q) /\ m + n = l + k /\ Len(posted[r][y]) = k
          OBVIOUS
        <5>1. d = c
          BY <1>4, <3>3
        <5>2. QED
          BY <1>5, <3>4, <3>6, <3>7, <5>1
      <4>4. posted' = posted
        BY <1>2
      <4>5. QED
        BY <1>8, <1>13, <3>1, <3>2, <4>1, <4>2, <4>3, <4>4 DEF InStep
    <3>10. NextOf(r, q)'
      <4> SUFFICES ASSUME y + 1 <= Len(posted[q])
                   PROVE  /\ posted[q][y + 1] = LocalMeta(q)
                          /\ MetaIs(q, m + n, k, y + 1)
        <5>1. Closed(r)' + 1 = y + 1 /\ Len(rows'[r]) = m + n /\ posted' = posted /\ graphs' = graphs
          BY <1>2, <1>8, <1>13
        <5>2. QED
          BY <1>15, <1>16, <5>1 DEF NextOf, MetaIs
      <4>1. d = y /\ Open(q)
        <5>1. CASE Open(q)
          BY <1>4, <3>3, <3>4, <5>1
        <5>2. CASE ~ Open(q)
          BY <1>4, <3>3, <3>4, <5>2
        <5>3. QED
          BY <5>1, <5>2
      <4>2. phase[q] = "gather" /\ RankInv(q)
        BY <2>1, <4>1, Counts DEF IInv
      <4>3. Len(posted[q]) = y + 1
        BY <3>3, <4>1
      <4>4. posted[q][y + 1] = LocalMeta(q)
        BY <4>1, <4>2, <4>3 DEF RankInv, Exchange
      <4>5. l = m + n /\ l = Len(rows[q]) /\ k = Len(pending[q]) /\ y + 1 = Closed(q) + 1
        BY <3>2, <3>5, <4>1
      <4>6. QED
        BY <2>1, <4>2, <4>4, <4>5, MetaRight
    <3>11. NextOf(q, r)'
      <4>1. Closed(q)' + 1 = d + 1 /\ posted' = posted /\ graphs' = graphs
        BY <1>2, <3>1, <3>2
      <4>2. QED
        BY <1>15, <1>16, <2>2, <3>1, <3>2, <4>1 DEF NextOf
    <3>12. Matched(q, r)'
      BY <1>2, <1>15, <1>16, <2>2, <3>1 DEF Matched
    <3>13. QED
      BY <2>3, <3>8, <3>9, <3>10, <3>11, <3>12 DEF PairInv
  <2>6. QED
    BY <2>4, <2>5
<1>19. Len(posted'[r]) >= Len(posted[r])
  BY <1>2, <1>4
<1>20. QED
  BY <1>2, <1>10, <1>11, <1>17, <1>18, <1>19, StepOf

-----------------------------------------------------------------------------
(* The invariant.                                                           *)

(* Nothing has been captured yet.                                           *)
LEMMA InitCorrect == Init => IInv
<1> SUFFICES ASSUME Init PROVE IInv
  OBVIOUS
<1>1. Len(plan) \in Nat /\ NRanks \in Nat
  BY CaptureAssumption DEF Init
<1>2. Typing
  BY <1>1 DEF Init, Typing
<1>3. \A r \in Ranks : /\ r \in Nat /\ pending[r] = <<>> /\ graphs[r] = <<>> /\ rows[r] = <<>>
                       /\ posted[r] = <<>> /\ turn[r] = 0 /\ phase[r] = "idle" /\ done[r] = 0
                       /\ handles[r] = <<>>
  BY DEF Init, Ranks
<1>4. \A r \in Ranks : /\ Len(pending[r]) = 0 /\ Len(graphs[r]) = 0 /\ Len(rows[r]) = 0
                       /\ Len(posted[r]) = 0 /\ ~ Open(r) /\ Closed(r) = 0
                       /\ DOMAIN pending[r] = {} /\ DOMAIN graphs[r] = {} /\ DOMAIN rows[r] = {}
                       /\ DOMAIN handles[r] = {}
  BY <1>3 DEF Open, Closed
<1>5. ASSUME NEW r \in Ranks PROVE RankInv(r)
  <2>1. Pending(r)
    <3>1. Len(graphs[r]) = Len(rows[r]) + Len(pending[r])
      <4>1. Len(graphs[r]) = 0 /\ Len(rows[r]) = 0 /\ Len(pending[r]) = 0
        BY <1>4
      <4>2. \A i, j, k : i = 0 /\ j = 0 /\ k = 0 => i = j + k
        OBVIOUS
      <4>3. QED
        BY <4>1, <4>2
    <3>2. phase[r] = "idle" /\ pending[r] = <<>> /\ turn[r] = 0 /\ DOMAIN pending[r] = {}
      BY <1>3, <1>4
    <3>3. QED
      BY <3>1, <3>2 DEF Pending
  <2>2. Calls(r)
    BY <1>3, <1>4 DEF Calls
  <2>3. Numbers(r)
    <3>1. Registrations(r, done[r]) = {}
      BY <1>3 DEF Registrations
    <3>2. QED
      BY <1>4, <1>5, <3>1, FS_EmptySet DEF Numbers
  <2>4. Memory(r)
    BY <1>3, <1>4 DEF Memory
  <2>5. Exchange(r)
    <3>1. \A q \in Ranks : ~ (q < turn[r])
      BY <1>3
    <3>2. QED
      BY <1>4, <3>1 DEF Exchange
  <2>6. QED
    BY <2>1, <2>2, <2>3, <2>4, <2>5 DEF RankInv
<1>6. ASSUME NEW r \in Ranks, NEW q \in Ranks PROVE PairInv(r, q)
  <2>1. InStep(r, q)
    <3>1. Closed(q) <= Closed(r) + 1 /\ Closed(q) # Closed(r) + 1
      BY <1>4
    <3>2. Len(rows[q]) = Len(rows[r])
      BY <1>4
    <3>3. QED
      BY <3>1, <3>2 DEF InStep
  <2>2. NextOf(r, q)
    BY <1>4 DEF NextOf
  <2>3. Matched(r, q)
    BY <1>4 DEF Matched
  <2>4. QED
    BY <2>1, <2>2, <2>3 DEF PairInv
<1>7. QED
  BY <1>2, <1>5, <1>6 DEF IInv

(* Every step keeps it.                                                     *)
LEMMA NextCorrect == IInv /\ [Next]_vars => IInv'
<1> SUFFICES ASSUME IInv, [Next]_vars PROVE IInv'
  OBVIOUS
<1>1. CASE UNCHANGED vars
  <2> USE <1>1 DEF vars, registry, exchange
  <2>1. Typing'
    BY DEF IInv, Typing
  <2>2. \A q \in Ranks : SameRank(q) /\ (Active(q)' <=> Active(q))
    BY DEF SameRank, SameShared, Active
  <2>3. \A p \in Ranks : /\ Len(posted[p]) \in Nat /\ Len(posted'[p]) \in Nat
                         /\ Len(posted'[p]) >= Len(posted[p])
    <3>1. \A p \in Ranks : posted[p] \in Seq(Seq(Address))
      BY Types DEF IInv
    <3>2. \A p \in Ranks : Len(posted[p]) \in Nat /\ posted'[p] = posted[p]
      BY <3>1
    <3>3. QED
      BY <3>2
  <2>4. ASSUME NEW r \in Ranks, Active(r)' PROVE RankInv(r)'
    <3>1. RankInv(r) /\ SameRank(r) /\ plan' = plan
      BY <2>2, <2>4 DEF IInv
    <3>2. QED
      BY <2>3, <3>1, RankSame
  <2>5. ASSUME NEW r \in Ranks, NEW q \in Ranks, Active(r)', Active(q)' PROVE PairInv(r, q)'
    <3>1. PairInv(r, q) /\ SameShared(r) /\ SameShared(q)
      BY <2>2, <2>5 DEF IInv, SameRank
    <3>2. QED
      BY <3>1, PairSame
  <2>6. QED
    BY <2>1, <2>4, <2>5 DEF IInv
<1>2. ASSUME NEW r \in Ranks, Step(r) PROVE IInv'
  <2>1. CASE EnterCapture(r)
    BY <2>1, EnterCaptureCorrect
  <2>2. CASE CaptureCall(r)
    BY <2>2, CaptureCallCorrect
  <2>3. CASE CaptureStagedCall(r)
    BY <2>3, PassCorrect DEF CaptureStagedCall
  <2>4. CASE RefuseCall(r)
    BY <2>4, RaiseCorrect DEF RefuseCall
  <2>5. CASE FinishBody(r)
    BY <2>5, FinishBodyCorrect
  <2>6. CASE StartRegistration(r)
    BY <2>6, StartRegistrationCorrect
  <2>7. CASE Broadcast(r)
    BY <2>7, BroadcastCorrect
  <2>8. CASE LosePeer(r)
    BY <2>8, RaiseCorrect DEF LosePeer
  <2>9. CASE CountsDiffer(r)
    BY <2>9, RaiseCorrect DEF CountsDiffer
  <2>10. CASE Register(r)
    BY <2>10, RegisterCorrect
  <2>11. QED
    BY <1>2, <2>1, <2>2, <2>3, <2>4, <2>5, <2>6, <2>7, <2>8, <2>9, <2>10 DEF Step
<1>3. ASSUME NEW r \in Ranks, MissCall(r) PROVE IInv'
  BY <1>3, PassCorrect DEF MissCall
<1>4. ASSUME NEW r \in Ranks, FailBody(r) PROVE IInv'
  BY <1>4, RaiseCorrect DEF FailBody, AfterError
<1>5. ASSUME NEW r \in Ranks, OpenFails(r) PROVE IInv'
  BY <1>5, RaiseCorrect DEF OpenFails
<1>6. ASSUME NEW r \in Ranks, NEW b \in Bases, Reallocate(r, b) PROVE IInv'
  BY <1>6, ReallocateCorrect
<1>7. QED
  BY <1>1, <1>2, <1>3, <1>4, <1>5, <1>6 DEF Next

(* The inductive invariant holds, for any ranks, captures and faults: what  *)
(* a rank reads of a peer's broadcast is about the slots its own tensors    *)
(* get, and the tensors stay where they are.                                *)
THEOREM Invariant == Spec => []IInv
<1>1. QED
  BY InitCorrect, NextCorrect, PTL DEF Spec

-----------------------------------------------------------------------------
(* The rows.                                                                *)

(* As many elements of a set of numbers come before one as before another   *)
(* only if they are the same.                                               *)
LEMMA SamePosition ==
    ASSUME NEW C \in SUBSET Nat, NEW a \in C, NEW b \in C,
           IsFiniteSet({j \in C : j <= a}), IsFiniteSet({j \in C : j <= b}),
           Cardinality({j \in C : j <= a}) = Cardinality({j \in C : j <= b})
    PROVE  a = b
<1>1. ASSUME NEW x \in C, NEW y \in C, x < y, IsFiniteSet({j \in C : j <= y}),
             Cardinality({j \in C : j <= x}) = Cardinality({j \in C : j <= y})
      PROVE  FALSE
  <2>1. x \in Nat /\ y \in Nat
    OBVIOUS
  <2>2. \A j \in C : j <= x => j <= y
    BY <1>1, <2>1
  <2>3. {j \in C : j <= x} \in SUBSET {j \in C : j <= y}
    BY <2>2
  <2>4. y \in {j \in C : j <= y} /\ y \notin {j \in C : j <= x}
    BY <1>1, <2>1
  <2>5. QED
    BY <1>1, <2>3, <2>4, FS_Subset
<1>2. ~ (a < b) /\ ~ (b < a)
  BY <1>1
<1>3. QED
  BY <1>2

(* If the counts show what has been missed, slots with the same number are  *)
(* of the same call.                                                        *)
LEMMA SameCall ==
    ASSUME IInv, NEW r \in Ranks, NEW q \in Ranks, Active(r), Active(q),
           NEW s \in DOMAIN graphs[r], s \in DOMAIN graphs[q],
           NEW x, NEW i, NEW n, Numbered(r, s, x, i, n), Numbered(q, s, x, i, n),
           \A k \in 1 .. graphs[r][s].call[1] : MissesShow(r, q, k)
    PROVE  graphs[q][s].call = graphs[r][s].call
<1>1. PICK k, c, l, d : /\ graphs[r][s].call = <<k, c>> /\ graphs[q][s].call = <<l, d>>
                        /\ k \in Nat \ {0} /\ l \in Nat \ {0} /\ c \in Nat /\ d \in Nat
  <2>1. Typing /\ Calls(r) /\ Calls(q)
    BY DEF IInv, RankInv
  <2>2. graphs[r][s] \in Tensor /\ graphs[q][s] \in Tensor
    BY <2>1, Types
  <2>3. graphs[r][s].call \in Nat \X Nat /\ graphs[q][s].call \in Nat \X Nat
    BY <2>2, TensorParts
  <2>4. graphs[r][s].call[1] # 0 /\ graphs[q][s].call[1] # 0
    BY <2>1, Types DEF Calls
  <2>5. QED
    BY <2>3, <2>4
<1>2. /\ \A p \in {r, q} : \A j : /\ CapturedCalls(p, j) \subseteq RegisteredCalls(j)
                                  /\ CapturedCalls(p, j) \subseteq Nat
                                  /\ IsFiniteSet(CapturedCalls(p, j))
      /\ IsFiniteSet(Registrations(q, k)) /\ IsFiniteSet(Registrations(q, l))
      /\ c \in CapturedCalls(r, k) /\ d \in CapturedCalls(q, l)
  BY <1>1, CapturedFacts
<1>3. /\ Cardinality(Registrations(r, k)) = x /\ Cardinality(Registrations(q, l)) = x
      /\ Cardinality({e \in CapturedCalls(r, k) : e <= c}) = i
      /\ Cardinality({e \in CapturedCalls(q, l) : e <= d}) = i
      /\ Cardinality(CapturedCalls(r, k)) = n /\ Cardinality(CapturedCalls(q, l)) = n
  BY <1>1 DEF Numbered
<1>4. \A j \in 1 .. k : MissesShow(r, q, j)
  BY <1>1
<1>5. Registrations(r, k) = Registrations(q, k)
  <2>1. \A j \in 1 .. k : CapturedCalls(r, j) = {} <=> CapturedCalls(q, j) = {}
    BY <1>2, <1>4 DEF MissesShow
  <2>2. QED
    BY <2>1 DEF Registrations
<1>6. k = l
  <2> DEFINE C == {j \in Nat \ {0} : CapturedCalls(q, j) # {}}
  <2>1. \A j \in Nat : Registrations(q, j) = {e \in C : e <= j}
    BY DEF Registrations
  <2>2. k \in C /\ l \in C
    <3>1. k \in 1 .. k
      BY <1>1
    <3>2. k \in Registrations(r, k)
      BY <1>2, <3>1 DEF Registrations
    <3>3. QED
      BY <1>1, <1>2, <1>5, <3>2 DEF Registrations
  <2>3. C \in SUBSET Nat
    OBVIOUS
  <2> HIDE DEF C
  <2>4. /\ IsFiniteSet({e \in C : e <= k}) /\ IsFiniteSet({e \in C : e <= l})
        /\ Cardinality({e \in C : e <= k}) = Cardinality({e \in C : e <= l})
    BY <1>1, <1>2, <1>3, <1>5, <2>1
  <2>5. QED
    BY <2>2, <2>3, <2>4, SamePosition
<1>7. CapturedCalls(r, k) = CapturedCalls(q, k)
  <2>1. k \in 1 .. k
    BY <1>1
  <2>2. RegisteredCalls(k) \in {CapturedCalls(r, k), CapturedCalls(q, k)}
    BY <1>2, <1>4, <2>1 DEF MissesShow
  <2>3. QED
    BY <1>2, <1>3, <1>6, <2>2, FS_Subset
<1>8. c = d
  <2> DEFINE C == CapturedCalls(r, k)
  <2>1. C \in SUBSET Nat /\ c \in C /\ d \in C /\ IsFiniteSet(C)
    BY <1>2, <1>6, <1>7
  <2>2. Cardinality({e \in C : e <= c}) = Cardinality({e \in C : e <= d})
    BY <1>3, <1>6, <1>7
  <2> HIDE DEF C
  <2>3. IsFiniteSet({e \in C : e <= c}) /\ IsFiniteSet({e \in C : e <= d})
    <3>1. {e \in C : e <= c} \in SUBSET C /\ {e \in C : e <= d} \in SUBSET C
      OBVIOUS
    <3>2. QED
      BY <2>1, <3>1, FS_Subset
  <2>4. QED
    BY <2>1, <2>2, <2>3, SamePosition
<1>9. QED
  BY <1>1, <1>6, <1>8

(* Through its row, a captured kernel finds the live memory of the tensor   *)
(* of every rank's kernel with this row, and of the same call as far as the *)
(* counts can tell: for any number of ranks, any captures and any faults.   *)
THEOREM RowsAreRight == Spec => []RowsResolve
<1>1. IInv => RowsResolve
  <2> SUFFICES ASSUME IInv, NEW r \in Ranks, NEW q \in Ranks, NEW s \in DOMAIN rows[r],
                      phase[r] # "raised", phase[q] # "raised"
               PROVE  /\ s \in DOMAIN graphs[q]
                      /\ rows[r][s][q] = <<LiveHandle(q, graphs[q][s].base), graphs[q][s].off>>
                      /\ (\A k \in 1 .. graphs[r][s].call[1] : MissesShow(r, q, k))
                            => graphs[q][s].call = graphs[r][s].call
    BY DEF RowsResolve
  <2>1. Active(r) /\ Active(q)
    BY DEF Active
  <2>2. Matched(r, q) /\ Matched(r, r)
    BY <2>1 DEF IInv, PairInv
  <2>3. /\ s \in DOMAIN graphs[q] /\ s \in DOMAIN graphs[r]
        /\ rows[r][s][q] = <<LiveHandle(q, graphs[q][s].base), graphs[q][s].off>>
    BY <2>2 DEF Matched, Where
  <2>4. PICK x \in Nat, i \in Nat, n \in Nat : Numbered(r, s, x, i, n) /\ Numbered(q, s, x, i, n)
    BY <2>2 DEF Matched
  <2>5. QED
    BY <2>1, <2>3, <2>4, SameCall
<1>2. QED
  BY <1>1, Invariant, PTL
=============================================================================
