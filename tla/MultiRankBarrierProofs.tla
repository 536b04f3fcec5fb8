----------------------- MODULE MultiRankBarrierProofs -----------------------
(* For every set of ranks, every even flag modulus of at least 4 and every  *)
(* number of calls: the flag protocol implements RankBarrier, and no        *)
(* awaited flag is lost.                                                    *)
EXTENDS MultiRankBarrier, PairwiseSharedMemory, TLAPS

-----------------------------------------------------------------------------
(* Flag arithmetic.                                                         *)

(* Incrementing a flag stays in range, changes the parity slot, is          *)
(* injective, and two increments never give the flag back: all that the     *)
(* protocol needs of the uint32 counters.                                   *)
LEMMA NextFlagFacts ==
    /\ \A f \in Flags : NextFlag(f) \in Flags /\ Slot(f) \in {0, 1}
    /\ \A f \in Flags : Slot(NextFlag(f)) # Slot(f)
    /\ \A f \in Flags : Slot(NextFlag(NextFlag(f))) = Slot(f)
    /\ \A f \in Flags : NextFlag(f) # f /\ NextFlag(NextFlag(f)) # f
    /\ \A f, g \in Flags : NextFlag(f) = NextFlag(g) => f = g
    /\ 0 \in Flags
  BY FlagModulusAssumption DEF Flags, NextFlag, Slot

-----------------------------------------------------------------------------
(* Every variable keeps its type.                                           *)
THEOREM TypeCorrect == Spec => []TypeOK
<1>1. Init => TypeOK
  BY NextFlagFacts DEF Init, TypeOK
<1>2. TypeOK /\ [Next]_vars => TypeOK'
  <2> SUFFICES ASSUME TypeOK, [Next]_vars PROVE TypeOK'
    OBVIOUS
  <2> USE DEF TypeOK
  <2>1. ASSUME NEW r \in Ranks, Arrive(r) PROVE TypeOK'
    BY <2>1 DEF Arrive
  <2>2. ASSUME NEW r \in Ranks, NEW i \in Ranks, Signal(r, i) PROVE TypeOK'
    BY <2>2, NextFlagFacts DEF Signal, Store
  <2>3. ASSUME NEW m \in stores, Deliver(m) PROVE TypeOK'
    <3>1. /\ m.to \in Ranks
          /\ m.from \in Ranks
          /\ m.flag \in Flags
          /\ Slot(m.flag) \in {0, 1}
      BY NextFlagFacts DEF Store
    <3>2. QED
      BY <2>3, <3>1 DEF Deliver
  <2>4. ASSUME NEW r \in Ranks, NEW i \in Ranks, StopSpinning(r, i) PROVE TypeOK'
    BY <2>4 DEF StopSpinning
  <2>5. ASSUME NEW r \in Ranks, Leave(r) PROVE TypeOK'
    BY <2>5 DEF Leave
  <2>6. CASE UNCHANGED vars
    BY <2>6 DEF vars
  <2>7. QED
    BY <2>1, <2>2, <2>3, <2>4, <2>5, <2>6 DEF Next
<1>3. QED
  BY <1>1, <1>2, PTL DEF Spec

-----------------------------------------------------------------------------
(* The inductive invariant.                                                 *)

(* A block is at most one call ahead of its last return, and outside a call *)
(* all its threads are done.                                                *)
Phase ==
    \A r \in Ranks :
        \/ left[r] = arrived[r] /\ \A i \in Ranks : pc[r][i] = "done"
        \/ left[r] + 1 = arrived[r]

(* A thread has consumed no more flags than its peer has signalled.         *)
NoEarlyExit == \A r, i \in Ranks : Consumed(r, i) <= Signalled(i, r)

(* The counters of a pair of threads differ as the flags they have          *)
(* signalled do, by at most one.                                            *)
PairedCounters ==
    \A r, i \in Ranks :
        /\ Signalled(r, i) = Signalled(i, r) => self_counter[r][i] = self_counter[i][r]
        /\ Signalled(r, i) = Signalled(i, r) + 1
              => self_counter[r][i] = NextFlag(self_counter[i][r])

(* A signalled flag is in exactly one place.                                *)
Posted(s, r, f) ==
    \/ InFlight(s, r, f) /\ ~ Visible(s, r, f)
    \/ ~ InFlight(s, r, f) /\ Visible(s, r, f)

(* The flags from s to r that are not yet consumed are the last one         *)
(* signalled or the last two; each is posted, nothing else is in flight,    *)
(* and the slot of the next flag does not hold it already.                  *)
Channel(s, r) ==
    LET c == self_counter[s][r]
        ahead == Signalled(s, r) - Consumed(r, s)
    IN  /\ \A f \in Flags : InFlight(s, r, f) =>
              \/ f = c /\ ahead >= 1
              \/ NextFlag(f) = c /\ ahead = 2
        /\ Posted(s, r, c)
        /\ ahead \in {0, 1} => ~ Visible(s, r, NextFlag(c))
        /\ ahead = 2 => \A f \in Flags : NextFlag(f) = c => Posted(s, r, f)

IInv ==
    /\ TypeOK
    /\ Phase
    /\ NoEarlyExit
    /\ PairedCounters
    /\ \A s, r \in Ranks : Channel(s, r)

(* The counts are naturals, and a sender is at most two flags ahead of the  *)
(* receiver's consumption.                                                  *)
LEMMA Counts ==
    ASSUME IInv, NEW s \in Ranks, NEW r \in Ranks
    PROVE  /\ Signalled(s, r) \in Nat
           /\ Consumed(r, s) \in Nat
           /\ Signalled(s, r) <= Consumed(s, r) + 1
           /\ Signalled(s, r) - Consumed(r, s) \in {0, 1, 2}
           /\ pc[s][r] = "signal" => Signalled(s, r) - Consumed(r, s) \in {0, 1}
<1>1. TypeOK /\ Phase /\ NoEarlyExit
  BY DEF IInv
<1>2. /\ arrived[s] \in Nat
      /\ left[s] \in Nat
      /\ arrived[r] \in Nat
      /\ left[r] \in Nat
      /\ pc[s][r] \in {"signal", "spin", "done"}
      /\ pc[r][s] \in {"signal", "spin", "done"}
  BY <1>1 DEF TypeOK
<1>3. /\ \/ left[s] = arrived[s] /\ pc[s][r] = "done"
         \/ left[s] + 1 = arrived[s]
      /\ \/ left[r] = arrived[r] /\ pc[r][s] = "done"
         \/ left[r] + 1 = arrived[r]
  BY <1>1 DEF Phase
<1>4. /\ Consumed(r, s) <= Signalled(s, r)
      /\ Consumed(s, r) <= Signalled(r, s)
  BY <1>1 DEF NoEarlyExit
<1>5. /\ Signalled(s, r) \in Nat
      /\ Consumed(r, s) \in Nat
  BY <1>2 DEF Signalled, Consumed
<1>6. /\ Signalled(s, r) <= Consumed(s, r) + 1
      /\ pc[s][r] = "signal" => Signalled(s, r) = Consumed(s, r)
      /\ Signalled(r, s) <= Consumed(r, s) + 1
      /\ Consumed(s, r) \in Nat
      /\ Signalled(r, s) \in Nat
  BY <1>2, <1>3 DEF Signalled, Consumed
<1>7. QED
  BY <1>4, <1>5, <1>6

(* A step that changes neither a pair's counts nor its channel keeps the    *)
(* channel's invariant.                                                     *)
LEMMA ChannelFrame ==
    ASSUME NEW s \in Ranks, NEW r \in Ranks, Channel(s, r),
           self_counter'[s][r] = self_counter[s][r],
           Signalled(s, r)' = Signalled(s, r),
           Consumed(r, s)' = Consumed(r, s),
           \A f \in Flags : InFlight(s, r, f)' <=> InFlight(s, r, f),
           \A f \in Flags : Visible(s, r, f)' <=> Visible(s, r, f),
           self_counter[s][r] \in Flags
    PROVE  Channel(s, r)'
  BY NextFlagFacts DEF Channel, Posted

(* At first no flag has been stored, and every counter is zero.             *)
LEMMA InitIInv == Init => IInv
<1> SUFFICES ASSUME Init PROVE IInv
  OBVIOUS
<1>1. TypeOK
  BY NextFlagFacts DEF Init, TypeOK
<1>2. \A r, i \in Ranks : Signalled(r, i) = 0 /\ Consumed(r, i) = 0
  BY DEF Init, Signalled, Consumed
<1>3. Phase
  BY DEF Init, Phase
<1>4. NoEarlyExit /\ PairedCounters
  BY <1>2 DEF Init, NoEarlyExit, PairedCounters
<1>5. \A s, r \in Ranks : Channel(s, r)
  <2> SUFFICES ASSUME NEW s \in Ranks, NEW r \in Ranks PROVE Channel(s, r)
    OBVIOUS
  <2>1. \A f \in Flags : ~ InFlight(s, r, f)
    BY DEF Init, InFlight
  <2>2. self_counter[s][r] = 0 /\ \A f \in Flags : Visible(s, r, f) <=> f = 0
    BY NextFlagFacts DEF Init, Visible
  <2>3. QED
    BY <1>2, <2>1, <2>2, NextFlagFacts DEF Channel, Posted
<1>6. QED
  BY <1>1, <1>3, <1>4, <1>5 DEF IInv

(* Arriving changes no count: the thread has signalled and consumed what it *)
(* had when the block was outside a call.                                   *)
LEMMA ArriveStep ==
    ASSUME IInv, TypeOK', NEW q \in Ranks, Arrive(q)
    PROVE  IInv'
<1> USE DEF IInv, TypeOK
<1>0. /\ left[q] \in Nat
      /\ left[q] + 1 = arrived[q] \/ \A i \in Ranks : pc[q][i] = "done"
  BY DEF Phase
<1>1. /\ arrived[q] = left[q]
      /\ \A i \in Ranks : pc[q][i] = "done"
      /\ arrived' = [arrived EXCEPT ![q] = @ + 1]
      /\ pc' = [pc EXCEPT ![q] = [i \in Ranks |-> "signal"]]
      /\ UNCHANGED <<left, self_counter, peer_counter, stores>>
  BY <1>0 DEF Arrive
<1>2. \A r, i \in Ranks : Signalled(r, i)' = Signalled(r, i) /\ Consumed(r, i)' = Consumed(r, i)
  BY <1>1 DEF Signalled, Consumed
<1>3. Phase'
  BY <1>1 DEF Phase
<1>4. NoEarlyExit' /\ PairedCounters'
  BY <1>1, <1>2 DEF NoEarlyExit, PairedCounters
<1>5. \A s, r \in Ranks : Channel(s, r)'
  BY <1>1, <1>2, ChannelFrame DEF InFlight, Visible
<1>6. QED
  BY <1>3, <1>4, <1>5

(* Leaving changes no count either: every thread of the block is done.      *)
LEMMA LeaveStep ==
    ASSUME IInv, TypeOK', NEW q \in Ranks, Leave(q)
    PROVE  IInv'
<1> USE DEF IInv, TypeOK
<1>1. /\ arrived[q] = left[q] + 1
      /\ \A i \in Ranks : pc[q][i] = "done"
      /\ left' = [left EXCEPT ![q] = @ + 1]
      /\ UNCHANGED <<arrived, pc, self_counter, peer_counter, stores>>
  BY DEF Leave, Phase
<1>2. \A r, i \in Ranks : Signalled(r, i)' = Signalled(r, i) /\ Consumed(r, i)' = Consumed(r, i)
  BY <1>1 DEF Signalled, Consumed
<1>3. Phase'
  BY <1>1 DEF Phase
<1>4. NoEarlyExit' /\ PairedCounters'
  BY <1>1, <1>2 DEF NoEarlyExit, PairedCounters
<1>5. \A s, r \in Ranks : Channel(s, r)'
  BY <1>1, <1>2, ChannelFrame DEF InFlight, Visible
<1>6. QED
  BY <1>3, <1>4, <1>5

(* Signalling: the sender is at most one flag ahead, so the slot it writes  *)
(* holds a flag the receiver has consumed.                                  *)
LEMMA SignalStep ==
    ASSUME IInv, TypeOK', NEW q \in Ranks, NEW j \in Ranks, Signal(q, j)
    PROVE  IInv'
<1> DEFINE c == self_counter[q][j]
           ahead == Signalled(q, j) - Consumed(j, q)
<1>1. /\ pc[q][j] = "signal"
      /\ self_counter' = [self_counter EXCEPT ![q][j] = NextFlag(c)]
      /\ stores' = stores \cup {[from |-> q, to |-> j, flag |-> NextFlag(c)]}
      /\ pc' = [pc EXCEPT ![q][j] = "spin"]
      /\ UNCHANGED <<arrived, left, peer_counter>>
  BY DEF Signal
<1>2. TypeOK /\ Phase /\ NoEarlyExit /\ PairedCounters /\ \A s, r \in Ranks : Channel(s, r)
  BY DEF IInv
<1>3. /\ left[q] \in Nat
      /\ left[q] + 1 = arrived[q]
      /\ \A s, r \in Ranks : self_counter[s][r] \in Flags
  BY <1>1, <1>2 DEF TypeOK, Phase
<1>4. /\ \A s, r \in Ranks : Consumed(s, r)' = Consumed(s, r)
      /\ \A s, r \in Ranks : s # q \/ r # j => Signalled(s, r)' = Signalled(s, r)
      /\ Signalled(q, j)' = Signalled(q, j) + 1
      /\ Signalled(q, j) = Consumed(q, j)
  BY <1>1, <1>2, <1>3 DEF Signalled, Consumed, TypeOK
<1>5. \A s, r \in Ranks : Signalled(s, r) \in Nat /\ Consumed(s, r) \in Nat
  BY Counts
<1>6. Signalled(j, q) = Signalled(q, j) \/ Signalled(j, q) = Signalled(q, j) + 1
  <2>1. Consumed(q, j) <= Signalled(j, q) /\ Consumed(j, q) <= Signalled(q, j)
    BY <1>2 DEF NoEarlyExit
  <2>2. Signalled(j, q) <= Consumed(j, q) + 1
    BY Counts
  <2>3. QED
    BY <1>4, <1>5, <2>1, <2>2
<1>7. Phase'
  BY <1>1, <1>2, <1>3 DEF Phase, TypeOK
<1>8. NoEarlyExit'
  <2> SUFFICES ASSUME NEW r \in Ranks, NEW i \in Ranks
               PROVE  Consumed(r, i)' <= Signalled(i, r)'
    BY DEF NoEarlyExit
  <2>1. Consumed(r, i) <= Signalled(i, r)
    BY <1>2 DEF NoEarlyExit
  <2>2. QED
    BY <2>1, <1>4, <1>5
<1>9. PairedCounters'
  <2> SUFFICES ASSUME NEW r \in Ranks, NEW i \in Ranks
               PROVE  /\ Signalled(r, i)' = Signalled(i, r)'
                            => self_counter'[r][i] = self_counter'[i][r]
                      /\ Signalled(r, i)' = Signalled(i, r)' + 1
                            => self_counter'[r][i] = NextFlag(self_counter'[i][r])
    BY DEF PairedCounters
  <2>1. /\ Signalled(r, i) = Signalled(i, r) => self_counter[r][i] = self_counter[i][r]
        /\ Signalled(r, i) = Signalled(i, r) + 1
              => self_counter[r][i] = NextFlag(self_counter[i][r])
        /\ Signalled(i, r) = Signalled(r, i) + 1
              => self_counter[i][r] = NextFlag(self_counter[r][i])
    BY <1>2 DEF PairedCounters
  <2>2. \A s, t \in Ranks : s # q \/ t # j => self_counter'[s][t] = self_counter[s][t]
    BY <1>1, <1>2 DEF TypeOK
  <2>3. self_counter'[q][j] = NextFlag(c)
    BY <1>1, <1>2 DEF TypeOK
  <2>4. CASE r = i
    <3>1. Signalled(r, i)' # Signalled(i, r)' + 1
      BY <2>4, <1>4, <1>5
    <3>2. QED
      BY <2>4, <3>1
  <2>5. CASE r = q /\ i = j /\ r # i
    BY <2>1, <2>2, <2>3, <2>5, <1>4, <1>5, <1>6
  <2>6. CASE r = j /\ i = q /\ r # i
    BY <2>1, <2>2, <2>3, <2>6, <1>4, <1>5, <1>6
  <2>7. CASE (r # q \/ i # j) /\ (r # j \/ i # q)
    BY <2>1, <2>2, <2>7, <1>4
  <2>8. QED
    BY <2>4, <2>5, <2>6, <2>7
<1>10. ASSUME NEW s \in Ranks, NEW r \in Ranks PROVE Channel(s, r)'
  <2>1. CASE s # q \/ r # j
    <3>1. self_counter'[s][r] = self_counter[s][r]
      BY <1>1, <1>2, <2>1 DEF TypeOK
    <3>2. \A f \in Flags : InFlight(s, r, f)' <=> InFlight(s, r, f)
      BY <1>1, <2>1 DEF InFlight
    <3>3. \A f \in Flags : Visible(s, r, f)' <=> Visible(s, r, f)
      BY <1>1 DEF Visible
    <3>4. Signalled(s, r)' = Signalled(s, r) /\ Consumed(r, s)' = Consumed(r, s)
      BY <1>4, <2>1
    <3>5. Channel(s, r) /\ self_counter[s][r] \in Flags
      BY <1>2, <1>3
    <3>6. QED
      BY <3>1, <3>2, <3>3, <3>4, <3>5, ChannelFrame
  <2>2. CASE s = q /\ r = j
    <3> PICK d \in Flags : d = c
      BY <1>3
    <3>1. self_counter'[q][j] = NextFlag(d)
      BY <1>1, <1>2 DEF TypeOK
    <3>2. \A f \in Flags : InFlight(q, j, f)' <=> InFlight(q, j, f) \/ f = NextFlag(d)
      BY <1>1 DEF InFlight
    <3>3. \A f \in Flags : Visible(q, j, f)' <=> Visible(q, j, f)
      BY <1>1 DEF Visible
    <3>4. /\ ahead \in {0, 1}
          /\ (Signalled(q, j) - Consumed(j, q))' = ahead + 1
      BY <1>1, <1>4, <1>5, Counts
    <3>5. /\ d = self_counter[q][j]
          /\ Channel(q, j)
      BY <1>2, <1>3
    <3>6. /\ \A f \in Flags : InFlight(q, j, f) => f = d /\ ahead = 1
          /\ Posted(q, j, d)
          /\ ~ Visible(q, j, NextFlag(d))
      BY <3>4, <3>5 DEF Channel
    <3>7. ahead = 0 => ~ Visible(q, j, NextFlag(NextFlag(d)))
      BY <3>5, <3>6, NextFlagFacts DEF Posted, Visible
    <3>8. /\ Posted(q, j, NextFlag(d))'
          /\ ahead = 1 => \A f \in Flags : NextFlag(f) = NextFlag(d) => Posted(q, j, f)'
      BY <3>1, <3>2, <3>3, <3>5, <3>6, NextFlagFacts DEF Posted
    <3>9. /\ \A f \in Flags : InFlight(q, j, f)' =>
                \/ f = NextFlag(d)
                \/ NextFlag(f) = NextFlag(d) /\ ahead = 1
          /\ ahead = 0 => ~ Visible(q, j, NextFlag(NextFlag(d)))'
      BY <3>2, <3>3, <3>5, <3>6, <3>7, NextFlagFacts
    <3>10. QED
      BY <2>2, <3>1, <3>4, <3>8, <3>9 DEF Channel
  <2>3. QED
    BY <2>1, <2>2
<1>11. QED
  BY <1>7, <1>8, <1>9, <1>10 DEF IInv

(* A thread that stops spinning has seen a flag its peer has signalled:     *)
(* had the peer signalled nothing new, the slot would not hold the flag.    *)
LEMMA StopSpinningStep ==
    ASSUME IInv, TypeOK', NEW q \in Ranks, NEW j \in Ranks, StopSpinning(q, j)
    PROVE  IInv'
<1> DEFINE ahead == Signalled(j, q) - Consumed(q, j)
<1>1. /\ pc[q][j] = "spin"
      /\ Visible(j, q, self_counter[q][j])
      /\ pc' = [pc EXCEPT ![q][j] = "done"]
      /\ UNCHANGED <<arrived, left, self_counter, peer_counter, stores>>
  BY DEF StopSpinning, SawFlag, Visible
<1>2. TypeOK /\ Phase /\ NoEarlyExit /\ PairedCounters /\ \A s, r \in Ranks : Channel(s, r)
  BY DEF IInv
<1>3. /\ left[q] \in Nat
      /\ left[q] + 1 = arrived[q]
      /\ \A s, r \in Ranks : self_counter[s][r] \in Flags
  BY <1>1, <1>2 DEF TypeOK, Phase
<1>4. /\ \A s, r \in Ranks : Signalled(s, r)' = Signalled(s, r)
      /\ \A s, r \in Ranks : s # q \/ r # j => Consumed(s, r)' = Consumed(s, r)
      /\ Consumed(q, j)' = Consumed(q, j) + 1
      /\ Signalled(q, j) = Consumed(q, j) + 1
  BY <1>1, <1>2, <1>3 DEF Signalled, Consumed, TypeOK
<1>5. \A s, r \in Ranks : Signalled(s, r) \in Nat /\ Consumed(s, r) \in Nat
  BY Counts
<1>6. PICK e \in Flags : e = self_counter[q][j]
  BY <1>3
<1>7. PICK d \in Flags : d = self_counter[j][q]
  BY <1>3
<1>8. ahead \in {0, 1, 2}
  BY Counts
<1>9. /\ ahead = 0 => e = NextFlag(d)
      /\ ahead = 1 => e = d
      /\ ahead = 2 => d = NextFlag(e)
  BY <1>2, <1>4, <1>5, <1>6, <1>7 DEF PairedCounters
<1>10. /\ \A f \in Flags : InFlight(j, q, f) =>
              \/ f = d /\ ahead >= 1
              \/ NextFlag(f) = d /\ ahead = 2
       /\ Posted(j, q, d)
       /\ ahead \in {0, 1} => ~ Visible(j, q, NextFlag(d))
       /\ ahead = 2 => \A f \in Flags : NextFlag(f) = d => Posted(j, q, f)
  BY <1>2, <1>7 DEF Channel
<1>11. ahead \in {1, 2}
  BY <1>1, <1>6, <1>8, <1>9, <1>10
<1>12. Phase'
  BY <1>1, <1>2, <1>3 DEF Phase, TypeOK
<1>13. NoEarlyExit'
  <2> SUFFICES ASSUME NEW r \in Ranks, NEW i \in Ranks
               PROVE  Consumed(r, i)' <= Signalled(i, r)'
    BY DEF NoEarlyExit
  <2>1. Consumed(r, i) <= Signalled(i, r)
    BY <1>2 DEF NoEarlyExit
  <2>2. QED
    BY <2>1, <1>4, <1>5, <1>11
<1>14. PairedCounters'
  BY <1>1, <1>2, <1>4 DEF PairedCounters
<1>15. ASSUME NEW s \in Ranks, NEW r \in Ranks PROVE Channel(s, r)'
  <2>1. /\ \A f \in Flags : InFlight(s, r, f)' <=> InFlight(s, r, f)
        /\ \A f \in Flags : Visible(s, r, f)' <=> Visible(s, r, f)
    BY <1>1 DEF InFlight, Visible
  <2>2. CASE s # j \/ r # q
    <3>1. Signalled(s, r)' = Signalled(s, r) /\ Consumed(r, s)' = Consumed(r, s)
      BY <1>4, <2>2
    <3>2. Channel(s, r) /\ self_counter[s][r] \in Flags
      BY <1>2, <1>3
    <3>3. QED
      BY <1>1, <2>1, <3>1, <3>2, ChannelFrame
  <2>3. CASE s = j /\ r = q
    <3>1. (Signalled(j, q) - Consumed(q, j))' = ahead - 1
      BY <1>4, <1>5
    <3>2. ~ InFlight(j, q, e)
      BY <1>1, <1>6, <1>9, <1>10, <1>11 DEF Posted
    <3>3. \A f \in Flags : InFlight(j, q, f) => f = d /\ ahead = 2
      BY <1>6, <1>7, <1>9, <1>10, <1>11, <3>2, NextFlagFacts
    <3>4. ~ Visible(j, q, NextFlag(d))
      BY <1>1, <1>6, <1>9, <1>10, <1>11, NextFlagFacts DEF Visible
    <3>5. self_counter'[j][q] = d /\ Posted(j, q, d)'
      BY <1>1, <1>7, <1>10, <2>1, <2>3 DEF Posted
    <3>6. /\ \A f \in Flags : InFlight(j, q, f)' => f = d /\ ahead = 2
          /\ ~ Visible(j, q, NextFlag(d))'
      BY <2>1, <2>3, <3>3, <3>4, NextFlagFacts
    <3>7. QED
      BY <2>3, <1>11, <3>1, <3>5, <3>6 DEF Channel
  <2>4. QED
    BY <2>2, <2>3
<1>16. QED
  BY <1>12, <1>13, <1>14, <1>15 DEF IInv

(* A store that lands changes one slot of one channel, to the flag that was *)
(* in flight; the two flags that may be in flight have different slots.     *)
LEMMA DeliverStep ==
    ASSUME IInv, TypeOK', NEW m \in stores, Deliver(m)
    PROVE  IInv'
<1>1. TypeOK /\ Phase /\ NoEarlyExit /\ PairedCounters /\ \A s, r \in Ranks : Channel(s, r)
  BY DEF IInv
<1>2. PICK a \in Ranks, b \in Ranks, g \in Flags : m = [from |-> a, to |-> b, flag |-> g]
  BY <1>1 DEF TypeOK, Store
<1>3. /\ peer_counter' = [peer_counter EXCEPT ![b][Slot(g)][a] = g]
      /\ stores' = stores \ {m}
      /\ UNCHANGED <<arrived, left, pc, self_counter>>
  BY <1>2 DEF Deliver
<1>4. \A s, r \in Ranks : Signalled(s, r)' = Signalled(s, r) /\ Consumed(s, r)' = Consumed(s, r)
  BY <1>3 DEF Signalled, Consumed
<1>5. Phase' /\ NoEarlyExit' /\ PairedCounters'
  BY <1>1, <1>3, <1>4 DEF Phase, NoEarlyExit, PairedCounters
<1>6. ASSUME NEW s \in Ranks, NEW r \in Ranks PROVE Channel(s, r)'
  <2>1. Channel(s, r) /\ self_counter[s][r] \in Flags
    BY <1>1 DEF TypeOK
  <2>2. CASE s # a \/ r # b
    <3>1. \A f \in Flags : InFlight(s, r, f)' <=> InFlight(s, r, f)
      BY <1>2, <1>3, <2>2 DEF InFlight
    <3>2. \A f \in Flags : peer_counter'[r][Slot(f)][s] = peer_counter[r][Slot(f)][s]
      BY <1>1, <1>3, <2>2, NextFlagFacts DEF TypeOK
    <3>3. \A f \in Flags : Visible(s, r, f)' <=> Visible(s, r, f)
      BY <3>2 DEF Visible
    <3>4. QED
      BY <1>3, <1>4, <2>1, <3>1, <3>3, ChannelFrame
  <2>3. CASE s = a /\ r = b
    <3> PICK d \in Flags : d = self_counter[a][b]
      BY <2>1, <2>3
    <3> DEFINE ahead == Signalled(a, b) - Consumed(b, a)
    <3>1. InFlight(a, b, g)
      BY <1>2 DEF InFlight
    <3>2. \A f \in Flags : InFlight(a, b, f)' <=> InFlight(a, b, f) /\ f # g
      BY <1>2, <1>3 DEF InFlight
    <3>3. \A f \in Flags :
             peer_counter'[b][Slot(f)][a] =
                 IF Slot(f) = Slot(g) THEN g ELSE peer_counter[b][Slot(f)][a]
      <4> SUFFICES ASSUME NEW f \in Flags
                   PROVE  peer_counter'[b][Slot(f)][a] =
                            IF Slot(f) = Slot(g) THEN g ELSE peer_counter[b][Slot(f)][a]
        OBVIOUS
      <4> DEFINE new == [peer_counter[b] EXCEPT ![Slot(g)][a] = g]
      <4>1. Slot(f) \in {0, 1} /\ Slot(g) \in {0, 1}
        BY NextFlagFacts
      <4>2. /\ peer_counter[b] \in [{0, 1} -> [Ranks -> Flags]]
            /\ peer_counter'[b] = new
        BY <1>1, <1>3 DEF TypeOK
      <4>3. new[Slot(f)][a] = IF Slot(f) = Slot(g) THEN g ELSE peer_counter[b][Slot(f)][a]
        BY <4>1, <4>2
      <4>4. QED
        BY <4>2, <4>3
    <3>4. \A f \in Flags :
             /\ Slot(f) = Slot(g) => (Visible(a, b, f)' <=> f = g)
             /\ Slot(f) # Slot(g) => (Visible(a, b, f)' <=> Visible(a, b, f))
      BY <3>3 DEF Visible
    <3>5. /\ \A f \in Flags : InFlight(a, b, f) =>
                \/ f = d /\ ahead >= 1
                \/ NextFlag(f) = d /\ ahead = 2
          /\ Posted(a, b, d)
          /\ ahead \in {0, 1} => ~ Visible(a, b, NextFlag(d))
          /\ ahead = 2 => \A f \in Flags : NextFlag(f) = d => Posted(a, b, f)
      BY <2>1, <2>3 DEF Channel
    <3>6. Posted(a, b, d)'
      BY <3>1, <3>2, <3>4, <3>5, NextFlagFacts DEF Posted
    <3>7. ahead \in {0, 1} => ~ Visible(a, b, NextFlag(d))'
      BY <3>1, <3>4, <3>5, NextFlagFacts
    <3>8. ahead = 2 => \A f \in Flags : NextFlag(f) = d => Posted(a, b, f)'
      BY <3>1, <3>2, <3>4, <3>5, NextFlagFacts DEF Posted
    <3>9. \A f \in Flags : InFlight(a, b, f)' =>
                \/ f = d /\ ahead >= 1
                \/ NextFlag(f) = d /\ ahead = 2
      BY <3>2, <3>5
    <3>10. (Signalled(a, b) - Consumed(b, a))' = ahead /\ self_counter'[a][b] = d
      BY <1>3, <1>4
    <3>11. QED
      BY <2>3, <3>6, <3>7, <3>8, <3>9, <3>10 DEF Channel
  <2>4. QED
    BY <2>2, <2>3
<1>7. QED
  BY <1>5, <1>6 DEF IInv

(* Every reachable state satisfies the inductive invariant.                 *)
THEOREM Invariant == Spec => []IInv
<1>1. IInv /\ TypeOK' /\ [Next]_vars => IInv'
  <2> SUFFICES ASSUME IInv, TypeOK', [Next]_vars PROVE IInv'
    OBVIOUS
  <2>1. CASE UNCHANGED vars
    <3>1. \A s, r \in Ranks : Signalled(s, r)' = Signalled(s, r) /\ Consumed(r, s)' = Consumed(r, s)
      BY <2>1 DEF vars, Signalled, Consumed
    <3>2. \A s, r \in Ranks : Channel(s, r)'
      BY <2>1, <3>1, ChannelFrame DEF vars, IInv, TypeOK, InFlight, Visible
    <3>3. Phase' /\ NoEarlyExit' /\ PairedCounters'
      BY <2>1, <3>1 DEF vars, IInv, Phase, NoEarlyExit, PairedCounters
    <3>4. QED
      BY <3>2, <3>3 DEF IInv
  <2>2. QED
    BY <2>1, ArriveStep, SignalStep, DeliverStep, StopSpinningStep, LeaveStep DEF Next
<1>2. QED
  BY <1>1, InitIInv, TypeCorrect, PTL DEF Spec

(* The counters of a pair of threads, seen from the receiving one.          *)
LEMMA AwaitedFlagOfPair ==
    ASSUME IInv, NEW s \in Ranks, NEW r \in Ranks
    PROVE  LET ahead == Signalled(s, r) - Consumed(r, s)
           IN  /\ AwaitedFlag(r, s) \in Flags
               /\ ahead = 0 => AwaitedFlag(r, s) = NextFlag(self_counter[s][r])
               /\ ahead = 1 => AwaitedFlag(r, s) = self_counter[s][r]
               /\ ahead = 2 => self_counter[s][r] = NextFlag(AwaitedFlag(r, s))
<1> DEFINE ahead == Signalled(s, r) - Consumed(r, s)
<1>1. TypeOK /\ Phase /\ NoEarlyExit /\ PairedCounters
  BY DEF IInv
<1>2. self_counter[r][s] \in Flags /\ self_counter[s][r] \in Flags
  BY <1>1 DEF TypeOK
<1>3. /\ Signalled(s, r) \in Nat /\ Consumed(r, s) \in Nat
      /\ Signalled(r, s) \in Nat /\ Consumed(s, r) \in Nat
      /\ Signalled(s, r) <= Consumed(s, r) + 1
      /\ Consumed(s, r) <= Signalled(r, s)
  BY <1>1, Counts DEF NoEarlyExit
<1>4. /\ pc[r][s] = "spin" => Signalled(r, s) = Consumed(r, s) + 1
      /\ pc[r][s] # "spin" => Signalled(r, s) = Consumed(r, s)
  BY <1>1 DEF TypeOK, Phase, Signalled, Consumed
<1>5. /\ Signalled(r, s) = Signalled(s, r) => self_counter[r][s] = self_counter[s][r]
      /\ Signalled(r, s) = Signalled(s, r) + 1
            => self_counter[r][s] = NextFlag(self_counter[s][r])
      /\ Signalled(s, r) = Signalled(r, s) + 1
            => self_counter[s][r] = NextFlag(self_counter[r][s])
  BY <1>1 DEF PairedCounters
<1>6. CASE pc[r][s] = "spin"
  BY <1>2, <1>3, <1>4, <1>5, <1>6 DEF AwaitedFlag
<1>7. CASE pc[r][s] # "spin"
  BY <1>2, <1>3, <1>4, <1>5, <1>7, NextFlagFacts DEF AwaitedFlag
<1>8. QED
  BY <1>6, <1>7

(* No flag is lost: a signalled flag stays in flight or in its slot until   *)
(* the receiver has seen it, however far the counters have wrapped.         *)
THEOREM AwaitedFlagIsPosted == Spec => []AwaitedFlagSurvives
<1>1. IInv => AwaitedFlagSurvives
  <2> SUFFICES ASSUME IInv, NEW s \in Ranks, NEW r \in Ranks,
                      Signalled(s, r) > Consumed(r, s)
               PROVE  \/ InFlight(s, r, AwaitedFlag(r, s))
                      \/ Visible(s, r, AwaitedFlag(r, s))
    BY DEF AwaitedFlagSurvives
  <2>1. Signalled(s, r) - Consumed(r, s) \in {1, 2}
    BY Counts
  <2>2. Channel(s, r)
    BY DEF IInv
  <2>3. Posted(s, r, AwaitedFlag(r, s))
    BY <2>1, <2>2, AwaitedFlagOfPair DEF Channel
  <2>4. QED
    BY <2>3 DEF Posted
<1>2. QED
  BY <1>1, Invariant, PTL

(* No flag is seen before it was signalled.                                 *)
THEOREM AwaitedFlagIsFresh == Spec => []NoStaleMatch
<1>1. IInv => NoStaleMatch
  <2> SUFFICES ASSUME IInv, NEW s \in Ranks, NEW r \in Ranks,
                      Signalled(s, r) = Consumed(r, s)
               PROVE  ~ Visible(s, r, AwaitedFlag(r, s))
    BY DEF NoStaleMatch
  <2>1. Signalled(s, r) - Consumed(r, s) = 0
    BY Counts
  <2>2. Channel(s, r)
    BY DEF IInv
  <2>3. QED
    BY <2>1, <2>2, AwaitedFlagOfPair DEF Channel
<1>2. QED
  BY <1>1, Invariant, PTL

(* The flag protocol implements the barrier: the rank leaves a call only    *)
(* when every rank has arrived at it.                                       *)
THEOREM Refinement == Spec => ImplementsRankBarrier
<1>1. Init => Abs!Init
  BY DEF Init, Abs!Init
<1>2. IInv /\ [Next]_vars => [Abs!Next]_(Abs!vars)
  <2> SUFFICES ASSUME IInv, [Next]_vars PROVE [Abs!Next]_(Abs!vars)
    OBVIOUS
  <2>1. ASSUME NEW r \in Ranks, Arrive(r) PROVE Abs!Arrive(r)
    BY <2>1 DEF Arrive, Abs!Arrive, Abs!CanArrive
  <2>2. ASSUME NEW r \in Ranks, Leave(r) PROVE Abs!Leave(r)
    <3>1. ASSUME NEW q \in Ranks PROVE arrived[q] >= arrived[r]
      <4>1. Consumed(r, q) = arrived[r]
        BY <2>2 DEF Leave, Consumed
      <4>2. Consumed(r, q) <= Signalled(q, r)
        BY DEF IInv, NoEarlyExit
      <4>3. arrived[q] \in Nat /\ arrived[r] \in Nat /\ left[q] \in Nat
        BY DEF IInv, TypeOK
      <4>4. Signalled(q, r) <= arrived[q]
        <5>1. left[q] = arrived[q] \/ left[q] + 1 = arrived[q]
          BY DEF IInv, Phase
        <5>2. QED
          BY <4>3, <5>1 DEF Signalled
      <4>5. QED
        BY <4>1, <4>2, <4>3, <4>4 DEF Signalled
    <3>2. QED
      BY <2>2, <3>1 DEF Leave, Abs!Leave, Abs!CanLeave
  <2>3. ASSUME NEW r \in Ranks, NEW i \in Ranks, Signal(r, i) \/ StopSpinning(r, i)
        PROVE  UNCHANGED <<arrived, left>>
    BY <2>3 DEF Signal, StopSpinning
  <2>4. ASSUME NEW m \in stores, Deliver(m) PROVE UNCHANGED <<arrived, left>>
    BY <2>4 DEF Deliver
  <2>5. QED
    BY <2>1, <2>2, <2>3, <2>4 DEF Next, vars, Abs!Next, Abs!vars
<1>3. QED
  BY <1>1, <1>2, Invariant, PTL DEF Spec, ImplementsRankBarrier, Abs!Spec

-----------------------------------------------------------------------------
(* The other barrier of these kernels is inside a block: between its warps, *)
(* which exchange the halves of a sum.  For any even number of warps, any   *)
(* squads and any number of rows and columns the halves added belong        *)
(* together, and no warp takes a barrier of the loop for the one behind it. *)
(* The inductive invariant of that loop.                                    *)

HalvesTyping ==
    /\ launch \in Launches
    /\ place \in [Squads -> {"write", "opened", "read", "closed", "exit", "signal", "done"}]
    /\ cursor \in [Squads -> [row : 0 .. launch.rows, base : Nat]]
    /\ iteration \in [Squads -> Nat]
    /\ syncs \in [Squads -> Nat]
    /\ slot \in [Warps -> Nat]
    /\ sums \in [Warps -> Seq(Nat)]

(* the barriers of one iteration *)
PerIteration == IF launch.kernel = "fused" THEN 2 ELSE 1

(* the barriers s has arrived at since it last was at the head of the loop *)
Arrivals(s) ==
    IF place[s] = "write" THEN 0
    ELSE IF place[s] \in {"closed", "signal", "done"} THEN 2 ELSE 1

(* How many barriers a squad has arrived at follows from where it is in the *)
(* loop; only the fused kernel has a closing one, and a squad leaves the    *)
(* loop when it has no row.                                                 *)
Position ==
    \A s \in Squads :
        /\ syncs[s] = PerIteration * iteration[s] + Arrivals(s)
        /\ place[s] = "closed" => launch.kernel = "fused"
        /\ place[s] \in {"opened", "read", "closed"} => HasRow(s)
        /\ place[s] \in {"exit", "signal", "done"} => ~HasRow(s)

(* where an iteration leads from a place in the loop *)
After(c) ==
    IF c.base + launch.stride < launch.size
      THEN [row |-> c.row, base |-> c.base + launch.stride]
      ELSE [row |-> c.row + 1, base |-> launch.first]

(* No squad is two iterations ahead of another.  Those that have completed  *)
(* equally many are at the same column, and one that is an iteration ahead  *)
(* is where the other will be.                                              *)
InStep ==
    \A s, t \in Squads :
        /\ iteration[s] <= iteration[t] + 1
        /\ iteration[s] = iteration[t] => cursor[s] = cursor[t]
        /\ iteration[s] = iteration[t] + 1 => cursor[s] = After(cursor[t]) /\ HasRow(t)

(* the barriers s has passed: it may still wait at the last it arrived at *)
Passed(s) ==
    IF place[s] \in {"opened", "closed", "exit", "signal"} THEN syncs[s] - 1 ELSE syncs[s]

(* Nobody has passed a barrier that somebody has not arrived at.            *)
Barriers == \A s, t \in Squads : syncs[t] >= Passed(s)

(* A warp's slot holds the half of its squad's iteration, or of the one     *)
(* before until that is overwritten.                                        *)
Slots ==
    \A s \in Squads : \A w \in s :
        slot[w] = IF place[s] \in {"opened", "read", "closed"}
                    THEN iteration[s] + 1 ELSE iteration[s]

(* A warp has been given one half for each iteration it has read in.        *)
Reads ==
    \A s \in Squads : \A w \in s :
        Len(sums[w]) = IF place[s] = "closed" THEN iteration[s] + 1 ELSE iteration[s]

HalvesInv ==
    HalvesTyping /\ Position /\ InStep /\ Barriers /\ Slots /\ Reads /\ HalvesMatch

-----------------------------------------------------------------------------
(* Warps and squads.                                                        *)

(* Every warp belongs to exactly one squad.                                 *)
LEMMA SquadOfWarp ==
    ASSUME launch \in Launches
    PROVE  /\ launch.kernel \in {"plain", "fused"}
           /\ \A s \in Squads : s \subseteq Warps
           /\ \A w \in Warps : \E s \in Squads : w \in s
           /\ \A s, t \in Squads : \A w \in s : w \in t => s = t
           /\ launch.kernel = "plain" =>
                 \A s \in Squads : \A w \in s : Partner(w) \in s
           /\ \A w \in Warps : Partner(w) \in Warps
           /\ PerIteration \in {1, 2}
           /\ launch.kernel = "fused" <=> PerIteration = 2
           /\ {launch.rows, launch.first, launch.stride, launch.size} \subseteq Nat
<1>1. /\ launch.kernel \in {"plain", "fused"}
      /\ UNION Squads = Warps
      /\ \A s, t \in Squads : s # t => s \cap t = {}
      /\ {launch.rows, launch.first, launch.stride, launch.size} \subseteq Nat
  BY LaunchAssumption DEF Squads
<1>2. /\ launch.kernel = "plain" =>
            \A s \in Squads : \A w \in s : Partner(w) \in s
      /\ \A w \in Warps : Partner(w) \in Warps
  BY SquadAssumption, BlockAssumption DEF Squads
<1>3. PerIteration \in {1, 2} /\ (launch.kernel = "fused" <=> PerIteration = 2)
  BY DEF PerIteration
<1>4. QED
  BY <1>1, <1>2, <1>3

(* What the counts of barriers say of two squads: nobody is more than an    *)
(* iteration ahead, and who has passed a barrier at some place of the loop  *)
(* finds the others at theirs.                                              *)
LEMMA SquadsNear ==
    ASSUME HalvesInv, NEW s \in Squads, NEW t \in Squads
    PROVE  /\ iteration[s] \in Nat /\ iteration[t] \in Nat
           /\ syncs[s] \in Nat /\ syncs[t] \in Nat
           /\ syncs[s] >= PerIteration * iteration[s]
           /\ PerIteration = 2 =>
                 /\ syncs[s] = iteration[s] + iteration[s] + Arrivals(s)
                 /\ syncs[t] = iteration[t] + iteration[t] + Arrivals(t)
           /\ PerIteration = 1 =>
                 /\ syncs[s] = iteration[s] + Arrivals(s)
                 /\ syncs[t] = iteration[t] + Arrivals(t)
           /\ syncs[t] >= Passed(s) /\ syncs[s] >= Passed(t)
<1>1. /\ iteration[s] \in Nat /\ iteration[t] \in Nat
      /\ syncs[s] \in Nat /\ syncs[t] \in Nat
      /\ PerIteration \in {1, 2}
  BY SquadOfWarp DEF HalvesInv, HalvesTyping
<1>2. /\ syncs[s] = PerIteration * iteration[s] + Arrivals(s)
      /\ syncs[t] = PerIteration * iteration[t] + Arrivals(t)
  BY DEF HalvesInv, Position
<1>3. Arrivals(s) \in {0, 1, 2}
  BY DEF Arrivals
<1>4. syncs[t] >= Passed(s) /\ syncs[s] >= Passed(t)
  BY DEF HalvesInv, Barriers
<1>5. QED
  BY <1>1, <1>2, <1>3, <1>4

(* The half that is read is the one of the reader's iteration.              *)
LEMMA SlotIsCurrent ==
    ASSUME HalvesInv, NEW s \in Squads, NEW w \in s, place[s] = "read"
    PROVE  slot[Partner(w)] = iteration[s] + 1
<1> USE DEF HalvesInv
<1>1. launch \in Launches
  BY DEF HalvesTyping
<1>2. CASE launch.kernel = "plain"
  BY <1>1, <1>2, SquadOfWarp DEF Slots
<1>3. CASE launch.kernel = "fused"
  <2>1. PICK t \in Squads : Partner(w) \in t
    BY <1>1, SquadOfWarp
  <2>2. /\ iteration[s] \in Nat /\ iteration[t] \in Nat
        /\ syncs[s] = iteration[s] + iteration[s] + Arrivals(s)
        /\ syncs[t] = iteration[t] + iteration[t] + Arrivals(t)
        /\ syncs[t] >= Passed(s) /\ syncs[s] >= Passed(t)
    BY <1>3, <2>1, SquadsNear DEF PerIteration
  <2>3. place[t] \in {"write", "opened", "read", "closed", "exit", "signal", "done"}
    BY <2>1 DEF HalvesTyping
  <2>4. iteration[t] = iteration[s] /\ place[t] # "write"
    BY <2>2, <2>3 DEF Passed, Arrivals
  <2>5. HasRow(s) /\ cursor[s] = cursor[t]
    BY <2>1, <2>4 DEF Position, InStep
  <2>6. place[t] \in {"opened", "read", "closed"}
    BY <2>1, <2>3, <2>4, <2>5 DEF Position, HasRow
  <2>7. QED
    BY <2>1, <2>4, <2>6 DEF Slots
<1>4. QED
  BY <1>1, <1>2, <1>3, SquadOfWarp

-----------------------------------------------------------------------------
(* The steps.                                                               *)

(* At first nothing is written, and every squad is at its first iteration.  *)
LEMMA HalvesInit == LoopInit => HalvesInv
<1> SUFFICES ASSUME LoopInit PROVE HalvesInv
  OBVIOUS
<1> USE DEF LoopInit
<1>1. /\ launch \in Launches /\ PerIteration \in {1, 2} /\ \A s \in Squads : s \subseteq Warps
      /\ launch.rows \in Nat /\ launch.first \in Nat
  BY SquadOfWarp
<1>2. HalvesTyping
  BY <1>1 DEF HalvesTyping
<1>3. Position /\ InStep
  BY <1>1 DEF Position, Arrivals, InStep
<1>4. Barriers
  BY DEF Barriers, Passed
<1>5. Slots /\ Reads /\ HalvesMatch
  BY <1>1 DEF Slots, Reads, HalvesMatch
<1>6. QED
  BY <1>2, <1>3, <1>4, <1>5 DEF HalvesInv

(* The squad's warps write their halves into their own slots.               *)
LEMMA WriteHalfCorrect ==
    ASSUME HalvesInv, NEW s \in Squads, WriteHalf(s) PROVE HalvesInv'
<1> USE DEF HalvesInv, WriteHalf
<1>1. /\ Squads' = Squads /\ PerIteration' = PerIteration
      /\ \A t \in Squads : HasRow(t)' = HasRow(t)
  BY DEF Squads, PerIteration, HasRow
<1>2. launch \in Launches /\ PerIteration \in {1, 2}
  BY SquadOfWarp DEF HalvesTyping
<1>3. HalvesTyping'
  BY <1>1 DEF HalvesTyping
<1>4. Position'
  BY <1>1, <1>2 DEF Position, HalvesTyping, Arrivals
<1>5. InStep'
  BY <1>1 DEF InStep, After
<1>6. Barriers'
  BY <1>1 DEF Barriers, Passed, HalvesTyping
<1>7. Slots'
  BY <1>1, <1>2, SquadOfWarp DEF Slots, HalvesTyping
<1>8. Reads' /\ HalvesMatch'
  BY <1>1 DEF Reads, HalvesMatch, HalvesTyping
<1>9. QED
  BY <1>3, <1>4, <1>5, <1>6, <1>7, <1>8

(* Leaving a barrier: after the writes, or the last one.                    *)
LEMMA BarrierPassed ==
    ASSUME HalvesInv, NEW s \in Squads, OpenSync(s) \/ SignalSync(s) PROVE HalvesInv'
<1> USE DEF HalvesInv, OpenSync, SignalSync
<1>1. /\ Squads' = Squads /\ PerIteration' = PerIteration
      /\ \A t \in Squads : HasRow(t)' = HasRow(t)
  BY DEF Squads, PerIteration, HasRow
<1>2. HalvesTyping'
  BY <1>1 DEF HalvesTyping
<1>3. Position'
  BY <1>1 DEF Position, HalvesTyping, Arrivals
<1>4. InStep'
  BY <1>1 DEF InStep, After
<1>5. Barriers'
  BY <1>1 DEF Barriers, Passed, HalvesTyping, AllArrived
<1>6. Slots'
  BY <1>1 DEF Slots, HalvesTyping
<1>7. Reads' /\ HalvesMatch'
  BY <1>1 DEF Reads, HalvesMatch, HalvesTyping
<1>8. QED
  BY <1>2, <1>3, <1>4, <1>5, <1>6, <1>7

(* A squad with no row left goes to the barrier behind the loop.            *)
LEMMA LeaveLoopCorrect ==
    ASSUME HalvesInv, NEW s \in Squads, LeaveLoop(s) PROVE HalvesInv'
<1> USE DEF HalvesInv, LeaveLoop
<1>1. /\ Squads' = Squads /\ PerIteration' = PerIteration
      /\ \A t \in Squads : HasRow(t)' = HasRow(t)
  BY DEF Squads, PerIteration, HasRow
<1>2. PerIteration \in {1, 2}
  BY SquadOfWarp DEF HalvesTyping
<1>3. HalvesTyping'
  BY <1>1 DEF HalvesTyping
<1>4. Position'
  BY <1>1, <1>2 DEF Position, HalvesTyping, Arrivals
<1>5. InStep'
  BY <1>1 DEF InStep, After
<1>6. Barriers'
  BY <1>1 DEF Barriers, Passed, HalvesTyping
<1>7. Slots' /\ Reads' /\ HalvesMatch'
  BY <1>1 DEF Slots, Reads, HalvesMatch, HalvesTyping
<1>8. QED
  BY <1>3, <1>4, <1>5, <1>6, <1>7

(* From the barrier behind the loop a squad goes to that of the signal.     *)
LEMMA ExitSyncCorrect ==
    ASSUME HalvesInv, NEW s \in Squads, ExitSync(s) PROVE HalvesInv'
<1> USE DEF HalvesInv, ExitSync
<1>1. /\ Squads' = Squads /\ PerIteration' = PerIteration
      /\ \A t \in Squads : HasRow(t)' = HasRow(t)
  BY DEF Squads, PerIteration, HasRow
<1>2. PerIteration \in {1, 2}
  BY SquadOfWarp DEF HalvesTyping
<1>3. HalvesTyping'
  BY <1>1 DEF HalvesTyping
<1>4. Position'
  BY <1>1, <1>2 DEF Position, HalvesTyping, Arrivals
<1>5. InStep'
  BY <1>1 DEF InStep, After
<1>6. Barriers'
  BY <1>1 DEF Barriers, Passed, HalvesTyping, AllArrived
<1>7. Slots' /\ Reads' /\ HalvesMatch'
  BY <1>1 DEF Slots, Reads, HalvesMatch, HalvesTyping
<1>8. QED
  BY <1>3, <1>4, <1>5, <1>6, <1>7

(* Going round the loop, from a place where every barrier of the iteration  *)
(* is passed, is no arrival: the squad stays in step with the others.       *)
LEMMA NextIterationFacts ==
    ASSUME HalvesInv, NEW s \in Squads, NextIteration(s), syncs' = syncs, launch' = launch,
           syncs[s] = PerIteration * (iteration[s] + 1),
           \A t \in Squads : syncs[t] >= syncs[s] /\ syncs[s] >= Passed(t),
           place[s] \in {"read", "closed"}
    PROVE  /\ place' = [place EXCEPT ![s] = "write"]
           /\ iteration' = [iteration EXCEPT ![s] = @ + 1]
           /\ cursor' \in [Squads -> [row : 0 .. launch.rows, base : Nat]]
           /\ Position'
           /\ InStep'
<1> USE DEF HalvesInv
<1>1. Squads' = Squads /\ PerIteration' = PerIteration
  BY DEF Squads, PerIteration
<1>2. launch \in Launches /\ PerIteration \in {1, 2}
      /\ {launch.rows, launch.first, launch.stride, launch.size} \subseteq Nat
  BY SquadOfWarp DEF HalvesTyping
<1>3. iteration[s] \in Nat /\ syncs[s] \in Nat /\ HasRow(s)
      /\ cursor[s] \in [row : 0 .. launch.rows, base : Nat]
  BY DEF HalvesTyping, Position
<1>4. /\ place' = [place EXCEPT ![s] = "write"]
      /\ iteration' = [iteration EXCEPT ![s] = @ + 1]
      /\ cursor' = [cursor EXCEPT ![s] = After(cursor[s])]
  BY DEF NextIteration, InRow, After
<1>5. After(cursor[s]) \in [row : 0 .. launch.rows, base : Nat]
  BY <1>2, <1>3 DEF After, HasRow
<1>6. cursor' \in [Squads -> [row : 0 .. launch.rows, base : Nat]]
  BY <1>4, <1>5 DEF HalvesTyping
<1>7. ASSUME NEW t \in Squads, t # s
      PROVE  /\ place'[t] = place[t] /\ iteration'[t] = iteration[t]
             /\ cursor'[t] = cursor[t] /\ HasRow(t)' = HasRow(t)
  BY <1>4, <1>7 DEF HalvesTyping, HasRow
<1>8. /\ place'[s] = "write" /\ iteration'[s] = iteration[s] + 1
      /\ cursor'[s] = After(cursor[s])
  BY <1>4 DEF HalvesTyping
<1>9. Position'
  <2> SUFFICES ASSUME NEW t \in Squads
               PROVE  /\ syncs[t] = PerIteration * iteration'[t] + Arrivals(t)'
                      /\ place'[t] = "closed" => launch.kernel = "fused"
                      /\ place'[t] \in {"opened", "read", "closed"} => HasRow(t)'
                      /\ place'[t] \in {"exit", "signal", "done"} => ~HasRow(t)'
    BY <1>1 DEF Position
  <2>1. CASE t = s
    BY <1>2, <1>3, <1>8, <2>1 DEF Arrivals
  <2>2. CASE t # s
    BY <1>7, <2>2 DEF Position, Arrivals
  <2>3. QED
    BY <2>1, <2>2
<1>10. \A t \in Squads : iteration[t] <= iteration[s] + 1 /\ iteration[s] <= iteration[t]
  <2> TAKE t \in Squads
  <2>1. place[t] \in {"write", "opened", "read", "closed", "exit", "signal", "done"}
    BY DEF HalvesTyping
  <2>2. /\ iteration[t] \in Nat
        /\ PerIteration = 2 => syncs[t] = iteration[t] + iteration[t] + Arrivals(t)
        /\ PerIteration = 1 => syncs[t] = iteration[t] + Arrivals(t)
    BY SquadsNear
  <2>3. /\ syncs[t] >= syncs[s] /\ syncs[s] >= Passed(t)
        /\ place[t] = "closed" => PerIteration = 2
    BY <1>2, SquadOfWarp DEF Position
  <2>4. iteration[t] <= iteration[s] + 1
    BY <1>2, <1>3, <2>1, <2>2, <2>3 DEF Passed, Arrivals
  <2>5. iteration[s] = iteration[t] + 1 => place[t] \notin {"exit", "signal", "done"}
    BY <1>3 DEF InStep, Position
  <2>6. iteration[s] <= iteration[t] + 1
    BY DEF InStep
  <2>7. iteration[s] # iteration[t] + 1
    BY <1>2, <1>3, <2>1, <2>2, <2>3, <2>5 DEF Arrivals
  <2>8. QED
    BY <1>3, <2>2, <2>4, <2>6, <2>7
<1>11. InStep'
  <2> SUFFICES ASSUME NEW t \in Squads, NEW u \in Squads
               PROVE  /\ iteration'[t] <= iteration'[u] + 1
                      /\ iteration'[t] = iteration'[u] => cursor'[t] = cursor'[u]
                      /\ iteration'[t] = iteration'[u] + 1 =>
                            cursor'[t] = After(cursor'[u]) /\ HasRow(u)'
    BY <1>1 DEF InStep, After
  <2>1. iteration[t] \in Nat /\ iteration[u] \in Nat
    BY DEF HalvesTyping
  <2>2. CASE t # s /\ u # s
    BY <1>7, <2>2 DEF InStep
  <2>3. CASE t = s /\ u # s
    BY <1>3, <1>7, <1>8, <1>10, <2>1, <2>3 DEF InStep, HasRow
  <2>4. CASE t # s /\ u = s
    BY <1>3, <1>7, <1>8, <1>10, <2>1, <2>4 DEF InStep
  <2>5. CASE t = s /\ u = s
    BY <1>3, <1>8, <2>5
  <2>6. QED
    BY <2>2, <2>3, <2>4, <2>5
<1>12. QED
  BY <1>4, <1>6, <1>9, <1>11

(* The plain kernel reads, and goes on with no second barrier: a pair never *)
(* leaves its squad, so nobody else overwrites what it reads.               *)
LEMMA ReadPlainCorrect ==
    ASSUME HalvesInv, NEW s \in Squads, ReadPlain(s) PROVE HalvesInv'
<1> USE DEF HalvesInv, ReadPlain
<1>1. Squads' = Squads /\ PerIteration' = PerIteration /\ PerIteration = 1
  BY DEF Squads, PerIteration
<1>2. launch \in Launches /\ iteration[s] \in Nat
  BY DEF HalvesTyping
<1>3. syncs[s] = PerIteration * (iteration[s] + 1)
  BY <1>1, <1>2 DEF Position, Arrivals
<1>4. /\ place' = [place EXCEPT ![s] = "write"]
      /\ iteration' = [iteration EXCEPT ![s] = @ + 1]
      /\ cursor' \in [Squads -> [row : 0 .. launch.rows, base : Nat]]
      /\ Position'
      /\ InStep'
  BY <1>3, NextIterationFacts DEF Barriers, Passed, AllArrived
<1>5. \A w \in s : w \in Warps /\ slot[Partner(w)] = iteration[s] + 1
  BY <1>2, SlotIsCurrent, SquadOfWarp
<1>6. sums' = [w \in Warps |->
                  IF w \in s THEN Append(sums[w], slot[Partner(w)]) ELSE sums[w]]
  BY DEF TakePartnerHalf
<1>7. \A w \in s : Len(sums[w]) = iteration[s]
  BY DEF Reads
<1>8. HalvesTyping'
  BY <1>1, <1>2, <1>4, <1>5, <1>6 DEF HalvesTyping
<1>9. Barriers'
  BY <1>1, <1>4 DEF Barriers, Passed, HalvesTyping
<1>10. Slots'
  BY <1>1, <1>2, <1>4 DEF Slots, HalvesTyping
<1>11. Reads'
  <2> SUFFICES ASSUME NEW t \in Squads, NEW w \in t
               PROVE  Len(sums'[w]) = IF place'[t] = "closed"
                                        THEN iteration'[t] + 1 ELSE iteration'[t]
    BY <1>1 DEF Reads
  <2>1. w \in Warps /\ (w \in s <=> t = s) /\ sums[w] \in Seq(Nat)
    BY <1>2, SquadOfWarp DEF HalvesTyping
  <2>2. CASE t = s
    BY <1>2, <1>4, <1>5, <1>6, <1>7, <2>1, <2>2 DEF HalvesTyping
  <2>3. CASE t # s
    BY <1>4, <1>6, <2>1, <2>3 DEF Reads, HalvesTyping
  <2>4. QED
    BY <2>2, <2>3
<1>12. HalvesMatch'
  BY <1>2, <1>5, <1>6, <1>7 DEF HalvesMatch, HalvesTyping
<1>13. QED
  BY <1>4, <1>8, <1>9, <1>10, <1>11, <1>12

(* The fused kernel reads, and waits for the second barrier.                *)
LEMMA ReadFusedCorrect ==
    ASSUME HalvesInv, NEW s \in Squads, ReadFused(s) PROVE HalvesInv'
<1> USE DEF HalvesInv, ReadFused
<1>1. /\ Squads' = Squads /\ PerIteration' = PerIteration /\ PerIteration = 2
      /\ \A t \in Squads : HasRow(t)' = HasRow(t)
  BY DEF Squads, PerIteration, HasRow
<1>2. launch \in Launches /\ iteration[s] \in Nat
  BY DEF HalvesTyping
<1>3. \A w \in s : w \in Warps /\ slot[Partner(w)] = iteration[s] + 1
  BY <1>2, SlotIsCurrent, SquadOfWarp
<1>4. sums' = [w \in Warps |->
                  IF w \in s THEN Append(sums[w], slot[Partner(w)]) ELSE sums[w]]
  BY DEF TakePartnerHalf
<1>5. \A w \in s : Len(sums[w]) = iteration[s]
  BY DEF Reads
<1>6. HalvesTyping'
  BY <1>1, <1>2, <1>3, <1>4 DEF HalvesTyping
<1>7. Position'
  BY <1>1 DEF Position, HalvesTyping, Arrivals
<1>8. InStep'
  BY <1>1 DEF InStep, After
<1>9. Barriers'
  BY <1>1 DEF Barriers, Passed, HalvesTyping
<1>10. Slots'
  BY <1>1 DEF Slots, HalvesTyping
<1>11. Reads'
  <2> SUFFICES ASSUME NEW t \in Squads, NEW w \in t
               PROVE  Len(sums'[w]) = IF place'[t] = "closed"
                                        THEN iteration[t] + 1 ELSE iteration[t]
    BY <1>1 DEF Reads
  <2>1. w \in Warps /\ (w \in s <=> t = s) /\ sums[w] \in Seq(Nat)
    BY <1>2, SquadOfWarp DEF HalvesTyping
  <2>2. CASE t = s
    BY <1>2, <1>4, <1>5, <2>1, <2>2 DEF HalvesTyping
  <2>3. CASE t # s
    BY <1>4, <2>1, <2>3 DEF Reads, HalvesTyping
  <2>4. QED
    BY <2>2, <2>3
<1>12. HalvesMatch'
  BY <1>2, <1>3, <1>4, <1>5 DEF HalvesMatch, HalvesTyping
<1>13. QED
  BY <1>6, <1>7, <1>8, <1>9, <1>10, <1>11, <1>12

(* After the second barrier everybody has read, and writing is safe again.  *)
LEMMA CloseSyncCorrect ==
    ASSUME HalvesInv, NEW s \in Squads, CloseSync(s) PROVE HalvesInv'
<1> USE DEF HalvesInv, CloseSync
<1>1. Squads' = Squads /\ PerIteration' = PerIteration /\ PerIteration = 2
  BY DEF Squads, PerIteration, Position
<1>2. launch \in Launches /\ iteration[s] \in Nat
  BY DEF HalvesTyping
<1>3. syncs[s] = PerIteration * (iteration[s] + 1)
  BY <1>1, <1>2 DEF Position, Arrivals
<1>4. /\ place' = [place EXCEPT ![s] = "write"]
      /\ iteration' = [iteration EXCEPT ![s] = @ + 1]
      /\ cursor' \in [Squads -> [row : 0 .. launch.rows, base : Nat]]
      /\ Position'
      /\ InStep'
  BY <1>3, NextIterationFacts DEF Barriers, Passed, AllArrived
<1>5. HalvesTyping'
  BY <1>1, <1>2, <1>4 DEF HalvesTyping
<1>6. Barriers'
  BY <1>1, <1>4 DEF Barriers, Passed, HalvesTyping, AllArrived
<1>7. Slots' /\ Reads'
  BY <1>1, <1>4 DEF Slots, Reads, HalvesTyping
<1>8. HalvesMatch'
  BY DEF HalvesMatch
<1>9. QED
  BY <1>4, <1>5, <1>6, <1>7, <1>8

-----------------------------------------------------------------------------
(* Where every squad is in the loop, which barriers it has passed, and      *)
(* which iteration each slot holds, in every reachable state.               *)
THEOREM HalvesInvariant == LoopSpec => []HalvesInv
<1>1. HalvesInv /\ [LoopNext]_loopVars => HalvesInv'
  <2> SUFFICES ASSUME HalvesInv, [LoopNext]_loopVars PROVE HalvesInv'
    OBVIOUS
  <2>1. CASE UNCHANGED loopVars
    BY <2>1 DEF loopVars, HalvesInv, HalvesTyping, Position, InStep, Barriers, Slots, Reads,
                HalvesMatch, Squads, PerIteration, Arrivals, Passed, HasRow, After
  <2>2. CASE LoopNext
    BY <2>2, WriteHalfCorrect, BarrierPassed, ReadPlainCorrect, ReadFusedCorrect,
       CloseSyncCorrect, LeaveLoopCorrect, ExitSyncCorrect DEF LoopNext, LoopStep
  <2>3. QED
    BY <2>1, <2>2
<1>2. QED
  BY <1>1, HalvesInit, PTL DEF LoopSpec

(* Every half a warp adds is its partner's of the same iteration.           *)
THEOREM AddedHalvesMatch == LoopSpec => []HalvesMatch
  BY HalvesInvariant, PTL DEF HalvesInv

(* When a squad has passed both barriers behind the loop, every squad of    *)
(* the block is out of the loop.                                            *)
THEOREM SignalAfterLoop == LoopSpec => []ReducedBeforeSignal
<1>1. HalvesInv => ReducedBeforeSignal
  <2> SUFFICES ASSUME HalvesInv, NEW s \in Squads, NEW t \in Squads, place[s] = "done"
               PROVE  place[t] \in {"signal", "done"}
    BY DEF ReducedBeforeSignal
  <2>1. /\ place[t] \in {"write", "opened", "read", "closed", "exit", "signal", "done"}
        /\ PerIteration \in {1, 2}
        /\ place[t] = "closed" => PerIteration = 2
        /\ ~HasRow(s)
    BY SquadOfWarp DEF HalvesInv, HalvesTyping, Position
  <2>2. /\ iteration[s] \in Nat /\ iteration[t] \in Nat
        /\ PerIteration = 2 =>
              /\ syncs[s] = iteration[s] + iteration[s] + Arrivals(s)
              /\ syncs[t] = iteration[t] + iteration[t] + Arrivals(t)
        /\ PerIteration = 1 =>
              /\ syncs[s] = iteration[s] + Arrivals(s)
              /\ syncs[t] = iteration[t] + Arrivals(t)
        /\ syncs[t] >= Passed(s) /\ syncs[s] >= Passed(t)
    BY SquadsNear
  <2>3. \/ iteration[t] = iteration[s] /\ place[t] \in {"closed", "signal", "done"}
        \/ iteration[t] = iteration[s] + 1
    <3>1. /\ Passed(s) = syncs[s] /\ Arrivals(s) = 2
          /\ iteration[t] <= iteration[s] + 1
      BY DEF Passed, Arrivals, HalvesInv, InStep
    <3>2. CASE PerIteration = 1
      BY <2>1, <2>2, <3>1, <3>2 DEF Passed, Arrivals
    <3>3. CASE PerIteration = 2
      BY <2>1, <2>2, <3>1, <3>3 DEF Passed, Arrivals
    <3>4. QED
      BY <2>1, <3>2, <3>3
  <2>4. iteration[t] # iteration[s] + 1
    BY <2>1 DEF HalvesInv, InStep
  <2>5. ~HasRow(t)
    BY <2>1, <2>3, <2>4 DEF HalvesInv, InStep, HasRow
  <2>6. QED
    BY <2>1, <2>3, <2>4, <2>5 DEF HalvesInv, Position
<1>2. QED
  BY <1>1, HalvesInvariant, PTL
=============================================================================
