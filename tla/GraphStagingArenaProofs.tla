----------------------- MODULE GraphStagingArenaProofs ----------------------
(* For any number of ranks, plan, sequence of captures and number of        *)
(* faults: slots stay apart, all ranks reach one verdict, and what is       *)
(* accepted lies in the same slots everywhere.                              *)
EXTENDS GraphStagingArena, TLAPS

-----------------------------------------------------------------------------
(* The inductive invariant.                                                 *)

Entries ==
    [desc : PlanDescriptors, bytes : Nat, data : Nat, dataSize : Nat,
     meta : Nat, metaSize : Nat]

Payloads == [success : BOOLEAN, ledger : Seq(Entries)]

Typing ==
    /\ TypeOK
    /\ ledger \in [Ranks -> Seq(Entries)]
    /\ ledgerStart \in [Ranks -> Nat]
    /\ posted \in [Ranks -> Seq(Payloads)]
    /\ verdicts \in [Ranks -> Seq({"failed", "diverged", "captured"})]

(* e's slots end before a cursor pair *)
EndsBefore(e, data, meta) ==
    /\ e.data + DataSlotBytes(e.bytes) <= data
    /\ e.meta + MetaSlotBytes(e.bytes) <= meta

(* A rank's slots follow one another, up to its cursors.                    *)
SlotsInOrder(r) ==
    \A i \in DOMAIN ledger[r] :
        LET e == ledger[r][i]
        IN  /\ e.data >= DataStart /\ e.meta >= MetaStart
            /\ EndsBefore(e, dataOffset[r], metaOffset[r])
            /\ \A j \in DOMAIN ledger[r] :
                  i < j => EndsBefore(e, ledger[r][j].data, ledger[r][j].meta)

(* A rank has broadcast once for each capture it has decided, and once for  *)
(* the one it votes on when its turn is past; what it broadcast is the      *)
(* ledger it still has.  It waits for everybody in turn.                    *)
Turns(r) ==
    LET n == Len(verdicts[r]) + 1
    IN  /\ phase[r] # "vote" => turn[r] = 0
        /\ Len(posted[r]) = IF turn[r] > r THEN n ELSE n - 1
        /\ turn[r] > r => posted[r][n].ledger = ledger[r]
        /\ \A q \in Ranks : q < turn[r] => Len(posted[q]) >= n

IsPrefixOf(s, t) == Len(s) <= Len(t) /\ \A i \in 1 .. Len(s) : t[i] = s[i]

(* every descriptor in a ledger has the slots of one forward, for inputs of *)
(* the planned size                                                         *)
Complete(led) ==
    \A i \in DOMAIN led :
        /\ Cardinality(EntriesOf(led, led[i].desc)) = OpsPerDescriptor
        /\ led[i].bytes = InputBytes(led[i].desc)

(* What a rank has broadcast is a prefix of its ledger, complete if it      *)
(* called the capture a success.                                            *)
Broadcasts(r) ==
    \A c \in 1 .. Len(posted[r]) :
        /\ IsPrefixOf(posted[r][c].ledger, ledger[r])
        /\ posted[r][c].success => Complete(posted[r][c].ledger)

(* what the broadcasts for a capture amount to *)
Outcome(c) ==
    IF \E q \in Ranks : ~ posted[q][c].success THEN "failed"
    ELSE IF \E p, q \in Ranks : posted[q][c].ledger # posted[p][c].ledger THEN "diverged"
    ELSE "captured"

(* A verdict depends on the broadcasts alone, not on who reaches it.        *)
VerdictsCommon(r) ==
    \A c \in 1 .. Len(verdicts[r]) :
        /\ \A q \in Ranks : Len(posted[q]) >= c
        /\ verdicts[r][c] = Outcome(c)

(* For every captured descriptor there is a capture that accepted it; the   *)
(* rank has taken no slot for it since.                                     *)
CapturedComplete(r) ==
    \A d \in captured[r] : \E c \in 1 .. Len(verdicts[r]) :
        /\ verdicts[r][c] = "captured"
        /\ EntriesOf(ledger[r], d) = EntriesOf(posted[r][c].ledger, d)
        /\ Cardinality(EntriesOf(ledger[r], d)) = OpsPerDescriptor

IInv ==
    /\ Typing
    /\ \A r \in Ranks : SlotsInOrder(r)
    /\ \A r \in Ranks : Turns(r)
    /\ \A r \in Ranks : Broadcasts(r)
    /\ \A r \in Ranks : VerdictsCommon(r)
    /\ \A r \in Ranks : CapturedComplete(r)

-----------------------------------------------------------------------------
(* Sizes and sequences.                                                     *)

(* Rounding up gives a natural, and never less.                             *)
LEMMA AlignFacts ==
    ASSUME NEW n \in Nat PROVE Align(n) \in Nat /\ Align(n) >= n
<1> DEFINE m == n + Alignment - 1
           k == m \div Alignment
<1>1. Alignment \in Nat /\ Alignment > 0 /\ m \in Nat
  BY ArenaAssumption
<1>2. /\ k \in Nat
      /\ k * Alignment <= m
      /\ m < k * Alignment + Alignment
  BY <1>1
<1>3. k * Alignment \in Nat
  BY <1>1, <1>2
<1>4. Align(n) = k * Alignment
  BY DEF Align
<1> HIDE DEF k
<1>5. QED
  BY <1>1, <1>2, <1>3, <1>4

(* The slots of a call hold its input, and its signals with room for it.    *)
LEMMA SlotSizes ==
    ASSUME NEW n \in Nat
    PROVE  /\ MetaBytesUsed(n) \in Nat
           /\ DataSlotBytes(n) \in Nat /\ DataSlotBytes(n) >= n
           /\ MetaSlotBytes(n) \in Nat /\ MetaSlotBytes(n) >= MetaBytesUsed(n)
<1>1. MetaSize \in Nat
  BY ArenaAssumption
<1>2. MetaBytesUsed(n) \in Nat
  BY <1>1 DEF MetaBytesUsed
<1>3. QED
  BY <1>2, AlignFacts DEF DataSlotBytes, MetaSlotBytes, MetaBytesUsed

(* The arena lies behind what eager calls use.                              *)
LEMMA ArenaBounds ==
    /\ DataStart \in Nat /\ MetaStart \in Nat
    /\ DataLimit \in Nat /\ DataLimit >= DataStart
    /\ MetaLimit \in Nat /\ MetaLimit >= MetaStart
    /\ DataStart = EagerReserve
    /\ MetaStart >= MetaSize + EagerReserve
<1>1. MetaSize + EagerReserve \in Nat /\ EagerReserve \in Nat
  BY ArenaAssumption
<1>2. MetaStart \in Nat /\ MetaStart >= MetaSize + EagerReserve
  BY <1>1, AlignFacts DEF MetaStart
<1>3. DataCapacity \in Nat /\ MetaCapacity \in Nat
  BY ArenaAssumption
<1>4. QED
  BY <1>1, <1>2, <1>3 DEF DataStart, DataLimit, MetaLimit

(* Appending an entry.                                                      *)
LEMMA AppendFacts ==
    ASSUME NEW S, NEW s \in Seq(S), NEW e \in S
    PROVE  /\ Append(s, e) \in Seq(S)
           /\ Len(s) \in Nat
           /\ Len(Append(s, e)) = Len(s) + 1
           /\ DOMAIN s = 1 .. Len(s)
           /\ DOMAIN Append(s, e) = 1 .. Len(s) + 1
           /\ \A i \in 1 .. Len(s) : Append(s, e)[i] = s[i] /\ s[i] \in S
           /\ Append(s, e)[Len(s) + 1] = e
  OBVIOUS

(* A prefix of a ledger is one of it with an entry more.                    *)
LEMMA PrefixOfAppend ==
    ASSUME NEW S, NEW p \in Seq(S), NEW s \in Seq(S), NEW e \in S, IsPrefixOf(p, s)
    PROVE  IsPrefixOf(p, Append(s, e))
<1>1. Len(p) \in Nat /\ Len(s) \in Nat
  OBVIOUS
<1>2. Len(p) <= Len(s) /\ \A i \in 1 .. Len(p) : s[i] = p[i]
  BY DEF IsPrefixOf
<1>3. /\ Len(Append(s, e)) = Len(s) + 1
      /\ \A i \in 1 .. Len(s) : Append(s, e)[i] = s[i]
  BY AppendFacts
<1>4. QED
  BY <1>1, <1>2, <1>3 DEF IsPrefixOf

(* A slot taken for one descriptor changes no other's.                      *)
LEMMA EntriesOfAppend ==
    ASSUME NEW led \in Seq(Entries), NEW e \in Entries, NEW d, e.desc # d
    PROVE  EntriesOf(Append(led, e), d) = EntriesOf(led, d)
  BY AppendFacts DEF EntriesOf

(* What a rank broadcasts is a payload.                                     *)
LEMMA PayloadType ==
    ASSUME Typing, NEW q \in Ranks, NEW c \in 1 .. Len(posted[q])
    PROVE  /\ posted[q][c] \in Payloads
           /\ posted[q][c].success \in BOOLEAN
           /\ posted[q][c].ledger \in Seq(Entries)
<1>1. posted[q] \in Seq(Payloads)
  BY DEF Typing
<1>2. posted[q][c] \in Payloads
  BY <1>1
<1>3. QED
  BY <1>2 DEF Payloads

-----------------------------------------------------------------------------
(* The steps.                                                               *)

(* A step that changes no ledger, broadcast or verdict, and enters the vote *)
(* or the body of a capture at most, keeps the invariant.                   *)
LEMMA QuietStep ==
    ASSUME IInv, Typing', NEW r \in Ranks, phase[r] # "vote",
           \A q \in Ranks \ {r} : phase'[q] = phase[q],
           UNCHANGED <<arena, captured, voting>>
    PROVE  IInv'
<1> USE DEF arena, voting
<1>1. \A q \in Ranks : SlotsInOrder(q)'
  BY DEF IInv, SlotsInOrder, EndsBefore
<1>2. \A q \in Ranks : Turns(q)'
  BY DEF IInv, Turns
<1>3. \A q \in Ranks : Broadcasts(q)'
  BY DEF IInv, Broadcasts
<1>4. \A q \in Ranks : VerdictsCommon(q)'
  BY DEF IInv, VerdictsCommon, Outcome
<1>5. \A q \in Ranks : CapturedComplete(q)'
  BY DEF IInv, CapturedComplete
<1>6. QED
  BY <1>1, <1>2, <1>3, <1>4, <1>5 DEF IInv

(* a step that keeps the types, for a step that keeps what it is about *)
LEMMA QuietSteps ==
    ASSUME IInv, NEW r \in Ranks,
           \/ EnterCapture(r) \/ CaptureStandardCall(r) \/ RefuseCall(r)
           \/ MissCall(r) \/ FailBody(r) \/ FinishBody(r)
    PROVE  IInv'
<1> USE DEF arena, voting, IInv, Typing, TypeOK
<1>1. MaxFaults \in Nat
  BY ArenaAssumption
<1>2. CASE EnterCapture(r)
  <2>1. Len(ledger[r]) \in Nat
    OBVIOUS
  <2>2. Typing'
    BY <1>2, <2>1 DEF EnterCapture
  <2>3. QED
    BY <1>2, <2>2, QuietStep DEF EnterCapture
<1>3. CASE CaptureStandardCall(r)
  <2>1. Typing' /\ phase[r] = "body"
    BY <1>3 DEF CaptureStandardCall, InBody
  <2>2. QED
    BY <1>3, <2>1, QuietStep DEF CaptureStandardCall
<1>4. CASE RefuseCall(r)
  <2>1. Typing' /\ phase[r] = "body"
    BY <1>4 DEF RefuseCall, InBody, RaiseInBody
  <2>2. QED
    BY <1>4, <2>1, QuietStep DEF RefuseCall, RaiseInBody
<1>5. CASE MissCall(r)
  <2>1. faults' \in 0 .. MaxFaults
    BY <1>1, <1>5 DEF MissCall
  <2>2. Typing' /\ phase[r] = "body"
    BY <1>5, <2>1 DEF MissCall, InBody
  <2>3. QED
    BY <1>5, <2>2, QuietStep DEF MissCall
<1>6. CASE FailBody(r)
  <2>1. faults' \in 0 .. MaxFaults
    BY <1>1, <1>6 DEF FailBody
  <2>2. Typing'
    BY <1>6, <2>1 DEF FailBody, RaiseInBody
  <2>3. QED
    BY <1>6, <2>2, QuietStep DEF FailBody, RaiseInBody
<1>7. CASE FinishBody(r)
  <2>1. Typing'
    BY <1>7 DEF FinishBody
  <2>2. QED
    BY <1>7, <2>1, QuietStep DEF FinishBody
<1>8. QED
  BY <1>2, <1>3, <1>4, <1>5, <1>6, <1>7

(* A call takes the slots at the cursors, whatever the size of its input.   *)
LEMMA TakeSlotsCorrect ==
    ASSUME IInv, NEW r \in Ranks, NEW n \in Nat, TakeSlots(r, n),
           faults' \in 0 .. MaxFaults
    PROVE  IInv'
<1> DEFINE d == NextCall(r)
           e == Entry(d, n, dataOffset[r], metaOffset[r])
<1>1. /\ phase[r] = "body" /\ d \in PlanDescriptors /\ d \notin captured[r]
      /\ ~ Exhausted(r, n)
      /\ ledger' = [ledger EXCEPT ![r] = Append(ledger[r], e)]
      /\ dataOffset' = [dataOffset EXCEPT ![r] = dataOffset[r] + DataSlotBytes(n)]
      /\ metaOffset' = [metaOffset EXCEPT ![r] = metaOffset[r] + MetaSlotBytes(n)]
      /\ UNCHANGED <<plan, phase, failed, ledgerStart, captured, voting>>
  BY DEF TakeSlots, InBody
<1>2. /\ DataSlotBytes(n) \in Nat /\ MetaSlotBytes(n) \in Nat
      /\ dataOffset[r] \in DataStart .. DataLimit
      /\ metaOffset[r] \in MetaStart .. MetaLimit
      /\ dataOffset[r] \in Nat /\ metaOffset[r] \in Nat
      /\ ledger[r] \in Seq(Entries)
  <2>1. DataSlotBytes(n) \in Nat /\ MetaSlotBytes(n) \in Nat
    BY SlotSizes
  <2>2. /\ dataOffset[r] \in DataStart .. DataLimit
        /\ metaOffset[r] \in MetaStart .. MetaLimit
        /\ ledger[r] \in Seq(Entries)
    BY DEF IInv, Typing, TypeOK
  <2>3. DataStart \in Nat /\ MetaStart \in Nat /\ DataLimit \in Nat /\ MetaLimit \in Nat
    BY ArenaBounds
  <2>4. dataOffset[r] \in Nat /\ metaOffset[r] \in Nat
    BY <2>2, <2>3
  <2>5. QED
    BY <2>1, <2>2, <2>4
<1>3. /\ e \in Entries
      /\ e.desc = d /\ e.bytes = n /\ e.data = dataOffset[r] /\ e.meta = metaOffset[r]
  BY <1>1, <1>2 DEF Entry, Entries
<1> HIDE DEF d, e
<1>4. /\ dataOffset[r] + DataSlotBytes(n) \in DataStart .. DataLimit
      /\ metaOffset[r] + MetaSlotBytes(n) \in MetaStart .. MetaLimit
  <2>1. /\ ~ (dataOffset[r] + DataSlotBytes(n) > DataLimit)
        /\ ~ (metaOffset[r] + MetaSlotBytes(n) > MetaLimit)
    BY <1>1 DEF Exhausted
  <2>2. DataStart \in Nat /\ MetaStart \in Nat /\ DataLimit \in Nat /\ MetaLimit \in Nat
    BY ArenaBounds
  <2>3. /\ dataOffset[r] \in Nat /\ dataOffset[r] >= DataStart
        /\ metaOffset[r] \in Nat /\ metaOffset[r] >= MetaStart
    BY <1>2, <2>2
  <2>4. dataOffset[r] + DataSlotBytes(n) \in DataStart .. DataLimit
    BY <1>2, <2>1, <2>2, <2>3
  <2>5. metaOffset[r] + MetaSlotBytes(n) \in MetaStart .. MetaLimit
    BY <1>2, <2>1, <2>2, <2>3
  <2>6. QED
    BY <2>4, <2>5
<1>5. /\ ledger'[r] = Append(ledger[r], e)
      /\ \A q \in Ranks \ {r} : /\ ledger'[q] = ledger[q]
                                /\ dataOffset'[q] = dataOffset[q]
                                /\ metaOffset'[q] = metaOffset[q]
      /\ dataOffset'[r] = dataOffset[r] + DataSlotBytes(n)
      /\ metaOffset'[r] = metaOffset[r] + MetaSlotBytes(n)
  BY <1>1 DEF IInv, Typing, TypeOK
<1>6. Typing'
  BY <1>1, <1>2, <1>3, <1>4, AppendFacts DEF voting, IInv, Typing, TypeOK
<1>7. SlotsInOrder(r)'
  <2> SUFFICES ASSUME NEW i \in DOMAIN ledger'[r]
               PROVE  /\ ledger'[r][i].data >= DataStart /\ ledger'[r][i].meta >= MetaStart
                      /\ EndsBefore(ledger'[r][i], dataOffset'[r], metaOffset'[r])
                      /\ \A j \in DOMAIN ledger'[r] :
                            i < j => EndsBefore(ledger'[r][i],
                                                ledger'[r][j].data, ledger'[r][j].meta)
    BY DEF SlotsInOrder
  <2>1. /\ Len(ledger[r]) \in Nat
        /\ DOMAIN ledger[r] = 1 .. Len(ledger[r])
        /\ DOMAIN ledger'[r] = 1 .. Len(ledger[r]) + 1
        /\ \A j \in 1 .. Len(ledger[r]) : ledger'[r][j] = ledger[r][j]
        /\ ledger'[r][Len(ledger[r]) + 1] = e
    BY <1>2, <1>3, <1>5, AppendFacts
  <2>2. CASE i = Len(ledger[r]) + 1
    <3>1. ledger'[r][i] = e /\ \A j \in DOMAIN ledger'[r] : ~ (i < j)
      BY <2>1, <2>2
    <3>2. EndsBefore(e, dataOffset'[r], metaOffset'[r])
      BY <1>2, <1>3, <1>5 DEF EndsBefore
    <3>3. QED
      BY <1>2, <1>3, <3>1, <3>2, ArenaBounds
  <2>3. CASE i \in DOMAIN ledger[r]
    <3>1. /\ ledger'[r][i] = ledger[r][i] /\ ledger[r][i] \in Entries
          /\ ledger[r][i].data >= DataStart /\ ledger[r][i].meta >= MetaStart
          /\ EndsBefore(ledger[r][i], dataOffset[r], metaOffset[r])
      BY <1>2, <2>1, <2>3 DEF IInv, SlotsInOrder
    <3>2. /\ ledger[r][i].data + DataSlotBytes(ledger[r][i].bytes) \in Nat
          /\ ledger[r][i].meta + MetaSlotBytes(ledger[r][i].bytes) \in Nat
      BY <3>1, SlotSizes DEF Entries
    <3>3. EndsBefore(ledger[r][i], dataOffset'[r], metaOffset'[r])
      BY <1>2, <1>5, <3>1, <3>2 DEF EndsBefore
    <3>4. ASSUME NEW j \in DOMAIN ledger'[r], i < j
          PROVE  EndsBefore(ledger[r][i], ledger'[r][j].data, ledger'[r][j].meta)
      <4>1. CASE j = Len(ledger[r]) + 1
        BY <1>3, <2>1, <3>1, <4>1
      <4>2. CASE j \in DOMAIN ledger[r]
        BY <2>1, <2>3, <3>4, <4>2 DEF IInv, SlotsInOrder
      <4>3. QED
        BY <2>1, <4>1, <4>2
    <3>5. QED
      BY <3>1, <3>3, <3>4
  <2>4. QED
    BY <2>1, <2>2, <2>3
<1>8. ASSUME NEW q \in Ranks PROVE SlotsInOrder(q)'
  BY <1>5, <1>7 DEF IInv, SlotsInOrder, EndsBefore
<1>9. ASSUME NEW q \in Ranks PROVE Turns(q)'
  <2>1. r \in Nat /\ turn[r] = 0
    BY <1>1 DEF IInv, Turns, Ranks
  <2>2. ~ (turn[r] > r)
    BY <2>1
  <2>3. CASE q = r
    BY <1>1, <2>2, <2>3 DEF IInv, Turns, voting
  <2>4. CASE q # r
    BY <1>1, <1>5, <2>4 DEF IInv, Turns, voting
  <2>5. QED
    BY <2>3, <2>4
<1>10. ASSUME NEW q \in Ranks PROVE Broadcasts(q)'
  <2>1. CASE q = r
    <3> SUFFICES ASSUME NEW c \in 1 .. Len(posted[r])
                 PROVE  /\ IsPrefixOf(posted[r][c].ledger, ledger'[r])
                        /\ posted[r][c].success => Complete(posted[r][c].ledger)
      BY <1>1, <2>1 DEF Broadcasts, voting
    <3>1. /\ IsPrefixOf(posted[r][c].ledger, ledger[r])
          /\ posted[r][c].success => Complete(posted[r][c].ledger)
      BY DEF IInv, Broadcasts
    <3>2. posted[r][c].ledger \in Seq(Entries)
      BY PayloadType DEF IInv
    <3>3. IsPrefixOf(posted[r][c].ledger, ledger'[r])
      <4>1. ledger'[r] = Append(ledger[r], e)
        BY <1>5
      <4>2. ledger[r] \in Seq(Entries) /\ e \in Entries
        BY <1>2, <1>3
      <4>3. QED
        BY <3>1, <3>2, <4>1, <4>2, PrefixOfAppend
    <3>4. QED
      BY <3>1, <3>3
  <2>2. CASE q # r
    BY <1>1, <1>5, <2>2 DEF IInv, Broadcasts, voting
  <2>3. QED
    BY <2>1, <2>2
<1>11. ASSUME NEW q \in Ranks PROVE VerdictsCommon(q)'
  <2>1. posted' = posted /\ verdicts' = verdicts
    BY <1>1 DEF voting
  <2>2. \A c : Outcome(c)' = Outcome(c)
    BY <2>1 DEF Outcome
  <2>3. QED
    BY <2>1, <2>2 DEF IInv, VerdictsCommon
<1>12. ASSUME NEW q \in Ranks PROVE CapturedComplete(q)'
  <2>1. ASSUME NEW x \in captured[q]
        PROVE  EntriesOf(ledger'[q], x) = EntriesOf(ledger[q], x)
    BY <1>1, <1>2, <1>3, <1>5, EntriesOfAppend
  <2>2. QED
    BY <1>1, <2>1 DEF IInv, CapturedComplete, voting
<1>13. QED
  BY <1>6, <1>8, <1>9, <1>10, <1>11, <1>12 DEF IInv

(* A call with an input of the planned size, or another.                    *)
LEMMA CaptureCallCorrect ==
    ASSUME IInv, NEW r \in Ranks, CaptureCall(r) PROVE IInv'
<1>1. NextCall(r) \in Nat /\ BytesPerToken \in Nat
  BY ArenaAssumption DEF CaptureCall, TakeSlots
<1>2. InputBytes(NextCall(r)) \in Nat
  BY <1>1 DEF InputBytes
<1>3. faults' \in 0 .. MaxFaults
  BY DEF CaptureCall, IInv, Typing, TypeOK
<1>4. QED
  BY <1>2, <1>3, TakeSlotsCorrect DEF CaptureCall

LEMMA StrayCallCorrect ==
    ASSUME IInv, NEW r \in Ranks, StrayCall(r) PROVE IInv'
<1>1. PICK n \in StraySizes : TakeSlots(r, n)
  BY DEF StrayCall
<1>2. n \in Nat
  BY ArenaAssumption
<1>3. faults' \in 0 .. MaxFaults
  BY ArenaAssumption DEF StrayCall, IInv, Typing, TypeOK
<1>4. QED
  BY <1>1, <1>2, <1>3, TakeSlotsCorrect

(* A rank broadcasts its ledger, or takes part in another's broadcast.      *)
LEMMA BroadcastCorrect ==
    ASSUME IInv, NEW r \in Ranks, Broadcast(r) PROVE IInv'
<1> DEFINE n == Len(verdicts[r]) + 1
<1>1. /\ phase[r] = "vote" /\ turn[r] < NRanks
      /\ turn' = [turn EXCEPT ![r] = turn[r] + 1]
      /\ UNCHANGED <<plan, phase, work, failed, arena, ledgerStart, captured, verdicts, faults>>
  BY DEF Broadcast
<1>2. /\ NRanks \in Nat /\ r \in Nat /\ r < NRanks
      /\ turn[r] \in 0 .. NRanks /\ turn[r] \in Nat
      /\ n \in Nat
      /\ turn \in [Ranks -> 0 .. NRanks]
      /\ \A q \in Ranks : Len(posted[q]) \in Nat /\ q \in Nat /\ Len(verdicts[q]) \in Nat
  <2>1. NRanks \in Nat /\ r \in Nat /\ r < NRanks /\ \A q \in Ranks : q \in Nat
    BY ArenaAssumption DEF Ranks
  <2>2. turn \in [Ranks -> 0 .. NRanks] /\ turn[r] \in 0 .. NRanks
    BY DEF IInv, Typing, TypeOK
  <2>3. turn[r] \in Nat
    BY <2>1, <2>2
  <2>4. \A q \in Ranks : Len(posted[q]) \in Nat /\ Len(verdicts[q]) \in Nat
    BY DEF IInv, Typing
  <2>5. QED
    BY <2>1, <2>2, <2>3, <2>4
<1>3. /\ turn' \in [Ranks -> 0 .. NRanks]
      /\ turn'[r] = turn[r] + 1
      /\ \A q \in Ranks \ {r} : turn'[q] = turn[q]
  BY <1>1, <1>2
<1>4. \A q \in Ranks : SlotsInOrder(q)'
  BY <1>1 DEF IInv, SlotsInOrder, arena
<1>5. CASE turn[r] = r
  <2> DEFINE p == Payload(r)
  <2>1. /\ Len(posted[r]) = n - 1
        /\ posted' = [posted EXCEPT ![r] = Append(posted[r], p)]
    BY <1>2, <1>5 DEF Broadcast, IInv, Turns
  <2>2. /\ p \in Payloads
        /\ p.ledger = ledger[r]
        /\ p.success => Complete(ledger[r])
    <3>1. p = [success |-> ~ failed[r] /\ ManifestOK(r), ledger |-> ledger[r]]
      BY DEF Payload
    <3>2. p.ledger = ledger[r]
      BY DEF Payload
    <3>3. p.success = (~ failed[r] /\ ManifestOK(r))
      BY DEF Payload
    <3>4. p \in Payloads
      BY <3>1 DEF Payloads, IInv, Typing
    <3>5. ManifestOK(r) => Complete(ledger[r])
      BY DEF ManifestOK, Grouped, Complete
    <3> HIDE DEF p
    <3>6. p.success => ManifestOK(r)
      BY <3>3
    <3>7. QED
      BY <3>2, <3>4, <3>5, <3>6
  <2> HIDE DEF p
  <2>3. /\ posted[r] \in Seq(Payloads)
        /\ posted'[r] = Append(posted[r], p)
        /\ \A q \in Ranks \ {r} : posted'[q] = posted[q]
    BY <2>1 DEF IInv, Typing
  <2>4. /\ posted'[r] \in Seq(Payloads)
        /\ Len(posted'[r]) = n
        /\ posted'[r][n] = p
        /\ \A c \in 1 .. n - 1 : posted'[r][c] = posted[r][c]
    BY <1>2, <2>1, <2>2, <2>3, AppendFacts
  <2>5. \A q \in Ranks : Len(posted'[q]) >= Len(posted[q])
    BY <1>2, <2>1, <2>3, <2>4
  <2>6. \A q \in Ranks : \A c \in 1 .. Len(posted[q]) : posted'[q][c] = posted[q][c]
    BY <2>1, <2>3, <2>4
  <2>7. Typing'
    BY <1>1, <1>3, <2>1, <2>3, <2>4 DEF IInv, Typing, TypeOK, arena
  <2>8. ASSUME NEW q \in Ranks PROVE Turns(q)'
    <3>1. CASE q = r
      <4>1. turn'[r] > r
        BY <1>2, <1>3, <1>5
      <4>2. posted'[r][n].ledger = ledger'[r]
        BY <1>1, <2>2, <2>4 DEF arena
      <4>3. \A x \in Ranks : x < turn'[r] => Len(posted'[x]) >= n
        <5> SUFFICES ASSUME NEW x \in Ranks, x < r + 1
                     PROVE  Len(posted'[x]) >= n
          BY <1>3, <1>5
        <5>1. CASE x = r
          BY <1>2, <2>4, <5>1
        <5>2. CASE x # r
          <6>1. x < turn[r]
            BY <1>2, <1>5, <5>2
          <6>2. QED
            BY <2>3, <5>2, <6>1 DEF IInv, Turns
        <5>3. QED
          BY <5>1, <5>2
      <4>4. phase'[r] = "vote" /\ verdicts' = verdicts
        BY <1>1
      <4> HIDE DEF n
      <4>5. Len(verdicts'[r]) + 1 = n
        BY <4>4 DEF n
      <4>6. QED
        BY <2>4, <3>1, <4>1, <4>2, <4>3, <4>4, <4>5 DEF Turns
    <3>2. CASE q # r
      <4>1. \A x \in Ranks : x < turn[q] => Len(posted'[x]) >= Len(verdicts[q]) + 1
        <5>1. \A x \in Ranks : x < turn[q] => Len(posted[x]) >= Len(verdicts[q]) + 1
          BY DEF IInv, Turns
        <5>2. \A x \in Ranks : Len(posted'[x]) \in Nat
          BY <1>2, <2>3, <2>4
        <5>3. ASSUME NEW x \in Ranks, x < turn[q]
              PROVE  Len(posted'[x]) >= Len(verdicts[q]) + 1
          <6>1. Len(posted[x]) >= Len(verdicts[q]) + 1 /\ Len(posted'[x]) >= Len(posted[x])
            BY <2>5, <5>1, <5>3
          <6>2. Len(posted'[x]) \in Nat /\ Len(posted[x]) \in Nat /\ Len(verdicts[q]) \in Nat
            BY <1>2, <5>2
          <6>3. QED
            BY <6>1, <6>2
        <5>4. QED
          BY <5>3
      <4>2. QED
        BY <1>1, <1>3, <2>3, <3>2, <4>1 DEF IInv, Turns, arena
    <3>3. QED
      BY <3>1, <3>2
  <2>9. ASSUME NEW q \in Ranks PROVE Broadcasts(q)'
    <3>1. CASE q = r
      <4> SUFFICES ASSUME NEW c \in 1 .. n
                   PROVE  /\ IsPrefixOf(posted'[r][c].ledger, ledger[r])
                          /\ posted'[r][c].success => Complete(posted'[r][c].ledger)
        BY <1>1, <2>4, <3>1 DEF Broadcasts, arena
      <4>1. CASE c = n
        <5>1. IsPrefixOf(ledger[r], ledger[r])
          BY DEF IsPrefixOf, IInv, Typing
        <5>2. QED
          BY <2>2, <2>4, <4>1, <5>1
      <4>2. CASE c \in 1 .. n - 1
        BY <2>1, <2>4, <4>2 DEF IInv, Broadcasts
      <4>3. QED
        BY <1>2, <4>1, <4>2
    <3>2. CASE q # r
      BY <1>1, <2>3, <3>2 DEF IInv, Broadcasts, arena
    <3>3. QED
      BY <3>1, <3>2
  <2>10. ASSUME NEW q \in Ranks PROVE VerdictsCommon(q)'
    <3> SUFFICES ASSUME NEW c \in 1 .. Len(verdicts[q])
                 PROVE  /\ \A x \in Ranks : Len(posted'[x]) >= c
                        /\ verdicts[q][c] = Outcome(c)'
      BY <1>1 DEF VerdictsCommon
    <3>1. \A x \in Ranks : Len(posted[x]) >= c
      BY DEF IInv, VerdictsCommon
    <3>2. \A x \in Ranks : Len(posted'[x]) >= c /\ posted'[x][c] = posted[x][c]
      <4> TAKE x \in Ranks
      <4>1. c \in 1 .. Len(posted[x])
        BY <1>2, <3>1
      <4>2. Len(posted'[x]) >= c
        BY <1>2, <2>3, <2>4, <2>5, <3>1, <4>1
      <4>3. QED
        BY <2>6, <4>1, <4>2
    <3>3. Outcome(c)' = Outcome(c)
      BY <3>2 DEF Outcome
    <3>4. QED
      BY <3>2, <3>3 DEF IInv, VerdictsCommon
  <2>11. ASSUME NEW q \in Ranks PROVE CapturedComplete(q)'
    <3> SUFFICES ASSUME NEW d \in captured[q]
                 PROVE  \E c \in 1 .. Len(verdicts[q]) :
                            /\ verdicts[q][c] = "captured"
                            /\ EntriesOf(ledger[q], d) = EntriesOf(posted'[q][c].ledger, d)
                            /\ Cardinality(EntriesOf(ledger[q], d)) = OpsPerDescriptor
      BY <1>1 DEF CapturedComplete, arena
    <3>1. PICK c \in 1 .. Len(verdicts[q]) :
              /\ verdicts[q][c] = "captured"
              /\ EntriesOf(ledger[q], d) = EntriesOf(posted[q][c].ledger, d)
              /\ Cardinality(EntriesOf(ledger[q], d)) = OpsPerDescriptor
      BY DEF IInv, CapturedComplete
    <3>2. c \in 1 .. Len(posted[q])
      BY <1>2 DEF IInv, VerdictsCommon
    <3>3. QED
      BY <2>6, <3>1, <3>2
  <2>12. QED
    BY <1>4, <2>7, <2>8, <2>9, <2>10, <2>11 DEF IInv
<1>6. CASE turn[r] # r
  <2>1. Len(posted[turn[r]]) >= n /\ posted' = posted
    BY <1>6 DEF Broadcast, CaptureNumber
  <2>2. Typing'
    BY <1>1, <1>3, <2>1 DEF IInv, Typing, TypeOK, arena
  <2>3. ASSUME NEW q \in Ranks PROVE Turns(q)'
    <3>1. CASE q = r
      <4>1. turn'[r] > r <=> turn[r] > r
        BY <1>2, <1>3, <1>6
      <4>2. \A x \in Ranks : x < turn'[r] => Len(posted[x]) >= n
        BY <1>2, <1>3, <2>1 DEF IInv, Turns
      <4>3. QED
        BY <1>1, <2>1, <3>1, <4>1, <4>2 DEF IInv, Turns, arena
    <3>2. CASE q # r
      BY <1>1, <1>3, <2>1, <3>2 DEF IInv, Turns, arena
    <3>3. QED
      BY <3>1, <3>2
  <2>4. \A q \in Ranks : Broadcasts(q)'
    BY <1>1, <2>1 DEF IInv, Broadcasts, arena
  <2>5. \A q \in Ranks : VerdictsCommon(q)'
    BY <1>1, <2>1 DEF IInv, VerdictsCommon, Outcome
  <2>6. \A q \in Ranks : CapturedComplete(q)'
    BY <1>1, <2>1 DEF IInv, CapturedComplete, arena
  <2>7. QED
    BY <1>4, <2>2, <2>3, <2>4, <2>5, <2>6 DEF IInv
<1>7. QED
  BY <1>5, <1>6

(* The rank that decides has everybody's broadcast for its capture, and     *)
(* reads the outcome off them.                                              *)
LEMMA VerdictIsOutcome ==
    ASSUME IInv, NEW r \in Ranks, Decide(r)
    PROVE  /\ \A q \in Ranks : Len(posted[q]) >= CaptureNumber(r)
           /\ Len(posted[r]) = CaptureNumber(r)
           /\ posted[r][CaptureNumber(r)].ledger = ledger[r]
           /\ Verdict(r) = Outcome(CaptureNumber(r))
<1> DEFINE n == CaptureNumber(r)
<1>1. n = Len(verdicts[r]) + 1
  BY DEF CaptureNumber
<1>2. /\ turn[r] = NRanks
      /\ r \in Nat /\ NRanks \in Nat /\ \A q \in Ranks : q < NRanks
  BY ArenaAssumption DEF Decide, Ranks
<1>3. turn[r] > r
  BY <1>2
<1> HIDE DEF n
<1>4. /\ Len(posted[r]) = n
      /\ posted[r][n].ledger = ledger[r]
      /\ \A q \in Ranks : Len(posted[q]) >= n
  BY <1>1, <1>2, <1>3 DEF IInv, Turns
<1>5. AnyFailure(r) <=> \E q \in Ranks : ~ posted[q][n].success
  BY DEF AnyFailure, Gathered, n
<1>6. LedgersDiffer(r) <=>
          \E p, q \in Ranks : posted[q][n].ledger # posted[p][n].ledger
  <2>1. LedgersDiffer(r) <=> \E q \in Ranks : posted[q][n].ledger # posted[r][n].ledger
    BY <1>4 DEF LedgersDiffer, Gathered, n
  <2>2. QED
    BY <2>1
<1>7. Verdict(r) = Outcome(n)
  BY <1>5, <1>6 DEF Verdict, Outcome
<1>8. QED
  BY <1>4, <1>7 DEF n

(* A rank ends its capture; if all agree, what it took is captured.         *)
LEMMA DecideCorrect ==
    ASSUME IInv, NEW r \in Ranks, Decide(r) PROVE IInv'
<1> DEFINE n == CaptureNumber(r)
           v == Verdict(r)
<1>1. /\ verdicts' = [verdicts EXCEPT ![r] = Append(verdicts[r], v)]
      /\ turn' = [turn EXCEPT ![r] = 0]
      /\ phase' = [phase EXCEPT ![r] = "idle"]
      /\ captured' = IF v = "captured"
                     THEN [captured EXCEPT ![r] = captured[r] \cup NewDescriptors(r)]
                     ELSE captured
      /\ UNCHANGED <<plan, work, failed, arena, ledgerStart, posted, faults>>
  BY DEF Decide
<1>2. /\ \A q \in Ranks : Len(posted[q]) >= n
      /\ Len(posted[r]) = n
      /\ posted[r][n].ledger = ledger[r]
      /\ v = Outcome(n)
  BY VerdictIsOutcome
<1>3. n = Len(verdicts[r]) + 1
  BY DEF CaptureNumber
<1>4. v \in {"failed", "diverged", "captured"}
  BY DEF Verdict
<1> HIDE DEF n, v
<1>5. /\ verdicts[r] \in Seq({"failed", "diverged", "captured"})
      /\ verdicts'[r] = Append(verdicts[r], v)
      /\ \A q \in Ranks \ {r} : verdicts'[q] = verdicts[q]
  BY <1>1 DEF IInv, Typing
<1>6. /\ verdicts'[r] \in Seq({"failed", "diverged", "captured"})
      /\ n \in Nat /\ n >= 1
      /\ Len(verdicts'[r]) = n
      /\ verdicts'[r][n] = v
      /\ \A c \in 1 .. Len(verdicts[r]) : verdicts'[r][c] = verdicts[r][c]
  BY <1>3, <1>4, <1>5, AppendFacts
<1>7. /\ phase'[r] = "idle" /\ turn'[r] = 0
      /\ \A q \in Ranks \ {r} : /\ phase'[q] = phase[q] /\ turn'[q] = turn[q]
                                /\ captured'[q] = captured[q]
  BY <1>1 DEF IInv, Typing, TypeOK
<1>8. v # "captured" => captured'[r] = captured[r]
  BY <1>1
<1>9. v = "captured" => captured'[r] = captured[r] \cup NewDescriptors(r)
  BY <1>1 DEF IInv, Typing, TypeOK
<1>10. ASSUME NEW d \in NewDescriptors(r)
       PROVE  \E i \in DOMAIN ledger[r] : ledger[r][i].desc = d
  <2>1. ledger[r] \in Seq(Entries) /\ ledgerStart[r] \in Nat
    BY DEF IInv, Typing
  <2>2. PICK i \in ledgerStart[r] + 1 .. Len(ledger[r]) : ledger[r][i].desc = d
    BY DEF NewDescriptors
  <2>3. i \in DOMAIN ledger[r]
    BY <2>1, <2>2
  <2>4. QED
    BY <2>2, <2>3
<1>11. Typing'
  <2>1. NewDescriptors(r) \subseteq PlanDescriptors
    <3> SUFFICES ASSUME NEW d \in NewDescriptors(r) PROVE d \in PlanDescriptors
      OBVIOUS
    <3>1. PICK i \in DOMAIN ledger[r] : ledger[r][i].desc = d
      BY <1>10
    <3>2. ledger[r] \in Seq(Entries)
      BY DEF IInv, Typing
    <3>3. ledger[r][i] \in Entries
      BY <3>1, <3>2
    <3>4. QED
      BY <3>1, <3>3 DEF Entries
  <2>2. captured' \in [Ranks -> SUBSET PlanDescriptors]
    BY <1>1, <2>1 DEF IInv, Typing, TypeOK
  <2>3. turn' \in [Ranks -> 0 .. NRanks]
    BY <1>1, ArenaAssumption DEF IInv, Typing, TypeOK
  <2>4. verdicts' \in [Ranks -> Seq({"failed", "diverged", "captured"})]
    BY <1>1, <1>5, <1>6 DEF IInv, Typing
  <2>5. QED
    BY <1>1, <2>2, <2>3, <2>4 DEF IInv, Typing, TypeOK, arena
<1>12. \A q \in Ranks : SlotsInOrder(q)'
  BY <1>1 DEF IInv, SlotsInOrder, arena
<1>13. ASSUME NEW q \in Ranks PROVE Turns(q)'
  <2>1. CASE q = r
    <3>1. \A x \in Ranks : x \in Nat
      BY ArenaAssumption DEF Ranks
    <3>2. Len(posted'[r]) = Len(verdicts'[r])
      BY <1>1, <1>2, <1>6
    <3>3. ~ (turn'[r] > r) /\ \A x \in Ranks : ~ (x < turn'[r])
      BY <1>7, <3>1
    <3>4. QED
      BY <1>6, <1>7, <2>1, <3>2, <3>3 DEF Turns
  <2>2. CASE q # r
    BY <1>1, <1>5, <1>7, <2>2 DEF IInv, Turns, arena
  <2>3. QED
    BY <2>1, <2>2
<1>14. \A q \in Ranks : Broadcasts(q)'
  BY <1>1 DEF IInv, Broadcasts, arena
<1>15. \A c : Outcome(c)' = Outcome(c)
  BY <1>1 DEF Outcome
<1>16. ASSUME NEW q \in Ranks PROVE VerdictsCommon(q)'
  <2>1. CASE q = r
    <3> SUFFICES ASSUME NEW c \in 1 .. n
                 PROVE  /\ \A x \in Ranks : Len(posted[x]) >= c
                        /\ verdicts'[r][c] = Outcome(c)
      BY <1>1, <1>6, <1>15, <2>1 DEF VerdictsCommon
    <3>1. CASE c = n
      BY <1>2, <1>6, <3>1
    <3>2. CASE c \in 1 .. Len(verdicts[r])
      BY <1>6, <3>2 DEF IInv, VerdictsCommon
    <3>3. QED
      BY <1>3, <1>5, <1>6, <3>1, <3>2
  <2>2. CASE q # r
    BY <1>1, <1>5, <1>15, <2>2 DEF IInv, VerdictsCommon
  <2>3. QED
    BY <2>1, <2>2
<1>17. ASSUME NEW q \in Ranks PROVE CapturedComplete(q)'
  <2>1. CASE q = r
    <3> SUFFICES ASSUME NEW d \in captured'[r]
                 PROVE  \E c \in 1 .. n :
                            /\ verdicts'[r][c] = "captured"
                            /\ EntriesOf(ledger[r], d) = EntriesOf(posted[r][c].ledger, d)
                            /\ Cardinality(EntriesOf(ledger[r], d)) = OpsPerDescriptor
      BY <1>1, <1>6, <2>1 DEF CapturedComplete, arena
    <3>1. CASE d \in captured[r]
      <4>1. PICK c \in 1 .. Len(verdicts[r]) :
                /\ verdicts[r][c] = "captured"
                /\ EntriesOf(ledger[r], d) = EntriesOf(posted[r][c].ledger, d)
                /\ Cardinality(EntriesOf(ledger[r], d)) = OpsPerDescriptor
        BY <3>1 DEF IInv, CapturedComplete
      <4>2. c \in 1 .. n /\ verdicts'[r][c] = "captured"
        BY <1>3, <1>5, <1>6, <4>1
      <4>3. QED
        BY <4>1, <4>2
    <3>2. CASE d \notin captured[r]
      <4>1. v = "captured" /\ d \in NewDescriptors(r)
        BY <1>8, <1>9, <3>2
      <4>2. posted[r][n].success
        BY <1>2, <4>1 DEF Outcome
      <4>3. n \in 1 .. Len(posted[r])
        BY <1>2, <1>6
      <4>4. Complete(ledger[r])
        BY <1>2, <4>2, <4>3 DEF IInv, Broadcasts
      <4>5. Cardinality(EntriesOf(ledger[r], d)) = OpsPerDescriptor
        BY <1>10, <4>1, <4>4 DEF Complete
      <4>6. n \in 1 .. n /\ verdicts'[r][n] = "captured"
        BY <1>6, <4>1
      <4>7. QED
        BY <1>2, <4>5, <4>6
    <3>3. QED
      BY <3>1, <3>2
  <2>2. CASE q # r
    BY <1>1, <1>5, <1>7, <2>2 DEF IInv, CapturedComplete, arena
  <2>3. QED
    BY <2>1, <2>2
<1>18. QED
  BY <1>11, <1>12, <1>13, <1>14, <1>16, <1>17 DEF IInv

(* Nothing is taken, broadcast or decided at first.                         *)
LEMMA InitCorrect == ASSUME Init PROVE IInv
<1>1. NRanks \in Nat /\ MaxFaults \in Nat /\ \A r \in Ranks : r \in Nat
  BY ArenaAssumption DEF Ranks
<1>2. /\ DataStart \in DataStart .. DataLimit
      /\ MetaStart \in MetaStart .. MetaLimit
  BY ArenaBounds
<1>3. Typing
  BY <1>1, <1>2 DEF Init, Typing, TypeOK
<1>4. \A r \in Ranks : SlotsInOrder(r)
  BY DEF Init, SlotsInOrder
<1>5. \A r \in Ranks : Turns(r)
  BY <1>1 DEF Init, Turns
<1>6. \A r \in Ranks : Broadcasts(r)
  BY DEF Init, Broadcasts
<1>7. \A r \in Ranks : VerdictsCommon(r)
  BY DEF Init, VerdictsCommon
<1>8. \A r \in Ranks : CapturedComplete(r)
  BY DEF Init, CapturedComplete
<1>9. QED
  BY <1>3, <1>4, <1>5, <1>6, <1>7, <1>8 DEF IInv

-----------------------------------------------------------------------------
(* The theorems.                                                            *)

(* Every reachable state satisfies the inductive invariant.                 *)
THEOREM Invariant == Spec => []IInv
<1>1. Init => IInv
  BY InitCorrect
<1>2. IInv /\ [Next]_vars => IInv'
  <2> SUFFICES ASSUME IInv, [Next]_vars PROVE IInv'
    OBVIOUS
  <2>1. CASE UNCHANGED vars
    BY <2>1 DEF vars, IInv, Typing, TypeOK, SlotsInOrder, EndsBefore, Turns,
                Broadcasts, VerdictsCommon, Outcome, CapturedComplete
  <2>2. CASE Next
    <3>1. PICK r \in Ranks : Step(r) \/ MissCall(r) \/ StrayCall(r) \/ FailBody(r)
      BY <2>2 DEF Next
    <3>2. CASE \/ EnterCapture(r) \/ CaptureStandardCall(r) \/ RefuseCall(r)
               \/ MissCall(r) \/ FailBody(r) \/ FinishBody(r)
      BY <3>2, QuietSteps
    <3>3. CASE CaptureCall(r)
      BY <3>3, CaptureCallCorrect
    <3>4. CASE Broadcast(r)
      BY <3>4, BroadcastCorrect
    <3>5. CASE Decide(r)
      BY <3>5, DecideCorrect
    <3>6. CASE StrayCall(r)
      BY <3>6, StrayCallCorrect
    <3>7. QED
      BY <3>1, <3>2, <3>3, <3>4, <3>5, <3>6 DEF Step
  <2>3. QED
    BY <2>1, <2>2
<1>3. QED
  BY <1>1, <1>2, PTL DEF Spec

(* The variables stay in their ranges, and the cursors inside the arena,    *)
(* whatever fails.                                                          *)
THEOREM TypeCorrect == Spec => []TypeOK
<1>1. IInv => TypeOK
  BY DEF IInv, Typing
<1>2. QED
  BY <1>1, Invariant, PTL

(* No two captured calls of a rank share storage, in whatever captures, and *)
(* none has that of eager calls.                                            *)
THEOREM SlotsStayApart == Spec => []SlotsDisjoint
<1>1. IInv => SlotsDisjoint
  <2> SUFFICES ASSUME IInv, NEW r \in Ranks,
                      NEW i \in DOMAIN ledger[r], NEW j \in DOMAIN ledger[r]
               PROVE  LET e == ledger[r][i]
                          f == ledger[r][j]
                      IN  /\ e.data >= EagerReserve /\ e.meta >= MetaSize + EagerReserve
                          /\ i # j =>
                                /\ Apart(e.data, e.bytes, f.data, f.bytes)
                                /\ Apart(e.meta, MetaBytesUsed(e.bytes),
                                         f.meta, MetaBytesUsed(f.bytes))
    BY DEF SlotsDisjoint
  <2> DEFINE e == ledger[r][i]
             f == ledger[r][j]
  <2>1. /\ ledger[r] \in Seq(Entries)
        /\ i \in Nat /\ j \in Nat /\ e \in Entries /\ f \in Entries
    BY DEF IInv, Typing
  <2>2. /\ e.data >= DataStart /\ e.meta >= MetaStart
        /\ i < j => EndsBefore(e, f.data, f.meta)
        /\ j < i => EndsBefore(f, e.data, e.meta)
    BY DEF IInv, SlotsInOrder
  <2> HIDE DEF e, f
  <2>3. /\ e.bytes \in Nat /\ e.data \in Nat /\ e.meta \in Nat
        /\ f.bytes \in Nat /\ f.data \in Nat /\ f.meta \in Nat
    BY <2>1 DEF Entries
  <2>4. e.data >= EagerReserve /\ e.meta >= MetaSize + EagerReserve
    <3>1. MetaSize + EagerReserve \in Nat
      BY ArenaAssumption
    <3>2. QED
      BY <2>2, <2>3, <3>1, ArenaBounds
  <2>5. ASSUME i < j
        PROVE  /\ e.data + e.bytes <= f.data
               /\ e.meta + MetaBytesUsed(e.bytes) <= f.meta
    BY <2>2, <2>3, <2>5, SlotSizes DEF EndsBefore
  <2>6. ASSUME j < i
        PROVE  /\ f.data + f.bytes <= e.data
               /\ f.meta + MetaBytesUsed(f.bytes) <= e.meta
    BY <2>2, <2>3, <2>6, SlotSizes DEF EndsBefore
  <2>7. i # j => i < j \/ j < i
    BY <2>1
  <2>8. QED
    BY <2>4, <2>5, <2>6, <2>7 DEF Apart, e, f
<1>2. QED
  BY <1>1, Invariant, PTL

(* All ranks end a capture the same way: keep its graphs, or raise.         *)
THEOREM OneVerdict == Spec => []SameVerdict
<1>1. IInv => SameVerdict
  <2> SUFFICES ASSUME IInv, NEW r \in Ranks, NEW q \in Ranks,
                      NEW c \in 1 .. Len(verdicts[r]), c <= Len(verdicts[q])
               PROVE  verdicts[r][c] = verdicts[q][c]
    BY DEF SameVerdict
  <2>1. c \in 1 .. Len(verdicts[q])
    BY DEF IInv, Typing
  <2>2. QED
    BY <2>1 DEF IInv, VerdictsCommon
<1>2. QED
  BY <1>1, Invariant, PTL

(* Once a rank has accepted a descriptor, every rank has the slots of its   *)
(* graph in the same places, for inputs of the planned size, and the rank   *)
(* itself takes no more.                                                    *)
THEOREM AcceptedAgree == Spec => []AcceptedSlotsAgree
<1>1. IInv => AcceptedSlotsAgree
  <2> SUFFICES ASSUME IInv, NEW r \in Ranks, NEW q \in Ranks, NEW d \in captured[r]
               PROVE  /\ Cardinality(EntriesOf(ledger[r], d)) = OpsPerDescriptor
                      /\ \A i \in EntriesOf(ledger[r], d) :
                            /\ i \in DOMAIN ledger[q] /\ ledger[q][i] = ledger[r][i]
                            /\ ledger[r][i].bytes = InputBytes(d)
    BY DEF AcceptedSlotsAgree
  <2>1. PICK c \in 1 .. Len(verdicts[r]) :
            /\ verdicts[r][c] = "captured"
            /\ EntriesOf(ledger[r], d) = EntriesOf(posted[r][c].ledger, d)
            /\ Cardinality(EntriesOf(ledger[r], d)) = OpsPerDescriptor
    BY DEF IInv, CapturedComplete
  <2>2. /\ \A x \in Ranks : Len(posted[x]) >= c
        /\ Outcome(c) = "captured"
    BY <2>1 DEF IInv, VerdictsCommon
  <2>3. c \in 1 .. Len(posted[r]) /\ c \in 1 .. Len(posted[q])
    BY <2>2 DEF IInv, Typing
  <2> DEFINE led == posted[r][c].ledger
  <2>4. posted[q][c].ledger = led
    BY <2>2 DEF Outcome
  <2>5. IsPrefixOf(led, ledger[r]) /\ IsPrefixOf(led, ledger[q])
    BY <2>3, <2>4 DEF IInv, Broadcasts
  <2>6. led \in Seq(Entries) /\ ledger[q] \in Seq(Entries)
    BY <2>3, PayloadType DEF IInv, Typing
  <2> HIDE DEF led
  <2>7. ASSUME NEW i \in EntriesOf(led, d)
        PROVE  /\ i \in DOMAIN ledger[q] /\ ledger[q][i] = ledger[r][i]
               /\ ledger[r][i].bytes = InputBytes(d)
    <3>1. i \in 1 .. Len(led) /\ i \in DOMAIN led /\ led[i].desc = d
      BY <2>6 DEF EntriesOf
    <3>2. posted[r][c].success
      BY <2>2 DEF Outcome
    <3>3. Complete(led)
      BY <2>3, <3>2 DEF IInv, Broadcasts, led
    <3>4. QED
      BY <2>5, <2>6, <3>1, <3>3 DEF IsPrefixOf, Complete
  <2>8. QED
    BY <2>1, <2>7 DEF led
<1>2. QED
  BY <1>1, Invariant, PTL
=============================================================================
