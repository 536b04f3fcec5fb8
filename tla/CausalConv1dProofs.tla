------------------------- MODULE CausalConv1dProofs -------------------------
(* For any requests, lines, widths, blocks and pieces of a request: every   *)
(* output sees the inputs in front of it, and a line holds the last inputs  *)
(* of its request.                                                          *)
EXTENDS CausalConv1d, TLAPS

-----------------------------------------------------------------------------
(* The inductive invariant.                                                 *)

Kinds == {"generic", "vec", "head", "body", "decode"}

RowType ==
    [req : Requests \cup {Zero}, start : Nat, len : Nat \ {0}, past : 0 .. MaxTokens,
     line : Lines \cup {NullLine}, init : BOOLEAN]

Typing ==
    /\ computed \in [Requests -> 0 .. MaxTokens]
    /\ line \in [Requests -> Lines \cup {NullLine}]
    /\ conv \in [Lines \cup {NullLine} -> [1 .. StateLen -> Cell]]
    /\ batch \in Seq(RowType)
    /\ x \in Seq((Requests \cup {Zero}) \X Nat)
    /\ maxSeqLen \in Nat

(* No two requests have the same line, and one without a line is at its     *)
(* beginning.                                                               *)
OwnLines ==
    /\ \A q, r \in Requests : line[q] = line[r] /\ line[q] # NullLine => q = r
    /\ \A r \in Requests : computed[r] > 0 => line[r] # NullLine

(* The rows of a batch are packed one behind the other.                     *)
Packed ==
    /\ \A s \in DOMAIN batch :
          /\ batch[s].start + batch[s].len <= Len(x)
          /\ \A i \in 1 .. batch[s].len :
                x[batch[s].start + i] = <<batch[s].req, batch[s].past + i>>
    /\ \A s, t \in DOMAIN batch :
          s < t => batch[s].start + batch[s].len <= batch[t].start
    /\ (\A s \in DOMAIN batch : batch[s].len = 1) =>
          /\ Len(x) = Len(batch)
          /\ \A s \in DOMAIN batch : batch[s].start = s - 1

(* A row continues its request, which has no other; a batch is padded only  *)
(* if it is a decode batch.                                                 *)
RowsMatch ==
    /\ \A s, t \in DOMAIN batch : batch[s].req = batch[t].req => s = t
    /\ \A s \in DOMAIN batch :
          IF batch[s].req = Zero THEN batch[s].line = NullLine /\ IsDecodeBatch
          ELSE /\ batch[s].past = computed[batch[s].req]
               /\ batch[s].line = line[batch[s].req] /\ batch[s].line # NullLine
               /\ batch[s].init <=> batch[s].past > 0
               /\ batch[s].past + batch[s].len <= MaxTokens

(* what must hold of a launch that runs kernel k *)
Allowed(k) ==
    /\ k \in {"decode", "head", "body"} => Width = 4
    /\ k = "decode" => maxSeqLen = 1
    /\ k # "decode" => \A s \in DOMAIN batch : batch[s].req # Zero
    /\ k = "body" => maxSeqLen > BlockM

(* the kernels of the launch behind k *)
Behind(k) == IF k = "head" /\ maxSeqLen > BlockM THEN <<"body">> ELSE <<>>

(* A launch is at one of its kernels, or in front of the first.             *)
AtKernel ==
    \/ /\ pc = <<>> /\ cols = <<>>
       /\ \E k \in Kinds \ {"body"} : Allowed(k) /\ queue = <<k>> \o Behind(k)
    \/ \E k \in Kinds :
          /\ Allowed(k) /\ queue = Behind(k)
          /\ DOMAIN pc = Blocks(k) /\ DOMAIN cols = Blocks(k)

(* The launch bound covers every row, and there is an output for each token. *)
LaunchShape ==
    IF maxSeqLen = 0 THEN pc = <<>> /\ cols = <<>> /\ queue = <<>> /\ out = <<>>
    ELSE /\ batch # <<>>
         /\ \A s \in DOMAIN batch : batch[s].len <= maxSeqLen
         /\ maxSeqLen <= Len(x)
         /\ out = [p \in DOMAIN x |-> out[p]]
         /\ AtKernel

(* A block is at a step its kernel has, with tokens to work on.             *)
BlockSteps ==
    \A b \in DOMAIN pc :
        /\ pc[b] \in {"load", "store", "compute", "done"}
        /\ b[1] = "decode" => pc[b] \in {"load", "done"}
        /\ pc[b] = "store" => b[3] = 0 /\ b[1] # "body"
        /\ pc[b] \in {"store", "compute"} => HasTokens(b[2], b[3])

(* the launch has replaced the state of row s *)
Stored(s) ==
    \E b \in DOMAIN pc :
        b[2] = s /\ (b[1] = "body" \/ (b[3] = 0 /\ pc[b] \in {"compute", "done"}))

(* A line holds the last inputs of its request: up to the launch before,    *)
(* and with those of this launch as soon as its row has been stored.        *)
LinesRight ==
    /\ \A r \in Requests :
          computed[r] > 0 /\ (\A s \in RowsOf(r) : ~ Stored(s))
            => conv[line[r]] = TailOf(r, computed[r])
    /\ \A s \in DOMAIN batch :
          batch[s].req # Zero /\ Stored(s)
            => conv[batch[s].line] = TailOf(batch[s].req, batch[s].past + batch[s].len)
    /\ conv[NullLine] = [k \in 1 .. StateLen |-> Zero]

(* A block's columns are the inputs in front of its chunk.                  *)
ColumnsRight ==
    \A b \in DOMAIN pc :
        pc[b] \in {"store", "compute"} =>
            cols[b] = TailOf(batch[b[2]].req, batch[b[2]].past + Offset(b[3]))

(* the launch has written the i-th output of row s *)
Covered(s, i) ==
    \E b \in DOMAIN pc :
        /\ b[2] = s
        /\ \/ b[1] = "body" /\ i <= BlockM
           \/ pc[b] = "done" /\ Offset(b[3]) < i /\ i <= Offset(b[3]) + BlockM

OutputsWritten ==
    maxSeqLen # 0 =>
        \A s \in DOMAIN batch : batch[s].req # Zero =>
            \A i \in 1 .. batch[s].len :
                LET o == out[batch[s].start + i]
                IN o = Window(batch[s].req, batch[s].past + i)
                   \/ (o = Unwritten /\ ~ Covered(s, i))

IInv ==
    /\ Typing /\ OwnLines /\ Packed /\ RowsMatch
    /\ LaunchShape /\ BlockSteps /\ LinesRight /\ ColumnsRight /\ OutputsWritten

(* The lengths in question.                                                 *)
LEMMA WidthFacts ==
    /\ StateLen \in 1 .. 4 /\ StateLen \in Nat /\ Width = StateLen + 1
    /\ BlockM \in Nat /\ BlockM >= StateLen /\ BlockM >= 1
  BY BlockAssumption DEF StateLen

(* what state is known to be when request r has had past tokens *)
Known(state, init, r, past) ==
    /\ past \in Nat
    /\ init \in BOOLEAN /\ (init <=> past > 0)
    /\ init => state = TailOf(r, past)

(* what state and inputs are when r's next len tokens are stored *)
Continues(state, inputs, init, r, past, len) ==
    /\ Known(state, init, r, past) /\ len \in Nat \ {0}
    /\ state = [j \in 1 .. StateLen |-> state[j]]
    /\ Len(inputs) = len
    /\ \A j \in 1 .. len : inputs[j] = <<r, past + j>>

(* The loop, in place and from the oldest entry on, leaves the last inputs: *)
(* what an entry is made of lies behind it and is not replaced yet.         *)
LEMMA LoopStateIsTail ==
    ASSUME NEW state, NEW inputs, NEW init, NEW r, NEW past, NEW len,
           Continues(state, inputs, init, r, past, len)
    PROVE  LoopState(state, inputs, init) = TailOf(r, past + len)
<1> DEFINE new == TailOf(r, past + len)
           Upto(st, i) == /\ st = [j \in 1 .. StateLen |-> st[j]]
                          /\ \A j \in 1 .. StateLen : j < i => st[j] = new[j]
                          /\ \A j \in 1 .. StateLen : j >= i => st[j] = state[j]
           Replaced(st, i) == ReplaceEntry(st, inputs, init, i)
<1>1. StateLen \in 1 .. 4
  BY WidthFacts
<1>2. /\ new = [j \in 1 .. StateLen |-> new[j]]
      /\ \A i \in 1 .. StateLen : new[i] =
            IF past + len - StateLen + i >= 1 THEN <<r, past + len - StateLen + i>> ELSE Zero
  <2>1. past \in Nat /\ len \in Nat
    BY DEF Continues, Known
  <2>2. QED
    BY <1>1, <2>1 DEF TailOf
<1>0. /\ past \in Nat /\ len \in Nat \ {0}
      /\ init \in BOOLEAN /\ (init <=> past > 0)
      /\ init => state = TailOf(r, past)
      /\ state = [j \in 1 .. StateLen |-> state[j]]
      /\ Len(inputs) = len
      /\ \A j \in 1 .. len : inputs[j] = <<r, past + j>>
  BY DEF Continues, Known
<1> USE <1>0
<1>3. init => \A j \in 1 .. StateLen : state[j] =
            IF past - StateLen + j >= 1 THEN <<r, past - StateLen + j>> ELSE Zero
  BY <1>1 DEF TailOf
<1> HIDE DEF new
<1>4. ASSUME NEW st, NEW i \in 1 .. StateLen, Upto(st, i)
      PROVE  LoopEntry(st, inputs, init, i) = new[i]
  <2>1. CASE len >= StateLen
    <3>1. len - StateLen + i \in 1 .. len
      BY <1>1, <2>1
    <3>2. LoopEntry(st, inputs, init, i) = <<r, past + (len - StateLen + i)>>
      BY <2>1, <3>1 DEF LoopEntry
    <3>3. QED
      BY <1>1, <1>2, <3>1, <3>2
  <2>2. CASE len < StateLen /\ init /\ i <= StateLen - len
    <3>1. i + len \in 1 .. StateLen /\ i + len >= i
      BY <1>1, <2>2
    <3>2. LoopEntry(st, inputs, init, i) = st[i + len]
      BY <1>1, <2>2, <3>1 DEF LoopEntry
    <3>3. st[i + len] = state[i + len]
      BY <1>4, <3>1
    <3>4. past - StateLen + (i + len) = past + len - StateLen + i
      BY <1>1
    <3>5. QED
      BY <1>2, <1>3, <2>2, <3>1, <3>2, <3>3, <3>4
  <2>3. CASE len < StateLen /\ i > StateLen - len
    <3>1. i - (StateLen - len) \in 1 .. len
      BY <1>1, <2>3
    <3>2. LoopEntry(st, inputs, init, i) = <<r, past + (i - (StateLen - len))>>
      BY <1>1, <2>3, <3>1 DEF LoopEntry
    <3>3. QED
      BY <1>1, <1>2, <2>3, <3>1, <3>2
  <2>4. CASE len < StateLen /\ ~ init /\ i <= StateLen - len
    <3>1. LoopEntry(st, inputs, init, i) = Zero
      BY <1>1, <2>4 DEF LoopEntry
    <3>2. QED
      BY <1>1, <1>2, <2>4, <3>1
  <2>5. QED
    BY <1>1, <2>1, <2>2, <2>3, <2>4
<1>5. ASSUME NEW i \in 1 .. 4, NEW st, Upto(st, i) PROVE Upto(Replaced(st, i), i + 1)
  <2>1. CASE i > StateLen
    BY <1>1, <1>5, <2>1 DEF ReplaceEntry
  <2>2. CASE i <= StateLen
    <3>1. i \in 1 .. StateLen /\ ~ (i > StateLen)
      BY <1>1, <2>2
    <3>2. LoopEntry(st, inputs, init, i) = new[i]
      BY <1>4, <1>5, <3>1
    <3>3. Replaced(st, i) = [st EXCEPT ![i] = LoopEntry(st, inputs, init, i)]
      <4> HIDE DEF Replaced
      <4>1. ~ (i > StateLen)
        BY <3>1
      <4>2. QED
        BY <4>1, Zenon DEF ReplaceEntry, Replaced
    <3>4. ASSUME NEW t, t = [st EXCEPT ![i] = new[i]] PROVE Upto(t, i + 1)
      <4>1. t = [j \in 1 .. StateLen |-> IF j = i THEN new[i] ELSE st[j]]
        BY <1>5, <3>1, <3>4
      <4>2. \A j \in 1 .. StateLen : t[j] = IF j = i THEN new[i] ELSE st[j]
        BY <4>1
      <4>3. t = [j \in 1 .. StateLen |-> t[j]]
        BY <4>1, <4>2
      <4>4. /\ \A j \in 1 .. StateLen : j < i => st[j] = new[j]
            /\ \A j \in 1 .. StateLen : j >= i => st[j] = state[j]
        BY <1>5
      <4>5. \A j \in 1 .. StateLen : j < i + 1 => j = i \/ j < i
        BY <1>1
      <4>6. \A j \in 1 .. StateLen : j >= i + 1 => j # i /\ j >= i
        BY <1>1
      <4>7. QED
        BY <4>2, <4>3, <4>4, <4>5, <4>6
    <3>5. QED
      BY <3>2, <3>3, <3>4
  <2>3. QED
    BY <1>1, <2>1, <2>2
<1>6. Upto(state, 1)
  BY <1>1
<1> HIDE DEF Upto, Replaced
<1>7. Upto(Replaced(state, 1), 2)
  BY <1>5, <1>6
<1>8. Upto(Replaced(Replaced(state, 1), 2), 3)
  BY <1>5, <1>7
<1>9. Upto(Replaced(Replaced(Replaced(state, 1), 2), 3), 4)
  BY <1>5, <1>8
<1>10. Upto(Replaced(Replaced(Replaced(Replaced(state, 1), 2), 3), 4), 5)
  BY <1>5, <1>9
<1>11. ASSUME NEW st, Upto(st, 5) PROVE st = new
  BY <1>1, <1>2, <1>11 DEF Upto
<1>12. LoopState(state, inputs, init) = Replaced(Replaced(Replaced(Replaced(state, 1), 2), 3), 4)
  BY DEF LoopState, Replaced
<1>13. QED
  BY <1>10, <1>11, <1>12 DEF new

(* Three entries, one by one.                                               *)
LEMMA TailOfThree ==
    ASSUME NEW r, NEW n \in Nat, Width = 4
    PROVE  TailOf(r, n) = <<IF n >= 3 THEN <<r, n - 2>> ELSE Zero,
                            IF n >= 2 THEN <<r, n - 1>> ELSE Zero,
                            IF n >= 1 THEN <<r, n>> ELSE Zero>>
<1>1. StateLen = 3
  BY WidthFacts
<1>2. TailOf(r, n) = [k \in 1 .. 3 |-> IF n - 3 + k >= 1 THEN <<r, n - 3 + k>> ELSE Zero]
  BY <1>1 DEF TailOf
<1>3. QED
  BY <1>2

(* So does the head kernel of the split, for three entries.                 *)
LEMMA HeadStateIsTail ==
    ASSUME NEW state, NEW T, NEW inputs \in Seq(T), NEW init, NEW r, NEW past, NEW len,
           Continues(state, inputs, init, r, past, len), Width = 4
    PROVE  HeadState(state, inputs, init) = TailOf(r, past + len)
<1>0. /\ past \in Nat /\ len \in Nat \ {0}
      /\ init \in BOOLEAN /\ (init <=> past > 0)
      /\ init => state = TailOf(r, past)
      /\ Len(inputs) = len
      /\ \A j \in 1 .. len : inputs[j] = <<r, past + j>>
  BY DEF Continues, Known
<1> USE <1>0
<1> DEFINE n == past + len
<1>1. n \in Nat /\ n >= 1
  OBVIOUS
<1>2. init => state[2] = (IF past >= 2 THEN <<r, past - 1>> ELSE Zero) /\ state[3] = <<r, past>>
  BY TailOfThree
<1>3. CASE len >= 3
  <2>1. n >= 3 /\ len - 2 \in 1 .. len /\ len - 1 \in 1 .. len /\ len \in 1 .. len
    BY <1>3
  <2>2. HeadState(state, inputs, init) = SubSeq(inputs, len - 2, len)
    BY <1>3 DEF HeadState
  <2> DEFINE last == SubSeq(inputs, len - 2, len)
  <2>3. /\ last \in Seq(T) /\ Len(last) = 3 /\ last[1] = inputs[len - 2]
        /\ last[2] = inputs[len - 1] /\ last[3] = inputs[len]
    BY <1>3
  <2>4. /\ inputs[len - 2] = <<r, n - 2>> /\ inputs[len - 1] = <<r, n - 1>>
        /\ inputs[len] = <<r, n>>
    BY <2>1
  <2> HIDE DEF last
  <2>5. last = <<last[1], last[2], last[3]>>
    BY <2>3
  <2> HIDE DEF n
  <2>6. TailOf(r, n) = << <<r, n - 2>>, <<r, n - 1>>, <<r, n>> >>
    BY <1>1, <2>1, TailOfThree
  <2>7. QED
    BY <2>2, <2>3, <2>4, <2>5, <2>6 DEF n, last
<1>4. CASE len = 2
  <2>1. HeadState(state, inputs, init) =
            <<IF init THEN state[3] ELSE Zero, inputs[1], inputs[2]>>
    BY <1>4 DEF HeadState
  <2>2. n - 2 = past /\ n - 1 = past + 1 /\ n = past + 2 /\ n >= 2 /\ (n >= 3 <=> past > 0)
    BY <1>4
  <2> HIDE DEF n
  <2>3. TailOf(r, n) =
            <<IF past > 0 THEN <<r, past>> ELSE Zero, <<r, past + 1>>, <<r, past + 2>> >>
    BY <1>1, <2>2, TailOfThree
  <2>4. inputs[1] = <<r, past + 1>> /\ inputs[2] = <<r, past + 2>>
    BY <1>4
  <2>5. HeadState(state, inputs, init) = TailOf(r, n)
    BY <1>2, <2>1, <2>3, <2>4
  <2>6. QED
    BY <2>5 DEF n
<1>5. CASE len = 1
  <2>1. HeadState(state, inputs, init) =
            IF init THEN <<state[2], state[3], inputs[1]>> ELSE <<Zero, Zero, inputs[1]>>
    BY <1>5 DEF HeadState
  <2>2. /\ n - 2 = past - 1 /\ n - 1 = past /\ n = past + 1
        /\ (n >= 3 <=> past >= 2) /\ (n >= 2 <=> past > 0)
    BY <1>5
  <2> HIDE DEF n
  <2>3. TailOf(r, n) =
            <<IF past >= 2 THEN <<r, past - 1>> ELSE Zero,
              IF past > 0 THEN <<r, past>> ELSE Zero, <<r, past + 1>> >>
    BY <1>1, <2>2, TailOfThree
  <2>4. QED
    BY <1>2, <1>5, <2>1, <2>3 DEF n
<1>6. QED
  BY <1>3, <1>4, <1>5

(* And so does the decode kernel, for one token.                            *)
LEMMA DecodeStateIsTail ==
    ASSUME NEW state, NEW init, NEW r, NEW past, Width = 4, Known(state, init, r, past)
    PROVE  DecodeState(state, <<r, past + 1>>, init) = TailOf(r, past + 1)
<1>0. /\ past \in Nat /\ init \in BOOLEAN /\ (init <=> past > 0)
      /\ init => state = TailOf(r, past)
  BY DEF Known
<1> USE <1>0
<1>1. StateLen = 3
  BY WidthFacts
<1>2. init => state[2] = (IF past >= 2 THEN <<r, past - 1>> ELSE Zero) /\ state[3] = <<r, past>>
  BY <1>1 DEF TailOf
<1>3. TailOf(r, past + 1) =
          <<IF past + 1 >= 3 THEN <<r, past + 1 - 2>> ELSE Zero,
            IF past + 1 >= 2 THEN <<r, past + 1 - 1>> ELSE Zero, <<r, past + 1>> >>
  BY <1>1 DEF TailOf
<1>4. QED
  BY <1>2, <1>3 DEF DecodeState

(* The entries of two sequences in a row.                                   *)
LEMMA ConcatEntries ==
    ASSUME NEW S, NEW c \in Seq(S), NEW d \in Seq(S),
           NEW n \in Nat, Len(c) = n, NEW m \in Nat, Len(d) = m
    PROVE  /\ c \o d \in Seq(S) /\ Len(c \o d) = n + m
           /\ \A j \in 1 .. n : (c \o d)[j] = c[j]
           /\ \A j \in 1 .. m : (c \o d)[n + j] = d[j]
  OBVIOUS

(* A part of a sequence, entry by entry.                                    *)
LEMMA SubSeqEntries ==
    ASSUME NEW S, NEW q \in Seq(S), NEW m \in Nat \ {0}, NEW n \in Nat, n <= Len(q), NEW w \in Nat,
           n = m + w - 1
    PROVE  SubSeq(q, m, n) = [k \in 1 .. w |-> q[m - 1 + k]]
<1> DEFINE t == SubSeq(q, m, n)
<1>1. t \in Seq(S) /\ Len(t) = w /\ \A k \in 1 .. w : t[k] = q[m - 1 + k]
  OBVIOUS
<1> HIDE DEF t
<1>2. t = [k \in 1 .. w |-> t[k]]
  BY <1>1
<1>3. QED
  BY <1>1, <1>2 DEF t

(* what a column or an input of r is *)
EntriesOf(r) == ({r} \X Nat) \cup {Zero}

(* columns and inputs are r's tokens up to n and behind n.                  *)
Follow(columns, inputs, r, n, m) ==
    /\ \A k \in 1 .. StateLen :
          columns[k] = IF n - StateLen + k >= 1 THEN <<r, n - StateLen + k>> ELSE Zero
    /\ \A k \in 1 .. m : inputs[k] = <<r, n + k>>

(* A window over columns and inputs that follow each other.                 *)
LEMMA WindowEntries ==
    ASSUME NEW r, NEW n \in Nat, NEW m \in Nat,
           NEW columns \in Seq(EntriesOf(r)), NEW inputs \in Seq(EntriesOf(r)),
           Len(columns) = StateLen, Len(inputs) = m, Follow(columns, inputs, r, n, m),
           NEW i \in 1 .. m
    PROVE  SubSeq(columns \o inputs, i, i + StateLen) = Window(r, n + i)
<1> DEFINE both == columns \o inputs
<1>1. StateLen \in Nat /\ Width = StateLen + 1
  BY WidthFacts
<1>2. /\ both \in Seq(EntriesOf(r)) /\ Len(both) = StateLen + m
      /\ \A j \in 1 .. StateLen : both[j] = columns[j]
      /\ \A j \in 1 .. m : both[StateLen + j] = inputs[j]
  BY <1>1
<1> HIDE DEF both
<1>3. ASSUME NEW j \in 1 .. StateLen + m
      PROVE  both[j] = IF n - StateLen + j >= 1 THEN <<r, n - StateLen + j>> ELSE Zero
  <2>1. CASE j <= StateLen
    <3>1. j \in 1 .. StateLen
      BY <1>1, <2>1
    <3>2. both[j] = columns[j]
      BY <1>2, <3>1
    <3>3. QED
      BY <3>1, <3>2 DEF Follow
  <2>2. CASE ~ (j <= StateLen)
    <3>1. j - StateLen \in 1 .. m /\ StateLen + (j - StateLen) = j
      BY <1>1, <2>2
    <3>2. both[j] = inputs[j - StateLen]
      BY <1>2, <3>1
    <3>3. inputs[j - StateLen] = <<r, n + (j - StateLen)>>
      BY <3>1 DEF Follow
    <3>4. n + (j - StateLen) = n - StateLen + j /\ n - StateLen + j >= 1
      BY <1>1, <3>1
    <3>5. QED
      BY <3>2, <3>3, <3>4
  <2>3. QED
    BY <2>1, <2>2
<1>4. SubSeq(both, i, i + StateLen) = [k \in 1 .. Width |-> both[i - 1 + k]]
  BY <1>1, <1>2, SubSeqEntries
<1>5. ASSUME NEW k \in 1 .. Width
      PROVE  both[i - 1 + k] =
                 IF (n + i) - Width + k >= 1 THEN <<r, (n + i) - Width + k>> ELSE Zero
  <2>1. i - 1 + k \in 1 .. StateLen + m
    BY <1>1
  <2>2. n - StateLen + (i - 1 + k) = (n + i) - Width + k
    BY <1>1
  <2>3. QED
    BY <1>3, <2>1, <2>2
<1>6. QED
  BY <1>4, <1>5 DEF Window, both

(* r's m tokens behind n, and what their outputs must see *)
InputsOf(r, n, m) == [i \in 1 .. m |-> <<r, n + i>>]
WindowsOf(r, n, m) == [i \in 1 .. m |-> Window(r, n + i)]

(* A chunk's windows are right if its columns and inputs are.               *)
LEMMA WindowsAreRight ==
    ASSUME NEW r, NEW n \in Nat, NEW m \in Nat
    PROVE  Windows(TailOf(r, n), InputsOf(r, n, m)) = WindowsOf(r, n, m)
<1> DEFINE inputs == [i \in 1 .. m |-> <<r, n + i>>]
           columns == TailOf(r, n)
<1>1. StateLen \in Nat
  BY WidthFacts
<1>2. inputs \in Seq(EntriesOf(r)) /\ Len(inputs) = m /\ DOMAIN inputs = 1 .. m
  BY DEF EntriesOf
<1>3. /\ columns = [k \in 1 .. StateLen |->
                        IF n - StateLen + k >= 1 THEN <<r, n - StateLen + k>> ELSE Zero]
      /\ \A k \in 1 .. StateLen : n - StateLen + k >= 1 => n - StateLen + k \in Nat
  BY <1>1 DEF TailOf
<1>4. Follow(columns, inputs, r, n, m)
  BY <1>1, <1>3 DEF Follow
<1> HIDE DEF columns
<1>5. columns \in Seq(EntriesOf(r)) /\ Len(columns) = StateLen
  BY <1>1, <1>3 DEF EntriesOf
<1> HIDE DEF inputs
<1>6. ASSUME NEW i \in 1 .. m
      PROVE  SubSeq(columns \o inputs, i, i + StateLen) = Window(r, n + i)
  BY <1>2, <1>4, <1>5, WindowEntries
<1>7. Windows(columns, inputs) = [i \in 1 .. m |-> SubSeq(columns \o inputs, i, i + StateLen)]
  BY <1>2 DEF Windows
<1>8. QED
  BY <1>6, <1>7 DEF columns, inputs, InputsOf, WindowsOf

(* What the decode kernel computes from its columns and its token.          *)
LEMMA DecodedIsRight ==
    ASSUME NEW r, NEW n \in Nat
    PROVE  Append(TailOf(r, n), <<r, n + 1>>) = Window(r, n + 1)
<1>1. StateLen \in Nat /\ Width = StateLen + 1
  BY WidthFacts
<1> DEFINE S == ({r} \X Nat) \cup {Zero}
           t == TailOf(r, n)
           w == Append(t, <<r, n + 1>>)
<1>2. t = [k \in 1 .. StateLen |-> IF n - StateLen + k >= 1 THEN <<r, n - StateLen + k>> ELSE Zero]
  BY <1>1 DEF TailOf
<1> HIDE DEF t
<1>3. t \in Seq(S) /\ Len(t) = StateLen
  BY <1>1, <1>2
<1>4. <<r, n + 1>> \in S
  OBVIOUS
<1> HIDE DEF S
<1>5. /\ w \in Seq(S) /\ Len(w) = Width /\ w[Width] = <<r, n + 1>>
      /\ \A k \in 1 .. StateLen : w[k] = t[k]
  BY <1>1, <1>3, <1>4
<1> HIDE DEF w
<1>6. w = [k \in 1 .. Width |-> w[k]]
  BY <1>5
<1>7. ASSUME NEW k \in 1 .. Width
      PROVE  w[k] = IF (n + 1) - Width + k >= 1 THEN <<r, (n + 1) - Width + k>> ELSE Zero
  <2>1. (n + 1) - Width + k = n - StateLen + k
    BY <1>1
  <2>2. CASE k = Width
    BY <1>1, <1>5, <2>1, <2>2
  <2>3. CASE k # Width
    <3>1. k \in 1 .. StateLen
      BY <1>1, <2>3
    <3>2. QED
      BY <1>2, <1>5, <2>1, <3>1
  <2>4. QED
    BY <2>2, <2>3
<1>8. QED
  BY <1>6, <1>7 DEF Window, w, t

(* A request's columns before its first token are zeros.                    *)
LEMMA NoTail ==
    ASSUME NEW r PROVE TailOf(r, 0) = [k \in 1 .. StateLen |-> Zero]
  BY WidthFacts DEF TailOf

(* An entry of a line is a token of its request or zero.                    *)
LEMMA TailType ==
    ASSUME NEW r \in Requests, NEW n \in 0 .. MaxTokens
    PROVE  TailOf(r, n) \in [1 .. StateLen -> Cell]
<1>1. StateLen \in Nat /\ MaxTokens \in Nat
  BY WidthFacts, TokensAssumption
<1>2. ASSUME NEW k \in 1 .. StateLen, n - StateLen + k >= 1
      PROVE  <<r, n - StateLen + k>> \in Tokens
  BY <1>1, <1>2 DEF Tokens
<1>3. QED
  BY <1>2 DEF TailOf, Cell

(* Every token of a row is in a chunk of each grid that covers the row.     *)
LEMMA ChunkOfToken ==
    ASSUME NEW bound \in Nat, NEW i \in 1 .. bound, NEW k \in Kinds,
           k = "decode" => bound = 1, k = "head" => bound <= BlockM
    PROVE  \/ k = "body" /\ i <= BlockM
           \/ \E c \in Chunks(k, bound) : Offset(c) < i /\ i <= Offset(c) + BlockM
<1> DEFINE c == (i - 1) \div BlockM
           n == c * BlockM
           p == BlockM * c
<1>1. BlockM \in Nat /\ BlockM >= 1
  BY WidthFacts
<1>2. c \in Nat /\ i - 1 = p + ((i - 1) % BlockM) /\ (i - 1) % BlockM \in 0 .. BlockM - 1
  BY <1>1
<1>3. p = n
  BY <1>1, <1>2
<1>4. n < i /\ i <= n + BlockM /\ n \in Nat
  <2>1. n \in Nat
    BY <1>1, <1>2
  <2> HIDE DEF n, p, c
  <2>2. QED
    BY <1>1, <1>2, <1>3, <2>1
<1>5. ASSUME NEW b \in Nat, b = bound \/ b = bound - BlockM, NEW d \in Nat, d * BlockM < b
      PROVE  d <= CeilDiv(b, BlockM) - 1
  <2> DEFINE e == (b + BlockM - 1) \div BlockM
             m == BlockM * e
             q == d * BlockM
             u == BlockM * d
  <2>1. e \in Nat /\ b + BlockM - 1 = m + ((b + BlockM - 1) % BlockM)
        /\ (b + BlockM - 1) % BlockM \in 0 .. BlockM - 1
    BY <1>1
  <2>2. m \in Nat /\ q \in Nat /\ u = q
    BY <1>1, <2>1
  <2>3. q < b /\ CeilDiv(b, BlockM) = e
    BY <1>5 DEF CeilDiv
  <2>4. q < m
    <3> HIDE DEF m, q, e, u
    <3>1. QED
      BY <1>1, <2>1, <2>2, <2>3
  <2>5. e <= d => m <= u
    <3>1. \A y, z \in Nat : y <= z => BlockM * y <= BlockM * z
      BY <1>1
    <3> HIDE DEF e
    <3>2. QED
      BY <2>1, <3>1
  <2>6. d < e
    <3> HIDE DEF m, q, e, u
    <3>1. QED
      BY <2>1, <2>2, <2>4, <2>5
  <2>7. QED
    <3> HIDE DEF e
    <3>1. QED
      BY <2>1, <2>3, <2>6
<1>6. \A d \in Nat : Offset(d) = d * BlockM
  BY DEF Offset
<1>7. Offset(0) = 0
  BY <1>1 DEF Offset
<1>8. CASE k \in {"generic", "vec"}
  <2>1. c <= CeilDiv(bound, BlockM) - 1
    <3>1. n < bound
      <4> HIDE DEF n
      <4>1. QED
        BY <1>4
    <3>2. QED
      BY <1>2, <1>5, <3>1
  <2>2. Chunks(k, bound) = 0 .. CeilDiv(bound, BlockM) - 1
    BY <1>8 DEF Chunks
  <2>3. c \in Chunks(k, bound)
    <3>1. CeilDiv(bound, BlockM) \in Int
      BY <1>1 DEF CeilDiv
    <3> HIDE DEF c
    <3>2. QED
      BY <1>2, <2>1, <2>2, <3>1
  <2>4. Offset(c) = n
    BY <1>2, <1>6
  <2> HIDE DEF c, n
  <2>5. QED
    BY <1>4, <2>3, <2>4
<1>9. CASE k \in {"head", "decode"}
  <2>1. 0 \in Chunks(k, bound)
    BY <1>9 DEF Chunks
  <2>2. i <= BlockM
    BY <1>1, <1>9
  <2>3. QED
    BY <1>1, <1>7, <2>1, <2>2
<1>10. CASE k = "body" /\ i > BlockM
  <2>1. bound - BlockM \in Nat
    BY <1>1, <1>10
  <2>2. c >= 1
    <3>1. c = 0 => n = 0
      BY <1>1
    <3> HIDE DEF c, n
    <3>2. QED
      BY <1>1, <1>2, <1>4, <1>10, <3>1
  <2>3. c - 1 \in Nat /\ (c - 1) * BlockM = n - BlockM
    <3>1. \A e \in Nat : (e - 1) * BlockM = e * BlockM - BlockM
      BY <1>1
    <3> HIDE DEF c
    <3>2. QED
      BY <1>2, <2>2, <3>1
  <2>4. (c - 1) * BlockM < bound - BlockM
    <3>1. n - BlockM < bound - BlockM
      <4> HIDE DEF n
      <4>1. QED
        BY <1>1, <1>4
    <3>2. QED
      BY <2>3, <3>1
  <2>5. c - 1 <= CeilDiv(bound - BlockM, BlockM) - 1
    BY <1>5, <2>1, <2>3, <2>4
  <2>6. Chunks(k, bound) = 1 .. CeilDiv(bound - BlockM, BlockM)
    BY <1>10 DEF Chunks
  <2>7. c \in Chunks(k, bound)
    <3>1. CeilDiv(bound - BlockM, BlockM) \in Int
      BY <1>1, <2>1 DEF CeilDiv
    <3> HIDE DEF c
    <3>2. QED
      BY <1>2, <2>2, <2>5, <2>6, <3>1
  <2>8. Offset(c) = n
    BY <1>2, <1>6
  <2> HIDE DEF c, n
  <2>9. QED
    BY <1>4, <2>7, <2>8
<1>11. QED
  BY <1>1, <1>8, <1>9, <1>10 DEF Kinds

(* What a row is.                                                           *)
LEMMA RowFacts ==
    ASSUME Typing, NEW s \in DOMAIN batch
    PROVE  /\ s \in Nat /\ s >= 1 /\ s <= Len(batch) /\ Len(batch) \in Nat
           /\ batch[s].req \in Requests \cup {Zero} /\ batch[s].start \in Nat
           /\ batch[s].len \in Nat /\ batch[s].len >= 1
           /\ batch[s].past \in 0 .. MaxTokens /\ batch[s].past \in Nat
           /\ batch[s].line \in Lines \cup {NullLine}
<1>1. batch[s] \in RowType /\ s \in 1 .. Len(batch) /\ Len(batch) \in Nat
  BY DEF Typing
<1>2. MaxTokens \in Nat
  BY TokensAssumption
<1>3. QED
  BY <1>1, <1>2 DEF RowType

(* The chunks of a grid.                                                    *)
LEMMA ChunkFacts ==
    ASSUME NEW k \in Kinds, NEW bound \in Nat, bound >= 1
    PROVE  /\ \A c \in Chunks(k, bound) : c \in Nat /\ Offset(c) \in Nat
           /\ \A c \in Chunks(k, bound) : c # 0 => Offset(c) >= BlockM
           /\ k # "body" => 0 \in Chunks(k, bound)
           /\ k = "body" => \A c \in Chunks(k, bound) : c # 0
           /\ k = "body" /\ bound > BlockM => 1 \in Chunks(k, bound)
           /\ k \in {"head", "decode"} => \A c \in Chunks(k, bound) : c = 0
           /\ Offset(0) = 0
<1>1. BlockM \in Nat /\ BlockM >= 1
  BY WidthFacts
<1>2. /\ CeilDiv(bound, BlockM) \in Int /\ CeilDiv(bound - BlockM, BlockM) \in Int
      /\ CeilDiv(bound, BlockM) >= 1
      /\ bound > BlockM => CeilDiv(bound - BlockM, BlockM) >= 1
  <2>1. ASSUME NEW a \in Nat, a >= 1 PROVE CeilDiv(a, BlockM) \in Int /\ CeilDiv(a, BlockM) >= 1
    <3> DEFINE e == (a + BlockM - 1) \div BlockM
               m == BlockM * e
    <3>1. e \in Int /\ a + BlockM - 1 = m + ((a + BlockM - 1) % BlockM)
          /\ (a + BlockM - 1) % BlockM \in 0 .. BlockM - 1
      BY <1>1, <2>1
    <3>2. m \in Int /\ (e <= 0 => m <= 0)
      <4>1. \A y \in Int : BlockM * y \in Int /\ (y <= 0 => BlockM * y <= 0)
        BY <1>1
      <4> HIDE DEF e
      <4>2. QED
        BY <3>1, <4>1
    <3>3. e >= 1
      <4> HIDE DEF e, m
      <4>1. QED
        BY <1>1, <2>1, <3>1, <3>2
    <3>4. CeilDiv(a, BlockM) = e
      BY DEF CeilDiv
    <3> HIDE DEF e
    <3>5. QED
      BY <3>1, <3>3, <3>4
  <2>2. CeilDiv(bound - BlockM, BlockM) \in Int
    BY <1>1 DEF CeilDiv
  <2>3. bound > BlockM => bound - BlockM \in Nat /\ bound - BlockM >= 1
    BY <1>1
  <2>4. QED
    BY <2>1, <2>2, <2>3
<1>3. \A c \in Nat : Offset(c) \in Nat /\ (c # 0 => Offset(c) >= BlockM)
  BY <1>1 DEF Offset
<1>4. Offset(0) = 0
  BY <1>1 DEF Offset
<1>5. /\ k \in {"generic", "vec"} => Chunks(k, bound) = 0 .. CeilDiv(bound, BlockM) - 1
      /\ k \in {"head", "decode"} => Chunks(k, bound) = {0}
      /\ k = "body" => Chunks(k, bound) = 1 .. CeilDiv(bound - BlockM, BlockM)
  BY DEF Chunks
<1>6. k \in {"generic", "vec"} \/ k \in {"head", "decode"} \/ k = "body"
  BY DEF Kinds
<1>7. CASE k \in {"generic", "vec"}
  <2>1. k # "body" /\ k \notin {"head", "decode"}
    BY <1>7
  <2> DEFINE m == CeilDiv(bound, BlockM)
             C == Chunks(k, bound)
  <2>2. C = 0 .. m - 1 /\ m \in Int /\ m >= 1
    BY <1>2, <1>5, <1>7
  <2> HIDE DEF m, C
  <2>3. 0 \in C /\ \A c \in C : c \in Nat
    BY <2>2
  <2>4. QED
    BY <1>3, <1>4, <2>1, <2>3 DEF C
<1>8. CASE k \in {"head", "decode"}
  BY <1>3, <1>4, <1>5, <1>8
<1>9. CASE k = "body"
  <2> DEFINE m == CeilDiv(bound - BlockM, BlockM)
             C == Chunks(k, bound)
  <2>1. k \notin {"head", "decode"}
    BY <1>9
  <2>2. C = 1 .. m /\ m \in Int /\ (bound > BlockM => m >= 1)
    BY <1>2, <1>5, <1>9
  <2> HIDE DEF m, C
  <2>3. (\A c \in C : c \in Nat /\ c # 0) /\ (bound > BlockM => 1 \in C)
    BY <2>2
  <2>4. QED
    BY <1>3, <1>4, <1>9, <2>1, <2>3 DEF C
<1>10. QED
  BY <1>6, <1>7, <1>8, <1>9

(* A block names its kernel, its row and its chunk.                         *)
LEMMA BlockFacts ==
    ASSUME NEW k
    PROVE  /\ \A b \in Blocks(k) : b[1] = k /\ b[2] \in DOMAIN batch
                                   /\ b[3] \in Chunks(k, maxSeqLen)
           /\ \A a, b \in Blocks(k) : a[2] = b[2] /\ a[3] = b[3] => a = b
           /\ \A s \in DOMAIN batch, c \in Chunks(k, maxSeqLen) :
                 /\ <<k, s, c>> \in Blocks(k)
                 /\ <<k, s, c>>[1] = k /\ <<k, s, c>>[2] = s /\ <<k, s, c>>[3] = c
<1> DEFINE C == Chunks(k, maxSeqLen)
           D == DOMAIN batch
<1>1. Blocks(k) = {k} \X D \X C
  BY DEF Blocks
<1> HIDE DEF C, D
<1>2. QED
  BY <1>1 DEF C, D

(* While a block runs, its kernel is the one the launch is at.              *)
LEMMA Running ==
    ASSUME Typing, LaunchShape, NEW b \in DOMAIN pc
    PROVE  /\ maxSeqLen \in Nat /\ maxSeqLen >= 1
           /\ b[1] \in Kinds /\ Allowed(b[1]) /\ queue = Behind(b[1])
           /\ DOMAIN pc = Blocks(b[1]) /\ DOMAIN cols = Blocks(b[1])
           /\ b[2] \in DOMAIN batch /\ b[3] \in Chunks(b[1], maxSeqLen)
           /\ b[3] \in Nat /\ Offset(b[3]) \in Nat
<1>1. pc # <<>>
  OBVIOUS
<1>2. maxSeqLen # 0 /\ AtKernel
  BY <1>1 DEF LaunchShape
<1>3. PICK k \in Kinds : /\ Allowed(k) /\ queue = Behind(k)
                         /\ DOMAIN pc = Blocks(k) /\ DOMAIN cols = Blocks(k)
  BY <1>1, <1>2 DEF AtKernel
<1>4. b[1] = k /\ b[2] \in DOMAIN batch /\ b[3] \in Chunks(k, maxSeqLen)
  BY <1>3, BlockFacts
<1>5. maxSeqLen \in Nat /\ maxSeqLen >= 1
  BY <1>2 DEF Typing
<1>6. b[3] \in Nat /\ Offset(b[3]) \in Nat
  BY <1>4, <1>5, ChunkFacts
<1>7. QED
  BY <1>3, <1>4, <1>5, <1>6

(* How many tokens a block has.                                             *)
LEMMA SegmentFacts ==
    ASSUME Typing, NEW s \in DOMAIN batch, NEW c, Offset(c) \in Nat
    PROVE  /\ SegmentLen(s, c) \in Int /\ SegmentLen(s, c) <= BlockM
           /\ Offset(c) + SegmentLen(s, c) <= batch[s].len
           /\ HasTokens(s, c) <=> Offset(c) < batch[s].len
           /\ \A i \in 1 .. batch[s].len :
                 Offset(c) < i /\ i <= Offset(c) + BlockM => i - Offset(c) \in 1 .. SegmentLen(s, c)
<1>1. BlockM \in Nat /\ BlockM >= 1
  BY WidthFacts
<1>2. batch[s].len \in Nat
  BY RowFacts
<1> DEFINE o == Offset(c)
           n == batch[s].len
           g == SegmentLen(s, c)
<1>3. g = IF n - o < BlockM THEN n - o ELSE BlockM
  BY DEF SegmentLen, Min2
<1>4. o \in Nat /\ n \in Nat
  BY <1>2
<1>5. HasTokens(s, c) <=> g > 0
  BY DEF HasTokens
<1> HIDE DEF o, n, g
<1>6. /\ g \in Int /\ g <= BlockM /\ o + g <= n /\ (g > 0 <=> o < n)
      /\ \A i \in 1 .. n : o < i /\ i <= o + BlockM => i - o \in 1 .. g
  BY <1>1, <1>3, <1>4
<1>7. QED
  BY <1>5, <1>6 DEF o, n, g

(* The rows do not overlap.                                                 *)
LEMMA RowsApart ==
    ASSUME Typing, Packed, NEW s \in DOMAIN batch, NEW t \in DOMAIN batch,
           NEW i \in 1 .. batch[s].len, NEW j \in 1 .. batch[t].len,
           batch[s].start + i = batch[t].start + j
    PROVE  s = t /\ i = j
<1>1. /\ s \in Nat /\ t \in Nat /\ batch[s].start \in Nat /\ batch[t].start \in Nat
      /\ batch[s].len \in Nat /\ batch[t].len \in Nat
  BY RowFacts
<1>2. /\ s < t => batch[s].start + batch[s].len <= batch[t].start
      /\ t < s => batch[t].start + batch[t].len <= batch[s].start
  BY DEF Packed
<1>3. ~ (s < t) /\ ~ (t < s)
  BY <1>1, <1>2
<1>4. s = t
  BY <1>1, <1>3
<1>5. QED
  BY <1>1, <1>4

(* What the packed input holds for a row.                                   *)
LEMMA RowTokens ==
    ASSUME Typing, Packed, NEW s \in DOMAIN batch
    PROVE  /\ RowInputs(s) \in Seq((Requests \cup {Zero}) \X Nat)
           /\ Len(RowInputs(s)) = batch[s].len
           /\ \A j \in 1 .. batch[s].len :
                 RowInputs(s)[j] = <<batch[s].req, batch[s].past + j>>
<1> DEFINE T == (Requests \cup {Zero}) \X Nat
           a == batch[s].start
           n == batch[s].len
           q == RowInputs(s)
<1>1. a \in Nat /\ n \in Nat /\ n >= 1
  BY RowFacts
<1>2. /\ x \in Seq(T) /\ a + n <= Len(x)
      /\ \A i \in 1 .. n : x[a + i] = <<batch[s].req, batch[s].past + i>>
  BY DEF Typing, Packed
<1>3. q = SubSeq(x, a + 1, a + n)
  BY DEF RowInputs, SeqStart
<1> HIDE DEF T, a, n, q
<1>4. q \in Seq(T) /\ Len(q) = n /\ \A j \in 1 .. n : q[j] = x[a + j]
  BY <1>1, <1>2, <1>3
<1>5. q \in Seq(T) /\ Len(q) = n
      /\ \A j \in 1 .. n : q[j] = <<batch[s].req, batch[s].past + j>>
  BY <1>2, <1>4
<1>6. QED
  BY <1>5 DEF T, a, n, q

-----------------------------------------------------------------------------
(* What a step leaves alone.                                                *)

(* Requests and batches are as before.                                      *)
LEMMA SameBatch ==
    ASSUME UNCHANGED <<computed, line, batch, x>>, OwnLines, Packed, RowsMatch
    PROVE  OwnLines' /\ Packed' /\ RowsMatch'
<1>1. OwnLines'
  BY DEF OwnLines
<1>2. Packed'
  BY DEF Packed
<1>3. IsDecodeBatch' <=> IsDecodeBatch
  BY DEF IsDecodeBatch
<1>4. RowsMatch'
  BY <1>3 DEF RowsMatch
<1>5. QED
  BY <1>1, <1>2, <1>4

(* A step of a block leaves the launch where it is.                         *)
LEMMA SameLaunch ==
    ASSUME Typing, LaunchShape, UNCHANGED <<computed, line, batch, x, queue, maxSeqLen>>,
           NEW b \in DOMAIN pc, NEW v, pc' = [pc EXCEPT ![b] = v], DOMAIN cols' = DOMAIN cols,
           out' = [p \in DOMAIN x |-> out'[p]],
           conv' \in [Lines \cup {NullLine} -> [1 .. StateLen -> Cell]]
    PROVE  Typing' /\ LaunchShape'
<1> DEFINE k == b[1]
<1>1. Typing'
  BY DEF Typing
<1>2. /\ maxSeqLen \in Nat /\ maxSeqLen >= 1
      /\ k \in Kinds /\ Allowed(k) /\ queue = Behind(k)
      /\ DOMAIN pc = Blocks(k) /\ DOMAIN cols = Blocks(k)
  BY Running
<1>3. DOMAIN pc' = DOMAIN pc
  OBVIOUS
<1> HIDE DEF k
<1>4. Allowed(k)' /\ queue' = Behind(k)' /\ Blocks(k)' = Blocks(k)
  BY <1>2 DEF Allowed, Behind, Blocks, Chunks
<1>5. AtKernel'
  BY <1>2, <1>3, <1>4 DEF AtKernel
<1>6. maxSeqLen # 0 /\ maxSeqLen' # 0
  BY <1>2
<1>7. QED
  BY <1>1, <1>5, <1>6 DEF LaunchShape

(* The other blocks stay at their steps.                                    *)
LEMMA SameSteps ==
    ASSUME BlockSteps, UNCHANGED batch,
           NEW b \in DOMAIN pc, NEW v, pc' = [pc EXCEPT ![b] = v],
           v \in {"store", "compute", "done"}, b[1] = "decode" => v = "done",
           v = "store" => b[3] = 0 /\ b[1] # "body",
           v \in {"store", "compute"} => HasTokens(b[2], b[3])
    PROVE  BlockSteps'
<1>1. DOMAIN pc' = DOMAIN pc /\ pc'[b] = v
      /\ \A a \in DOMAIN pc : a # b => pc'[a] = pc[a]
  OBVIOUS
<1>2. \A s, c : HasTokens(s, c)' <=> HasTokens(s, c)
  BY DEF HasTokens, SegmentLen
<1>3. SUFFICES ASSUME NEW a \in DOMAIN pc
               PROVE  /\ pc'[a] \in {"load", "store", "compute", "done"}
                      /\ a[1] = "decode" => pc'[a] \in {"load", "done"}
                      /\ pc'[a] = "store" => a[3] = 0 /\ a[1] # "body"
                      /\ pc'[a] \in {"store", "compute"} => HasTokens(a[2], a[3])
  BY <1>1, <1>2 DEF BlockSteps
<1>4. CASE a = b
  BY <1>1, <1>4
<1>5. CASE a # b
  BY <1>1, <1>5 DEF BlockSteps
<1>6. QED
  BY <1>4, <1>5

(* No row is stored by a step that does not get behind the storing.         *)
LEMMA SameStored ==
    ASSUME NEW b \in DOMAIN pc, NEW v, pc' = [pc EXCEPT ![b] = v],
           \/ b[1] = "body"
           \/ b[3] # 0
           \/ v \in {"compute", "done"} <=> pc[b] \in {"compute", "done"},
           NEW s
    PROVE  Stored(s)' <=> Stored(s)
<1>1. DOMAIN pc' = DOMAIN pc /\ pc'[b] = v
      /\ \A a \in DOMAIN pc : a # b => pc'[a] = pc[a]
  OBVIOUS
<1>2. \A a \in DOMAIN pc :
          (a[1] = "body" \/ (a[3] = 0 /\ pc'[a] \in {"compute", "done"}))
            <=> (a[1] = "body" \/ (a[3] = 0 /\ pc[a] \in {"compute", "done"}))
  BY <1>1
<1>3. QED
  BY <1>1, <1>2 DEF Stored

(* The step behind the storing stores its row.                              *)
LEMMA OneStored ==
    ASSUME NEW b \in DOMAIN pc, NEW v \in {"compute", "done"}, pc' = [pc EXCEPT ![b] = v],
           b[3] = 0, NEW s
    PROVE  Stored(s)' <=> Stored(s) \/ s = b[2]
<1>1. DOMAIN pc' = DOMAIN pc /\ pc'[b] = v
      /\ \A a \in DOMAIN pc : a # b => pc'[a] = pc[a]
  OBVIOUS
<1>2. Stored(s)' <=> \E a \in DOMAIN pc :
          a[2] = s /\ (a[1] = "body" \/ (a[3] = 0 /\ pc'[a] \in {"compute", "done"}))
  BY <1>1 DEF Stored
<1>3. QED
  BY <1>1, <1>2 DEF Stored

(* What is covered by one more step.                                        *)
LEMMA CoveredAfter ==
    ASSUME NEW b \in DOMAIN pc, NEW v, pc' = [pc EXCEPT ![b] = v], NEW s, NEW i, Covered(s, i)'
    PROVE  \/ Covered(s, i)
           \/ b[2] = s /\ v = "done" /\ Offset(b[3]) < i /\ i <= Offset(b[3]) + BlockM
<1>1. DOMAIN pc' = DOMAIN pc /\ pc'[b] = v
      /\ \A a \in DOMAIN pc : a # b => pc'[a] = pc[a]
  OBVIOUS
<1>2. PICK a \in DOMAIN pc :
        /\ a[2] = s
        /\ \/ a[1] = "body" /\ i <= BlockM
           \/ pc'[a] = "done" /\ Offset(a[3]) < i /\ i <= Offset(a[3]) + BlockM
  BY <1>1 DEF Covered, Offset
<1>3. QED
  BY <1>1, <1>2 DEF Covered

(* The lines are as before, and no row is stored.                           *)
LEMMA SameLines ==
    ASSUME LinesRight, UNCHANGED <<computed, line, conv, batch>>,
           \A s \in DOMAIN batch : Stored(s)' <=> Stored(s)
    PROVE  LinesRight'
<1>1. \A r : RowsOf(r)' = RowsOf(r) /\ RowsOf(r) \subseteq DOMAIN batch
  BY DEF RowsOf
<1>2. \A r, n : TailOf(r, n)' = TailOf(r, n)
  BY DEF TailOf
<1>3. QED
  BY <1>1, <1>2 DEF LinesRight

(* The line of one more row has been stored.                                *)
LEMMA OneLine ==
    ASSUME Typing, OwnLines, RowsMatch, LinesRight, UNCHANGED <<computed, line, batch>>,
           NEW s \in DOMAIN batch, batch[s].req # Zero,
           conv' = [conv EXCEPT ![batch[s].line] =
                        TailOf(batch[s].req, batch[s].past + batch[s].len)],
           \A t \in DOMAIN batch : Stored(t)' <=> Stored(t) \/ t = s
    PROVE  LinesRight'
<1> DEFINE new == TailOf(batch[s].req, batch[s].past + batch[s].len)
           own == batch[s].line
<1>1. /\ own = line[batch[s].req] /\ own # NullLine /\ batch[s].req \in Requests
      /\ own \in Lines \cup {NullLine}
  BY RowFacts DEF RowsMatch
<1>2. DOMAIN conv = Lines \cup {NullLine}
  BY DEF Typing
<1> HIDE DEF new, own
<1>3. conv'[own] = new /\ \A l \in Lines \cup {NullLine} : l # own => conv'[l] = conv[l]
  BY <1>1, <1>2 DEF new, own
<1>4. \A r \in Requests : r # batch[s].req => line[r] # own
  BY <1>1 DEF OwnLines
<1>5. \A r \in Requests : line[r] \in Lines \cup {NullLine}
  BY DEF Typing
<1>6. ASSUME NEW r \in Requests, computed[r] > 0, \A t \in RowsOf(r) : ~ Stored(t)'
      PROVE  conv'[line[r]] = TailOf(r, computed[r])
  <2>1. RowsOf(r) \subseteq DOMAIN batch /\ (r = batch[s].req => s \in RowsOf(r))
    BY DEF RowsOf
  <2>2. r # batch[s].req /\ \A t \in RowsOf(r) : ~ Stored(t)
    BY <1>6, <2>1
  <2>3. conv'[line[r]] = conv[line[r]]
    BY <1>3, <1>4, <1>5, <2>2
  <2>4. QED
    BY <1>6, <2>2, <2>3 DEF LinesRight
<1>7. ASSUME NEW t \in DOMAIN batch, batch[t].req # Zero, Stored(t)'
      PROVE  conv'[batch[t].line] = TailOf(batch[t].req, batch[t].past + batch[t].len)
  <2>1. CASE t = s
    BY <1>3, <2>1 DEF new, own
  <2>2. CASE t # s
    <3>1. Stored(t)
      BY <1>7, <2>2
    <3>2. batch[t].req # batch[s].req /\ batch[t].line = line[batch[t].req]
          /\ batch[t].req \in Requests
      BY <1>7, <2>2, RowFacts DEF RowsMatch
    <3>3. conv'[batch[t].line] = conv[batch[t].line]
      BY <1>3, <1>4, <1>5, <3>2
    <3>4. QED
      BY <1>7, <3>1, <3>3 DEF LinesRight
  <2>3. QED
    BY <2>1, <2>2
<1>8. conv'[NullLine] = [k \in 1 .. StateLen |-> Zero]
  BY <1>1, <1>3 DEF LinesRight
<1>9. \A r : RowsOf(r)' = RowsOf(r)
  BY DEF RowsOf
<1>10. \A r, n : TailOf(r, n)' = TailOf(r, n)
  BY DEF TailOf
<1>11. QED
  BY <1>6, <1>7, <1>8, <1>9, <1>10 DEF LinesRight

(* The other blocks keep their columns.                                     *)
LEMMA SameColumns ==
    ASSUME ColumnsRight, UNCHANGED <<batch, cols>>,
           NEW b \in DOMAIN pc, NEW v, pc' = [pc EXCEPT ![b] = v],
           v \in {"store", "compute"} => pc[b] \in {"store", "compute"}
    PROVE  ColumnsRight'
<1>1. DOMAIN pc' = DOMAIN pc /\ pc'[b] = v
      /\ \A a \in DOMAIN pc : a # b => pc'[a] = pc[a]
  OBVIOUS
<1>2. \A a \in DOMAIN pc : pc'[a] \in {"store", "compute"} => pc[a] \in {"store", "compute"}
  BY <1>1
<1>3. \A r, n : TailOf(r, n)' = TailOf(r, n)
  BY DEF TailOf
<1>4. \A c : Offset(c)' = Offset(c)
  BY DEF Offset
<1>5. QED
  BY <1>1, <1>2, <1>3, <1>4 DEF ColumnsRight

(* No output is written, and none counted.                                  *)
LEMMA SameOutputs ==
    ASSUME OutputsWritten, UNCHANGED <<batch, maxSeqLen, out>>,
           \A s \in DOMAIN batch : \A i \in 1 .. batch[s].len : Covered(s, i)' => Covered(s, i)
    PROVE  OutputsWritten'
<1>1. \A r, p : Window(r, p)' = Window(r, p)
  BY DEF Window
<1>2. QED
  BY <1>1 DEF OutputsWritten

-----------------------------------------------------------------------------
(* The steps of a block.                                                    *)

(* A row that a block other than a body one has still to load is not stored. *)
LEMMA NotStored ==
    ASSUME Typing, LaunchShape, NEW b \in DOMAIN pc, b[1] # "body", b[3] = 0,
           pc[b] \notin {"compute", "done"}
    PROVE  ~ Stored(b[2])
<1>1. DOMAIN pc = Blocks(b[1])
  BY Running
<1>2. \A a \in DOMAIN pc : a[1] = b[1] /\ (a[2] = b[2] /\ a[3] = b[3] => a = b)
  BY <1>1, BlockFacts
<1>3. QED
  BY <1>2 DEF Stored

(* The columns of a row in front of its first chunk, from its line.         *)
LEMMA StoredColumnsRight ==
    ASSUME Typing, RowsMatch, LinesRight, NEW s \in DOMAIN batch, batch[s].req # Zero,
           ~ Stored(s)
    PROVE  /\ batch[s].init => conv[batch[s].line] = TailOf(batch[s].req, batch[s].past)
           /\ StoredColumns(s) = TailOf(batch[s].req, batch[s].past)
<1>1. /\ batch[s].past = computed[batch[s].req] /\ batch[s].line = line[batch[s].req]
      /\ batch[s].req \in Requests /\ batch[s].past \in Nat
      /\ batch[s].init <=> batch[s].past > 0
  BY RowFacts DEF RowsMatch
<1>2. \A t \in RowsOf(batch[s].req) : t = s
  BY DEF RowsOf, RowsMatch
<1>3. ASSUME batch[s].init
      PROVE  conv[batch[s].line] = TailOf(batch[s].req, batch[s].past)
  BY <1>1, <1>2, <1>3 DEF LinesRight
<1>4. ASSUME ~ batch[s].init
      PROVE  TailOf(batch[s].req, batch[s].past) = [k \in 1 .. StateLen |-> Zero]
  <2>1. ~ (batch[s].past > 0)
    BY <1>1, <1>4, Zenon
  <2>2. batch[s].past = 0
    BY <1>1, <2>1
  <2>3. QED
    BY <2>2, NoTail
<1>5. QED
  BY <1>3, <1>4 DEF StoredColumns

(* The columns in front of a later chunk, from the packed input.            *)
LEMMA PrecedingRight ==
    ASSUME Typing, Packed, NEW s \in DOMAIN batch, NEW c, Offset(c) \in Nat,
           Offset(c) >= BlockM, HasTokens(s, c)
    PROVE  Preceding(s, c) = TailOf(batch[s].req, batch[s].past + Offset(c))
<1> DEFINE o == Offset(c)
           a == batch[s].start
           n == batch[s].len
           p == batch[s].past
           r == batch[s].req
<1>1. /\ StateLen \in Nat /\ StateLen <= o /\ o < n
      /\ o \in Nat /\ a \in Nat /\ n \in Nat /\ p \in Nat
  BY WidthFacts, RowFacts, SegmentFacts
<1>2. \A i \in 1 .. n : x[a + i] = <<r, p + i>>
  BY DEF Packed
<1>3. Preceding(s, c) = [k \in 1 .. StateLen |-> x[a + o - StateLen + k]]
  BY DEF Preceding, SeqStart
<1> HIDE DEF o, a, n, p, r
<1>4. TailOf(r, p + o) = [k \in 1 .. StateLen |-> IF p + o - StateLen + k >= 1
                                   THEN <<r, p + o - StateLen + k>> ELSE Zero]
  BY <1>1 DEF TailOf
<1>5. ASSUME NEW k \in 1 .. StateLen
      PROVE  x[a + o - StateLen + k] =
                 IF p + o - StateLen + k >= 1 THEN <<r, p + o - StateLen + k>> ELSE Zero
  <2>1. o - StateLen + k \in 1 .. n
    BY <1>1
  <2>2. x[a + (o - StateLen + k)] = <<r, p + (o - StateLen + k)>>
    BY <1>2, <2>1
  <2>3. a + (o - StateLen + k) = a + o - StateLen + k
        /\ p + (o - StateLen + k) = p + o - StateLen + k /\ p + o - StateLen + k >= 1
    BY <1>1, <2>1
  <2>4. QED
    BY <2>2, <2>3
<1>6. Preceding(s, c) = TailOf(r, p + o)
  BY <1>3, <1>4, <1>5
<1>7. QED
  BY <1>6 DEF r, p, o

(* A block loads the columns in front of its chunk.                         *)
LEMMA ColumnsOfBlock ==
    ASSUME Typing, Packed, RowsMatch, LaunchShape, LinesRight,
           NEW b \in DOMAIN pc, b[1] # "decode", pc[b] = "load", HasTokens(b[2], b[3])
    PROVE  Columns(b[2], b[3]) = TailOf(batch[b[2]].req, batch[b[2]].past + Offset(b[3]))
<1>1. /\ maxSeqLen \in Nat /\ maxSeqLen >= 1 /\ b[1] \in Kinds /\ Allowed(b[1])
      /\ b[2] \in DOMAIN batch /\ b[3] \in Chunks(b[1], maxSeqLen) /\ Offset(b[3]) \in Nat
  BY Running
<1>2. batch[b[2]].req # Zero
  BY <1>1 DEF Allowed
<1>3. CASE b[3] = 0
  <2>1. b[1] # "body" /\ Offset(b[3]) = 0
    BY <1>1, <1>3, ChunkFacts
  <2>2. ~ Stored(b[2])
    BY <1>3, <2>1, NotStored
  <2>3. StoredColumns(b[2]) = TailOf(batch[b[2]].req, batch[b[2]].past)
    BY <1>1, <1>2, <2>2, StoredColumnsRight
  <2>4. batch[b[2]].past + Offset(b[3]) = batch[b[2]].past
    BY <1>1, <2>1, RowFacts
  <2>5. QED
    BY <1>3, <2>3, <2>4 DEF Columns
<1>4. CASE b[3] # 0
  <2>1. Offset(b[3]) >= BlockM
    BY <1>1, <1>4, ChunkFacts
  <2>2. QED
    BY <1>1, <1>4, <2>1, PrecedingRight DEF Columns
<1>5. QED
  BY <1>3, <1>4

(* Loading.                                                                 *)
LEMMA LoadStep ==
    ASSUME IInv, NEW b \in DOMAIN pc, Load(b)
    PROVE  IInv'
<1> USE DEF IInv
<1> DEFINE v == IF ~ HasTokens(b[2], b[3]) THEN "done"
                ELSE IF b[1] # "body" /\ b[3] = 0 THEN "store" ELSE "compute"
<1>1. /\ UNCHANGED <<computed, line, conv, batch, x, queue, maxSeqLen, out>>
      /\ b[1] # "decode" /\ pc[b] = "load"
      /\ pc' = [pc EXCEPT ![b] = v]
      /\ cols' = IF HasTokens(b[2], b[3]) THEN [cols EXCEPT ![b] = Columns(b[2], b[3])] ELSE cols
  BY DEF Load, StoresState, requests
<1>2. /\ maxSeqLen \in Nat /\ maxSeqLen >= 1 /\ b[1] \in Kinds
      /\ DOMAIN cols = DOMAIN pc
      /\ b[2] \in DOMAIN batch /\ b[3] \in Chunks(b[1], maxSeqLen) /\ Offset(b[3]) \in Nat
  BY Running
<1>3. /\ v \in {"store", "compute", "done"} /\ (v = "store" => b[3] = 0 /\ b[1] # "body")
      /\ (v \in {"store", "compute"} <=> HasTokens(b[2], b[3]))
  OBVIOUS
<1>4. b[3] = 0 => HasTokens(b[2], b[3])
  BY <1>2, ChunkFacts, SegmentFacts, RowFacts
<1>5. b[1] = "body" \/ b[3] # 0 \/ (v \in {"compute", "done"} <=> pc[b] \in {"compute", "done"})
  BY <1>1, <1>4
<1>6. v = "done" => \A i \in 1 .. batch[b[2]].len : ~ (Offset(b[3]) < i)
  <2>1. ASSUME v = "done" PROVE batch[b[2]].len <= Offset(b[3])
    BY <1>2, <1>3, <2>1, SegmentFacts, RowFacts
  <2>2. QED
    BY <1>2, <2>1, RowFacts
<1> HIDE DEF v
<1>7. DOMAIN cols' = DOMAIN cols
  BY <1>1
<1>8. out' = [p \in DOMAIN x |-> out'[p]]
  BY <1>1, <1>2 DEF LaunchShape
<1>9. Typing' /\ LaunchShape'
  BY <1>1, <1>7, <1>8, SameLaunch DEF Typing
<1>10. OwnLines' /\ Packed' /\ RowsMatch'
  BY <1>1, SameBatch
<1>11. BlockSteps'
  BY <1>1, <1>3, SameSteps
<1>12. \A s \in DOMAIN batch : Stored(s)' <=> Stored(s)
  BY <1>1, <1>5, SameStored
<1>13. LinesRight'
  BY <1>1, <1>12, SameLines
<1>14. ColumnsRight'
  <2>1. /\ DOMAIN pc' = DOMAIN pc /\ pc'[b] = v
        /\ \A a \in DOMAIN pc : a # b => pc'[a] = pc[a] /\ cols'[a] = cols[a]
        /\ HasTokens(b[2], b[3]) => cols'[b] = Columns(b[2], b[3])
    BY <1>1, <1>2
  <2>2. (\A r, n : TailOf(r, n)' = TailOf(r, n)) /\ \A c : Offset(c)' = Offset(c)
    BY DEF TailOf, Offset
  <2>3. SUFFICES ASSUME NEW a \in DOMAIN pc, pc'[a] \in {"store", "compute"}
                 PROVE  cols'[a] = TailOf(batch[a[2]].req, batch[a[2]].past + Offset(a[3]))
    BY <1>1, <2>1, <2>2 DEF ColumnsRight
  <2>4. CASE a = b
    BY <1>1, <1>3, <2>1, <2>3, <2>4, ColumnsOfBlock
  <2>5. CASE a # b
    BY <2>1, <2>3, <2>5 DEF ColumnsRight
  <2>6. QED
    BY <2>4, <2>5
<1>15. OutputsWritten'
  <2>1. \A s \in DOMAIN batch : \A i \in 1 .. batch[s].len : Covered(s, i)' => Covered(s, i)
    BY <1>1, <1>6, CoveredAfter
  <2>2. QED
    BY <1>1, <2>1, SameOutputs
<1>16. QED
  BY <1>9, <1>10, <1>11, <1>13, <1>14, <1>15

(* Storing, whatever the kernel's way to make the new state.                *)
LEMMA StoreStep ==
    ASSUME IInv, NEW b \in DOMAIN pc, pc[b] = "store",
           UNCHANGED <<computed, line, batch, x, queue, maxSeqLen, cols, out>>,
           pc' = [pc EXCEPT ![b] = "compute"],
           conv' = [conv EXCEPT ![batch[b[2]].line] =
                        TailOf(batch[b[2]].req, batch[b[2]].past + batch[b[2]].len)]
    PROVE  IInv'
<1> USE DEF IInv
<1> DEFINE s == b[2]
<1>1. b[1] # "decode" /\ b[3] = 0 /\ b[1] # "body" /\ HasTokens(b[2], b[3])
  BY DEF BlockSteps
<1>2. /\ maxSeqLen \in Nat /\ maxSeqLen >= 1 /\ Allowed(b[1]) /\ s \in DOMAIN batch
  BY Running
<1>3. batch[s].req # Zero
  BY <1>1, <1>2 DEF Allowed
<1>4. conv' \in [Lines \cup {NullLine} -> [1 .. StateLen -> Cell]]
  <2> DEFINE new == TailOf(batch[s].req, batch[s].past + batch[s].len)
  <2>1. batch[s].past + batch[s].len \in 0 .. MaxTokens /\ batch[s].req \in Requests
    BY <1>2, <1>3, RowFacts, TokensAssumption DEF RowsMatch
  <2>2. new \in [1 .. StateLen -> Cell]
    BY <2>1, TailType
  <2> HIDE DEF new
  <2>3. conv' = [conv EXCEPT ![batch[s].line] = new]
    BY DEF new
  <2>4. QED
    BY <2>2, <2>3 DEF Typing
<1>5. out' = [p \in DOMAIN x |-> out'[p]]
  BY <1>2 DEF LaunchShape
<1>6. Typing' /\ LaunchShape'
  BY <1>4, <1>5, SameLaunch
<1>7. OwnLines' /\ Packed' /\ RowsMatch'
  BY SameBatch
<1>8. BlockSteps'
  BY <1>1, SameSteps
<1>9. \A t \in DOMAIN batch : Stored(t)' <=> Stored(t) \/ t = s
  BY <1>1, OneStored
<1>10. LinesRight'
  BY <1>2, <1>3, <1>9, OneLine
<1>11. ColumnsRight'
  BY SameColumns
<1>12. OutputsWritten'
  <2> DEFINE v == "compute"
  <2>1. pc' = [pc EXCEPT ![b] = v] /\ v # "done"
    OBVIOUS
  <2> HIDE DEF v
  <2>2. \A t \in DOMAIN batch : \A i \in 1 .. batch[t].len : Covered(t, i)' => Covered(t, i)
    BY <2>1, CoveredAfter
  <2>3. QED
    BY <2>2, SameOutputs
<1>13. QED
  BY <1>6, <1>7, <1>8, <1>10, <1>11, <1>12

(* What a store starts from.                                                *)
LEMMA StoreFacts ==
    ASSUME IInv, NEW b \in DOMAIN pc, pc[b] = "store"
    PROVE  LET row == batch[b[2]]
           IN /\ Continues(conv[row.line], RowInputs(b[2]), row.init, row.req, row.past, row.len)
              /\ RowInputs(b[2]) \in Seq((Requests \cup {Zero}) \X Nat)
              /\ b[1] = "head" => Width = 4
<1> USE DEF IInv
<1> DEFINE row == batch[b[2]]
           state == conv[row.line]
<1>1. b[1] # "decode" /\ b[3] = 0 /\ b[1] # "body" /\ HasTokens(b[2], b[3])
  BY DEF BlockSteps
<1>2. /\ maxSeqLen \in Nat /\ maxSeqLen >= 1 /\ b[1] \in Kinds /\ Allowed(b[1])
      /\ b[2] \in DOMAIN batch
  BY Running
<1>3. row.req # Zero
  BY <1>1, <1>2 DEF Allowed
<1>4. ~ Stored(b[2])
  BY <1>1, NotStored
<1>5. row.init => state = TailOf(row.req, row.past)
  BY <1>2, <1>3, <1>4, StoredColumnsRight
<1>6. row.init <=> row.past > 0
  BY <1>2, <1>3 DEF RowsMatch
<1>7. row.init \in BOOLEAN
  <2>1. row \in RowType
    BY <1>2 DEF Typing
  <2>2. QED
    BY <2>1, Zenon DEF RowType
<1>8. row.past \in Nat /\ row.len \in Nat \ {0} /\ row.line \in Lines \cup {NullLine}
  BY <1>2, RowFacts
<1>9. state \in [1 .. StateLen -> Cell]
  BY <1>8 DEF Typing
<1>10. state = [j \in 1 .. StateLen |-> state[j]]
  BY <1>9
<1>11. /\ RowInputs(b[2]) \in Seq((Requests \cup {Zero}) \X Nat)
       /\ Len(RowInputs(b[2])) = row.len
       /\ \A j \in 1 .. row.len : RowInputs(b[2])[j] = <<row.req, row.past + j>>
  BY <1>2, RowTokens
<1>12. b[1] = "head" => Width = 4
  BY <1>2 DEF Allowed
<1> HIDE DEF row, state
<1>13. Continues(state, RowInputs(b[2]), row.init, row.req, row.past, row.len)
  BY <1>5, <1>6, <1>7, <1>8, <1>10, <1>11, Zenon DEF Continues, Known
<1>14. QED
  BY <1>11, <1>12, <1>13, Zenon DEF row, state

(* Storing by the loop.                                                     *)
LEMMA StoreByLoopStep ==
    ASSUME IInv, NEW b \in DOMAIN pc, StoreByLoop(b)
    PROVE  IInv'
<1> DEFINE row == batch[b[2]]
           state == conv[row.line]
           inputs == RowInputs(b[2])
<1>1. /\ pc[b] = "store"
      /\ UNCHANGED <<computed, line, batch, x, queue, maxSeqLen, cols, out>>
      /\ pc' = [pc EXCEPT ![b] = "compute"]
      /\ conv' = [conv EXCEPT ![row.line] = LoopState(state, inputs, row.init)]
  BY DEF StoreByLoop, Store, requests
<1>2. Continues(state, inputs, row.init, row.req, row.past, row.len)
  BY <1>1, StoreFacts, Zenon
<1>3. LoopState(state, inputs, row.init) = TailOf(row.req, row.past + row.len)
  BY <1>2, LoopStateIsTail
<1>4. QED
  BY <1>1, <1>3, StoreStep

(* Storing by the head kernel.                                              *)
LEMMA StoreHeadStep ==
    ASSUME IInv, NEW b \in DOMAIN pc, StoreHead(b)
    PROVE  IInv'
<1> DEFINE row == batch[b[2]]
           state == conv[row.line]
           inputs == RowInputs(b[2])
<1>1. /\ pc[b] = "store" /\ b[1] = "head"
      /\ UNCHANGED <<computed, line, batch, x, queue, maxSeqLen, cols, out>>
      /\ pc' = [pc EXCEPT ![b] = "compute"]
      /\ conv' = [conv EXCEPT ![row.line] = HeadState(state, inputs, row.init)]
  BY DEF StoreHead, Store, requests
<1>2. /\ Continues(state, inputs, row.init, row.req, row.past, row.len)
      /\ inputs \in Seq((Requests \cup {Zero}) \X Nat) /\ Width = 4
  BY <1>1, StoreFacts, Zenon
<1>3. HeadState(state, inputs, row.init) = TailOf(row.req, row.past + row.len)
  BY <1>2, HeadStateIsTail
<1>4. QED
  BY <1>1, <1>3, StoreStep

(* What a block computes from its columns.                                  *)
LEMMA ComputedRight ==
    ASSUME IInv, NEW b \in DOMAIN pc, pc[b] = "compute"
    PROVE  Windows(cols[b], ChunkInputs(b[2], b[3])) =
               [i \in 1 .. SegmentLen(b[2], b[3]) |->
                   Window(batch[b[2]].req, batch[b[2]].past + Offset(b[3]) + i)]
<1> USE DEF IInv
<1> DEFINE s == b[2]
           c == b[3]
           r == batch[s].req
           a == batch[s].start
           n == batch[s].past + Offset(c)
           g == SegmentLen(s, c)
<1>1. s \in DOMAIN batch /\ Offset(c) \in Nat /\ HasTokens(s, c)
  BY Running DEF BlockSteps
<1>2. cols[b] = TailOf(r, n)
  BY DEF ColumnsRight
<1>3. batch[s].past \in Nat /\ a \in Nat /\ batch[s].len \in Nat
  BY <1>1, RowFacts
<1>4. n \in Nat
  BY <1>1, <1>3
<1>5. g \in Nat /\ Offset(c) + g <= batch[s].len
  BY <1>1, SegmentFacts DEF HasTokens
<1>6. ASSUME NEW i \in 1 .. g
      PROVE  x[a + Offset(c) + i] = <<r, n + i>>
  <2>1. Offset(c) + i \in 1 .. batch[s].len
    BY <1>1, <1>3, <1>5
  <2>2. x[a + (Offset(c) + i)] = <<r, batch[s].past + (Offset(c) + i)>>
    BY <1>1, <2>1 DEF Packed
  <2>3. /\ a + (Offset(c) + i) = a + Offset(c) + i
        /\ batch[s].past + (Offset(c) + i) = n + i
    BY <1>1, <1>3
  <2>4. QED
    BY <2>2, <2>3
<1>7. ChunkInputs(s, c) = [i \in 1 .. g |-> <<r, n + i>>]
  <2>1. ChunkInputs(s, c) = [i \in 1 .. g |-> x[a + Offset(c) + i]]
    BY DEF ChunkInputs, SeqStart
  <2> HIDE DEF s, c, r, a, n, g
  <2>2. QED
    BY <1>6, <2>1
<1> HIDE DEF n, g
<1>8. Windows(TailOf(r, n), InputsOf(r, n, g)) = WindowsOf(r, n, g)
  BY <1>4, <1>5, WindowsAreRight
<1>9. QED
  BY <1>2, <1>7, <1>8 DEF n, g, InputsOf, WindowsOf

(* The output of every token, after a block has written its part.           *)
LEMMA WriteIsRight ==
    ASSUME IInv, NEW b \in DOMAIN pc, pc[b] = "compute",
           UNCHANGED <<batch, maxSeqLen>>, pc' = [pc EXCEPT ![b] = "done"],
           Write(SeqStart(b[2]) + Offset(b[3]), Windows(cols[b], ChunkInputs(b[2], b[3])))
    PROVE  OutputsWritten' /\ out' = [p \in DOMAIN x |-> out'[p]]
<1> USE DEF IInv
<1> DEFINE s == b[2]
           o == Offset(b[3])
           g == SegmentLen(s, b[3])
           w == Windows(cols[b], ChunkInputs(s, b[3]))
           from == batch[s].start + o
<1>1. s \in DOMAIN batch /\ o \in Nat /\ maxSeqLen # 0
  BY Running
<1>2. w = [i \in 1 .. g |-> Window(batch[s].req, batch[s].past + o + i)]
  BY ComputedRight
<1>3. DOMAIN out = DOMAIN x /\ \A p \in 1 .. Len(x) : p \in DOMAIN x
  BY <1>1 DEF LaunchShape, Typing
<1>4. out' = [p \in DOMAIN x |-> IF p - from \in DOMAIN w THEN w[p - from] ELSE out[p]]
  BY <1>3 DEF Write, SeqStart
<1>5. /\ g \in Int /\ g <= BlockM /\ o + g <= batch[s].len
      /\ \A i \in 1 .. batch[s].len : o < i /\ i <= o + BlockM => i - o \in 1 .. g
  BY <1>1, SegmentFacts
<1>6. batch[s].start \in Nat /\ batch[s].past \in Nat /\ batch[s].len \in Nat
  BY <1>1, RowFacts
<1>7. BlockM \in Nat
  BY WidthFacts
<1> HIDE DEF g, w, o
<1>8. DOMAIN w = 1 .. g /\ \A i \in 1 .. g : w[i] = Window(batch[s].req, batch[s].past + o + i)
  BY <1>2
<1>9. ASSUME NEW t \in DOMAIN batch, batch[t].req # Zero, NEW i \in 1 .. batch[t].len
      PROVE  \/ out'[batch[t].start + i] = Window(batch[t].req, batch[t].past + i)
             \/ out'[batch[t].start + i] = Unwritten /\ ~ Covered(t, i)'
  <2> DEFINE p == batch[t].start + i
  <2>1. batch[t].start \in Nat /\ batch[t].len \in Nat /\ batch[t].past \in Nat
    BY RowFacts
  <2>2. p \in DOMAIN x
    <3>1. batch[t].start + batch[t].len <= Len(x) /\ Len(x) \in Nat
      BY DEF Packed, Typing
    <3>2. p \in 1 .. Len(x)
      BY <2>1, <3>1
    <3>3. QED
      BY <1>3, <3>2
  <2>3. CASE p - from \in 1 .. g
    <3> DEFINE j == p - from
    <3>1. o + j \in 1 .. batch[s].len /\ batch[s].start + (o + j) = p
      BY <1>1, <1>5, <1>6, <2>1, <2>3
    <3>2. s = t /\ o + j = i
      BY <1>1, <3>1, RowsApart
    <3>3. out'[p] = w[j]
      BY <1>4, <1>8, <2>2, <2>3
    <3>4. w[j] = Window(batch[s].req, batch[s].past + o + j)
      BY <1>8, <2>3
    <3>5. batch[s].past + o + j = batch[t].past + i
      BY <1>1, <1>6, <2>1, <2>3, <3>2
    <3>6. QED
      BY <3>2, <3>3, <3>4, <3>5
  <2>4. CASE p - from \notin 1 .. g
    <3>1. out'[p] = out[p]
      BY <1>4, <1>8, <2>2, <2>4
    <3>2. \/ out[p] = Window(batch[t].req, batch[t].past + i)
          \/ out[p] = Unwritten /\ ~ Covered(t, i)
      BY <1>1, <1>9 DEF OutputsWritten
    <3>3. ASSUME Covered(t, i)' PROVE Covered(t, i)
      <4>1. CASE s = t /\ o < i /\ i <= o + BlockM
        <5>1. i - o \in 1 .. g
          BY <1>5, <4>1
        <5>2. p - from = i - o
          BY <1>1, <1>6, <2>1, <4>1
        <5>3. QED
          BY <2>4, <5>1, <5>2
      <4>2. CASE ~ (s = t /\ o < i /\ i <= o + BlockM)
        BY <3>3, <4>2, CoveredAfter DEF o
      <4>3. QED
        BY <4>1, <4>2
    <3>4. QED
      BY <3>1, <3>2, <3>3
  <2>5. QED
    BY <2>3, <2>4
<1>10. \A r, q : Window(r, q)' = Window(r, q)
  BY DEF Window
<1>11. OutputsWritten'
  BY <1>9, <1>10 DEF OutputsWritten
<1>12. out' = [p \in DOMAIN x |-> out'[p]]
  BY <1>4
<1>13. QED
  BY <1>11, <1>12

(* Computing.                                                               *)
LEMMA ComputeStep ==
    ASSUME IInv, NEW b \in DOMAIN pc, Compute(b)
    PROVE  IInv'
<1> USE DEF IInv
<1> DEFINE v == "done"
<1>1. /\ UNCHANGED <<computed, line, conv, batch, x, queue, maxSeqLen, cols>>
      /\ pc[b] = "compute" /\ pc' = [pc EXCEPT ![b] = v]
      /\ Write(SeqStart(b[2]) + Offset(b[3]), Windows(cols[b], ChunkInputs(b[2], b[3])))
  BY DEF Compute, requests
<1>2. OutputsWritten' /\ out' = [p \in DOMAIN x |-> out'[p]]
  BY <1>1, WriteIsRight
<1>3. v = "done"
  OBVIOUS
<1> HIDE DEF v
<1>4. Typing' /\ LaunchShape'
  BY <1>1, <1>2, SameLaunch DEF Typing
<1>5. OwnLines' /\ Packed' /\ RowsMatch'
  BY <1>1, SameBatch
<1>6. BlockSteps'
  BY <1>1, <1>3, SameSteps
<1>7. \A s \in DOMAIN batch : Stored(s)' <=> Stored(s)
  BY <1>1, <1>3, SameStored
<1>8. LinesRight'
  BY <1>1, <1>7, SameLines
<1>9. ColumnsRight'
  BY <1>1, <1>3, SameColumns
<1>10. QED
  BY <1>2, <1>4, <1>5, <1>6, <1>8, <1>9

(* What a decode block finds: every row has one token, at its own place.    *)
LEMMA DecodeFacts ==
    ASSUME IInv, NEW b \in DOMAIN pc, b[1] = "decode"
    PROVE  /\ Width = 4 /\ maxSeqLen = 1 /\ b[2] \in DOMAIN batch /\ b[3] = 0
           /\ \A t \in DOMAIN batch :
                 /\ batch[t].len = 1 /\ batch[t].start + 1 = t /\ t \in DOMAIN x
                 /\ x[t] = <<batch[t].req, batch[t].past + 1>>
<1> USE DEF IInv
<1>1. /\ maxSeqLen \in Nat /\ maxSeqLen >= 1 /\ b[1] \in Kinds /\ Allowed(b[1])
      /\ b[2] \in DOMAIN batch /\ b[3] \in Chunks(b[1], maxSeqLen)
  BY Running
<1>2. Width = 4 /\ maxSeqLen = 1 /\ b[3] = 0
  BY <1>1, ChunkFacts DEF Allowed
<1>3. \A t \in DOMAIN batch : batch[t].len = 1
  <2>1. \A t \in DOMAIN batch : batch[t].len \in Nat /\ batch[t].len >= 1
    BY RowFacts
  <2>2. \A t \in DOMAIN batch : batch[t].len <= maxSeqLen
    BY <1>1 DEF LaunchShape
  <2>3. QED
    BY <1>2, <2>1, <2>2
<1>4. Len(x) = Len(batch) /\ \A t \in DOMAIN batch : batch[t].start = t - 1
  BY <1>3 DEF Packed
<1>5. ASSUME NEW t \in DOMAIN batch
      PROVE  /\ batch[t].start + 1 = t /\ t \in DOMAIN x
             /\ x[t] = <<batch[t].req, batch[t].past + 1>>
  <2>1. t \in 1 .. Len(x) /\ DOMAIN x = 1 .. Len(x)
    BY <1>4 DEF Typing
  <2>2. 1 \in 1 .. batch[t].len
    BY <1>3
  <2>3. x[batch[t].start + 1] = <<batch[t].req, batch[t].past + 1>>
    BY <2>2 DEF Packed
  <2>4. batch[t].start + 1 = t
    BY <1>4, <2>1
  <2>5. QED
    BY <2>1, <2>3, <2>4
<1>6. QED
  BY <1>1, <1>2, <1>3, <1>5

(* A decode step, whatever it does with the line of its row.                *)
LEMMA DecodeKeeps ==
    ASSUME IInv, NEW b \in DOMAIN pc, b[1] = "decode",
           UNCHANGED <<computed, line, batch, x, queue, maxSeqLen, cols>>,
           pc' = [pc EXCEPT ![b] = "done"],
           NEW w, out' = [out EXCEPT ![b[2]] = w],
           batch[b[2]].req # Zero => w = Window(batch[b[2]].req, batch[b[2]].past + 1),
           conv' \in [Lines \cup {NullLine} -> [1 .. StateLen -> Cell]],
           LinesRight'
    PROVE  IInv'
<1> USE DEF IInv
<1> DEFINE v == "done"
           s == b[2]
<1>1. /\ maxSeqLen = 1 /\ b[2] \in DOMAIN batch
      /\ \A t \in DOMAIN batch :
            batch[t].len = 1 /\ batch[t].start + 1 = t /\ t \in DOMAIN x
  BY DecodeFacts
<1>2. pc' = [pc EXCEPT ![b] = v] /\ v = "done"
  OBVIOUS
<1> HIDE DEF v
<1>3. DOMAIN out = DOMAIN x /\ DOMAIN out' = DOMAIN out
      /\ out' = [p \in DOMAIN x |-> out'[p]]
  <2>1. maxSeqLen # 0
    BY <1>1
  <2>2. DOMAIN out = DOMAIN x
    BY <2>1 DEF LaunchShape
  <2>3. out' = [p \in DOMAIN x |-> IF p = s THEN w ELSE out[p]]
    BY <2>2
  <2>4. QED
    BY <2>2, <2>3
<1>4. Typing' /\ LaunchShape'
  BY <1>2, <1>3, SameLaunch
<1>5. OwnLines' /\ Packed' /\ RowsMatch'
  BY SameBatch
<1>6. BlockSteps'
  BY <1>2, SameSteps
<1>7. ColumnsRight'
  BY <1>2, SameColumns
<1>8. ASSUME NEW t \in DOMAIN batch, batch[t].req # Zero, NEW i \in 1 .. batch[t].len
      PROVE  \/ out'[batch[t].start + i] = Window(batch[t].req, batch[t].past + i)
             \/ out'[batch[t].start + i] = Unwritten /\ ~ Covered(t, i)'
  <2>1. i = 1 /\ batch[t].start + i = t /\ t \in DOMAIN x
    BY <1>1
  <2>2. CASE t = s
    BY <1>3, <1>8, <2>1, <2>2
  <2>3. CASE t # s
    <3>1. out'[t] = out[t]
      BY <1>3, <2>1, <2>3
    <3>2. \/ out[batch[t].start + i] = Window(batch[t].req, batch[t].past + i)
          \/ out[batch[t].start + i] = Unwritten /\ ~ Covered(t, i)
      BY <1>1, <1>8 DEF OutputsWritten
    <3>3. Covered(t, i)' => Covered(t, i)
      BY <1>2, <2>3, CoveredAfter
    <3>4. QED
      BY <2>1, <3>1, <3>2, <3>3
  <2>4. QED
    BY <2>2, <2>3
<1>9. \A r, q : Window(r, q)' = Window(r, q)
  BY DEF Window
<1>10. OutputsWritten'
  BY <1>8, <1>9 DEF OutputsWritten
<1>11. QED
  BY <1>4, <1>5, <1>6, <1>7, <1>10

(* Decoding.                                                                *)
LEMMA DecodeStep ==
    ASSUME IInv, NEW b \in DOMAIN pc, Decode(b)
    PROVE  IInv'
<1> USE DEF IInv
<1> DEFINE s == b[2]
           row == batch[s]
<1>1. /\ b[1] = "decode" /\ pc[b] = "load"
      /\ UNCHANGED <<computed, line, batch, x, queue, maxSeqLen, cols>>
      /\ pc' = [pc EXCEPT ![b] = "done"]
  BY DEF Decode, requests
<1>2. /\ Width = 4 /\ s \in DOMAIN batch /\ b[3] = 0 /\ row.len = 1
      /\ x[s] = <<row.req, row.past + 1>>
  BY <1>1, DecodeFacts
<1>3. \A t \in DOMAIN batch : Stored(t)' <=> Stored(t) \/ t = s
  BY <1>1, <1>2, OneStored
<1>4. CASE IsNull(s)
  <2>1. out' = [out EXCEPT ![s] = <<x[s]>>] /\ conv' = conv
    BY <1>4 DEF Decode
  <2>2. row.req = Zero
    BY <1>2, <1>4 DEF IsNull, RowsMatch
  <2>3. \A r : RowsOf(r)' = RowsOf(r) /\ RowsOf(r) \subseteq DOMAIN batch
    BY <1>1 DEF RowsOf
  <2>4. \A r \in Requests : s \notin RowsOf(r)
    BY <2>2, NamesAssumption DEF RowsOf
  <2>5. \A r, n : TailOf(r, n)' = TailOf(r, n)
    BY DEF TailOf
  <2>6. LinesRight'
    BY <1>1, <1>3, <2>1, <2>2, <2>3, <2>4, <2>5 DEF LinesRight
  <2>7. conv' \in [Lines \cup {NullLine} -> [1 .. StateLen -> Cell]]
    BY <2>1 DEF Typing
  <2>8. QED
    BY <1>1, <2>1, <2>2, <2>6, <2>7, DecodeKeeps
<1>5. CASE ~ IsNull(s)
  <2>1. /\ out' = [out EXCEPT ![s] = Append(StoredColumns(s), x[s])]
        /\ conv' = [conv EXCEPT ![row.line] = DecodeState(conv[row.line], x[s], row.init)]
    BY <1>5 DEF Decode
  <2>2. row.req # Zero
    BY <1>2, <1>5 DEF IsNull, RowsMatch
  <2>3. ~ Stored(s)
    BY <1>1, <1>2, NotStored
  <2>4. /\ row.init => conv[row.line] = TailOf(row.req, row.past)
        /\ StoredColumns(s) = TailOf(row.req, row.past)
    BY <1>2, <2>2, <2>3, StoredColumnsRight
  <2>5. row.past \in Nat /\ row.req \in Requests
    BY <1>2, <2>2, RowFacts
  <2>6. Append(StoredColumns(s), x[s]) = Window(row.req, row.past + 1)
    BY <1>2, <2>4, <2>5, DecodedIsRight
  <2>7. Known(conv[row.line], row.init, row.req, row.past)
    <3>1. row \in RowType
      BY <1>2 DEF Typing
    <3>2. row.init \in BOOLEAN
      BY <3>1, Zenon DEF RowType
    <3>3. row.init <=> row.past > 0
      BY <1>2, <2>2 DEF RowsMatch
    <3>4. QED
      BY <2>4, <2>5, <3>2, <3>3, Zenon DEF Known
  <2>8. DecodeState(conv[row.line], <<row.req, row.past + 1>>, row.init)
            = TailOf(row.req, row.past + 1)
    BY <1>2, <2>7, DecodeStateIsTail
  <2>9. conv' = [conv EXCEPT ![row.line] = TailOf(row.req, row.past + row.len)]
    BY <1>2, <2>1, <2>8
  <2>10. conv' \in [Lines \cup {NullLine} -> [1 .. StateLen -> Cell]]
    <3> DEFINE new == TailOf(row.req, row.past + row.len)
    <3>1. row.past + row.len \in 0 .. MaxTokens
      BY <1>2, <2>2, <2>5, RowFacts, TokensAssumption DEF RowsMatch
    <3>2. new \in [1 .. StateLen -> Cell]
      BY <2>5, <3>1, TailType
    <3> HIDE DEF new
    <3>3. conv' = [conv EXCEPT ![row.line] = new]
      BY <2>9 DEF new
    <3>4. QED
      BY <3>2, <3>3 DEF Typing
  <2>11. LinesRight'
    BY <1>1, <1>2, <1>3, <2>2, <2>9, OneLine
  <2>12. QED
    BY <1>1, <2>1, <2>6, <2>10, <2>11, DecodeKeeps
<1>6. QED
  BY <1>4, <1>5

-----------------------------------------------------------------------------
(* The steps of a launch.                                                   *)

(* Where no block is, nothing is stored or covered.                         *)
LEMMA NoBlocks ==
    ASSUME DOMAIN pc = {} PROVE /\ \A s : ~ Stored(s)
                                /\ \A s, i : ~ Covered(s, i)
  BY DEF Stored, Covered

(* When the blocks of a kernel are done every row has been stored.          *)
LEMMA AllStored ==
    ASSUME Typing, NEW k \in Kinds, Allowed(k), DOMAIN pc = Blocks(k), maxSeqLen # 0,
           \A b \in DOMAIN pc : pc[b] = "done", NEW s \in DOMAIN batch
    PROVE  Stored(s)
<1>1. maxSeqLen \in Nat /\ maxSeqLen >= 1
  BY DEF Typing
<1>2. CASE k # "body"
  <2>1. 0 \in Chunks(k, maxSeqLen)
    BY <1>1, <1>2, ChunkFacts
  <2> DEFINE b == <<k, s, 0>>
  <2>2. b \in DOMAIN pc /\ b[2] = s /\ b[3] = 0
    BY <2>1, BlockFacts
  <2>3. pc[b] = "done"
    BY <2>2
  <2> HIDE DEF b
  <2>4. QED
    BY <2>2, <2>3 DEF Stored
<1>3. CASE k = "body"
  <2>1. 1 \in Chunks(k, maxSeqLen)
    BY <1>1, <1>3, ChunkFacts DEF Allowed
  <2> DEFINE b == <<k, s, 1>>
  <2>2. b \in DOMAIN pc /\ b[1] = k /\ b[2] = s
    BY <2>1, BlockFacts
  <2> HIDE DEF b
  <2>3. QED
    BY <1>3, <2>2 DEF Stored
<1>4. QED
  BY <1>2, <1>3

(* Two in a row.                                                            *)
LEMMA ConcatTwo ==
    ASSUME NEW S, NEW a \in S, NEW b \in S
    PROVE  <<a>> \o <<b>> = <<a, b>>
<1> DEFINE q == <<a>> \o <<b>>
<1>1. q \in Seq(S) /\ Len(q) = 2 /\ q[1] = a /\ q[2] = b
  OBVIOUS
<1> HIDE DEF q
<1>2. q = <<q[1], q[2]>>
  BY <1>1
<1>3. QED
  BY <1>1, <1>2 DEF q

(* A kernel starts.                                                         *)
LEMMA StartKernelStep ==
    ASSUME IInv, StartKernel
    PROVE  IInv'
<1> USE DEF IInv
<1>0. PICK k : k = Head(queue)
  OBVIOUS
<1>1. /\ UNCHANGED <<computed, line, conv, batch, x, maxSeqLen, out>>
      /\ queue # <<>> /\ \A b \in DOMAIN pc : pc[b] = "done"
      /\ pc' = [b \in Blocks(k) |-> "load"] /\ DOMAIN cols' = Blocks(k)
      /\ queue' = Tail(queue)
  BY <1>0 DEF StartKernel, requests
<1>2. maxSeqLen # 0 /\ maxSeqLen \in Nat /\ AtKernel
  BY <1>1 DEF LaunchShape, Typing
<1>3. /\ k \in Kinds /\ Allowed(k) /\ Tail(queue) = Behind(k)
      /\ \A s \in DOMAIN batch : k = "body" <=> Stored(s)
      /\ k = "body" => \A s \in DOMAIN batch, i \in Nat : i >= 1 /\ i <= BlockM => Covered(s, i)
  <2>1. CASE /\ pc = <<>>
             /\ \E j \in Kinds \ {"body"} : Allowed(j) /\ queue = <<j>> \o Behind(j)
    <3>1. PICK j \in Kinds \ {"body"} : Allowed(j) /\ queue = <<j>> \o Behind(j)
      BY <2>1
    <3>2. Behind(j) = <<"body">> \/ Behind(j) = <<>>
      BY DEF Behind
    <3>3. k = j /\ Tail(queue) = Behind(j)
      <4>1. CASE Behind(j) = <<"body">>
        <5>1. queue = <<j, "body">>
          BY <3>1, <4>1, ConcatTwo DEF Kinds
        <5>2. QED
          BY <1>0, <4>1, <5>1
      <4>2. CASE Behind(j) = <<>>
        BY <1>0, <3>1, <4>2
      <4>3. QED
        BY <3>2, <4>1, <4>2
    <3>4. \A s : ~ Stored(s)
      BY <2>1, NoBlocks
    <3>5. QED
      BY <3>1, <3>3, <3>4
  <2>2. CASE \E j \in Kinds : /\ Allowed(j) /\ queue = Behind(j)
                              /\ DOMAIN pc = Blocks(j) /\ DOMAIN cols = Blocks(j)
    <3>1. PICK j \in Kinds : /\ Allowed(j) /\ queue = Behind(j) /\ DOMAIN pc = Blocks(j)
      BY <2>2
    <3>2. j = "head" /\ maxSeqLen > BlockM /\ queue = <<"body">>
      BY <1>1, <3>1 DEF Behind
    <3>3. k = "body" /\ Tail(queue) = <<>>
      BY <1>0, <3>2
    <3>4. Allowed(k) /\ Tail(queue) = Behind(k) /\ k \in Kinds
      BY <3>1, <3>2, <3>3 DEF Allowed, Behind, Kinds
    <3>5. \A s \in DOMAIN batch : Stored(s)
      BY <1>1, <1>2, <3>1, AllStored
    <3>6. ASSUME NEW s \in DOMAIN batch, NEW i \in Nat, i >= 1, i <= BlockM
          PROVE  Covered(s, i)
      <4>1. 0 \in Chunks(j, maxSeqLen) /\ Offset(0) = 0
        BY <1>2, <3>2, ChunkFacts DEF Kinds
      <4> DEFINE b == <<j, s, 0>>
      <4>2. b \in DOMAIN pc /\ b[2] = s /\ b[3] = 0
        BY <3>1, <4>1, BlockFacts
      <4>3. pc[b] = "done"
        BY <1>1, <4>2
      <4> HIDE DEF b
      <4>4. Offset(b[3]) = 0 /\ BlockM \in Nat
        BY <4>1, <4>2, WidthFacts
      <4>5. QED
        BY <3>6, <4>2, <4>3, <4>4 DEF Covered
    <3>7. QED
      BY <3>3, <3>4, <3>5, <3>6
  <2>3. QED
    BY <1>2, <2>1, <2>2 DEF AtKernel
<1>4. DOMAIN pc' = Blocks(k) /\ \A b \in Blocks(k) : pc'[b] = "load" /\ b[1] = k
  BY <1>1, BlockFacts
<1>5. Allowed(k)' /\ queue' = Behind(k)' /\ Blocks(k)' = Blocks(k)
  BY <1>1, <1>3 DEF Allowed, Behind, Blocks, Chunks
<1>6. Typing'
  BY <1>1 DEF Typing
<1>7. LaunchShape'
  <2>1. AtKernel'
    BY <1>1, <1>3, <1>4, <1>5 DEF AtKernel
  <2>2. QED
    BY <1>1, <1>2, <2>1 DEF LaunchShape
<1>8. OwnLines' /\ Packed' /\ RowsMatch'
  BY <1>1, SameBatch
<1>9. BlockSteps'
  BY <1>4 DEF BlockSteps
<1>10. ColumnsRight'
  BY <1>4 DEF ColumnsRight
<1>11. \A s \in DOMAIN batch : Stored(s)' <=> Stored(s)
  <2>1. ASSUME NEW s \in DOMAIN batch, Stored(s)' PROVE Stored(s)
    <3>1. k = "body"
      BY <1>4, <2>1 DEF Stored
    <3>2. QED
      BY <1>3, <3>1
  <2>2. ASSUME NEW s \in DOMAIN batch, Stored(s) PROVE Stored(s)'
    <3>1. k = "body"
      BY <1>3, <2>2
    <3>2. 1 \in Chunks(k, maxSeqLen)
      BY <1>2, <1>3, <3>1, ChunkFacts DEF Allowed
    <3> DEFINE b == <<k, s, 1>>
    <3>3. b \in DOMAIN pc' /\ b[1] = k /\ b[2] = s
      BY <1>4, <3>2, BlockFacts
    <3> HIDE DEF b
    <3>4. QED
      BY <3>1, <3>3 DEF Stored
  <2>3. QED
    BY <2>1, <2>2
<1>12. LinesRight'
  BY <1>1, <1>11, SameLines
<1>13. OutputsWritten'
  <2>1. ASSUME NEW s \in DOMAIN batch, NEW i \in 1 .. batch[s].len, Covered(s, i)'
        PROVE  Covered(s, i)
    <3>1. k = "body" /\ i <= BlockM
      BY <1>4, <2>1 DEF Covered, Offset
    <3>2. i \in Nat /\ i >= 1
      BY RowFacts
    <3>3. QED
      BY <1>3, <3>1, <3>2
  <2>2. QED
    BY <1>1, <2>1, SameOutputs
<1>14. QED
  BY <1>6, <1>7, <1>8, <1>9, <1>10, <1>12, <1>13

(* kernels begin with k, as far as a launch with that bound may *)
StartsWith(kernels, bound, k) ==
    /\ kernels = <<k>> \o IF k = "head" /\ bound > BlockM THEN <<"body">> ELSE <<>>
    /\ k \in {"decode", "head"} => Width = 4
    /\ k = "decode" => bound = 1

(* A launch.                                                                *)
LEMMA LaunchStep ==
    ASSUME IInv, NEW kernels, NEW bound \in Nat, bound >= 1, Launch(kernels, bound),
           \A s \in DOMAIN batch : batch[s].len <= bound, bound <= Len(x),
           NEW k \in Kinds \ {"body"}, StartsWith(kernels, bound, k),
           k # "decode" => \A s \in DOMAIN batch : batch[s].req # Zero
    PROVE  IInv'
<1> USE DEF IInv
<1>1. /\ UNCHANGED <<computed, line, conv, batch, x, pc, cols>>
      /\ maxSeqLen = 0 /\ maxSeqLen' = bound /\ batch # <<>> /\ queue' = kernels
      /\ out' = [p \in DOMAIN x |-> Unwritten]
  BY DEF Launch, requests
<1>2. pc = <<>> /\ cols = <<>> /\ DOMAIN pc = {}
  BY <1>1 DEF LaunchShape
<1>3. Typing'
  BY <1>1 DEF Typing
<1>4. OwnLines' /\ Packed' /\ RowsMatch'
  BY <1>1, SameBatch
<1>5. LaunchShape'
  <2>1. Allowed(k)' /\ queue' = <<k>> \o Behind(k)'
    BY <1>1 DEF Allowed, Behind, StartsWith
  <2>2. AtKernel'
    BY <1>1, <1>2, <2>1 DEF AtKernel
  <2>3. bound # 0
    OBVIOUS
  <2>4. out' = [p \in DOMAIN x |-> out'[p]]
    BY <1>1
  <2>5. QED
    BY <1>1, <2>2, <2>3, <2>4 DEF LaunchShape
<1>6. BlockSteps' /\ ColumnsRight'
  BY <1>1, <1>2 DEF BlockSteps, ColumnsRight
<1>7. \A s : Stored(s)' <=> Stored(s)
  BY <1>1 DEF Stored
<1>8. LinesRight'
  BY <1>1, <1>7, SameLines
<1>9. \A s, i : ~ Covered(s, i)'
  BY <1>1, <1>2 DEF Covered
<1>10. ASSUME NEW s \in DOMAIN batch, NEW i \in 1 .. batch[s].len
       PROVE  out'[batch[s].start + i] = Unwritten
  <2>1. batch[s].start \in Nat /\ batch[s].len \in Nat /\ batch[s].start + batch[s].len <= Len(x)
        /\ Len(x) \in Nat /\ DOMAIN x = 1 .. Len(x)
    BY RowFacts DEF Packed, Typing
  <2>2. batch[s].start + i \in DOMAIN x
    BY <2>1
  <2>3. QED
    BY <1>1, <2>2
<1>11. OutputsWritten'
  BY <1>1, <1>9, <1>10 DEF OutputsWritten
<1>12. QED
  BY <1>3, <1>4, <1>5, <1>6, <1>8, <1>11

(* The bound covers the rows and is no more than the tokens there are.      *)
LEMMA BoundFacts ==
    ASSUME Typing, Packed, batch # <<>>, NEW longest \in Lens, NEW pads \in 0 .. 1,
           \A n \in Lens : n <= longest
    PROVE  LET bound == LaunchBound(Len(x), Len(x) + pads, longest)
           IN /\ bound \in Nat /\ bound >= 1 /\ bound <= Len(x)
              /\ \A s \in DOMAIN batch : batch[s].len <= bound
<1>1. \A s \in DOMAIN batch : /\ batch[s].len \in Nat /\ batch[s].len >= 1
                              /\ batch[s].start \in Nat
                              /\ batch[s].start + batch[s].len <= Len(x)
  BY RowFacts DEF Packed
<1>2. Len(x) \in Nat
  BY DEF Typing
<1>3. PICK t \in DOMAIN batch : longest = batch[t].len
  BY DEF Lens
<1>4. \A s \in DOMAIN batch : batch[s].len <= longest /\ batch[s].len <= Len(x)
  BY <1>1, <1>2 DEF Lens
<1>5. longest \in Nat /\ longest >= 1 /\ longest <= Len(x)
  BY <1>1, <1>3, <1>4
<1>6. LaunchBound(Len(x), Len(x) + pads, longest) \in {Len(x), longest}
  BY DEF LaunchBound
<1>7. QED
  BY <1>2, <1>4, <1>5, <1>6

(* A forward launch runs one kernel, or head and body.                      *)
LEMMA KernelsFacts ==
    ASSUME NEW size, NEW bound \in Nat, NEW wide \in BOOLEAN, NEW allowSplit \in BOOLEAN
    PROVE  \E k \in Kinds \ {"body"} :
              StartsWith(Kernels(size, bound, wide, allowSplit), bound, k)
<1> DEFINE K == Kernels(size, bound, wide, allowSplit)
           R(k) == <<k>> \o IF k = "head" /\ bound > BlockM THEN <<"body">> ELSE <<>>
<1>1. R("decode") = <<"decode">> /\ R("vec") = <<"vec">> /\ R("generic") = <<"generic">>
  OBVIOUS
<1>2. /\ bound > BlockM => R("head") = <<"head", "body">>
      /\ ~ (bound > BlockM) => R("head") = <<"head">>
  <2>1. "head" \in Kinds /\ "body" \in Kinds
    BY DEF Kinds
  <2>2. <<"head">> \o <<"body">> = <<"head", "body">>
    BY <2>1, ConcatTwo
  <2>3. ASSUME bound > BlockM PROVE R("head") = <<"head", "body">>
    BY <2>2, <2>3, Zenon
  <2>4. ASSUME ~ (bound > BlockM) PROVE R("head") = <<"head">>
    BY <2>4
  <2>5. QED
    BY <2>3, <2>4
<1>3. \/ K = <<"decode">> /\ Width = 4 /\ bound = 1
      \/ K = <<"head", "body">> /\ bound > BlockM /\ Width = 4
      \/ K = <<"head">> /\ ~ (bound > BlockM) /\ Width = 4
      \/ K = <<"vec">>
      \/ K = <<"generic">>
  BY DEF Kernels, SplitPrefill
<1> HIDE DEF K, R
<1>4. \E k \in Kinds \ {"body"} :
          /\ K = R(k) /\ (k \in {"decode", "head"} => Width = 4) /\ (k = "decode" => bound = 1)
  <2>1. CASE K = <<"decode">> /\ Width = 4 /\ bound = 1
    BY <1>1, <2>1 DEF Kinds
  <2>2. CASE K = <<"head", "body">> /\ bound > BlockM /\ Width = 4
    BY <1>2, <2>2 DEF Kinds
  <2>3. CASE K = <<"head">> /\ ~ (bound > BlockM) /\ Width = 4
    BY <1>2, <2>3 DEF Kinds
  <2>4. CASE K = <<"vec">>
    BY <1>1, <2>4 DEF Kinds
  <2>5. CASE K = <<"generic">>
    BY <1>1, <2>5 DEF Kinds
  <2>6. QED
    BY <1>3, <2>1, <2>2, <2>3, <2>4, <2>5
<1>5. QED
  BY <1>4 DEF K, R, StartsWith

(* A prefill or mixed batch.                                                *)
LEMMA LaunchForwardStep ==
    ASSUME IInv, LaunchForward
    PROVE  IInv'
<1>1. PICK longest \in Lens, pads \in 0 .. 1, wide \in BOOLEAN, allowSplit \in BOOLEAN :
          LET bound == LaunchBound(Len(x), Len(x) + pads, longest)
          IN /\ \A n \in Lens : n <= longest
             /\ Launch(Kernels(Len(batch), bound, wide, allowSplit), bound)
  BY Zenon DEF LaunchForward
<1> DEFINE bound == LaunchBound(Len(x), Len(x) + pads, longest)
           K == Kernels(Len(batch), bound, wide, allowSplit)
<1>2. \A s \in DOMAIN batch : batch[s].req # Zero
  BY DEF LaunchForward
<1>3. batch # <<>> /\ (\A n \in Lens : n <= longest) /\ Launch(K, bound)
  BY <1>1, Zenon DEF Launch
<1>4. /\ bound \in Nat /\ bound >= 1 /\ bound <= Len(x)
      /\ \A s \in DOMAIN batch : batch[s].len <= bound
  BY <1>3, BoundFacts DEF IInv
<1> HIDE DEF bound
<1>5. PICK k \in Kinds \ {"body"} : StartsWith(K, bound, k)
  BY <1>4, KernelsFacts, Zenon
<1> HIDE DEF K
<1>6. QED
  BY <1>2, <1>3, <1>4, <1>5, LaunchStep

(* A decode batch.                                                          *)
LEMMA LaunchUpdateStep ==
    ASSUME IInv, LaunchUpdate
    PROVE  IInv'
<1> USE DEF IInv
<1> DEFINE k == "decode"
           kernels == <<k>>
           bound == 1
<1>1. Launch(kernels, bound) /\ batch # <<>>
  BY DEF LaunchUpdate, Launch
<1>2. Width = 4 /\ \A s \in DOMAIN batch : batch[s].len <= bound
  BY DEF LaunchUpdate, IsDecodeBatch
<1>3. bound <= Len(x)
  <2>1. 1 \in DOMAIN batch
    BY <1>1 DEF Typing
  <2>2. QED
    BY <2>1, RowFacts DEF Packed, Typing
<1>4. /\ k \in Kinds \ {"body"} /\ k = "decode" /\ k # "head"
      /\ bound \in Nat /\ bound >= 1 /\ bound = 1
  BY DEF Kinds
<1>5. StartsWith(kernels, bound, k)
  BY <1>2 DEF StartsWith
<1> HIDE DEF k, kernels, bound
<1>6. QED
  BY <1>1, <1>2, <1>3, <1>4, <1>5, LaunchStep

-----------------------------------------------------------------------------
(* The steps of the scheduler.                                              *)

(* Between launches nothing is stored, and every line is its request's.     *)
LEMMA Idle ==
    ASSUME IInv, maxSeqLen = 0
    PROVE  /\ pc = <<>> /\ DOMAIN pc = {} /\ cols = <<>> /\ queue = <<>> /\ out = <<>>
           /\ \A r \in Requests : computed[r] > 0 => conv[line[r]] = TailOf(r, computed[r])
           /\ conv[NullLine] = [k \in 1 .. StateLen |-> Zero]
<1>1. pc = <<>> /\ DOMAIN pc = {} /\ cols = <<>> /\ queue = <<>> /\ out = <<>>
  BY DEF IInv, LaunchShape
<1>2. \A s : ~ Stored(s)
  BY <1>1, NoBlocks
<1>3. QED
  BY <1>1, <1>2 DEF IInv, LinesRight

(* The invariant between launches.                                          *)
LEMMA IdleAfter ==
    ASSUME maxSeqLen' = 0, pc' = <<>>, cols' = <<>>, queue' = <<>>, out' = <<>>,
           Typing', OwnLines', Packed', RowsMatch',
           \A r \in Requests :
               computed'[r] > 0 => conv'[line'[r]] = TailOf(r, computed'[r]),
           conv'[NullLine] = [k \in 1 .. StateLen |-> Zero]
    PROVE  IInv'
<1>1. DOMAIN pc' = {}
  OBVIOUS
<1>2. LaunchShape'
  BY DEF LaunchShape
<1>3. BlockSteps' /\ ColumnsRight'
  BY <1>1 DEF BlockSteps, ColumnsRight
<1>4. \A s : ~ Stored(s)'
  BY <1>1 DEF Stored
<1>5. \A r, n : TailOf(r, n)' = TailOf(r, n)
  BY DEF TailOf
<1>6. LinesRight'
  BY <1>4, <1>5 DEF LinesRight
<1>7. OutputsWritten'
  BY DEF OutputsWritten
<1>8. QED
  BY <1>2, <1>3, <1>6, <1>7 DEF IInv

(* A launch is over when all blocks of its last kernel are.                 *)
LEMMA OverFacts ==
    ASSUME IInv, maxSeqLen # 0, queue = <<>>, \A b \in DOMAIN pc : pc[b] = "done"
    PROVE  /\ \A s \in DOMAIN batch : Stored(s)
           /\ \A s \in DOMAIN batch : \A i \in 1 .. batch[s].len : Covered(s, i)
<1> USE DEF IInv
<1>1. maxSeqLen \in Nat /\ maxSeqLen >= 1 /\ AtKernel
  BY DEF LaunchShape, Typing
<1>2. ~ \E k \in Kinds \ {"body"} : queue = <<k>> \o Behind(k)
  <2>1. ASSUME NEW k \in Kinds, queue = <<k>> \o Behind(k) PROVE FALSE
    <3>1. Behind(k) = <<"body">> \/ Behind(k) = <<>>
      BY DEF Behind
    <3>2. CASE Behind(k) = <<"body">>
      <4>1. queue = <<k, "body">>
        BY <2>1, <3>2, ConcatTwo DEF Kinds
      <4>2. QED
        BY <4>1
    <3>3. CASE Behind(k) = <<>>
      BY <2>1, <3>3
    <3>4. QED
      BY <3>1, <3>2, <3>3
  <2>2. QED
    BY <2>1
<1>3. PICK k \in Kinds : Allowed(k) /\ queue = Behind(k) /\ DOMAIN pc = Blocks(k)
  BY <1>1, <1>2 DEF AtKernel
<1>4. \A s \in DOMAIN batch : Stored(s)
  BY <1>3, AllStored
<1>5. ASSUME NEW s \in DOMAIN batch, NEW i \in 1 .. batch[s].len
      PROVE  Covered(s, i)
  <2>1. i \in 1 .. maxSeqLen
    <3>1. batch[s].len <= maxSeqLen /\ batch[s].len \in Nat
      BY RowFacts DEF LaunchShape
    <3>2. QED
      BY <1>1, <3>1
  <2>2. (k = "decode" => maxSeqLen = 1) /\ (k = "head" => maxSeqLen <= BlockM)
    <3>1. k = "head" => ~ (maxSeqLen > BlockM)
      BY <1>3 DEF Behind
    <3>2. QED
      BY <1>1, <1>3, <3>1, WidthFacts DEF Allowed
  <2>3. CASE k = "body" /\ i <= BlockM
    <3>1. 1 \in Chunks(k, maxSeqLen)
      BY <1>1, <1>3, <2>3, ChunkFacts DEF Allowed
    <3> DEFINE b == <<k, s, 1>>
    <3>2. b \in DOMAIN pc /\ b[1] = k /\ b[2] = s
      BY <1>3, <3>1, BlockFacts
    <3> HIDE DEF b
    <3>3. QED
      BY <2>3, <3>2 DEF Covered
  <2>4. CASE \E c \in Chunks(k, maxSeqLen) : Offset(c) < i /\ i <= Offset(c) + BlockM
    <3>1. PICK c \in Chunks(k, maxSeqLen) : Offset(c) < i /\ i <= Offset(c) + BlockM
      BY <2>4
    <3> DEFINE b == <<k, s, c>>
    <3>2. b \in DOMAIN pc /\ b[2] = s /\ b[3] = c
      BY <1>3, BlockFacts
    <3>3. pc[b] = "done"
      BY <3>2
    <3> HIDE DEF b
    <3>4. QED
      BY <3>1, <3>2, <3>3 DEF Covered
  <2>5. QED
    BY <1>1, <2>1, <2>2, <2>3, <2>4, ChunkOfToken
<1>6. QED
  BY <1>4, <1>5

(* The launch ends.                                                         *)
LEMMA FinishStep ==
    ASSUME IInv, Finish
    PROVE  IInv'
<1> USE DEF IInv
<1>1. /\ maxSeqLen # 0 /\ queue = <<>> /\ \A b \in DOMAIN pc : pc[b] = "done"
      /\ computed' = [r \in Requests |->
            IF RowsOf(r) = {} THEN computed[r]
            ELSE LET row == batch[CHOOSE s \in RowsOf(r) : TRUE] IN row.past + row.len]
      /\ batch' = <<>> /\ x' = <<>> /\ pc' = <<>> /\ cols' = <<>> /\ out' = <<>>
      /\ maxSeqLen' = 0 /\ line' = line /\ conv' = conv /\ queue' = <<>>
  BY DEF Finish
<1>2. \A s \in DOMAIN batch : Stored(s)
  BY <1>1, OverFacts
<1>3. ASSUME NEW r \in Requests
      PROVE  /\ computed'[r] \in 0 .. MaxTokens
             /\ computed'[r] > 0 => line[r] # NullLine /\ conv[line[r]] = TailOf(r, computed'[r])
  <2>1. CASE RowsOf(r) = {}
    <3>1. computed'[r] = computed[r]
      BY <1>1, <2>1
    <3>2. computed[r] \in 0 .. MaxTokens
      BY DEF Typing
    <3>3. computed[r] > 0 => line[r] # NullLine /\ conv[line[r]] = TailOf(r, computed[r])
      BY <2>1 DEF OwnLines, LinesRight
    <3>4. QED
      BY <3>1, <3>2, <3>3
  <2>2. CASE RowsOf(r) # {}
    <3> DEFINE s == CHOOSE s \in RowsOf(r) : TRUE
    <3>1. s \in RowsOf(r)
      BY <2>2
    <3>2. computed'[r] = batch[s].past + batch[s].len
      BY <1>1, <2>2
    <3>3. s \in DOMAIN batch /\ batch[s].req = r
      BY <3>1 DEF RowsOf
    <3> HIDE DEF s
    <3>4. batch[s].req # Zero
      BY <3>3, NamesAssumption
    <3>5. /\ batch[s].line = line[r] /\ line[r] # NullLine
          /\ batch[s].past + batch[s].len <= MaxTokens
      BY <3>3, <3>4 DEF RowsMatch
    <3>6. conv[line[r]] = TailOf(r, batch[s].past + batch[s].len)
      BY <1>2, <3>3, <3>4, <3>5 DEF LinesRight
    <3>7. batch[s].past + batch[s].len \in 0 .. MaxTokens
      BY <3>3, <3>5, RowFacts, TokensAssumption
    <3>8. QED
      BY <3>2, <3>5, <3>6, <3>7
  <2>3. QED
    BY <2>1, <2>2
<1>4. computed' \in [Requests -> 0 .. MaxTokens]
  <2>1. computed' = [r \in Requests |-> computed'[r]]
    BY <1>1
  <2>2. QED
    BY <1>3, <2>1
<1>5. Typing'
  BY <1>1, <1>4 DEF Typing
<1>6. OwnLines'
  BY <1>1, <1>3 DEF OwnLines
<1>7. Packed'
  BY <1>1 DEF Packed
<1>8. RowsMatch'
  BY <1>1 DEF RowsMatch
<1>9. conv'[NullLine] = [k \in 1 .. StateLen |-> Zero]
  BY <1>1 DEF LinesRight
<1>10. QED
  BY <1>1, <1>3, <1>5, <1>6, <1>7, <1>8, <1>9, IdleAfter

(* A request takes a line.                                                  *)
LEMMA AdmitStep ==
    ASSUME IInv, NEW r \in Requests, Admit(r)
    PROVE  IInv'
<1> USE DEF IInv
<1>1. /\ batch = <<>> /\ line[r] = NullLine
      /\ computed' = [computed EXCEPT ![r] = 0]
      /\ UNCHANGED <<conv, batch, x, queue, maxSeqLen, pc, cols, out>>
  BY DEF Admit
<1>2. PICK l \in Lines \ {line[q] : q \in Requests} : line' = [line EXCEPT ![r] = l]
  BY DEF Admit
<1>3. maxSeqLen = 0
  BY <1>1 DEF LaunchShape
<1>4. /\ \A q \in Requests : q # r => line'[q] = line[q] /\ computed'[q] = computed[q]
      /\ line'[r] = l /\ computed'[r] = 0 /\ \A q \in Requests : line[q] # l
  BY <1>1, <1>2 DEF Typing
<1>5. Typing'
  BY <1>1, <1>2, TokensAssumption DEF Typing
<1>6. OwnLines'
  <2>1. l # NullLine
    BY NamesAssumption
  <2>2. ASSUME NEW q \in Requests, NEW p \in Requests, line'[q] = line'[p], line'[q] # NullLine
        PROVE  q = p
    BY <1>4, <2>2 DEF OwnLines
  <2>3. ASSUME NEW q \in Requests, computed'[q] > 0 PROVE line'[q] # NullLine
    BY <1>4, <2>1, <2>3 DEF OwnLines
  <2>4. QED
    BY <2>2, <2>3 DEF OwnLines
<1>7. Packed' /\ RowsMatch'
  BY <1>1 DEF Packed, RowsMatch
<1>8. \A q \in Requests : computed'[q] > 0 => conv'[line'[q]] = TailOf(q, computed'[q])
  BY <1>1, <1>3, <1>4, Idle
<1>9. conv'[NullLine] = [k \in 1 .. StateLen |-> Zero]
  BY <1>1 DEF LinesRight
<1>10. QED
  BY <1>1, <1>3, <1>5, <1>6, <1>7, <1>8, <1>9, Idle, IdleAfter

(* A request gives its line back.                                           *)
LEMMA ReleaseStep ==
    ASSUME IInv, NEW r \in Requests, Release(r)
    PROVE  IInv'
<1> USE DEF IInv
<1>1. /\ batch = <<>>
      /\ line' = [line EXCEPT ![r] = NullLine] /\ computed' = [computed EXCEPT ![r] = 0]
      /\ UNCHANGED <<conv, batch, x, queue, maxSeqLen, pc, cols, out>>
  BY DEF Release
<1>2. maxSeqLen = 0
  BY <1>1 DEF LaunchShape
<1>3. /\ \A q \in Requests : q # r => line'[q] = line[q] /\ computed'[q] = computed[q]
      /\ line'[r] = NullLine /\ computed'[r] = 0
  BY <1>1 DEF Typing
<1>4. Typing'
  BY <1>1, TokensAssumption DEF Typing
<1>5. OwnLines'
  <2>1. ASSUME NEW q \in Requests, NEW p \in Requests, line'[q] = line'[p], line'[q] # NullLine
        PROVE  q = p
    BY <1>3, <2>1 DEF OwnLines
  <2>2. ASSUME NEW q \in Requests, computed'[q] > 0 PROVE line'[q] # NullLine
    BY <1>3, <2>2 DEF OwnLines
  <2>3. QED
    BY <2>1, <2>2 DEF OwnLines
<1>6. Packed' /\ RowsMatch'
  BY <1>1 DEF Packed, RowsMatch
<1>7. \A q \in Requests : computed'[q] > 0 => conv'[line'[q]] = TailOf(q, computed'[q])
  BY <1>1, <1>2, <1>3, Idle
<1>8. conv'[NullLine] = [k \in 1 .. StateLen |-> Zero]
  BY <1>1 DEF LinesRight
<1>9. QED
  BY <1>1, <1>2, <1>4, <1>5, <1>6, <1>7, <1>8, Idle, IdleAfter

(* The packed input with a row behind it.                                   *)
LEMMA PackedInput ==
    ASSUME NEW r \in Requests \cup {Zero}, NEW past \in Nat, NEW len \in Nat,
           NEW y \in Seq((Requests \cup {Zero}) \X Nat)
    PROVE  LET z == y \o InputsOf(r, past, len)
           IN /\ z \in Seq((Requests \cup {Zero}) \X Nat) /\ Len(z) = Len(y) + len
              /\ \A i \in 1 .. Len(y) : z[i] = y[i]
              /\ \A i \in 1 .. len : z[Len(y) + i] = <<r, past + i>>
<1> DEFINE d == InputsOf(r, past, len)
           n == Len(y)
           T == (Requests \cup {Zero}) \X Nat
<1>1. d \in Seq(T) /\ Len(d) = len /\ n \in Nat /\ \A i \in 1 .. len : d[i] = <<r, past + i>>
  <2>1. d \in [1 .. len -> T] /\ \A i \in 1 .. len : d[i] = <<r, past + i>>
    BY DEF InputsOf
  <2> HIDE DEF d, T
  <2>2. d \in Seq(T) /\ Len(d) = len
    BY <2>1
  <2>3. QED
    BY <2>1, <2>2
<1>0. y \in Seq(T)
  OBVIOUS
<1> HIDE DEF d, T
<1>2. /\ y \o d \in Seq(T) /\ Len(y \o d) = n + len
      /\ \A j \in 1 .. n : (y \o d)[j] = y[j]
      /\ \A j \in 1 .. len : (y \o d)[n + j] = d[j]
  BY <1>0, <1>1, ConcatEntries
<1>3. QED
  BY <1>1, <1>2 DEF d, T

(* A row is put behind a batch.                                             *)
LEMMA PackStep ==
    ASSUME IInv, NEW row \in RowType, Pack(row), row.start = Len(x),
           \A s \in DOMAIN batch : batch[s].req # row.req /\ batch[s].req # Zero,
           IF row.req = Zero
           THEN row.line = NullLine /\ IsDecodeBatch /\ row.len = 1 /\ row.init
           ELSE /\ row.past = computed[row.req] /\ row.line = line[row.req]
                /\ row.line # NullLine /\ (row.init <=> row.past > 0)
                /\ row.past + row.len <= MaxTokens
    PROVE  IInv'
<1> USE DEF IInv
<1> DEFINE n == Len(batch)
           m == Len(x)
           T == (Requests \cup {Zero}) \X Nat
<1>1. /\ maxSeqLen = 0 /\ batch' = Append(batch, row)
      /\ x' = x \o InputsOf(row.req, row.past, row.len)
      /\ UNCHANGED <<computed, line, conv, queue, maxSeqLen, pc, cols, out>>
  BY DEF Pack, requests, InputsOf
<1>2. /\ row.req \in Requests \cup {Zero} /\ row.past \in Nat /\ row.past \in 0 .. MaxTokens
      /\ row.len \in Nat /\ row.len >= 1 /\ row.start \in Nat
  BY TokensAssumption DEF RowType
<1>3. batch \in Seq(RowType) /\ n \in Nat /\ x \in Seq(T) /\ m \in Nat /\ DOMAIN batch = 1 .. n
  BY DEF Typing
<1>4. /\ x' \in Seq(T) /\ Len(x') = m + row.len
      /\ \A i \in 1 .. m : x'[i] = x[i]
      /\ \A i \in 1 .. row.len : x'[m + i] = <<row.req, row.past + i>>
  <2> DEFINE r == row.req
             past == row.past
             len == row.len
  <2>1. r \in Requests \cup {Zero} /\ past \in Nat /\ len \in Nat
    BY <1>2
  <2>2. x \in Seq((Requests \cup {Zero}) \X Nat)
    BY <1>3
  <2> HIDE DEF r, past, len
  <2>3. LET z == x \o InputsOf(r, past, len)
        IN /\ z \in Seq((Requests \cup {Zero}) \X Nat) /\ Len(z) = Len(x) + len
           /\ \A i \in 1 .. Len(x) : z[i] = x[i]
           /\ \A i \in 1 .. len : z[Len(x) + i] = <<r, past + i>>
    BY <2>1, <2>2, PackedInput, Zenon
  <2>4. x' = x \o InputsOf(r, past, len)
    BY <1>1 DEF r, past, len
  <2>5. QED
    BY <2>3, <2>4, Zenon DEF r, past, len
<1>5. /\ batch' \in Seq(RowType) /\ Len(batch') = n + 1 /\ DOMAIN batch' = 1 .. n + 1
      /\ batch'[n + 1] = row /\ \A s \in 1 .. n : batch'[s] = batch[s]
  <2> HIDE DEF RowType
  <2>1. QED
    BY <1>1, <1>3
<1>0. n = Len(batch) /\ m = Len(x) /\ row.start = m
  OBVIOUS
<1> HIDE DEF n, m, T
<1>6. /\ \A s \in 1 .. n + 1 : s \in 1 .. n \/ s = n + 1
      /\ n + 1 \in 1 .. n + 1 /\ \A s \in 1 .. n : s \in 1 .. n + 1 /\ s # n + 1
  BY <1>3
<1>7. Typing'
  BY <1>1, <1>4, <1>5 DEF Typing, T
<1>8. OwnLines'
  BY <1>1 DEF OwnLines
<1>9. \A s \in 1 .. n : /\ batch[s].start \in Nat /\ batch[s].len \in Nat
                        /\ batch[s].start + batch[s].len <= m
  BY <1>0, <1>3, RowFacts DEF Packed
<1>10. Packed'
  <2>1. ASSUME NEW s \in 1 .. n + 1
        PROVE  /\ batch'[s].start + batch'[s].len <= Len(x')
               /\ \A i \in 1 .. batch'[s].len :
                     x'[batch'[s].start + i] = <<batch'[s].req, batch'[s].past + i>>
    <3>1. CASE s = n + 1
      <4>1. batch'[s] = row
        BY <1>5, <3>1
      <4>2. row.start + row.len <= Len(x')
        BY <1>0, <1>2, <1>3, <1>4
      <4>3. QED
        BY <1>0, <1>4, <4>1, <4>2
    <3>2. CASE s \in 1 .. n
      <4>1. batch'[s] = batch[s] /\ s \in DOMAIN batch
        BY <1>3, <1>5, <3>2
      <4>2. batch[s].start + batch[s].len <= Len(x')
        BY <1>2, <1>3, <1>4, <1>9, <3>2
      <4>3. ASSUME NEW i \in 1 .. batch[s].len
            PROVE  x'[batch[s].start + i] = <<batch[s].req, batch[s].past + i>>
        <5>1. batch[s].start + i \in 1 .. m
          BY <1>3, <1>9, <3>2
        <5>2. x[batch[s].start + i] = <<batch[s].req, batch[s].past + i>>
          BY <4>1 DEF Packed
        <5>3. QED
          BY <1>4, <5>1, <5>2
      <4>4. QED
        BY <4>1, <4>2, <4>3
    <3>3. QED
      BY <1>6, <3>1, <3>2
  <2>2. ASSUME NEW s \in 1 .. n + 1, NEW t \in 1 .. n + 1, s < t
        PROVE  batch'[s].start + batch'[s].len <= batch'[t].start
    <3>1. s \in 1 .. n
      BY <1>3, <2>2
    <3>2. batch'[s] = batch[s] /\ s \in DOMAIN batch
      BY <1>3, <1>5, <3>1
    <3>3. CASE t = n + 1
      BY <1>0, <1>5, <1>9, <3>1, <3>2, <3>3
    <3>4. CASE t \in 1 .. n
      <4>1. batch'[t] = batch[t] /\ t \in DOMAIN batch
        BY <1>3, <1>5, <3>4
      <4>2. QED
        BY <2>2, <3>2, <4>1 DEF Packed
    <3>5. QED
      BY <1>6, <3>3, <3>4
  <2>3. ASSUME \A s \in 1 .. n + 1 : batch'[s].len = 1
        PROVE  /\ Len(x') = Len(batch')
               /\ \A s \in 1 .. n + 1 : batch'[s].start = s - 1
    <3>1. row.len = 1 /\ \A s \in DOMAIN batch : batch[s].len = 1
      BY <1>3, <1>5, <1>6, <2>3
    <3>2. m = n /\ \A s \in DOMAIN batch : batch[s].start = s - 1
      BY <1>0, <3>1 DEF Packed
    <3>3. ASSUME NEW s \in 1 .. n + 1 PROVE batch'[s].start = s - 1
      <4>1. CASE s = n + 1
        BY <1>0, <1>3, <1>5, <3>2, <4>1
      <4>2. CASE s \in 1 .. n
        BY <1>3, <1>5, <3>2, <4>2
      <4>3. QED
        BY <1>6, <4>1, <4>2
    <3>4. QED
      BY <1>4, <1>5, <3>1, <3>2, <3>3
  <2>4. QED
    BY <1>5, <2>1, <2>2, <2>3 DEF Packed
<1>11. RowsMatch'
  <2>1. ASSUME NEW s \in 1 .. n + 1, NEW t \in 1 .. n + 1, batch'[s].req = batch'[t].req
        PROVE  s = t
    <3>1. \A u \in 1 .. n : batch'[u].req # row.req
      BY <1>3, <1>5
    <3>2. CASE s \in 1 .. n /\ t \in 1 .. n
      BY <1>3, <1>5, <2>1, <3>2 DEF RowsMatch
    <3>3. CASE ~ (s \in 1 .. n /\ t \in 1 .. n)
      BY <1>5, <1>6, <2>1, <3>1, <3>3
    <3>4. QED
      BY <3>2, <3>3
  <2>2. ASSUME NEW s \in 1 .. n
        PROVE  /\ batch'[s] = batch[s] /\ batch'[s].req # Zero
               /\ batch[s].past = computed[batch[s].req]
               /\ batch[s].line = line[batch[s].req] /\ batch[s].line # NullLine
               /\ batch[s].init <=> batch[s].past > 0
               /\ batch[s].past + batch[s].len <= MaxTokens
    BY <1>3, <1>5 DEF RowsMatch
  <2>3. row.req = Zero => IsDecodeBatch'
    <3>1. ASSUME row.req = Zero
          PROVE  Width = 4 /\ \A s \in 1 .. n + 1 : batch'[s].len = 1 /\ batch'[s].init
      <4>1. IsDecodeBatch /\ row.len = 1 /\ row.init
        BY <3>1
      <4>2. Width = 4 /\ \A s \in 1 .. n : batch[s].len = 1 /\ batch[s].init
        BY <1>3, <4>1 DEF IsDecodeBatch
      <4>3. QED
        BY <1>5, <1>6, <4>1, <4>2
    <3>2. QED
      BY <1>5, <3>1 DEF IsDecodeBatch
  <2>4. ASSUME NEW s \in 1 .. n + 1
        PROVE  IF batch'[s].req = Zero THEN batch'[s].line = NullLine /\ IsDecodeBatch'
               ELSE /\ batch'[s].past = computed[batch'[s].req]
                    /\ batch'[s].line = line[batch'[s].req] /\ batch'[s].line # NullLine
                    /\ batch'[s].init <=> batch'[s].past > 0
                    /\ batch'[s].past + batch'[s].len <= MaxTokens
    <3>1. CASE s \in 1 .. n
      BY <2>2, <3>1
    <3>2. CASE s = n + 1
      BY <1>5, <2>3, <3>2
    <3>3. QED
      BY <1>6, <3>1, <3>2
  <2>5. QED
    BY <1>1, <1>5, <2>1, <2>4 DEF RowsMatch
<1>12. QED
  BY <1>1, <1>7, <1>8, <1>10, <1>11, Idle, IdleAfter

(* A request's next tokens are put behind a batch.                          *)
LEMMA ScheduleStep ==
    ASSUME IInv, NEW r \in Requests, Schedule(r)
    PROVE  IInv'
<1>1. PICK n \in ChunkLens : computed[r] + n <= MaxTokens /\ Pack(Row(r, n))
  BY DEF Schedule
<1> DEFINE row == Row(r, n)
<1>2. line[r] # NullLine /\ RowsOf(r) = {} /\ RowsOf(Zero) = {}
  BY DEF Schedule
<1>3. \A s \in DOMAIN batch : batch[s].req # r /\ batch[s].req # Zero
  BY <1>2 DEF RowsOf
<1>4. /\ computed[r] \in 0 .. MaxTokens /\ line[r] \in Lines \cup {NullLine} /\ Len(x) \in Nat
      /\ n \in Nat \ {0}
  BY TokensAssumption DEF IInv, Typing
<1>5. /\ row.req = r /\ row.start = Len(x) /\ row.len = n /\ row.past = computed[r]
      /\ row.line = line[r] /\ (row.init <=> computed[r] > 0)
  BY DEF Row
<1>6. row \in RowType
  <2> DEFINE i == computed[r] > 0
  <2>1. i \in BOOLEAN
    OBVIOUS
  <2>2. row = [req |-> r, start |-> Len(x), len |-> n, past |-> computed[r],
               line |-> line[r], init |-> i]
    BY DEF Row
  <2> HIDE DEF i, row
  <2>3. QED
    BY <1>4, <2>1, <2>2 DEF RowType
<1>7. r # Zero
  BY NamesAssumption
<1>8. row.past = computed[row.req] /\ row.line = line[row.req] /\ row.line # NullLine
      /\ (row.init <=> row.past > 0) /\ row.past + row.len <= MaxTokens
  BY <1>1, <1>2, <1>5
<1>9. Pack(row)
  BY <1>1
<1> HIDE DEF row
<1>10. QED
  BY <1>3, <1>5, <1>6, <1>7, <1>8, <1>9, PackStep

(* A decode batch is padded.                                                *)
LEMMA PadStep ==
    ASSUME IInv, Pad
    PROVE  IInv'
<1> DEFINE row == PadRow
<1>1. IsDecodeBatch /\ RowsOf(Zero) = {} /\ Pack(row)
  BY DEF Pad
<1>2. \A s \in DOMAIN batch : batch[s].req # Zero
  BY <1>1 DEF RowsOf
<1>3. Len(x) \in Nat /\ MaxTokens \in Nat
  BY TokensAssumption DEF IInv, Typing
<1>4. /\ row.req = Zero /\ row.start = Len(x) /\ row.len = 1 /\ row.line = NullLine /\ row.init
  BY DEF PadRow
<1>5. row \in RowType
  BY <1>3 DEF PadRow, RowType
<1> HIDE DEF row
<1>6. QED
  BY <1>1, <1>2, <1>4, <1>5, PackStep

-----------------------------------------------------------------------------
(* The theorems.                                                            *)

(* The first state.                                                         *)
LEMMA InitStep ==
    ASSUME Init PROVE IInv
<1> USE DEF Init
<1>1. Typing
  BY TokensAssumption DEF Typing, Cell
<1>2. OwnLines /\ Packed /\ RowsMatch /\ LaunchShape
  BY DEF OwnLines, Packed, RowsMatch, LaunchShape
<1>3. DOMAIN pc = {}
  OBVIOUS
<1>4. BlockSteps /\ ColumnsRight /\ OutputsWritten
  BY <1>3 DEF BlockSteps, ColumnsRight, OutputsWritten
<1>5. LinesRight
  BY DEF LinesRight
<1>6. QED
  BY <1>1, <1>2, <1>4, <1>5 DEF IInv

(* Stuttering.                                                              *)
LEMMA StutterStep ==
    ASSUME IInv, UNCHANGED vars
    PROVE  IInv'
<1> USE DEF vars, requests
<1>1. Typing'
  BY DEF IInv, Typing
<1>2. OwnLines' /\ Packed' /\ RowsMatch'
  BY SameBatch DEF IInv
<1>3. LaunchShape'
  BY DEF IInv, LaunchShape, AtKernel, Allowed, Behind, Blocks, Chunks
<1>4. BlockSteps' /\ ColumnsRight'
  BY DEF IInv, BlockSteps, ColumnsRight, HasTokens, SegmentLen, Offset, TailOf
<1>5. \A s : Stored(s)' <=> Stored(s)
  BY DEF Stored
<1>6. LinesRight'
  BY <1>5, SameLines DEF IInv
<1>7. \A s, i : Covered(s, i)' <=> Covered(s, i)
  BY DEF Covered, Offset
<1>8. OutputsWritten'
  BY <1>7, SameOutputs DEF IInv
<1>9. QED
  BY <1>1, <1>2, <1>3, <1>4, <1>6, <1>8 DEF IInv

(* The inductive invariant holds in every state.                            *)
THEOREM Invariant == Spec => []IInv
<1>1. Init => IInv
  BY InitStep
<1>2. IInv /\ [Next]_vars => IInv'
  <2>1. SUFFICES ASSUME IInv, Next PROVE IInv'
    BY StutterStep
  <2>2. CASE \E r \in Requests : Admit(r) \/ Release(r) \/ Schedule(r)
    BY <2>1, <2>2, AdmitStep, ReleaseStep, ScheduleStep
  <2>3. CASE Pad \/ LaunchForward \/ LaunchUpdate \/ StartKernel \/ Finish
    BY <2>1, <2>3, PadStep, LaunchForwardStep, LaunchUpdateStep, StartKernelStep, FinishStep
  <2>4. CASE \E b \in DOMAIN pc : Load(b) \/ StoreByLoop(b) \/ StoreHead(b)
                                  \/ Compute(b) \/ Decode(b)
    BY <2>1, <2>4, LoadStep, StoreByLoopStep, StoreHeadStep, ComputeStep, DecodeStep
  <2>5. QED
    BY <2>1, <2>2, <2>3, <2>4 DEF Next
<1>3. QED
  BY <1>1, <1>2, PTL DEF Spec

(* The variables keep their types: a line always holds as many tokens or    *)
(* zeros as the kernels read, and no launch is longer than its tokens.      *)
THEOREM TypeCorrect == Spec => []TypeOK
<1>1. IInv => TypeOK
  <2>1. SUFFICES ASSUME IInv PROVE TypeOK
    OBVIOUS
  <2> USE DEF IInv
  <2>2. /\ computed \in [Requests -> 0 .. MaxTokens]
        /\ line \in [Requests -> Lines \cup {NullLine}]
        /\ \A l \in Lines \cup {NullLine} : conv[l] \in [1 .. StateLen -> Cell]
    BY <2>1 DEF Typing
  <2>3. \A s \in DOMAIN batch : batch[s].req \in Requests \cup {Zero}
    BY <2>1, RowFacts
  <2>4. maxSeqLen \in 0 .. Len(out)
    <3>1. CASE maxSeqLen = 0
      BY <2>1, <3>1 DEF LaunchShape
    <3>2. CASE maxSeqLen # 0
      <4> DEFINE n == Len(x)
      <4>1. n \in Nat /\ DOMAIN x = 1 .. n /\ maxSeqLen \in Nat /\ maxSeqLen <= n
        BY <2>1, <3>2 DEF LaunchShape, Typing
      <4>2. out = [p \in 1 .. n |-> out[p]]
        BY <2>1, <3>2, <4>1 DEF LaunchShape
      <4> HIDE DEF n
      <4>3. Len(out) = n
        BY <4>1, <4>2
      <4>4. QED
        BY <4>1, <4>3
    <3>3. QED
      BY <3>1, <3>2
  <2>5. \A b \in DOMAIN pc : pc[b] \in {"load", "store", "compute", "done"}
    BY <2>1 DEF BlockSteps
  <2>6. DOMAIN cols = DOMAIN pc
    <3>1. CASE pc = <<>> /\ cols = <<>>
      BY <3>1
    <3>2. CASE ~ (pc = <<>> /\ cols = <<>>)
      BY <2>1, <3>2 DEF LaunchShape, AtKernel
    <3>3. QED
      BY <3>1, <3>2
  <2>7. maxSeqLen = 0 => pc = <<>> /\ queue = <<>>
    BY <2>1 DEF LaunchShape
  <2>8. \A l \in Lines \cup {NullLine} : /\ DOMAIN conv[l] = 1 .. StateLen
                                         /\ \A k \in 1 .. StateLen : conv[l][k] \in Cell
    BY <2>2
  <2>9. QED
    BY <2>2, <2>3, <2>4, <2>5, <2>6, <2>7, <2>8 DEF TypeOK
<1>2. QED
  BY <1>1, Invariant, PTL

(* Whatever the pieces a request arrives in, the kernels they select and    *)
(* the order of the blocks, an output sees the inputs in front of it in its *)
(* own request, and every token has its output when the launch is over.     *)
THEOREM OutputsAreRight == Spec => []OutputsRight
<1>1. IInv => OutputsRight
  <2>1. SUFFICES ASSUME IInv, maxSeqLen # 0, NEW s \in DOMAIN batch, batch[s].req \in Requests,
                        NEW i \in 1 .. batch[s].len
                 PROVE  \/ out[batch[s].start + i] = Window(batch[s].req, batch[s].past + i)
                        \/ out[batch[s].start + i] = Unwritten /\ ~ LaunchIsOver
    BY DEF OutputsRight, SeqStart
  <2>2. batch[s].req # Zero
    BY <2>1, NamesAssumption
  <2>3. \/ out[batch[s].start + i] = Window(batch[s].req, batch[s].past + i)
        \/ out[batch[s].start + i] = Unwritten /\ ~ Covered(s, i)
    BY <2>1, <2>2 DEF IInv, OutputsWritten
  <2>4. LaunchIsOver => Covered(s, i)
    BY <2>1, OverFacts DEF LaunchIsOver
  <2>5. QED
    BY <2>3, <2>4
<1>2. QED
  BY <1>1, Invariant, PTL

(* Between launches a request's line holds its last inputs, and the line    *)
(* that all padding shares is as it was.                                    *)
THEOREM StateIsRight == Spec => []StateIsTail
<1>1. IInv => StateIsTail
  BY Idle DEF StateIsTail
<1>2. QED
  BY <1>1, Invariant, PTL
=============================================================================
