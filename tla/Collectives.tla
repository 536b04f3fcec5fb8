---------------------------- MODULE Collectives -----------------------------
(* What a caller of the custom collectives is promised.  Every rank issues  *)
(* the same program of launches; the k-th result of a rank combines, at     *)
(* every element, exactly the k-th inputs of the ranks: all of them for an  *)
(* all-reduce, the owning one for an all-gather, and those of the element's *)
(* whole row where the sum is normalised by row.                            *)
EXTENDS Integers, Sequences

CONSTANTS
    NRanks,     \* the size of the communicator
    RowSize,    \* elements in a row of the normalised collectives
    Programs    \* the launch sequences the ranks may run

Ranks == 0 .. NRanks - 1

VARIABLES
    program,    \* the launches, the same on every rank
    supplied,   \* supplied[r]: how many inputs rank r has handed over
    results     \* results[r]: the results rank r has been given, in order

vars == <<program, supplied, results>>

(* element i of rank q's k-th input *)
Contribution(q, k, i) == <<q, k, i>>

FusedKinds == {"fused_one_stage", "fused_two_shot"}

Row(i) == (i \div RowSize) * RowSize .. (i \div RowSize) * RowSize + RowSize - 1

Expected(k) ==
    LET l == program[k]
        Terms(i) == IF l.kind \in FusedKinds THEN Row(i) ELSE {i}
    IN  IF l.kind = "all_gather"
        THEN [j \in 0 .. NRanks * l.size - 1 |->
                 {Contribution(j \div l.size, k, j % l.size)}]
        ELSE [i \in 0 .. l.size - 1 |->
                 {Contribution(q, k, j) : q \in Ranks, j \in Terms(i)}]

Init ==
    /\ program \in Programs
    /\ supplied = [r \in Ranks |-> 0]
    /\ results = [r \in Ranks |-> <<>>]

Supply(r) ==
    /\ supplied[r] = Len(results[r])
    /\ supplied[r] < Len(program)
    /\ supplied' = [supplied EXCEPT ![r] = @ + 1]
    /\ UNCHANGED <<program, results>>

Return(r) ==
    /\ supplied[r] = Len(results[r]) + 1
    /\ \A q \in Ranks : supplied[q] >= supplied[r]
    /\ results' = [results EXCEPT ![r] = Append(@, Expected(supplied[r]))]
    /\ UNCHANGED <<program, supplied>>

Next == \E r \in Ranks : Supply(r) \/ Return(r)

Spec == Init /\ [][Next]_vars
=============================================================================
