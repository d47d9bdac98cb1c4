----------------------------- MODULE AllReduce ------------------------------
(* What pg_all_reduce promises its callers, with no ring, pieces or          *)
(* messages: a collective call returns at a rank only after every rank has   *)
(* entered it; every element it returns combines the contributions of all    *)
(* ranks to that call, each once, in some order; and all ranks return the    *)
(* same array, so floating-point sums agree bit for bit.                     *)
EXTENDS Integers, Sequences, FiniteSets

CONSTANTS
    Ranks,        \* the ranks of the process group
    Indices,      \* the elements of the array
    NumCalls      \* how many all-reduces the application makes

VARIABLES
    entered,      \* entered[r]: calls rank r has entered
    results       \* results[r]: the arrays its calls returned, in order

Init ==
    /\ entered = [r \in Ranks |-> 0]
    /\ results = [r \in Ranks |-> <<>>]

Idle(r) == entered[r] = Len(results[r])

Enter(r) ==
    /\ Idle(r)
    /\ entered[r] < NumCalls
    /\ entered' = [entered EXCEPT ![r] = @ + 1]
    /\ UNCHANGED results

\* The contributions of all ranks to call c, each once, in some order.
Combination(value, c) ==
    /\ DOMAIN value = 1..Cardinality(Ranks)
    /\ {value[i] : i \in DOMAIN value} = Ranks \X {c}

\* An array call c may return: the one it has already returned elsewhere, if any.
Outcome(array, c) ==
    /\ DOMAIN array = Indices
    /\ \A i \in Indices : Combination(array[i], c)
    /\ \A other \in Ranks : Len(results[other]) >= c => results[other][c] = array

\* The new array is constrained, not chosen from a set.
Return(r) ==
    /\ ~Idle(r)
    /\ \A other \in Ranks : entered[other] >= entered[r]
    /\ Len(results'[r]) = entered[r]
    /\ results' = [results EXCEPT ![r] = Append(@, results'[r][entered[r]])]
    /\ Outcome(results'[r][entered[r]], entered[r])
    /\ UNCHANGED entered

Next == \E r \in Ranks : Enter(r) \/ Return(r)

Spec == Init /\ [][Next]_<<entered, results>>

=============================================================================
