------------------------------ MODULE AtLeastOnce ------------------------------
(***************************************************************************)
(* What a worker that takes items from a table and sends them promises:    *)
(* an item counts as done only after the other side has a copy, copies may *)
(* repeat, even after that, and what is settled stays settled.             *)
(***************************************************************************)
EXTENDS Naturals

CONSTANT Items

VARIABLES
    state,    \* what the table says of each item
    copies    \* copies of each item the other side has

States == {"absent", "open", "done", "dropped", "removed"}

Init ==
    /\ state = [i \in Items |-> "absent"]
    /\ copies = [i \in Items |-> 0]

Moves(i, from, to) ==
    /\ state[i] = from
    /\ state' = [state EXCEPT ![i] = to]
    /\ UNCHANGED copies

Accept(i) == Moves(i, "absent", "open")
Finish(i) == copies[i] > 0 /\ Moves(i, "open", "done")
GiveUp(i) == Moves(i, "open", "dropped")

\* A copy arrives; a sender that was overtaken may still send one.
Arrive(i) ==
    /\ state[i] # "absent"
    /\ copies' = [copies EXCEPT ![i] = @ + 1]
    /\ UNCHANGED state

\* The items of an owner who leaves are taken out of the table.
Remove(S) ==
    /\ state' = [i \in Items |-> IF i \in S THEN "removed" ELSE state[i]]
    /\ UNCHANGED copies

\* A queue that never gives up, and one that may.
Keeps == \E i \in Items : Accept(i) \/ Arrive(i) \/ Finish(i)
Next == Keeps \/ (\E i \in Items : GiveUp(i)) \/ (\E S \in SUBSET Items : Remove(S))

LosslessSpec == Init /\ [][Keeps]_<<state, copies>>
Spec == Init /\ [][Next]_<<state, copies>>
===============================================================================
