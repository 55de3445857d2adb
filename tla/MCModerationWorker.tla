-------------------------- MODULE MCModerationWorker --------------------------
(* Constants of the runs of ModerationWorker.                              *)
EXTENDS ModerationWorker, TLC

\* All requests share one partition: they queue behind one another.
OnePartition == [r \in Requests |-> CHOOSE p \in Partitions : TRUE]

\* The first webhook belongs to the tenant of the requests, others to another.
FirstHook == CHOOSE h \in Webhooks : TRUE
TwoTenants == [x \in Requests \cup Webhooks |-> IF x \in Requests \cup {FirstHook} THEN "a" ELSE "b"]
OneTenant == [x \in Requests \cup Webhooks |-> "a"]

Faults(t, e, c, b) == [transient |-> t, error |-> e, crash |-> c, rebalance |-> b]
NoFaults == Faults(0, 0, 0, 0)
OneTransient == Faults(1, 0, 0, 0)
OneCrash == Faults(0, 0, 1, 0)
OneRebalance == Faults(0, 0, 0, 1)
FewFaults == Faults(2, 1, 1, 1)

\* Workers and tokens are interchangeable.
Symmetry == Permutations(Workers) \cup Permutations(Tokens)
===============================================================================
