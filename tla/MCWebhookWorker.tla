--------------------------- MODULE MCWebhookWorker ---------------------------
(* Constants of the runs of WebhookWorker.                                 *)
EXTENDS WebhookWorker, TLC

\* The first delivery belongs to one webhook, the others to another, if any.
FirstHook == CHOOSE h \in Hooks : TRUE
LastHook == CHOOSE h \in Hooks : Cardinality(Hooks) > 1 => h # FirstHook
Owners == [d \in Deliveries |-> IF d = 1 THEN FirstHook ELSE LastHook]

\* Workers and tokens are interchangeable: nothing compares or orders them.
Symmetry == Permutations(Workers) \cup Permutations(Tokens)
===============================================================================
