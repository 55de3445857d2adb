------------------------- MODULE ModerationLifecycle -------------------------
(***************************************************************************)
(* What the moderation workers promise a tenant, without Kafka, claims,    *)
(* retries or processes: a request is decided once, and the transaction    *)
(* that decides it tells every webhook that wants to know.                 *)
(***************************************************************************)
CONSTANTS Requests, Webhooks, TenantOf

VARIABLES
    outcome,   \* "open", or the final status GET /moderation/{id} reports
    told,      \* <<webhook, request>>: a delivery of the outcome is on record
    enabled    \* webhooks that want to know

Outcomes == {"approved", "flagged", "failed"}
Audience(r) == {h \in enabled : TenantOf[h] = TenantOf[r]} \X {r}

Init ==
    /\ outcome = [r \in Requests |-> "open"]
    /\ told = {}
    /\ enabled \in SUBSET Webhooks

Decide(r) ==
    /\ outcome[r] = "open"
    /\ \E o \in Outcomes : outcome' = [outcome EXCEPT ![r] = o]
    /\ told' = told \cup Audience(r)
    /\ UNCHANGED enabled

\* A repeated record tells webhooks enabled since, never one of another tenant.
Remind(r) ==
    /\ outcome[r] # "open"
    /\ told' = told \cup Audience(r)
    /\ UNCHANGED <<outcome, enabled>>

Update(h) ==
    /\ enabled' \in {enabled \cup {h}, enabled \ {h}}
    /\ UNCHANGED <<outcome, told>>

Next == (\E r \in Requests : Decide(r) \/ Remind(r)) \/ (\E h \in Webhooks : Update(h))

Spec == Init /\ [][Next]_<<outcome, told, enabled>>
===============================================================================
