----------------------------- MODULE ModerationLog ----------------------------
(***************************************************************************)
(* What the dashboard can ask the API about a tenant's requests            *)
(* (app/api/v1/endpoints/metrics.py and moderation.py): the log of         *)
(* requests, and the status and result of each.  Requests arrive and are   *)
(* decided while the dashboard looks.  A request is named by its place in  *)
(* the log, the oldest first.                                              *)
(***************************************************************************)
EXTENDS Integers, FiniteSets

CONSTANTS
    NumRequests,   \* bound on requests of the tenant
    Outcomes       \* how they end: a bound of the runs, Final in the code

Requests == 1 .. NumRequests
NoRequest == 0

Unfinished == {"pending", "processing"}
Final == {"approved", "flagged", "failed"}

ASSUME LogAssumption == NumRequests \in Nat /\ Outcomes \subseteq Final

VARIABLES
    count,    \* requests submitted so far
    status    \* of each request, once submitted

server == <<count, status>>

Submitted == 1 .. count

ServerTypeOK ==
    /\ count \in 0 .. NumRequests
    /\ status \in [Requests -> Unfinished \cup Final]

\* One page of the log, newest first: OFFSET and LIMIT.
Page(number, size) ==
    {r \in Submitted : (number - 1) * size <= count - r /\ count - r < number * size}

Submit ==
    /\ count < NumRequests
    /\ count' = count + 1
    /\ UNCHANGED status

\* The moderation worker claims a request, decides it, gives up or lets it wait.  A "slip"
\* is no part of the model: it is a plausible bug in the definition below it.
ClaimsDecided(r) ==   \* slip
    /\ r \in Submitted
    /\ \/ /\ status[r] # "processing"
          /\ status' = [status EXCEPT ![r] = "processing"]
       \/ /\ status[r] = "processing"
          /\ \E s \in Outcomes \cup {"pending"} : status' = [status EXCEPT ![r] = s]
    /\ UNCHANGED count
Decide(r) ==
    /\ r \in Submitted
    /\ \/ /\ status[r] = "pending"
          /\ status' = [status EXCEPT ![r] = "processing"]
       \/ /\ status[r] = "processing"
          /\ \E s \in Outcomes \cup {"pending"} : status' = [status EXCEPT ![r] = s]
    /\ UNCHANGED count

ServerInit == count = 0 /\ status = [r \in Requests |-> "pending"]
ServerNext == Submit \/ \E r \in Requests : Decide(r)
===============================================================================
