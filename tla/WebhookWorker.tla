----------------------------- MODULE WebhookWorker -----------------------------
(***************************************************************************)
(* The webhook workers (app/workers/webhook_worker.py).  Each process      *)
(* recovers stale claims, claims a batch of due deliveries and attempts    *)
(* them one by one: it reads delivery and webhook, POSTs with no lock held *)
(* and records the outcome if the claim is still its own.                  *)
(*                                                                         *)
(* One action per database transaction or statement, and one per answer to *)
(* a POST.  The clock is abstracted to two flags: "stale", claimed_at is   *)
(* older than the timeout, and "due", next_attempt_at has come.            *)
(***************************************************************************)
EXTENDS Naturals, FiniteSets

CONSTANTS
    NumDeliveries,   \* delivery rows; their numbers are the order of created_at
    Hooks,           \* webhooks
    HookOf,          \* the webhook of each delivery
    Workers,         \* webhook worker processes
    Tokens,          \* the uuid4 values claims draw from
    NoToken,         \* claim_token IS NULL
    BatchSize,       \* WEBHOOK_CLAIM_BATCH_SIZE
    MaxAttempts,     \* WEBHOOK_MAX_ATTEMPTS
    MaxFaults        \* bound on crashes, lost answers and overrun claims

Deliveries == 1 .. NumDeliveries
NoDelivery == 0

ASSUME WebhookAssumption ==
    /\ NumDeliveries \in Nat /\ HookOf \in [Deliveries -> Hooks]
    /\ BatchSize \in Nat \ {0} /\ MaxAttempts \in Nat \ {0}
    /\ MaxFaults \in Nat /\ NoToken \notin Tokens

VARIABLES
    row,       \* the webhook_deliveries table
    hook,      \* the webhooks table
    worker,    \* per process: program point, current item, outcome, claimed batch
    tenant,    \* per delivery: POSTs made, copies accepted, and whether there
               \* ever was a reason to stop trying
    faults     \* faults so far (bounded by MaxFaults)

vars == <<row, hook, worker, tenant, faults>>

Settled == {"delivered", "failed", "gone"}
Statuses == {"absent", "pending", "processing"} \cup Settled
Points == {"recover", "claim", "load", "check", "post", "record"}
Outcomes == {"delivered", "failed", "retry"}

Absent == [status |-> "absent", token |-> NoToken, stale |-> FALSE, due |-> FALSE, attempts |-> 0]
Polling == [pc |-> "recover", item |-> NoDelivery, out |-> "none",
            held |-> [d \in Deliveries |-> NoToken]]

TypeOK ==
    /\ row \in [Deliveries -> [status : Statuses, token : Tokens \cup {NoToken},
                               stale : BOOLEAN, due : BOOLEAN, attempts : Nat]]
    /\ hook \in [Hooks -> {"enabled", "disabled", "deleted"}]
    /\ worker \in [Workers -> [pc : Points, item : Deliveries \cup {NoDelivery},
                               out : Outcomes \cup {"none"},
                               held : [Deliveries -> Tokens \cup {NoToken}]]]
    /\ tenant \in [Deliveries -> [posts : Nat, copies : Nat, refused : BOOLEAN]]
    /\ faults \in Nat

-------------------------------------------------------------------------------
(* Helpers.  A definition marked "slip" is no part of the model: it is a   *)
(* plausible bug in the definition below it, kept to show that some        *)
(* property would notice.                                                  *)

Oldest(S) == CHOOSE d \in S : \A e \in S : d <= e
Item(w) == worker[w].item
At(w, point) == worker[w].pc = point
GoTo(w, point) == worker' = [worker EXCEPT ![w].pc = point]
Fault == faults < MaxFaults /\ faults' = faults + 1

\* The rows the claim query and the recovery query select.
AnyOpen(d) == row[d].status \in {"pending", "processing"} /\ row[d].due   \* slip
Claimable(d) == row[d].status = "pending" /\ row[d].due
Batch == {d \in Deliveries : /\ Claimable(d)
                             /\ Cardinality({e \in 1 .. (d - 1) : Claimable(e)}) < BatchSize}
NeverStale == {}   \* slip
StaleClaims == {d \in Deliveries : row[d].status = "processing" /\ row[d].stale}

Held(w) == {d \in Deliveries : worker[w].held[d] # NoToken}

\* The condition of the first SELECT and of the last UPDATE of an attempt.
ByStatus(w) == row[Item(w)].status = "processing"   \* slip
OwnsClaim(w) == /\ row[Item(w)].status = "processing"
                /\ row[Item(w)].token = worker[w].held[Item(w)]

\* uuid4(): a value nobody uses for this delivery.
Unused(d) == {t \in Tokens : row[d].token # t /\ \A w \in Workers : worker[w].held[d] # t}

\* The loop over the batch goes on, or the process polls again.
Advance(w) == LET rest == Held(w) \ {Item(w)} IN
    worker' = [worker EXCEPT ![w] =
        IF rest = {} THEN Polling
        ELSE [pc |-> "load", item |-> Oldest(rest), out |-> "none",
              held |-> [@.held EXCEPT ![Item(w)] = NoToken]]]

\* An exception leaves the loop: the rest of the batch stays claimed in the table.
DropsBatch(w) == worker' = [worker EXCEPT ![w] = Polling]

\* The row without its claim.
Free(d, status) == [row[d] EXCEPT !.status = status, !.token = NoToken, !.stale = FALSE]

\* A failure that is final although the answer allowed another attempt.
OneTooFew(d) == row[d].attempts + 1 >= MaxAttempts   \* slip
Exhausted(d) == row[d].attempts >= MaxAttempts

-------------------------------------------------------------------------------
(* The batch.                                                              *)

\* recover_stale_claims: next_attempt_at stays, so the row is due at once.
LeavesToken(w) ==   \* slip
    /\ At(w, "recover")
    /\ row' = [d \in Deliveries |-> IF d \in StaleClaims THEN [row[d] EXCEPT !.status = "pending"] ELSE row[d]]
    /\ GoTo(w, "claim")
    /\ UNCHANGED <<hook, tenant, faults>>
Recover(w) ==
    /\ At(w, "recover")
    /\ row' = [d \in Deliveries |-> IF d \in StaleClaims THEN Free(d, "pending") ELSE row[d]]
    /\ GoTo(w, "claim")
    /\ UNCHANGED <<hook, tenant, faults>>

ClaimNothing(w) ==
    /\ At(w, "claim")
    /\ Batch = {}
    /\ GoTo(w, "recover")
    /\ UNCHANGED <<row, hook, tenant, faults>>

\* claim_pending_deliveries: a token each, and one more attempt each.
CountsNothing(d) == row[d].attempts   \* slip
CountAttempt(d) == row[d].attempts + 1
Claim(w) ==
    /\ At(w, "claim")
    /\ Batch # {}
    /\ \E tok \in [Batch -> Tokens] :
        /\ \A d \in Batch : tok[d] \in Unused(d)
        /\ row' = [d \in Deliveries |->
                     IF d \in Batch
                     THEN [row[d] EXCEPT !.status = "processing", !.token = tok[d], !.stale = FALSE,
                               !.attempts = CountAttempt(d)]
                     ELSE row[d]]
        /\ worker' = [worker EXCEPT ![w] =
                     [pc |-> "load", item |-> Oldest(Batch), out |-> "none",
                      held |-> [d \in Deliveries |-> IF d \in Batch THEN tok[d] ELSE NoToken]]]
    /\ UNCHANGED <<hook, tenant, faults>>

-------------------------------------------------------------------------------
(* _attempt.                                                               *)

\* The claim was recovered meanwhile, or the delivery deleted: return.
SkipItem(w) ==
    /\ At(w, "load") /\ ~OwnsClaim(w)
    /\ Advance(w)
    /\ UNCHANGED <<row, hook, tenant, faults>>

LoadDelivery(w) ==
    /\ At(w, "load") /\ OwnsClaim(w)
    /\ GoTo(w, "check")
    /\ UNCHANGED <<row, hook, tenant, faults>>

\* The webhook is read in a statement of its own.
Concludes(w, outcome, point) ==
    worker' = [worker EXCEPT ![w] = [@ EXCEPT !.out = outcome, !.pc = point]]
Refuse(d) == tenant' = [tenant EXCEPT ![d].refused = TRUE]

\* Not found, disabled, or a payload over the size limit.
HookUnusable(w) ==
    /\ At(w, "check")
    /\ Concludes(w, "failed", "record")
    /\ Refuse(Item(w))
    /\ UNCHANGED <<row, hook, faults>>

HookUsable(w) ==
    /\ At(w, "check") /\ hook[HookOf[Item(w)]] = "enabled"
    /\ GoTo(w, "post")
    /\ UNCHANGED <<row, hook, tenant, faults>>

\* The transaction was rolled back before the POST, so the URL is read again:
\* a webhook deleted meanwhile raises what _attempt does not catch.
HookVanishes(w) ==
    /\ At(w, "post") /\ hook[HookOf[Item(w)]] = "deleted"
    /\ DropsBatch(w)
    /\ UNCHANGED <<row, hook, tenant, faults>>

MayPost(w) == At(w, "post") /\ hook[HookOf[Item(w)]] # "deleted"

\* The URL does not pass _validate_destination: nothing is sent.
BadDestination(w) ==
    /\ MayPost(w)
    /\ Concludes(w, "failed", "record")
    /\ Refuse(Item(w))
    /\ UNCHANGED <<row, hook, faults>>

Posts(w, accepted, refused) ==
    tenant' = [tenant EXCEPT ![Item(w)] =
                  [posts |-> @.posts + 1, copies |-> @.copies + IF accepted THEN 1 ELSE 0,
                   refused |-> @.refused \/ refused]]

\* 2xx.
PostAccepted(w) ==
    /\ MayPost(w)
    /\ Posts(w, TRUE, FALSE)
    /\ Concludes(w, "delivered", "record")
    /\ UNCHANGED <<row, hook, faults>>

\* Any other answer than 2xx, 408, 429 and 5xx.
PostRejected(w) ==
    /\ MayPost(w)
    /\ Posts(w, FALSE, TRUE)
    /\ Concludes(w, "failed", "record")
    /\ UNCHANGED <<row, hook, faults>>

\* 408, 429, 5xx, no connection.
BusyIsFine(w) ==   \* slip
    /\ MayPost(w)
    /\ Posts(w, FALSE, FALSE)
    /\ Concludes(w, "delivered", "record")
    /\ UNCHANGED <<row, hook, faults>>
PostDeferred(w) ==
    /\ MayPost(w)
    /\ Posts(w, FALSE, FALSE)
    /\ Concludes(w, "retry", "record")
    /\ UNCHANGED <<row, hook, faults>>

\* The tenant accepted the event, but the answer did not arrive in time.
PostUnclear(w) ==
    /\ MayPost(w) /\ Fault
    /\ Posts(w, TRUE, FALSE)
    /\ Concludes(w, "retry", "record")
    /\ UNCHANGED <<row, hook>>

\* The row after an attempt; a Retry-After of 0 makes it due at once.
Recorded(w, due) == LET d == Item(w) IN
    CASE worker[w].out = "delivered" -> Free(d, "delivered")
      [] worker[w].out = "failed" -> Free(d, "failed")
      [] worker[w].out = "retry" -> IF Exhausted(d) THEN Free(d, "failed")
                                    ELSE [Free(d, "pending") EXCEPT !.due = due]

Writes(w) == \E due \in BOOLEAN :
    row' = IF OwnsClaim(w) THEN [row EXCEPT ![Item(w)] = Recorded(w, due)] ELSE row

Record(w) ==
    /\ At(w, "record")
    /\ Writes(w)
    /\ Advance(w)
    /\ UNCHANGED <<hook, tenant, faults>>

\* The UPDATE raises, before or after its transaction took effect.
RecordRaises(w) ==
    /\ At(w, "record") /\ Fault
    /\ UNCHANGED row \/ Writes(w)
    /\ DropsBatch(w)
    /\ UNCHANGED <<hook, tenant>>

-------------------------------------------------------------------------------
(* The environment.                                                        *)

\* A moderation worker commits the delivery together with the outcome.
Create(d) ==
    /\ row[d].status = "absent" /\ hook[HookOf[d]] = "enabled"
    /\ row' = [row EXCEPT ![d] = [Absent EXCEPT !.status = "pending", !.due = TRUE]]
    /\ UNCHANGED <<hook, worker, tenant, faults>>

\* PATCH /webhooks/{id}.
UpdateWebhook(h) ==
    /\ hook[h] # "deleted"
    /\ \E flag \in {"enabled", "disabled"} \ {hook[h]} : hook' = [hook EXCEPT ![h] = flag]
    /\ UNCHANGED <<row, worker, tenant, faults>>

\* DELETE /webhooks/{id}: the foreign key deletes its deliveries with it.
DeleteWebhook(h) ==
    /\ hook[h] # "deleted"
    /\ hook' = [hook EXCEPT ![h] = "deleted"]
    /\ row' = [d \in Deliveries |-> IF HookOf[d] = h THEN [Absent EXCEPT !.status = "gone"] ELSE row[d]]
    /\ UNCHANGED <<worker, tenant, faults>>

\* The process dies and restarts, or an exception reaches the loop of main().
LoseBatch(w) ==
    /\ worker[w] # Polling /\ Fault
    /\ DropsBatch(w)
    /\ UNCHANGED <<row, hook, tenant>>

\* The back-off ends.
BecomesDue(d) ==
    /\ row[d].status = "pending" /\ ~row[d].due
    /\ row' = [row EXCEPT ![d].due = TRUE]
    /\ UNCHANGED <<hook, worker, tenant, faults>>

\* WEBHOOK_CLAIM_TIMEOUT_SECONDS pass.  For an abandoned claim that is what
\* recovery waits for; for a claim in use it means a slow batch: a fault.
ClaimGoesStale(d) ==
    /\ row[d].status = "processing" /\ ~row[d].stale
    /\ row' = [row EXCEPT ![d].stale = TRUE]
    /\ IF \E w \in Workers : worker[w].held[d] = row[d].token THEN Fault ELSE UNCHANGED faults
    /\ UNCHANGED <<hook, worker, tenant>>

-------------------------------------------------------------------------------
Init ==
    /\ row = [d \in Deliveries |-> Absent]
    /\ hook = [h \in Hooks |-> "enabled"]
    /\ worker = [w \in Workers |-> Polling]
    /\ tenant = [d \in Deliveries |-> [posts |-> 0, copies |-> 0, refused |-> FALSE]]
    /\ faults = 0

Attempt(w) ==
    \/ SkipItem(w) \/ LoadDelivery(w)
    \/ HookUnusable(w) \/ HookUsable(w) \/ HookVanishes(w)
    \/ BadDestination(w) \/ PostAccepted(w) \/ PostRejected(w) \/ PostDeferred(w)
    \/ Record(w)

Step(w) == Recover(w) \/ ClaimNothing(w) \/ Claim(w) \/ Attempt(w)

Next ==
    \/ \E w \in Workers : Step(w) \/ PostUnclear(w) \/ RecordRaises(w) \/ LoseBatch(w)
    \/ \E d \in Deliveries : Create(d) \/ BecomesDue(d) \/ ClaimGoesStale(d)
    \/ \E h \in Hooks : UpdateWebhook(h) \/ DeleteWebhook(h)

Spec == Init /\ [][Next]_vars

\* main() polls for ever, a POST ends (it has a timeout) and time passes.
Fairness ==
    /\ \A w \in Workers : WF_vars(Step(w))
    /\ \A d \in Deliveries : WF_vars(BecomesDue(d)) /\ WF_vars(ClaimGoesStale(d))

FairSpec == Spec /\ Fairness

-------------------------------------------------------------------------------
(* Properties.                                                             *)

\* A claim token sits in a row exactly while it is processing, and no two workers
\* both hold the claim a row records.
ClaimIsExclusive == \A d \in Deliveries :
    /\ row[d].token # NoToken <=> row[d].status = "processing"
    /\ \A v, w \in Workers :
         row[d].token # NoToken /\ worker[v].held[d] = row[d].token
                                /\ worker[w].held[d] = row[d].token => v = w

\* A tenant gets an event twice only after a crash, a lost answer or a claim
\* that was overrun: the disputed claim itself never costs a copy.
DuplicatesNeedFaults == \A d \in Deliveries : tenant[d].copies <= 1 + faults

\* Each POST was counted before it was made, and beyond the limit a delivery is
\* claimed again only when a claim was lost: by a fault, or with the batch of a
\* webhook deleted in the middle.
AttemptsAreCounted == \A d \in Deliveries : row[d].status # "gone" =>
    /\ tenant[d].posts <= row[d].attempts
    /\ row[d].attempts <= MaxAttempts + faults + Cardinality({h \in Hooks : hook[h] = "deleted"})

\* An event is given up only for a reason: the tenant or the settings refused it,
\* or as many attempts as the configuration grants were counted.
GivenUpForAReason == \A d \in Deliveries :
    row[d].status = "failed" => tenant[d].refused \/ row[d].attempts >= MaxAttempts

\* A row leaves a claim that is not stale only by the worker holding that claim,
\* at the end of its attempt, or with its webhook.
FencedStep == \A d \in Deliveries :
    row[d].status = "processing" /\ ~row[d].stale /\ row'[d].status # "processing" =>
        \/ row'[d].status = "gone"
        \/ \E w \in Workers : /\ Item(w) = d /\ worker[w].pc = "record"
                              /\ worker[w].held[d] = row[d].token
Fenced == [][FencedStep]_vars

\* The workers deliver at least once: a delivery is marked delivered only when the
\* tenant has it, and what is delivered or failed is never attempted again.
StateOf(status) ==
    CASE status = "absent" -> "absent"
      [] status \in {"pending", "processing"} -> "open"
      [] status = "delivered" -> "done"
      [] status = "failed" -> "dropped"
      [] status = "gone" -> "removed"
AbsState == [d \in Deliveries |-> StateOf(row[d].status)]
Copies == [d \in Deliveries |-> tenant[d].copies]
Queue == INSTANCE AtLeastOnce WITH Items <- Deliveries, state <- AbsState, copies <- Copies
ImplementsAtLeastOnce == Queue!Spec

\* What the proofs need besides: an attempt is about a delivery of the worker's batch,
\* an outcome to record has its cause, and rows under a claim exist.
LocalsMatchPoint == \A w \in Workers :
    /\ worker[w].pc \in {"load", "check", "post", "record"} =>
         Item(w) \in Deliveries /\ worker[w].held[Item(w)] # NoToken
    /\ worker[w].pc = "record" =>
         /\ worker[w].out \in Outcomes
         /\ worker[w].out = "delivered" => tenant[Item(w)].copies > 0
         /\ worker[w].out = "failed" => tenant[Item(w)].refused
    /\ \A d \in Deliveries : worker[w].held[d] # NoToken => row[d].status # "absent"

IInv == TypeOK /\ LocalsMatchPoint /\ ClaimIsExclusive /\ GivenUpForAReason

\* Every delivery is eventually delivered, given up or deleted.
EventuallySettled == \A d \in Deliveries :
    row[d].status # "absent" ~> row[d].status \in Settled
===============================================================================
