--------------------------- MODULE ModerationWorker ---------------------------
(***************************************************************************)
(* The moderation workers (app/workers/moderation_worker.py): a Kafka      *)
(* consumer group that turns pending requests into approved, flagged or    *)
(* failed ones and creates the webhook deliveries that announce them.      *)
(*                                                                         *)
(* One action per database transaction of process_message (each starts by  *)
(* taking the request row FOR UPDATE), per inference outcome and per step  *)
(* of the consumer loop.  Kafka keeps, per partition, the log, the offset  *)
(* committed for the group and the owner's in-memory position.             *)
(***************************************************************************)
EXTENDS Naturals, Sequences, FiniteSets

CONSTANTS
    Requests,      \* moderation_request rows
    NoRequest,     \* what a malformed record, or one of an unknown id, names
    Workers,       \* worker processes of the group "moderation-worker"
    NoWorker,      \* a partition nobody owns
    Partitions,    \* partitions of moderation.requests
    PartitionOf,   \* the partition of a request: records are keyed by its id
    Webhooks,      \* webhooks of the tenants
    TenantOf,      \* the tenant of each request and webhook
    Tokens,        \* the uuid4 values claims draw from
    NoToken,       \* processing_token IS NULL
    MaxRetries,    \* MAX_RETRIES
    MaxCopies,     \* bound on the records of one request (the outbox may resend)
    MaxFaults      \* bound on the faults of each kind

FaultKinds == {"transient", "error", "crash", "rebalance"}

ASSUME WorkerAssumption ==
    /\ NoRequest \notin Requests /\ NoWorker \notin Workers /\ NoToken \notin Tokens
    /\ PartitionOf \in [Requests -> Partitions]
    /\ MaxRetries \in Nat \ {0} /\ MaxCopies \in Nat
    /\ MaxFaults \in [FaultKinds -> Nat]

VARIABLES
    request,       \* moderation_request joined with moderation_results
    deliveries,    \* the webhook_deliveries table
    enabled,       \* webhooks whose enabled flag is set
    worker,        \* local variables and program point of each worker
    log,           \* per partition: the records appended so far
    position,      \* per partition: records the owner's consumer has fetched
    committed,     \* per partition: offset committed for the group
    owner,         \* per partition: the worker it is assigned to
    faults         \* faults of each kind so far

db == <<request, deliveries, enabled>>
kafka == <<log, position, committed, owner>>
vars == <<request, deliveries, enabled, worker, log, position, committed, owner, faults>>

\* is_flagged of a result, as the status it is reported as.
Verdicts == {"clear", "hit"}
CompletedStatus(v) == IF v = "hit" THEN "flagged" ELSE "approved"

Failures == {"transient", "permanent"}
Completed == {"approved", "flagged"}
Terminal == Completed \cup {"failed"}
Statuses == {"pending", "processing"} \cup Terminal
EventTypes == {"moderation.completed", "moderation.failed"}
Points == {"idle", "got", "infer", "persist", "commit"}

Idle == [pc |-> "idle", req |-> NoRequest, token |-> NoToken, out |-> "none"]

TypeOK ==
    /\ request \in [Requests -> [status : Statuses, token : Tokens \cup {NoToken}, retries : Nat,
                                 result : Verdicts \cup {"none"}, stale : BOOLEAN]]
    /\ deliveries \subseteq [hook : Webhooks, req : Requests, event : EventTypes, status : Terminal]
    /\ enabled \subseteq Webhooks
    /\ worker \in [Workers -> [pc : Points, req : Requests \cup {NoRequest},
                               token : Tokens \cup {NoToken},
                               out : Verdicts \cup Failures \cup {"none"}]]
    /\ log \in [Partitions -> Seq(Requests \cup {NoRequest})]
    /\ position \in [Partitions -> Nat]
    /\ committed \in [Partitions -> Nat]
    /\ owner \in [Partitions -> Workers \cup {NoWorker}]
    /\ faults \in [FaultKinds -> Nat]

-------------------------------------------------------------------------------
(* Helpers: the decisions of process_message.  A definition marked "slip"  *)
(* is no part of the model: it is a plausible bug in the definition below  *)
(* it, kept to show that some property would notice.                       *)

HasResult(r) == request[r].result # "none"

\* A redelivered record of a request that is already decided.
OnlyResult(r) == HasResult(r)   \* slip
OnlyFailed(r) == request[r].status = "failed"   \* slip
Decided(r) == HasResult(r) \/ request[r].status = "failed"

\* Another delivery's claim whose lease has not run out.
NoLease(r) == FALSE   \* slip
ClaimIsLive(r) == request[r].status = "processing" /\ ~request[r].stale

\* A later claim of the request replaced the one this worker holds.
NeverSuperseded(w) == FALSE   \* slip
Superseded(w) == request[worker[w].req].token # worker[w].token

\* A failure after which the request is not tried again.
OneTooMany(w) == \/ worker[w].out = "permanent"   \* slip
                 \/ request[worker[w].req].retries + 1 > MaxRetries
GivesUp(w) == \/ worker[w].out = "permanent"
              \/ request[worker[w].req].retries + 1 >= MaxRetries

\* _set_completed_status, or the failed status as it is.
DecidedStatus(r) == IF HasResult(r) THEN CompletedStatus(request[r].result) ELSE "failed"

EventOf(status) == IF status = "failed" THEN "moderation.failed" ELSE "moderation.completed"
EnabledFor(r) == {h \in enabled : TenantOf[h] = TenantOf[r]}

\* create_deliveries_for_request with the given status of r: one delivery per
\* webhook and event, the first one stays.
AnnounceResults(r, status) ==   \* slip
    deliveries' = deliveries \cup (IF status = "failed" THEN {} ELSE
        {[hook |-> h, req |-> r, event |-> EventOf(status), status |-> status] :
            h \in EnabledFor(r)})
Announce(r, status) ==
    deliveries' = deliveries \cup
        {[hook |-> h, req |-> r, event |-> EventOf(status), status |-> status] :
            h \in {h \in EnabledFor(r) : ~\E d \in deliveries :
                        d.hook = h /\ d.req = r /\ d.event = EventOf(status)}}

\* Values of uuid4() nobody holds.
Unused == {t \in Tokens : /\ \A r \in Requests : request[r].token # t
                          /\ \A w \in Workers : worker[w].token # t}

At(w, point) == worker[w].pc = point
Becomes(w, local) == worker' = [worker EXCEPT ![w] = local]
Writes(r, new) == request' = [request EXCEPT ![r] = new]
ToCommit(w) == Becomes(w, [Idle EXCEPT !.pc = "commit"])
Skips(w) == Becomes(w, Idle)        \* an exception: main() takes the next record
Fault(kind) == faults[kind] < MaxFaults[kind] /\ faults' = [faults EXCEPT ![kind] = @ + 1]

\* The group is rebalanced eagerly: every consumer starts at the committed offset.
Reassign == /\ owner' \in [Partitions -> Workers]
            /\ position' = committed
            /\ UNCHANGED <<log, committed>>

-------------------------------------------------------------------------------
(* Records and the consumer loop.                                          *)

\* The outbox publisher sends the event of r, possibly once more.
Publish(r) ==
    /\ Cardinality({i \in DOMAIN log[PartitionOf[r]] : log[PartitionOf[r]][i] = r}) < MaxCopies
    /\ log' = [log EXCEPT ![PartitionOf[r]] = Append(@, r)]
    /\ UNCHANGED <<db, worker, position, committed, owner, faults>>

\* A record that is malformed or names no request, once per partition.
PublishJunk(p) ==
    /\ \A i \in DOMAIN log[p] : log[p][i] # NoRequest
    /\ log' = [log EXCEPT ![p] = Append(@, NoRequest)]
    /\ UNCHANGED <<db, worker, position, committed, owner, faults>>

\* "async for message in consumer": the position moves past the record.
Fetch(w, p) ==
    /\ At(w, "idle")
    /\ owner[p] = w
    /\ position[p] < Len(log[p])
    /\ position' = [position EXCEPT ![p] = @ + 1]
    /\ Becomes(w, [Idle EXCEPT !.pc = "got", !.req = log[p][position[p] + 1]])
    /\ UNCHANGED <<db, log, committed, owner, faults>>

\* consumer.commit(): the positions of all partitions this worker owns.
OnePast(p) == position[p] + 1   \* slip
NextOffset(p) == position[p]
CommitOk(w) ==
    /\ At(w, "commit")
    /\ committed' = [p \in Partitions |-> IF owner[p] = w THEN NextOffset(p) ELSE committed[p]]
    /\ Becomes(w, Idle)
    /\ UNCHANGED <<db, log, position, owner, faults>>

\* CommitFailedError is logged and the loop goes on.
CommitFails(w) ==
    /\ At(w, "commit")
    /\ Becomes(w, Idle)
    /\ UNCHANGED <<db, kafka, faults>>

-------------------------------------------------------------------------------
(* The claim transaction.                                                  *)

\* The record names no request: it is acknowledged and dropped.
Discard(w) ==
    /\ At(w, "got") /\ worker[w].req = NoRequest
    /\ ToCommit(w)
    /\ UNCHANGED <<db, kafka, faults>>

\* The request was decided before: repair its status, announce it again.
Acknowledge(w, r) ==
    /\ Writes(r, [request[r] EXCEPT !.status = DecidedStatus(r), !.token = NoToken])
    /\ Announce(r, DecidedStatus(r))
    /\ ToCommit(w)
    /\ UNCHANGED <<enabled, kafka, faults>>

ObserveDecided(w) == \E r \in Requests :
    /\ At(w, "got") /\ worker[w].req = r
    /\ Decided(r)
    /\ Acknowledge(w, r)

\* Another delivery is at work on it: RetriableProcessingError.
Busy(w) == \E r \in Requests :
    /\ At(w, "got") /\ worker[w].req = r
    /\ ~Decided(r) /\ ClaimIsLive(r)
    /\ Skips(w)
    /\ UNCHANGED <<db, kafka, faults>>

Claim(w) == \E r \in Requests, t \in Unused :
    /\ At(w, "got") /\ worker[w].req = r
    /\ ~Decided(r) /\ ~ClaimIsLive(r)
    /\ Writes(r, [request[r] EXCEPT !.status = "processing", !.token = t, !.stale = FALSE])
    /\ Becomes(w, [worker[w] EXCEPT !.pc = "infer", !.token = t])
    /\ UNCHANGED <<deliveries, enabled, kafka, faults>>

-------------------------------------------------------------------------------
(* Inference runs in a thread, with no transaction open.                   *)

InferOk(w) == \E v \in Verdicts :
    /\ At(w, "infer")
    /\ Becomes(w, [worker[w] EXCEPT !.pc = "persist", !.out = v])
    /\ UNCHANGED <<db, kafka, faults>>

\* NonRetriableProcessingError, FileNotFoundError, PermissionError, ValueError.
InferRejects(w) ==
    /\ At(w, "infer")
    /\ Becomes(w, [worker[w] EXCEPT !.pc = "persist", !.out = "permanent"])
    /\ UNCHANGED <<db, kafka, faults>>

\* Any other exception.
InferBreaks(w) ==
    /\ At(w, "infer")
    /\ Fault("transient")
    /\ Becomes(w, [worker[w] EXCEPT !.pc = "persist", !.out = "transient"])
    /\ UNCHANGED <<db, kafka>>

-------------------------------------------------------------------------------
(* The transaction after inference.                                        *)

\* The request was decided while inference ran.  After a failed inference the
\* code looks for a result only; after a successful one also for "failed".
FindDecided(w) == \E r \in Requests :
    /\ At(w, "persist") /\ worker[w].req = r
    /\ IF worker[w].out \in Failures THEN HasResult(r) ELSE Decided(r)
    /\ Acknowledge(w, r)

\* This worker's turn: undecided for all it looks at, and still its claim.
MayPersist(w, r) ==
    /\ At(w, "persist") /\ worker[w].req = r
    /\ IF worker[w].out \in Failures THEN ~HasResult(r) ELSE ~Decided(r)

\* A later claim owns the request: RetriableProcessingError.
LoseClaim(w) == \E r \in Requests :
    /\ MayPersist(w, r) /\ Superseded(w)
    /\ Skips(w)
    /\ UNCHANGED <<db, kafka, faults>>

RecordResult(w) == \E r \in Requests :
    /\ MayPersist(w, r) /\ ~Superseded(w)
    /\ worker[w].out \in Verdicts
    /\ Writes(r, [request[r] EXCEPT !.result = worker[w].out, !.token = NoToken,
                       !.status = CompletedStatus(worker[w].out), !.stale = FALSE])
    /\ Announce(r, CompletedStatus(worker[w].out))
    /\ ToCommit(w)
    /\ UNCHANGED <<enabled, kafka, faults>>

FailRequest(w) == \E r \in Requests :
    /\ MayPersist(w, r) /\ ~Superseded(w)
    /\ worker[w].out \in Failures /\ GivesUp(w)
    /\ Writes(r, [request[r] EXCEPT !.status = "failed", !.token = NoToken,
                       !.retries = @ + 1, !.stale = FALSE])
    /\ Announce(r, "failed")
    /\ ToCommit(w)
    /\ UNCHANGED <<enabled, kafka, faults>>

\* Back to pending, and RetriableProcessingError.
KeepsToken(w, r) ==   \* slip
    Writes(r, [request[r] EXCEPT !.status = "pending", !.retries = @ + 1, !.stale = FALSE])
ReleaseClaim(w, r) ==
    Writes(r, [request[r] EXCEPT !.status = "pending", !.token = NoToken,
                       !.retries = @ + 1, !.stale = FALSE])

Requeue(w) == \E r \in Requests :
    /\ MayPersist(w, r) /\ ~Superseded(w)
    /\ worker[w].out \in Failures /\ ~GivesUp(w)
    /\ ReleaseClaim(w, r)
    /\ Skips(w)
    /\ UNCHANGED <<deliveries, enabled, kafka, faults>>

-------------------------------------------------------------------------------
(* The environment.                                                        *)

\* MODERATION_PROCESSING_LEASE_SECONDS pass since the claim.
LeaseExpires(r) ==
    /\ request[r].status = "processing" /\ ~request[r].stale
    /\ Writes(r, [request[r] EXCEPT !.stale = TRUE])
    /\ UNCHANGED <<deliveries, enabled, worker, kafka, faults>>

\* PATCH /webhooks/{id}: a tenant enables or disables a webhook.
UpdateWebhook(h) ==
    /\ enabled' = IF h \in enabled THEN enabled \ {h} ELSE enabled \cup {h}
    /\ UNCHANGED <<request, deliveries, worker, kafka, faults>>

\* A database error: its transaction is rolled back, or it is the answer to
\* the commit just made that got lost.  main() logs it and takes the next record.
UnexpectedError(w) ==
    /\ ~At(w, "idle")
    /\ Fault("error")
    /\ Skips(w)
    /\ UNCHANGED <<db, kafka>>

\* A worker process dies; its restarted consumer has to join the group again.
Crash(w) ==
    /\ Fault("crash")
    /\ worker' = [worker EXCEPT ![w] = Idle]
    /\ owner' = [p \in Partitions |-> IF owner[p] = w THEN NoWorker ELSE owner[p]]
    /\ UNCHANGED <<db, log, position, committed>>

\* The coordinator assigns partitions: at the start, and after a crash.
Rejoin ==
    /\ \E p \in Partitions : owner[p] = NoWorker
    /\ Reassign
    /\ UNCHANGED <<db, worker, faults>>

\* A member joins, leaves or exceeds max_poll_interval_ms while others work on.
Rebalance ==
    /\ Fault("rebalance")
    /\ Reassign
    /\ UNCHANGED <<db, worker>>

-------------------------------------------------------------------------------
Init ==
    /\ request = [r \in Requests |-> [status |-> "pending", token |-> NoToken, retries |-> 0,
                                      result |-> "none", stale |-> FALSE]]
    /\ deliveries = {}
    /\ enabled \in SUBSET Webhooks
    /\ worker = [w \in Workers |-> Idle]
    /\ log = [p \in Partitions |-> <<>>]
    /\ position = [p \in Partitions |-> 0]
    /\ committed = [p \in Partitions |-> 0]
    /\ owner = [p \in Partitions |-> NoWorker]
    /\ faults = [k \in FaultKinds |-> 0]

Loop(w) == (\E p \in Partitions : Fetch(w, p)) \/ CommitOk(w) \/ CommitFails(w)
ClaimTxn(w) == Discard(w) \/ ObserveDecided(w) \/ Busy(w) \/ Claim(w)
Infer(w) == InferOk(w) \/ InferRejects(w)
PersistTxn(w) == FindDecided(w) \/ LoseClaim(w) \/ RecordResult(w) \/ FailRequest(w) \/ Requeue(w)

\* What a worker does by itself.
Step(w) == Loop(w) \/ ClaimTxn(w) \/ Infer(w) \/ PersistTxn(w)

Environment ==
    \/ \E r \in Requests : Publish(r) \/ LeaseExpires(r)
    \/ \E p \in Partitions : PublishJunk(p)
    \/ \E h \in Webhooks : UpdateWebhook(h)
    \/ \E w \in Workers : InferBreaks(w) \/ UnexpectedError(w) \/ Crash(w)
    \/ Rejoin
    \/ Rebalance

Next == (\E w \in Workers : Step(w)) \/ Environment

Spec == Init /\ [][Next]_vars

\* Workers run, inference ends, time passes and the coordinator assigns
\* partitions.  Nothing is assumed of faults, webhooks or resent records.
Fairness ==
    /\ \A w \in Workers : WF_vars(Step(w))
    /\ \A r \in Requests : WF_vars(LeaseExpires(r))
    /\ WF_vars(Rejoin)

FairSpec == Spec /\ Fairness

-------------------------------------------------------------------------------
(* Properties.                                                             *)

\* The status a tenant sees and the stored result agree: a request is approved
\* or flagged exactly when it has a result, and as that result says, whatever
\* redelivered records, superseded workers and lost answers did in between.
ResultMatchesStatus == \A r \in Requests :
    IF HasResult(r) THEN request[r].status = CompletedStatus(request[r].result)
                    ELSE request[r].status \notin Completed

\* A claim token is in the row exactly while the request is processing, and at
\* most one worker, in the middle of that request, holds it.
ClaimIsExclusive == \A r \in Requests :
    /\ request[r].token # NoToken <=> request[r].status = "processing"
    /\ \A v, w \in Workers :
         request[r].token # NoToken /\ worker[v].token = request[r].token
                                    /\ worker[w].token = request[r].token
            => v = w /\ worker[v].req = r

\* Failed attempts are counted once each and never beyond the limit: a request
\* whose attempts are used up has failed for good.
RetriesBounded == \A r \in Requests :
    /\ request[r].retries <= MaxRetries
    /\ request[r].retries = MaxRetries => request[r].status = "failed"

\* Webhooks are told of final outcomes only: every delivery carries the status
\* its request has, so no tenant gets both events or an event taken back.
DeliveriesMatchOutcome == \A d \in deliveries :
    /\ d.status = request[d.req].status /\ d.event = EventOf(d.status)
    /\ TenantOf[d.hook] = TenantOf[d.req]

\* A worker remembers a token exactly from its claim to the end of the record,
\* and an inference outcome once there is one.
LocalsMatchPoint == \A w \in Workers :
    /\ worker[w].token # NoToken <=> worker[w].pc \in {"infer", "persist"}
    /\ worker[w].token # NoToken => worker[w].req \in Requests
    /\ worker[w].pc = "persist" => worker[w].out \in Verdicts \cup Failures

\* The inductive invariant: what the safety properties need of one another.
IInv ==
    /\ TypeOK
    /\ LocalsMatchPoint
    /\ ResultMatchesStatus
    /\ ClaimIsExclusive
    /\ RetriesBounded
    /\ DeliveriesMatchOutcome

\* Only the worker holding the current claim moves a request on: a worker whose
\* claim was replaced changes neither outcome nor retry count.
OwnerDecidesStep == \A r \in Requests :
    \/ request'[r].result # request[r].result
    \/ request'[r].retries # request[r].retries
    \/ request'[r].status \notin {request[r].status, "processing"}
    => \E w \in Workers : /\ worker[w].pc = "persist" /\ worker[w].req = r
                         /\ worker[w].token = request[r].token /\ worker[w].token # NoToken
                         /\ worker'[w].token = NoToken
OwnerDecides == [][OwnerDecidesStep]_vars

\* The workers implement the lifecycle: to a tenant a request is open until one
\* transaction decides it, for good, and tells the webhooks enabled at that time.
Outcome == [r \in Requests |-> IF Decided(r) THEN request[r].status ELSE "open"]
Told == {<<d.hook, d.req>> : d \in deliveries}
Lifecycle == INSTANCE ModerationLifecycle WITH outcome <- Outcome, told <- Told
ImplementsLifecycle == Lifecycle!Spec

\* "Do not run model inference twice": a worker starts inference on a request
\* while another is at it only when that one has overrun its lease or lost it.
NoDoubleInferenceStep == \A v, w \in Workers :
    v # w /\ worker[w].pc = "got" /\ worker'[w].pc = "infer" /\ worker[v].pc = "infer"
          /\ worker[v].req = worker[w].req
        => request[worker[v].req].stale \/ Superseded(v)
NoDoubleInference == [][NoDoubleInferenceStep]_vars

Carried(r) == \E w \in Workers : worker[w].req = r /\ worker[w].pc \in {"got", "infer", "persist"}
CommittedRequests ==
    {r \in Requests : \E i \in DOMAIN log[PartitionOf[r]] :
        i <= committed[PartitionOf[r]] /\ log[PartitionOf[r]][i] = r}

\* As long as nothing fails but partitions move, an offset is committed past a
\* record only when its request is decided or a worker is still at it.
CommittedIsCarried == \A r \in CommittedRequests : Decided(r) \/ Carried(r)

\* As long as nothing fails but partitions move, every published request is
\* eventually approved, flagged or failed.
EventuallyDecided == \A r \in Requests :
    (\E i \in DOMAIN log[PartitionOf[r]] : log[PartitionOf[r]][i] = r) ~> Decided(r)

\* "Signals that the Kafka offset must remain uncommitted" (RetriableProcessing-
\* Error) and "Keep the offset uncommitted; Kafka will redeliver it" (main).
RetryStaysUncommitted == \A r \in CommittedRequests : request[r].status # "pending"

\* "An abandoned claim is recoverable after its lease expires" (process_message).
AbandonedClaimRecovers == \A r \in Requests :
    request[r].status = "processing" /\ ~Carried(r)
        ~> request[r].status # "processing" \/ Carried(r)
===============================================================================
