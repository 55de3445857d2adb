# moderaShield: a verification of the moderation pipeline and its dashboard

moderaShield accepts text and media from tenants, moderates it in background
workers and reports the outcome by polling, by webhooks and on a dashboard in the
browser. This directory models the pipeline and the dashboard in TLA+, checks small
instances with TLC and proves what matters most for instances of every size with TLAPS.
Paths below are relative to `src/services/api-gateway/app/`, those of the dashboard to
`src/frontend/tenant-dashboard/`, unless they start with another top-level directory.

## The system

| Part | State it keeps | Operations | What is hard |
|---|---|---|---|
| Submission (`api/v1/endpoints/moderation.py`, `services/moderation_service.py`) | `moderation_request`, `moderation_assets`, `outbox_events` rows; stored objects | create by text or upload, get status | idempotency-key race, one commit for request and event, clean-up of uploads |
| Outbox publisher (`workers/outbox_publisher.py`) | `outbox_events`; the claimed batch in memory | recover, claim, send, mark published or pending | several publishers, lost answers, crashes, stale claims |
| Kafka (`messaging/`) | log, committed offset, consumer positions | send, fetch, commit, assign | duplicates, rebalancing, cumulative commits |
| Moderation worker (`workers/moderation_worker.py`) | request status, claim token, retry count, result | claim, infer, persist, requeue, fail, acknowledge | redelivery, workers slower than their lease, retries, crashes |
| Webhook settings and deliveries (`services/webhook_service.py`, `api/v1/endpoints/webhooks.py`) | `webhooks`, `webhook_deliveries` | create deliveries; create, enable, disable, delete webhooks | idempotent creation; webhooks that change meanwhile |
| Webhook worker (`workers/webhook_worker.py`) | delivery status, claim token, attempt count | recover, claim, attempt, reschedule | at-least-once delivery, batches that go stale, attempts at their limit |
| Authentication (`dependencies/auth.py`, `services/api_key_cache.py`) | `api_keys`; Redis entries with a TTL | authenticate, revoke | a cache fill racing a revocation |
| Rate limiter (`services/rate_limiter.py`) | a Redis counter per tenant | check | the border of a fixed window |
| Media and storage, inference handlers, moderation engine | objects, model caches | store, resolve, infer | slow, failing I/O |
| Session (`lib/api/client.ts`, `app/login`, `app/signup`, `components/layout`) | key and tenant in localStorage, shared by all tabs; requests in flight | sign in and up, log out, navigate, send, answer, 401 | two tabs; a key stored before it is verified; a refusal that arrives late |
| Log pages (`app/dashboard/page.tsx`, `analytics`, `submissions`, `queue`) | range or page number, data, `isLoading`, `error`, filters | fetch, retry, refresh, page, filter | answers that cross, one spinner for all fetches, a count and rows read apart |
| Request page, simulator (`app/dashboard/submissions/[requestId]`, `app/page.tsx`) | the status shown, a timer; attempts, a result | fetch, poll; simulate, poll, fall back | a status and a result read apart, lost polls, polls that run out |
| Integrations page (`app/dashboard/integrations`) | rows, secret, selection, deliveries, two spinners | load, add, toggle, delete, view | requests of several handlers in flight over one state |
| API keys page (`app/dashboard/api-keys`) | the window, the key held | create, show, dismiss, revoke (a stub) | a key that arrives when nothing shows it |
| SDK (`sdk/python`), metrics, tenants, migrations | little or none | | the SDK's polling deadline |

A submission commits a request and an outbox event together. A publisher sends the
event to Kafka, keyed by the request. A moderation worker fetches it, claims the
request in one transaction, runs the model with no transaction open, and in a second
transaction records a result, a failure or a retry; the transaction that decides the
request also creates webhook deliveries, which the webhook worker sends. No two parts
share memory: they meet in PostgreSQL rows, whose claim tokens say who may write, and
in Kafka.

The dashboard is a client of the API. Its pages keep their state in React, fetch when they
open and after most clicks, and put into that state whatever comes back whenever it does: no
request is cancelled and no answer says what it belongs to. Pages share localStorage with
one another and with other tabs, and nothing else.

What makes each part correct:

* Outbox: no event is lost or marked published unsent; duplicates only after a fault;
  a publisher that lost its claim never touches the row; every event is published.
* Moderation worker: status and result agree; one owner of a claim; the owner alone
  decides; a decision is final and announced by the transaction that makes it; failed
  attempts are counted once and bounded; every published request is decided.
* Webhooks: only final outcomes, one delivery per webhook and event, only the request's
  tenant; every attempt is claimed, a finished delivery stays finished.
* Submission: a key names one request, every answer is true of the committed rows, a refusal
  has a reason, stored objects and requests belong together unless something failed.
* Session: the tenant stored and shown is the one the stored key acts for; a refusal never
  costs a key it was not about; a signup leaves no tenant without key.
* Pages: what is shown is what was selected, and true; a spinner means that something is
  awaited and ends; "nothing found" and a verdict are said only of what was read.
* Integrations and API keys: rows, deliveries and secrets are those they stand beside; a click
  acts once; a new key is shown once, and once only.
* Authentication: a deactivated key is refused at the latest one TTL after it was last cached.

## Modules

| Module | Models |
|---|---|
| `AtLeastOnce` | what a sender that works through a table promises: an abstract specification |
| `Outbox` | outbox rows, publishers and the broker's copies |
| `OutboxProofs` | theorems about `Outbox` and their proofs |
| `ModerationLifecycle` | what the workers promise a tenant: an abstract specification |
| `ModerationWorker` | requests, results, deliveries, workers, partitions, offsets |
| `MCModerationWorker` | constants of its runs: partitions, tenants, fault budgets |
| `ModerationWorkerProofs` | theorems about `ModerationWorker` and their proofs |
| `WebhookWorker` | delivery rows, webhooks, workers, what the tenant received |
| `MCWebhookWorker` | the owners of the deliveries, symmetry |
| `WebhookWorkerProofs` | theorems about `WebhookWorker` and their proofs |
| `Submission` | submissions being handled, committed requests, stored objects |
| `SubmissionProofs` | theorems about `Submission` and their proofs |
| `Session` | localStorage, the forms and pages of every tab, requests in flight, keys and tenants at the API |
| `SessionProofs` | theorems about `Session` and their proofs |
| `ModerationLog` | what the API has to say of a tenant's requests: the log, status and result |
| `LogPages` | overview, analytics, submissions and queue over that log |
| `StatusPages` | the request page and the simulator over that log |
| `StatusPagesProofs` | theorems about `StatusPages` and their proofs |
| `Views` | the composition: one tab showing the pages of both, and the rows that lead from one to the other |
| `MCViews` | the constants of its run |
| `WebhooksPage` | the integrations page and the API's webhooks |
| `ApiKeysPage` | the API keys page and the keys created |
| `ViewsProofs` | theorems about `Views` and `LogPages`, and their proofs |
| `ManagementPagesProofs` | theorems about `WebhooksPage` and `ApiKeysPage`, and their proofs |
| `MCBrowser` | one run for `Session`, `WebhooksPage` and `ApiKeysPage`, which share no state |

### Outbox

Every database transaction of the publisher is an action: `Recover`, `Claim` (or
`ClaimNothing`), `MarkPublished`, `MarkFailed`; the send is an action between them
(`SendOk`, `SendFails`, `SendUnclear`). That is fair because the transactions take the
rows they read FOR UPDATE: with SKIP LOCKED a row locked by another publisher is left
out exactly as if that publisher's transaction came first. `publisher[p]` holds the
program point, the item at hand and the tokens of the claimed batch; `row` is the
table; `sent` counts the records the broker has appended.

The order of rows stands for `created_at, id`. `claimed_at` is abstracted to the flag
`stale`. `attempts`, `last_error` and `published_at` are written and never read, so they
are left out. Tokens are recycled: `Unused` offers those nobody holds, which is what
uuid4 guarantees in practice.

### ModerationWorker

`request[r]` joins the request row with its result, `deliveries` is the webhook table
as this code sees it, `enabled` the webhooks switched on. Each worker has a program
point (`idle`, `got` a record, `infer`, `persist`, `commit`), the request, its token
and the outcome of the inference. Each transaction of `process_message` takes the
request row FOR UPDATE first, so each is one action: `Discard`, `ObserveDecided`,
`Busy` and `Claim` are the branches of the first, `FindDecided`, `LoseClaim`,
`RecordResult`, `FailRequest` and `Requeue` those of the transaction after inference.
Where the code raises (`RetriableProcessingError` or anything else), `main()` logs and
takes the next record: `Skips`.

Kafka is modelled as the consumer depends on it: `Fetch` advances the position in
memory whatever happens to the record, `CommitOk` commits the *positions* of all owned
partitions, and an assignment (`Rejoin`, `Rebalance`) starts again at the committed
offsets. `CommitFails` is `CommitFailedError`; any other Kafka error ends the process,
which is `Crash`. `UnexpectedError` covers a transaction that was rolled back, a commit
whose answer got lost after it took effect, and the `IntegrityError` handler that
re-raises. Records are duplicated by `Publish` up to `MaxCopies` times, which is what
the outbox may do. `LeaseExpires` may happen at any time, since nothing bounds how long
an inference takes; a worker is never told.

Request rows are never deleted by the code, so the branches for a request that is gone
after the claim are left out; a record naming no request is `NoRequest`. A handler that
finds an existing result in the `IntegrityError` branch cannot exist while every writer
holds the row lock, and is left out. What a result contains besides `is_flagged` is
left out.

### ModerationLifecycle

To a tenant a request is open until `Decide` makes it approved, flagged or failed, for
good; the same step tells the webhooks that are enabled then, and later reminders
(redelivered records) may tell webhooks enabled since. `ModerationWorker` refines it with
`outcome <- Outcome` (open unless decided) and `told <- Told` (the deliveries' webhook and
request); claims, requeues, crashes and Kafka are stuttering.

### WebhookWorker

`row[d]` is a delivery, `hook[h]` a webhook (enabled, disabled or deleted), `worker[w]` the
program point, the delivery at hand, its outcome and the tokens of the batch, `tenant[d]` what
the other side saw: POSTs made, copies accepted, and whether anything ever was a reason to stop.
The clock is two flags: `stale`, the claim is older than the timeout, and `due`,
`next_attempt_at` has come.

`_attempt` reads the delivery (`LoadDelivery`, `SkipItem`) and its webhook (`HookUsable`,
`HookUnusable`) in two statements, ends its transaction, POSTs (one action per kind of answer) and
updates the row only if the claim is still its own (`Record`). The rollback before the POST expires
the objects that were read, so the URL is read once more: a webhook deleted by then raises
(`HookVanishes`), and the rest of the batch stays claimed. `attempt_count` is compared in memory
in the code and in the row in the model: the update happens only if the token matches, and under
one token nothing else writes the count. `HookUnusable` is always possible, because the payload may
exceed the size limit. Each claim of a batch goes stale on its own, although the code gives the
batch one claim time: more behaviours than the code has, none fewer. `DeleteWebhook` deletes the
deliveries as the foreign key of the table does (`ON DELETE CASCADE`, alembic revision
`9823ae891a21`). A row that is created for a disabled webhook cannot exist: `Create` needs it enabled.

### AtLeastOnce

An item is `open` until it is `done`, which needs a copy on the other side, or `dropped`, or removed
with its owner; copies may arrive at any time after the item exists, also after it is settled.
`Outbox` implements `LosslessSpec`, without dropping and removing, with `copies <- sent`;
`WebhookWorker` implements `Spec` with `copies` what the tenant accepted.

### Submission

A handler runs its code without a break (the endpoints are `async def` around synchronous calls),
so what interleaves are the handlers of several gateway processes: each submission is an actor,
`job[n]` its program point, header, payload, the request it was led to and the answer. `n` names
the rows and the object it creates, as their uuid4 does. `requests` holds what is committed; a row
inserted and not committed is a submission at `commit`, which is what makes a second `Insert` of
the key wait. `Commit` makes request, asset and outbox event visible at once, as the code's
single commit does. `Finds` is the lookup's way out and the savepoint's: both delete the upload
before the payloads are compared (`discard`), and an exception after that, the 409 included,
reaches the endpoint, which deletes once more (`cleanup`). `CommitUnclear` is a commit that took
effect although an exception followed it: its answer was lost, or `db.refresh` failed.

Left out: validation that ends before anything is stored (headers, MIME type, the JSON endpoint's
refusal of media references); the bare `raise` after an `IntegrityError` without a winner, which
cannot be reached because a waiting insert fails only if the other one committed and committed
requests are never deleted. The number of submissions is bounded, so the system may stop when all
are answered: the runs of this module do not check for deadlock.

### Session

An action is a handler up to its next `await`; handlers of one tab take turns, those of several
tabs and the API interleave. `key` and `tenant` are localStorage; `form[t]` says how far a submitted
login or signup has got and what it holds in its local variables; `calls[t]` are the other requests
of the tab, each with the key it was sent with. `request()` reads the key when it sends
(`Sends`) and, at a 401 or 403, removes whatever key is stored then and loads the login page
(`Reloads`, which drops everything the tab has in flight). Logging in is two writes with a request
between them: the key before `testConnection`, the tenant after. Signing up is two requests, a tenant
and its key, before anything is stored. A route push (`Pushes`) keeps what is in flight; the overview
goes on to load its figures although its page may be gone (`Loads`).

What went wrong so far is recorded in `mishaps`: two forms that overlapped, a form cut off by its
tab, a request of a signup lost, a key stored over requests with another. The properties say which of
them can break what. `moved[t]` says that another tab signed in since the sidebar looked: nothing tells
a tab of it. The cleaning up between the 401 and the end of the document, in which the old page
may run for some milliseconds more, is one step. The override of the API's URL is left out.

### ModerationLog, LogPages, StatusPages, Views

`ModerationLog` is the API as the pages see it: requests named by their place in the log, newest
first on page 1, each with a status the worker moves (claim, decide, give up, requeue).

`LogPages` has one page open at a time. `logs.calls` are its fetches in the order they were sent, and
an answer may be taken from any place (`TakeAnswer`). The two statements of the API, the count and
the rows, are two actions (`CountRows`, `ReadRows`). `View` translates the conditions under which
the page returns a spinner, an error, an empty state or content; the guards of the clicks come from
what `View` puts on the screen and from `disabled`. Overview and analytics show no error once they
have data. The search and the filter look at the page that was fetched, the queue at the newest
hundred. `data.torn`, whether the log grew between the count and the rows, is history that the
pages do not know.

`StatusPages` models the status query as two reads (`Advanced`), the request and then its
result, beside the worker's commit of both. The detail page arms a timer when an answer with an
unfinished status arrives, and only then; the simulator polls up to `MaxAttempts` times and shows
a null verdict as not flagged; any error ends in a verdict from a regular expression.

`Views` composes the two over one log: `OpenRow` leads from a row to the page of its request. Each
component's steps appear as they are, with the others unchanged.

### WebhooksPage

Every handler sends one request (`Sending`), the API performs it (`ListAtApi` and so on), and an
answer or a failure comes back; two requests may be in flight and are performed and answered in any
order. A deletion that succeeded ends in an error, since `request()` parses the body of a 204
(`DeleteOk`): the code after the `await` never runs. `muddled` and `mixed`
are history: they say since when the page has had no overlap that could mislead it.

### ApiKeysPage

Listing and revoking are stubs that throw before they send anything, so the table shows the
session's key if one is stored, and confirming a revocation ends in an alert. Creating a key is the
one request. `known` is the history of each key: received, seen, hidden again, lost, or arrived when
the window was closed.

Definitions marked `slip` belong to no specification: each is a plausible bug in the definition
that follows it, recorded in `PROJECT.json` with the property that notices it.

## What the runs show

| Run | Bounds | Shows |
|---|---|---|
| `Outbox_checks` | 3 events, 2 publishers, batch 2, 3 tokens, 1 fault | `OneOwner`, `DuplicatesNeedFaults`, `Fenced`, that the publishers implement `AtLeastOnce`, and `EventuallyPublished` |
| `MCModerationWorker_claims` | 1 request, 2 records, 2 workers, webhooks of 2 tenants, `MaxRetries` 2, two failing inferences, an unexpected error, a crash, a rebalance | `ResultMatchesStatus`, `ClaimIsExclusive`, `DeliveriesMatchOutcome`, `RetriesBounded`, `OwnerDecides`, `NoDoubleInference`, and that the workers implement `ModerationLifecycle` |
| `MCModerationWorker_live` | 2 requests in one partition, 2 workers, a rebalance | `CommittedIsCarried`, `EventuallyDecided` |
| `MCModerationWorker_retry_skipped` | 2 requests, 1 worker, 1 failing inference | `RetryStaysUncommitted` is violated |
| `MCModerationWorker_claim_abandoned` | 1 request, 1 worker, 1 crash | `AbandonedClaimRecovers` is violated |
| `MCWebhookWorker_safety` | 2 deliveries of 2 webhooks, 2 workers, batch 2, 3 tokens, 2 attempts, 1 fault | `ClaimIsExclusive`, `DuplicatesNeedFaults`, `AttemptsAreCounted`, `GivenUpForAReason`, `Fenced`, and that the workers implement `AtLeastOnce` |
| `MCWebhookWorker_live` | 2 deliveries, 1 worker, batch 2, 2 attempts, 1 fault | `EventuallySettled` |
| `Submission_checks` | 3 submissions, a key, a key that is too long and none, text and media, 2 faults | `KeyNamesOneRequest`, `AnswersAgree`, `RefusedForAReason`, `StraysNeedFaults`, `LossNeedsFault`, `EventuallyAnswered` |
| `Submission_object_lost` | 2 uploads of one content, 1 fault | `RemovedOnlyIfWriteFailed` is violated |
| `MCViews` | 2 requests, tables of one row, 2 ranges, 2 fetches in flight, 2 polls | `ShownIsSelected`, `SpinnerMeansWaiting`, `PageInRange`, `FinalIsComplete`, `ApprovedIsHonest`, `RowAndDetailAgree`, `PollingReachesVerdict` |
| `MCBrowser` | 2 tabs, 2 tenants with a key each, 1 other request per tab; 2 webhooks, 2 requests; 3 API keys | `TenantMatchesKey`, `LockedOutByFaults`, `GoodKeyStays`; `ListIsCurrent`, `DeliveriesAreItsOwn`; `UnseenForAReason` |
| `ApiKeysPage_dismissed` | 2 API keys | `NewKeysAreShown` is violated |

The type invariants are not among the runs' properties: seven modules prove theirs for instances of every
size. So are `PublishedWasSent`, `ShownIsActing`, `FlaggedIsTrue` and `ShownOnlyOnce`, which are theorems only.

Why the bounds are enough to be interesting: two publishers or workers are needed for
one to lose its claim to another, three tokens for an old claim, a new one and a
worker that returns with neither; two records of one request for every redelivery; a
batch of two of three rows for an order within a batch and a row outside of it; two
webhooks for a batch in which one vanishes; two submissions for a race and a third for
the retry after it; text and media for a conflict of contents and both endpoints. Requests
interact only through the offsets of a partition, which is what the runs with two
requests are for.

For the dashboard: two requests and tables of one row make a second page, an empty filter and a
log longer than what was fetched; two fetches in flight are enough for answers to cross, and for one
answer to end the spinner of the other; two polls for a poll after a poll and for running out
(`maxAttempts` is 10 in the code: the theorems are about every number). One final status is enough
for a run because the pages tell the other two apart only by their names; the theorems are about all
three. Two tabs are needed for a form to overlap another, two keys for a refusal of the one to meet the
other, and one of the two tenants is still to sign up. The parts of `MCBrowser` share no state, so
a behaviour is about one of them, which adds their states up instead of multiplying them.

The fault counters are bounds of the models (`MaxFaults`); so is the number of records
of one request (`MaxCopies`), of submissions, of the dashboard's requests in the log
(`NumRequests`) and in flight (`MaxCalls`, `MaxHookCalls`), of webhooks (`MaxHooks`) and of API keys
(`MaxKeys`). Everything else is bounded by the code.

Many properties of the dashboard have an exception: "unless answers crossed", "unless the polls
ran out". Each names the one thing that breaks the promise in this code, and the run shows that
nothing else does.

### Disagreements between the code and what it says

`RetryStaysUncommitted`. `RetriableProcessingError` "Signals that the Kafka offset must
remain uncommitted" and `main()` says "Keep the offset uncommitted; Kafka will redeliver
it". The `continue` there leaves the consumer's position behind the failed record, so
the same process goes on with the next one, and its `consumer.commit()` commits past
both. The request stays `pending` and no record is left that would bring it back.

`AbandonedClaimRecovers`. "An abandoned claim is recoverable after its lease expires", and
the design says recovery "prevents requests from becoming permanently stuck in
`processing`". After a crash the record comes back when the group has rebalanced, within
seconds; the lease of 900 s still runs, `Busy` skips the record, and a consumer that keeps
running never fetches it again. When the lease ends nobody looks.

Both are statements about a worker that keeps running: a restart before the next commit
would fetch the skipped record again.

`RemovedOnlyIfWriteFailed`. "If the DB/outbox write fails, remove the already-uploaded object":
the endpoint removes it after any exception of `create_request`, also one that follows a commit
that took effect. The request and its event are there, its object is not; a retry with the same
key finds the request and has its own upload deleted, so nothing brings the object back.
`LossNeedsFault`, which holds, says that this is the only way: no race and no retry takes an object.

`NewKeysAreShown`. "Newly created keys will be shown only once upon generation"
(`app/dashboard/api-keys/page.tsx:151`). The X closes the window while a key is being created; the key arrives,
is held where nothing shows it, and the only button that opens the window again drops it first.
`UnseenForAReason`, which holds, says that besides lost answers this is the only way to miss a key.

Two more things the models say of the code without a sentence of the repository against them: a
deletion of a webhook that succeeds is reported as an error and leaves the row in the table, and one
failed poll ends the polling of the request page for good (`PollingReachesVerdict` has to allow it).

## Fairness

* Outbox: `WF(Step(p))`, since `main()` polls for ever; `SF(SendOk(p))`, since a broker
  that is down for ever publishes nothing: a publisher that tries again and again gets an
  answer; `WF(ClaimGoesStale(e))`: time passes.
* Worker: `WF(Step(w))`: the consumer loop runs and inference ends; `WF(LeaseExpires(r))`:
  time passes; `WF(Rejoin)`: the coordinator assigns partitions without an owner.

* Webhook worker: `WF(Step(w))`: the loop runs and a POST has a timeout; `WF(BecomesDue(d))`,
  `WF(ClaimGoesStale(d))`: time passes. No answer of the tenant is assumed: attempts run out.
* Submission: `WF(Step(n))`: a handler goes on with what it has begun. `Step` does not
  contain `DatabaseFails`, so no waiting writer counts on a failing statement to be released.

* Views: `WF` of the fetches, of the detail page's requests and timer, and of the simulator's: what is
  sent is answered or fails, and timers fire. Nobody has to click, and the worker need not
  decide anything. `Session`, `WebhooksPage` and `ApiKeysPage` are checked for safety only.

Nothing is assumed about faults, webhooks or duplicates. `EventuallyDecided` is claimed
for runs with rebalancing but without failing inferences, errors or crashes: with them it
is false, as the two violations show.

## What is proved

`ModerationWorkerProofs` proves, for every set of requests, workers, partitions, webhooks,
tokens and every fault budget, from `WorkerAssumption` alone:

* `TypeCorrect`: the type invariant;
* `StatusIsTruthful`, `ClaimsAreExclusive`, `RetriesAreBounded`, `DeliveriesAreTruthful`:
  the four safety invariants;
* `OnlyOwnersDecide`: a worker whose claim was replaced changes neither the outcome nor the
  retry count;
* `WorkersImplementLifecycle`: every behaviour of the workers, seen through `Outcome` and
  `Told`, is one of `ModerationLifecycle`;
* `InferenceRunsOnce` (`NoDoubleInference`): the lease keeps a second worker from the inference;
* `NothingIsPassedOver`: `CommittedIsCarried` holds in every state before the first fault other
  than a rebalance (`OnlyRebalances`; in the run that checks it the other faults have a bound of
  0, so there the condition is always true);
* `WorkersDecideTheLog`: with requests named by their place in a log, every step of the workers, seen
  through the status column, is a `Decide` of `ModerationLog` or invisible. So the environment in
  which the dashboard's pages are checked and proved leaves out nothing the workers do.

The argument. `IInv` is the conjunction of `TypeOK`, the four invariants and
`LocalsMatchPoint`, and it is inductive. No invariant is so by itself: that a delivery stays
true needs that a decided request never changes; that `FailRequest` and `Requeue` act on a
request that is not decided rests on the token test, which is worth something only because a
token is in the row exactly while the request is processing (`ClaimIsExclusive`) and because a
worker at `persist` holds a token and an outcome (`LocalsMatchPoint`); that a requeued request
stays below the limit needs `RetriesBounded` and `GivesUp`. The proof has a lemma per group of
actions: those that leave the database alone, `Claim`, the three transactions that decide or
requeue, `Acknowledge` and the lease. `OwnerDecides`, `NoDoubleInference` and the refinement are
proved step by step from `IInv`. `CommittedIsCarried` needs an invariant about offsets beside it,
`CarriedInv`: no position is behind its committed offset; and before the first other fault every
claim in a row has the worker that holds it, a claim held has not been given back, and every record
before a *position* (not only before a committed offset) is decided or carried by a worker. A
rebalance resets a position to the committed offset, so it only takes records out of that set.

`OutboxProofs` proves of `Outbox`, for any number of events, publishers, tokens and faults, from
`OutboxAssumption`: `TypeCorrect`, `NothingIsLost` (`PublishedWasSent`), `ClaimsAreExclusive`
(`OneOwner`), `PublishersAreFenced` (`Fenced`) and `PublishersDeliverAtLeastOnce`
(`ImplementsAtLeastOnce`). The inductive invariant joins the type invariant and the two safety
invariants with what a publisher knows at each point: the item at hand belongs to its batch, and a
publisher about to mark an item published has a record of it at the broker. Without the latter
`PublishedWasSent` is not inductive: the update looks at the claim only. `DuplicatesArePaidFor`
(`DuplicatesNeedFaults`) is proved by a budget: an event may cost one copy and one more for each fault,
and a row that can still be claimed, each publisher about to send and each copy at the broker spend
from it (`BudgetKept`). A claim that goes stale makes a publisher and a row spend at once; that step is
a fault and pays for one of them.

`WebhookWorkerProofs` proves of `WebhookWorker`, for any number of deliveries, webhooks, workers, attempts
and faults, from `WebhookAssumption`: `TypeCorrect`, `ClaimsAreExclusive` (`ClaimIsExclusive`),
`FailuresAreJustified` (`GivenUpForAReason`), `WorkersAreFenced` (`Fenced`),
`WorkersDeliverAtLeastOnce` (`ImplementsAtLeastOnce`), `DuplicatesArePaidFor` (`DuplicatesNeedFaults`)
and `AttemptsAreLimited` (`AttemptsAreCounted`). The strengthening is what a worker knows at its
point: the delivery at hand belongs to its batch, and an outcome about to be recorded has its cause, a
copy accepted or a refusal. The update looks at the claim only, so without it neither
`GivenUpForAReason` nor the refinement would be inductive. Steps that only take claims away share one
lemma (`StepKeepsInv`); `Claim` has its own. The last two theorems are budgets like that of the outbox
(`BudgetInv`): an attempt is counted before its POST, so that budget is spent by whoever may still
claim, and a deleted webhook, which loses a whole batch, pays like a fault.

`SubmissionProofs` proves of `Submission`, for any number of submissions, keys, contents and
faults, from `SubmissionAssumption`: `TypeCorrect`, `KeysNameOneRequest`, `AnswersAreTruthful`,
`RefusalsAreJustified`, `StraysArePaidFor` (`StraysNeedFaults`) and `LossesArePaidFor`
(`LossNeedsFault`). The inductive invariant adds `LocalsMatchPoint`: a submission has neither
request nor answer before its end, a writer that inserted and did not commit is alone with its key
(no committed row and no other writer: what the unique index enforces by waiting), and an upload is
discarded for the long key or for a request that has the key. One lemma (`QuietKeeps`) covers all
steps that commit nothing, another (`CommitKeeps`) both kinds of commit; the lemmas of the
actions show that each fits one of them. The two about objects count over sets: `ObjectInv` bounds the
submissions that are over with a stray object, and the requests whose object is gone or about to be
removed, by the faults so far. It says besides which objects a submission has at each point (`ObjectFits`),
from which it follows that an upload is discarded only where nothing refers to it.

`SessionProofs` proves of `Session`, for any number of tabs, keys, tenants and requests, from
`SessionAssumption`: `TypeCorrect`, `TenantIsTheKeys` (`TenantMatchesKey`), `SidebarIsRight`
(`ShownIsActing`), `NoOneLockedOut` (`LockedOutByFaults`) and `GoodKeysStay` (`GoodKeyStays`).
`TenantMatchesKey` alone is not inductive: it says nothing while a login is verified, and what
holds afterwards rests on what the form carries. The strengthening: a form holds the key and the
tenant its point says (`FormsHold`); without overlaps one form at most is in flight (`Alone`); while one
verifies, the stored key is the one it sent, or none (`Verified`). `SessionInv` adds
`ShownIsActing`. `GoodKeysStay` rests on one thing more, `CallsCarry`: a request in flight carries the
stored key unless one was stored over it.

`StatusPagesProofs` proves of `StatusPages`, for any number of requests, polls and every set of
outcomes: `StatusTypes`, `FinalShownComplete` (`FinalIsComplete`), `FlaggedShownIsTrue`
(`FlaggedIsTrue`), `ApprovedShownIsHonest` (`ApprovedIsHonest`). The invariant says of every query
that a final status it has read is the request's for good (`Settled`: no step takes a decided request
back), and of a verdict it has read that it is that of the result; so the order of the two
reads is what the proof turns on.

`ViewsProofs` proves of `Views`, for any number of requests, calls and polls and every page size:
`PagesKeepTheirModules` (the tab, seen from the log pages, is a behaviour of `LogPages`, and seen from
the other two one of `StatusPages`: moving between pages adds nothing to what a page may do), `ViewsTypes`,
`SelectionIsShown` (`ShownIsSelected`), `SpinnerIsHonest` (`SpinnerMeansWaiting`), `PagesExist`
(`PageInRange`) and `RowsAgreeWithDetail` (`RowAndDetailAgree`). The invariant of a log page says what each
call in flight carries (`CallsHold`), that the data held was an answer of the API (`DataHolds`),
and that the youngest call is for what is selected (`LastIsSelected`); that of the tab adds
that one page is open at a time, and that the status of the row that was clicked is still that of
its request. The last of these rests on `Settled`, like the verdicts of the request page.

`ManagementPagesProofs` proves of `ApiKeysPage`, for any number of keys: `KeyTypes`, `KeysShownOnce`
(`ShownOnlyOnce`) and `KeysAreAccountedFor` (`UnseenForAReason`). The invariant adds
that what is or was on the screen has been seen, that a page awaiting a key holds none, and that the
key whose answer is under way has not been seen. Of `WebhooksPage`, for any number of webhooks and
of requests in flight: `HookTypes`, `ListStaysCurrent` (`ListIsCurrent`) and `DeliveriesBelong`
(`DeliveriesAreItsOwn`). Both properties speak of a page at rest; the invariant says what holds while
its one request is under way: without overlaps the rows are current unless the request is one that
changes them, the answer of a list is current from the API to the page (`Current`), and while
deliveries are fetched they are those of the row selected, under a spinner (`Own`).

The theorems of `SessionProofs`, `StatusPagesProofs` and `ManagementPagesProofs` are about each part's own
specification (`Spec`, `StatusSpec`, `HooksSpec`, `KeysSpec`). `PagesKeepTheirModules` carries those of
`StatusPages` over to the tab; `MCBrowser` has three parts in one run, of which each behaviour moves one.

Only model-checked: liveness (`EventuallyPublished`, `EventuallyDecided`, `EventuallySettled`,
`EventuallyAnswered`, `PollingReachesVerdict`), which is beyond the prover. Every safety invariant,
action property and refinement of a passing run has its theorem.

## What is not modelled

* Inference itself, storage I/O, HTTP: to the pipeline they are an outcome chosen
  nondeterministically. Time is abstracted to flags: a lease or claim has or has not expired. The
  contents of payloads, scores and errors are left out.
* The aggregates of the metrics endpoints: to the pages they are a number that grows.
* The API-key cache: a key is accepted or not, from one moment to the next; the TTL would earn a
  property about time only. The rate limiter is one atomic counter, the SDK a sequential loop over a clock.
* Of the dashboard: documentation, rules, settings and the forgotten password, which send nothing and
  keep nothing; copying to the clipboard, presets, notifications and the rest of what does not outlive
  a click; the API's URL in localStorage.
* Wiring, configuration and migrations.

## Plan

Done: `Outbox`, `ModerationWorker`, `ModerationLifecycle`, `WebhookWorker`, `AtLeastOnce`, `Submission`,
`Session`, `ModerationLog`, `LogPages`, `StatusPages`, `Views`, `WebhooksPage`, `ApiKeysPage` with
their runs, and proofs of every safety property. What would come next:

1. `Pipeline`: submission, outbox, worker and webhook composed, with duplicates produced by the
   outbox instead of bounded by `MaxCopies`, and webhooks deleted under a moderation worker.
2. `AuthCache` with a clock: key and tenant are read in two statements and cached later, so a
   fill races a deactivation.
3. More proofs: that the statuses seen by the pages, and the events and deliveries handed from part to
   part, are those of a `Pipeline`, so that the theorems of the parts become theorems of the whole.
