-------------------------------- MODULE Outbox --------------------------------
(***************************************************************************)
(* The transactional outbox (app/workers/outbox_publisher.py).  Submission *)
(* commits one pending row per moderation request; publisher processes     *)
(* claim batches of rows, send them to Kafka outside any transaction and   *)
(* then mark each row published or pending again.                          *)
(*                                                                         *)
(* Each database transaction of the code is one action: rows are taken FOR *)
(* UPDATE, and a row that SKIP LOCKED passes over is one whose change by   *)
(* the lock holder comes first in the serial order.  The clock is          *)
(* abstracted to the flag "stale": claimed_at is older than the timeout.   *)
(***************************************************************************)
EXTENDS Naturals, FiniteSets

CONSTANTS
    NumEvents,     \* outbox rows; their numbers are the order of created_at, id
    Publishers,    \* outbox publisher processes
    Tokens,        \* the uuid4 values claims draw from
    NoToken,       \* claim_token IS NULL
    BatchSize,     \* OUTBOX_CLAIM_BATCH_SIZE
    MaxFaults      \* bound on the faults that can make a duplicate

ASSUME OutboxAssumption ==
    /\ NumEvents \in Nat /\ BatchSize \in Nat \ {0} /\ MaxFaults \in Nat
    /\ NoToken \notin Tokens

Events == 1 .. NumEvents
NoEvent == 0

VARIABLES
    row,         \* the outbox_events table
    publisher,   \* per process: program point, current item, claimed batch
    sent,        \* copies of each event the broker has appended
    faults       \* faults so far (bounded by MaxFaults)

vars == <<row, publisher, sent, faults>>

Statuses == {"absent", "pending", "processing", "published"}
Points == {"recover", "claim", "send", "mark", "fail"}

Absent == [status |-> "absent", token |-> NoToken, stale |-> FALSE]
Pending == [status |-> "pending", token |-> NoToken, stale |-> FALSE]
Published == [status |-> "published", token |-> NoToken, stale |-> FALSE]

\* A publisher between two polls: no item in hand, no claim in memory.
Polling == [pc |-> "recover", item |-> NoEvent, held |-> [e \in Events |-> NoToken]]

TypeOK ==
    /\ row \in [Events -> [status : Statuses, token : Tokens \cup {NoToken}, stale : BOOLEAN]]
    /\ publisher \in [Publishers -> [pc : Points, item : Events \cup {NoEvent},
                                     held : [Events -> Tokens \cup {NoToken}]]]
    /\ sent \in [Events -> Nat]
    /\ faults \in Nat

-------------------------------------------------------------------------------
(* Helpers.  A definition marked "slip" is no part of the model: it is a   *)
(* plausible bug in the definition below it, kept to show that some        *)
(* property would notice.                                                  *)

Oldest(S) == CHOOSE e \in S : \A f \in S : e <= f

\* The rows the claim query selects from.
AnyUnpublished(e) == row[e].status \in {"pending", "processing"}   \* slip
Claimable(e) == row[e].status = "pending"

\* ORDER BY created_at, id LIMIT batch_size.
Batch == {e \in Events : /\ Claimable(e)
                         /\ Cardinality({f \in 1 .. (e - 1) : Claimable(f)}) < BatchSize}

\* The rows the recovery query selects.
NeverStale == {}   \* slip
StaleClaims == {e \in Events : row[e].status = "processing" /\ row[e].stale}

\* The events of the claimed batch that the loop has not handled yet.
Held(p) == {e \in Events : publisher[p].held[e] # NoToken}

\* Both UPDATEs are conditional on the row still being this publisher's claim.
ById(p) == TRUE   \* slip
ByStatus(p) == row[publisher[p].item].status = "processing"   \* slip
OwnsClaim(p) == LET e == publisher[p].item IN
    row[e].status = "processing" /\ row[e].token = publisher[p].held[e]

\* uuid4(): a value nobody uses for this event.
Unused(e) == {t \in Tokens : row[e].token # t /\ \A p \in Publishers : publisher[p].held[e] # t}

\* The loop goes on with the next item of the batch, or polls again.
Advance(p) == LET rest == Held(p) \ {publisher[p].item} IN
    publisher' = [publisher EXCEPT ![p] =
        IF rest = {} THEN Polling
        ELSE [pc |-> "send", item |-> Oldest(rest), held |-> [@.held EXCEPT ![publisher[p].item] = NoToken]]]

At(p, point) == publisher[p].pc = point
GoTo(p, point) == publisher' = [publisher EXCEPT ![p].pc = point]
Fault == faults < MaxFaults /\ faults' = faults + 1

-------------------------------------------------------------------------------
(* Actions.                                                                *)

\* A submission transaction commits the row.
Create(e) ==
    /\ row[e].status = "absent"
    /\ row' = [row EXCEPT ![e] = Pending]
    /\ UNCHANGED <<publisher, sent, faults>>

\* recover_stale_claims.
LeavesToken(p) ==   \* slip
    /\ At(p, "recover")
    /\ row' = [e \in Events |-> IF e \in StaleClaims THEN [row[e] EXCEPT !.status = "pending"] ELSE row[e]]
    /\ GoTo(p, "claim")
    /\ UNCHANGED <<sent, faults>>
Recover(p) ==
    /\ At(p, "recover")
    /\ row' = [e \in Events |-> IF e \in StaleClaims THEN Pending ELSE row[e]]
    /\ GoTo(p, "claim")
    /\ UNCHANGED <<sent, faults>>

\* claim_pending_events finds nothing.
ClaimNothing(p) ==
    /\ At(p, "claim")
    /\ Batch = {}
    /\ GoTo(p, "recover")
    /\ UNCHANGED <<row, sent, faults>>

\* claim_pending_events: each row of the batch gets a token of its own.
Claim(p) ==
    /\ At(p, "claim")
    /\ Batch # {}
    /\ \E tok \in [Batch -> Tokens] :
        /\ \A e \in Batch : tok[e] \in Unused(e)
        /\ row' = [e \in Events |->
                     IF e \in Batch
                     THEN [status |-> "processing", token |-> tok[e], stale |-> FALSE]
                     ELSE row[e]]
        /\ publisher' = [publisher EXCEPT ![p] =
                     [pc |-> "send", item |-> Oldest(Batch),
                      held |-> [e \in Events |-> IF e \in Batch THEN tok[e] ELSE NoToken]]]
    /\ UNCHANGED <<sent, faults>>

\* send_and_wait is acknowledged.
SendOk(p) ==
    /\ At(p, "send")
    /\ sent' = [sent EXCEPT ![publisher[p].item] = @ + 1]
    /\ GoTo(p, "mark")
    /\ UNCHANGED <<row, faults>>

\* send_and_wait raises and nothing was appended, or there is no producer.
SendFails(p) ==
    /\ At(p, "send")
    /\ GoTo(p, "fail")
    /\ UNCHANGED <<row, sent, faults>>

\* send_and_wait raises after the broker appended the record (lost answer).
SendUnclear(p) ==
    /\ At(p, "send")
    /\ Fault
    /\ sent' = [sent EXCEPT ![publisher[p].item] = @ + 1]
    /\ GoTo(p, "fail")
    /\ UNCHANGED row

\* _mark_event_published, whether or not the claim is still this publisher's.
MarkPublished(p) ==
    /\ At(p, "mark")
    /\ row' = IF OwnsClaim(p) THEN [row EXCEPT ![publisher[p].item] = Published] ELSE row
    /\ Advance(p)
    /\ UNCHANGED <<sent, faults>>

\* _mark_event_published raises, before or after its transaction took effect:
\* the except clause treats the acknowledged send as a failed one.
MarkPublishedRaises(p) ==
    /\ At(p, "mark")
    /\ Fault
    /\ \/ UNCHANGED row
       \/ OwnsClaim(p) /\ row' = [row EXCEPT ![publisher[p].item] = Published]
    /\ GoTo(p, "fail")
    /\ UNCHANGED sent

\* _mark_event_failed_retryable.
MarkFailed(p) ==
    /\ At(p, "fail")
    /\ row' = IF OwnsClaim(p) THEN [row EXCEPT ![publisher[p].item] = Pending] ELSE row
    /\ Advance(p)
    /\ UNCHANGED <<sent, faults>>

\* The process dies and restarts, or an exception reaches the loop of main():
\* either way the claims of the batch are forgotten and the rows stay.
LoseBatch(p) ==
    /\ publisher[p] # Polling
    /\ Fault
    /\ publisher' = [publisher EXCEPT ![p] = Polling]
    /\ UNCHANGED <<row, sent>>

\* OUTBOX_CLAIM_TIMEOUT_SECONDS pass.  For an abandoned claim that is what
\* recovery waits for; for a claim in use it means a slow publisher: a fault.
ClaimGoesStale(e) ==
    /\ row[e].status = "processing" /\ ~row[e].stale
    /\ row' = [row EXCEPT ![e].stale = TRUE]
    /\ IF \E p \in Publishers : publisher[p].held[e] = row[e].token THEN Fault ELSE UNCHANGED faults
    /\ UNCHANGED <<publisher, sent>>

-------------------------------------------------------------------------------
Init ==
    /\ row = [e \in Events |-> Absent]
    /\ publisher = [p \in Publishers |-> Polling]
    /\ sent = [e \in Events |-> 0]
    /\ faults = 0

\* What a publisher does by itself when nothing goes wrong.
Step(p) ==
    \/ Recover(p)
    \/ ClaimNothing(p)
    \/ Claim(p)
    \/ SendOk(p)
    \/ SendFails(p)
    \/ MarkPublished(p)
    \/ MarkFailed(p)

Next ==
    \/ \E p \in Publishers :
        \/ Step(p)
        \/ SendUnclear(p)
        \/ MarkPublishedRaises(p)
        \/ LoseBatch(p)
    \/ \E e \in Events : Create(e) \/ ClaimGoesStale(e)

Spec == Init /\ [][Next]_vars

\* main() polls for ever, time passes, and the broker is not down for ever:
\* a publisher that tries again and again gets an acknowledgement.
Fairness ==
    /\ \A p \in Publishers : WF_vars(Step(p)) /\ SF_vars(SendOk(p))
    /\ \A e \in Events : WF_vars(ClaimGoesStale(e))

FairSpec == Spec /\ Fairness

-------------------------------------------------------------------------------
(* Properties.                                                             *)

\* No event is lost: a row is marked published only when the broker has a copy
\* of its record, in spite of failed sends, crashes and recovered claims.
PublishedWasSent == \A e \in Events : row[e].status = "published" => sent[e] > 0

\* A claim token sits in a row exactly while the row is being processed, and two
\* publishers never both hold the claim that a row records.
OneOwner ==
    \A e \in Events :
        /\ row[e].token # NoToken <=> row[e].status = "processing"
        /\ \A p, q \in Publishers :
             row[e].token # NoToken /\ publisher[p].held[e] = row[e].token
                                    /\ publisher[q].held[e] = row[e].token => p = q

\* A publisher with a batch in memory is at an item it holds a token for; what it
\* holds has a row; and the broker has the item it is about to mark.
LocalsMatchPoint == \A p \in Publishers :
    /\ publisher[p].pc \in {"send", "mark", "fail"} =>
         publisher[p].item \in Events /\ publisher[p].held[publisher[p].item] # NoToken
    /\ publisher[p].pc = "mark" => sent[publisher[p].item] > 0
    /\ \A e \in Events : publisher[p].held[e] # NoToken => row[e].status # "absent"

\* The inductive invariant: what the safety properties need of one another.
IInv == TypeOK /\ LocalsMatchPoint /\ PublishedWasSent /\ OneOwner

\* At-least-once costs no more duplicates than there were faults: without a
\* crash, a lost answer or an overrun claim every event is appended once.
DuplicatesNeedFaults == \A e \in Events : sent[e] <= 1 + faults

\* A row leaves a claim that has not gone stale only by the publisher holding
\* that claim: one that lost its claim never touches the new owner's row.
FencedStep == \A e \in Events :
    row[e].status = "processing" /\ ~row[e].stale /\ row'[e].status # "processing" =>
        \E p \in Publishers : /\ publisher[p].item = e /\ publisher[p].held[e] = row[e].token
                              /\ publisher[p].pc \in {"mark", "fail"}
Fenced == [][FencedStep]_vars

\* The publishers deliver at least once and lose nothing: an event is published
\* only when the broker has it, and a published row is never claimed, recovered or
\* reset again, not even by a publisher that was overtaken.
AbsState == [e \in Events |-> CASE row[e].status = "absent" -> "absent"
                                [] row[e].status = "published" -> "done"
                                [] OTHER -> "open"]
Queue == INSTANCE AtLeastOnce WITH Items <- Events, state <- AbsState, copies <- sent
ImplementsAtLeastOnce == Queue!LosslessSpec

\* Every committed event is eventually published: claims that crashed
\* publishers left behind are recovered, failed sends are tried again.
EventuallyPublished ==
    \A e \in Events : row[e].status # "absent" ~> row[e].status = "published"
===============================================================================
