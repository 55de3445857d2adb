------------------------------ MODULE Submission ------------------------------
(***************************************************************************)
(* Submitting content (app/api/v1/endpoints/moderation.py and              *)
(* app/services/moderation_service.py).  A gateway process stores an       *)
(* upload, looks the idempotency key up, inserts the request inside a      *)
(* savepoint and commits it with its outbox event; what it stored and did  *)
(* not commit it deletes again.  Object storage and database share no      *)
(* transaction, and several gateways serve the same key at once.           *)
(*                                                                         *)
(* One action per statement another gateway can see the effect of.         *)
(* Handling is sequential inside a process: a submission is its own actor. *)
(***************************************************************************)
EXTENDS Naturals, FiniteSets

CONSTANTS
    NumSubmissions,   \* HTTP requests; n also names the request row, the asset
                      \* row, the outbox row and the object that n creates
    Keys,             \* idempotency keys, each with its tenant
    NoKey,            \* no Idempotency-Key header
    LongKeys,         \* those of more than 255 characters
    Payloads,         \* what is submitted, as far as the request hash tells it apart
    NoPayload,        \* the payload of a submission still to come
    Uploads,          \* the payloads that are media
    MaxFaults         \* bound on crashes, lost answers and failing deletions

Submissions == 1 .. NumSubmissions
NoRequest == 0

ASSUME SubmissionAssumption ==
    /\ NumSubmissions \in Nat /\ MaxFaults \in Nat
    /\ NoKey \notin Keys /\ NoPayload \notin Payloads
    /\ LongKeys \subseteq Keys /\ Uploads \subseteq Payloads

VARIABLES
    job,        \* per submission: program point, header, payload, the request its
                \* key led to and the answer given
    requests,   \* committed requests, each with its outbox event and asset row
    objects,    \* uploads in storage, complete or not
    faults      \* faults so far (bounded by MaxFaults)

vars == <<job, requests, objects, faults>>

Points == {"new", "upload", "check", "insert", "commit", "discard", "cleanup", "done"}
Verdicts == {"none", "accepted", "refused", "error"}

Job == [pc : Points, key : Keys \cup {NoKey}, payload : Payloads \cup {NoPayload},
        found : Submissions \cup {NoRequest}, answer : Verdicts]

TypeOK ==
    /\ job \in [Submissions -> Job]
    /\ requests \in SUBSET Submissions
    /\ objects \in SUBSET Submissions
    /\ faults \in Nat

-------------------------------------------------------------------------------
(* Helpers.  A definition marked "slip" is no part of the model: it is a   *)
(* plausible bug in the definition below it, kept to show that some        *)
(* property would notice.                                                  *)

At(n, point) == job[n].pc = point
GoTo(n, point) == job' = [job EXCEPT ![n].pc = point]
Fault == faults < MaxFaults /\ faults' = faults + 1

Media(n) == job[n].payload \in Uploads
HasKey(n) == job[n].key # NoKey

\* The rows a SELECT by key sees, and the gateways whose uncommitted row an
\* INSERT of the same key waits for.
Rows(n) == {r \in requests : HasKey(n) /\ job[r].key = job[n].key}
Writers(n) == {m \in Submissions \ {n} : At(m, "commit") /\ HasKey(n) /\ job[m].key = job[n].key}

\* request_hash: the same content under the same key is the same request.
AnyPayload(n, r) == TRUE   \* slip
SamePayload(n, r) == job[n].payload = job[r].payload

\* An exception leaves create_request: the media endpoint rolls back and cleans up.
LeavesObject(n, answer) ==   \* slip
    job' = [job EXCEPT ![n].pc = "done", ![n].answer = answer]
Raises(n, answer) ==
    job' = [job EXCEPT ![n].pc = IF Media(n) THEN "cleanup" ELSE "done", ![n].answer = answer]

\* create_request returns the request it found, or raises 409.
Concludes(n, r) ==
    IF SamePayload(n, r)
    THEN job' = [job EXCEPT ![n].pc = "done", ![n].found = r, ![n].answer = "accepted"]
    ELSE Raises(n, "refused")

\* The key is taken: an upload is deleted before its payload is compared.
Finds(n, r) == IF Media(n) THEN job' = [job EXCEPT ![n].pc = "discard", ![n].found = r]
               ELSE Concludes(n, r)

-------------------------------------------------------------------------------
(* Actions.                                                                *)

\* The headers pass validation; an upload is stored before anything else.
Receive(n) ==
    /\ At(n, "new") /\ \A m \in 1 .. (n - 1) : ~At(m, "new")
    /\ \E k \in Keys \cup {NoKey}, p \in Payloads :
         job' = [job EXCEPT ![n].pc = IF p \in Uploads THEN "upload" ELSE "check",
                            ![n].key = k, ![n].payload = p]
    /\ UNCHANGED <<requests, objects, faults>>

UploadOk(n) ==
    /\ At(n, "upload")
    /\ GoTo(n, "check")
    /\ objects' = objects \cup {n}
    /\ UNCHANGED <<requests, faults>>

\* Too large, or the storage fails: 413 or 502.  What was written is deleted, if
\* that does not fail too.
UploadFails(n) ==
    /\ At(n, "upload")
    /\ job' = [job EXCEPT ![n].pc = "done", ![n].answer = "error"]
    /\ UNCHANGED <<objects, faults>> \/ (objects' = objects \cup {n} /\ Fault)
    /\ UNCHANGED requests

\* 422 for a key of more than 255 characters.
RejectKey(n) ==
    /\ At(n, "check") /\ job[n].key \in LongKeys
    /\ IF Media(n) THEN GoTo(n, "discard") ELSE Raises(n, "refused")
    /\ UNCHANGED <<requests, objects, faults>>

LookupFinds(n) ==
    /\ At(n, "check") /\ job[n].key \notin LongKeys
    /\ \E r \in Rows(n) : Finds(n, r)
    /\ UNCHANGED <<requests, objects, faults>>

LookupMisses(n) ==
    /\ At(n, "check") /\ job[n].key \notin LongKeys
    /\ Rows(n) = {}
    /\ GoTo(n, "insert")
    /\ UNCHANGED <<requests, objects, faults>>

\* Asset and request are inserted; the unique constraint makes the second of two
\* writers wait until the first has committed or rolled back.
TakesAnyKey(n) ==   \* slip
    /\ At(n, "insert")
    /\ GoTo(n, "commit")
    /\ UNCHANGED <<requests, objects, faults>>
Insert(n) ==
    /\ At(n, "insert")
    /\ Rows(n) = {} /\ Writers(n) = {}
    /\ GoTo(n, "commit")
    /\ UNCHANGED <<requests, objects, faults>>

\* IntegrityError: the savepoint is rolled back and the winner looked up.
LosesNothing(n) == FALSE   \* slip
AlwaysConflicts(n) ==   \* slip
    /\ At(n, "insert")
    /\ Rows(n) # {}
    /\ Raises(n, "refused")
    /\ UNCHANGED <<requests, objects, faults>>
InsertLoses(n) ==
    /\ At(n, "insert")
    /\ \E r \in Rows(n) : Finds(n, r)
    /\ UNCHANGED <<requests, objects, faults>>

\* Request, asset and outbox event become visible together; 201.
Commit(n) ==
    /\ At(n, "commit")
    /\ requests' = requests \cup {n}
    /\ job' = [job EXCEPT ![n].pc = "done", ![n].found = n, ![n].answer = "accepted"]
    /\ UNCHANGED <<objects, faults>>

\* A statement raises and nothing is committed.
DatabaseFails(n) ==
    /\ At(n, "check") \/ At(n, "insert") \/ At(n, "commit")
    /\ Raises(n, "error")
    /\ UNCHANGED <<requests, objects, faults>>

\* The commit took effect, but its answer was lost or db.refresh raised.
CommitUnclear(n) ==
    /\ At(n, "commit") /\ Fault
    /\ requests' = requests \cup {n}
    /\ Raises(n, "error")
    /\ UNCHANGED objects

\* media_service.delete: failures are logged and ignored.
DeletesFound(n) ==   \* slip
    \/ objects' = objects \ {job[n].found} /\ UNCHANGED faults
    \/ UNCHANGED objects /\ Fault
Deletes(n) ==
    \/ objects' = objects \ {n} /\ UNCHANGED faults
    \/ UNCHANGED objects /\ Fault

Discard(n) ==
    /\ At(n, "discard")
    /\ Deletes(n)
    /\ IF job[n].key \in LongKeys THEN Raises(n, "refused") ELSE Concludes(n, job[n].found)
    /\ UNCHANGED requests

Cleanup(n) ==
    /\ At(n, "cleanup")
    /\ Deletes(n)
    /\ GoTo(n, "done")
    /\ UNCHANGED requests

\* The process dies: the database rolls back, storage keeps what it has, and the
\* client gets no answer.
Crash(n) ==
    /\ ~At(n, "new") /\ ~At(n, "done") /\ Fault
    /\ job' = [job EXCEPT ![n].pc = "done", ![n].answer = "error"]
    /\ UNCHANGED <<requests, objects>>

-------------------------------------------------------------------------------
Blank == [pc |-> "new", key |-> NoKey, payload |-> NoPayload,
          found |-> NoRequest, answer |-> "none"]

Init ==
    /\ job = [n \in Submissions |-> Blank]
    /\ requests = {}
    /\ objects = {}
    /\ faults = 0

Step(n) ==
    \/ UploadOk(n) \/ UploadFails(n)
    \/ RejectKey(n) \/ LookupFinds(n) \/ LookupMisses(n)
    \/ Insert(n) \/ InsertLoses(n)
    \/ Commit(n)
    \/ Discard(n) \/ Cleanup(n)

Next == \E n \in Submissions :
    Receive(n) \/ Step(n) \/ DatabaseFails(n) \/ CommitUnclear(n) \/ Crash(n)

Spec == Init /\ [][Next]_vars

\* A gateway goes on with what it has begun; that the database fails is never
\* what a waiting writer is released by.
Fairness == \A n \in Submissions : WF_vars(Step(n))
FairSpec == Spec /\ Fairness

-------------------------------------------------------------------------------
(* Properties.                                                             *)

\* An idempotency key names one request for good, whatever races and retries.
KeyNamesOneRequest == \A r, s \in requests :
    HasKey(r) /\ job[r].key = job[s].key => r = s

\* Who is told "created" gets a committed request with the content that was sent
\* and with the key it was sent under; without a key a request of its own.
AnswersAgree == \A n \in Submissions : job[n].answer = "accepted" =>
    LET r == job[n].found IN
    /\ r \in requests
    /\ job[r].key = job[n].key /\ job[r].payload = job[n].payload
    /\ ~HasKey(n) => r = n

\* A submission is refused only for its own key, or because the key already names
\* a request with another content: never for having lost a race against itself.
RefusedForAReason == \A n \in Submissions : job[n].answer = "refused" =>
    \/ job[n].key \in LongKeys
    \/ \E r \in Rows(n) : ~SamePayload(n, r)

\* A request is committed and answered at the end of its submission only; a writer
\* is alone with its key; what an upload is thrown away for has the key.
LocalsMatchPoint == \A n \in Submissions :
    /\ job[n].answer # "none" \/ n \in requests => job[n].pc \in {"cleanup", "done"}
    /\ job[n].answer = "accepted" => job[n].pc = "done"
    /\ job[n].pc = "commit" => Rows(n) = {} /\ Writers(n) = {}
    /\ job[n].pc = "discard" => job[n].key \in LongKeys \/ job[n].found \in Rows(n)

\* The inductive invariant: what the properties of keys and answers need.
IInv == TypeOK /\ LocalsMatchPoint /\ KeyNamesOneRequest /\ AnswersAgree /\ RefusedForAReason

\* An object that no request refers to stays only if something failed: a crash,
\* or a deletion.
StraysNeedFaults ==
    Cardinality({n \in objects : At(n, "done") /\ n \notin requests}) <= faults

\* A committed request loses its object only to a commit whose success the gateway
\* did not learn of: no retry and no loser of a race takes it away.
LossNeedsFault ==
    Cardinality({r \in requests : Media(r) /\ r \notin objects}) <= faults

\* Every submission is answered: writers of one key do not wait for ever.
EventuallyAnswered == \A n \in Submissions : ~At(n, "new") ~> At(n, "done")

\* "If the DB/outbox write fails, remove the already-uploaded object": an object
\* whose request was written is not removed.
RemovedOnlyIfWriteFailed == \A r \in requests : Media(r) => r \in objects
===============================================================================
