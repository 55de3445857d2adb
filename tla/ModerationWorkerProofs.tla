------------------------ MODULE ModerationWorkerProofs ------------------------
(***************************************************************************)
(* Theorems about ModerationWorker, for every number of requests, workers, *)
(* partitions and webhooks and every bound on retries, records and faults. *)
(***************************************************************************)
EXTENDS ModerationWorker, TLAPS

USE DEF FaultKinds

-------------------------------------------------------------------------------
(* Type correctness.                                                       *)

Row == [status : Statuses, token : Tokens \cup {NoToken}, retries : Nat,
        result : Verdicts \cup {"none"}, stale : BOOLEAN]
Local == [pc : Points, req : Requests \cup {NoRequest}, token : Tokens \cup {NoToken},
          out : Verdicts \cup Failures \cup {"none"}]
Delivery == [hook : Webhooks, req : Requests, event : EventTypes, status : Terminal]

\* A fault only counts up.
LEMMA FaultType == ASSUME TypeOK, NEW k \in FaultKinds, Fault(k)
                   PROVE  faults' \in [FaultKinds -> Nat]
  BY DEF TypeOK, Fault

\* Rows and local states, one at a time.
LEMMA RowType == ASSUME TypeOK, NEW r \in Requests PROVE request[r] \in Row
  BY DEF TypeOK, Row
\* A worker's local variables are a well-typed record.
LEMMA LocalType == ASSUME TypeOK, NEW w \in Workers PROVE worker[w] \in Local
  BY DEF TypeOK, Local

\* One more attempt is still a number.
LEMMA RetriesType == ASSUME TypeOK, NEW r \in Requests PROVE request[r].retries + 1 \in Nat
<1>1. request[r].retries \in Nat
  BY RowType DEF Row
<1> QED
  BY <1>1

\* Assigning a well-typed value to a worker's local state.
LEMMA BecomesType == ASSUME TypeOK, NEW w \in Workers, NEW l \in Local, Becomes(w, l)
                     PROVE  worker' \in [Workers -> Local]
  BY DEF TypeOK, Becomes, Local

\* Writing a well-typed row.
LEMMA WritesType == ASSUME TypeOK, NEW r \in Requests, NEW new \in Row, Writes(r, new)
                    PROVE  request' \in [Requests -> Row]
  BY DEF TypeOK, Writes, Row

\* The two local states that end a step of the loop.
LEMMA EndTypes == Idle \in Local /\ [Idle EXCEPT !.pc = "commit"] \in Local
  BY DEF Idle, Local, Points

\* Ending a record, by commit or by exception, leaves well-typed local variables.
LEMMA EndStepType == ASSUME TypeOK, NEW w \in Workers, ToCommit(w) \/ Skips(w)
                     PROVE  worker' \in [Workers -> Local]
  BY EndTypes, BecomesType DEF ToCommit, Skips

\* An announcement adds deliveries of the status it is given.
LEMMA AnnounceType == ASSUME TypeOK, NEW r \in Requests, NEW s \in Terminal, Announce(r, s)
                      PROVE  deliveries' \subseteq Delivery
  BY DEF TypeOK, Announce, Delivery, EnabledFor, EventOf, EventTypes

\* A decided request has a final status.
LEMMA DecidedType == ASSUME NEW r \in Requests PROVE DecidedStatus(r) \in Terminal
  BY DEF DecidedStatus, CompletedStatus, Terminal, Completed

\* Acknowledging a decided request keeps every table well-typed.
LEMMA AcknowledgeType == ASSUME TypeOK, NEW w \in Workers, NEW r \in Requests, Acknowledge(w, r)
                         PROVE  TypeOK'
<1>1. request' \in [Requests -> Row]
  <2>1. DecidedStatus(r) \in Statuses
    BY DecidedType DEF Statuses
  <2>2. [request[r] EXCEPT !.status = DecidedStatus(r), !.token = NoToken] \in Row
    BY <2>1, RowType DEF Row
  <2> QED
    BY <2>2, WritesType DEF Acknowledge
<1>2. deliveries' \subseteq Delivery
  BY AnnounceType, DecidedType DEF Acknowledge
<1>3. worker' \in [Workers -> Local]
  BY EndStepType DEF Acknowledge
<1> QED
  BY <1>1, <1>2, <1>3 DEF TypeOK, Acknowledge, kafka, Row, Local, Delivery

\* Reassigning the partitions keeps Kafka's state well-typed.
LEMMA ReassignType == ASSUME TypeOK, Reassign
                      PROVE  /\ owner' \in [Partitions -> Workers \cup {NoWorker}]
                             /\ position' \in [Partitions -> Nat]
  BY DEF TypeOK, Reassign

\* The program starts well typed.
LEMMA TypeInit == Init => TypeOK
  BY WorkerAssumption DEF Init, TypeOK, Idle, Statuses, Points

\* Every step keeps the state well-typed.
LEMMA TypeStep == TypeOK /\ [Next]_vars => TypeOK'
<1> SUFFICES ASSUME TypeOK, [Next]_vars PROVE TypeOK'
  OBVIOUS
<1> USE DEF Row, Local
<1>1. ASSUME NEW r \in Requests, Publish(r) PROVE TypeOK'
  <2>1. log' \in [Partitions -> Seq(Requests \cup {NoRequest})]
    BY <1>1, WorkerAssumption DEF TypeOK, Publish
  <2> QED
    BY <1>1, <2>1 DEF TypeOK, Publish, db
<1>2. ASSUME NEW p \in Partitions, PublishJunk(p) PROVE TypeOK'
  <2>1. log' \in [Partitions -> Seq(Requests \cup {NoRequest})]
    BY <1>2 DEF TypeOK, PublishJunk
  <2> QED
    BY <1>2, <2>1 DEF TypeOK, PublishJunk, db
<1>3. ASSUME NEW w \in Workers, NEW p \in Partitions, Fetch(w, p) PROVE TypeOK'
  <2>1. log[p][position[p] + 1] \in Requests \cup {NoRequest}
    BY <1>3 DEF TypeOK, Fetch
  <2>2. [Idle EXCEPT !.pc = "got", !.req = log[p][position[p] + 1]] \in Local
    BY <2>1 DEF Idle, Points
  <2>3. worker' \in [Workers -> Local]
    BY <1>3, <2>2, BecomesType DEF Fetch
  <2>4. position' \in [Partitions -> Nat]
    BY <1>3 DEF TypeOK, Fetch
  <2> QED
    BY <1>3, <2>3, <2>4 DEF TypeOK, Fetch, db
<1>4. ASSUME NEW w \in Workers, CommitOk(w) \/ CommitFails(w) PROVE TypeOK'
  <2>1. worker' \in [Workers -> Local]
    BY <1>4, EndTypes, BecomesType DEF CommitOk, CommitFails
  <2>2. committed' \in [Partitions -> Nat]
    BY <1>4 DEF TypeOK, CommitOk, CommitFails, kafka, NextOffset
  <2> QED
    BY <1>4, <2>1, <2>2 DEF TypeOK, CommitOk, CommitFails, db, kafka
<1>5. ASSUME NEW w \in Workers, Discard(w) \/ Busy(w) \/ LoseClaim(w) PROVE TypeOK'
  <2>1. worker' \in [Workers -> Local]
    BY <1>5, EndStepType DEF Discard, Busy, LoseClaim
  <2> QED
    BY <1>5, <2>1 DEF TypeOK, Discard, Busy, LoseClaim, db, kafka
<1>6. ASSUME NEW w \in Workers, ObserveDecided(w) \/ FindDecided(w) PROVE TypeOK'
  BY <1>6, AcknowledgeType DEF ObserveDecided, FindDecided
<1>7. ASSUME NEW w \in Workers, Claim(w) PROVE TypeOK'
  <2>1. PICK r \in Requests, t \in Unused :
            /\ Writes(r, [request[r] EXCEPT !.status = "processing", !.token = t, !.stale = FALSE])
            /\ Becomes(w, [worker[w] EXCEPT !.pc = "infer", !.token = t])
            /\ UNCHANGED <<deliveries, enabled, kafka, faults>>
    BY <1>7 DEF Claim
  <2>2. t \in Tokens
    BY DEF Unused
  <2>3. [request[r] EXCEPT !.status = "processing", !.token = t, !.stale = FALSE] \in Row
    BY <2>2, RowType DEF Statuses
  <2>4. [worker[w] EXCEPT !.pc = "infer", !.token = t] \in Local
    BY <2>2, LocalType DEF Points
  <2>5. request' \in [Requests -> Row] /\ worker' \in [Workers -> Local]
    BY <2>1, <2>3, <2>4, WritesType, BecomesType
  <2> QED
    BY <2>1, <2>5 DEF TypeOK, kafka
<1>8. ASSUME NEW w \in Workers, InferOk(w) \/ InferRejects(w) \/ InferBreaks(w) PROVE TypeOK'
  <2>1. PICK o \in Verdicts \cup Failures : Becomes(w, [worker[w] EXCEPT !.pc = "persist", !.out = o])
    BY <1>8 DEF InferOk, InferRejects, InferBreaks, Failures
  <2>2. [worker[w] EXCEPT !.pc = "persist", !.out = o] \in Local
    BY LocalType DEF Points
  <2>3. worker' \in [Workers -> Local]
    BY <2>1, <2>2, BecomesType
  <2>4. faults' \in [FaultKinds -> Nat]
    BY <1>8, FaultType DEF TypeOK, InferOk, InferRejects, InferBreaks
  <2> QED
    BY <1>8, <2>3, <2>4 DEF TypeOK, InferOk, InferRejects, InferBreaks, db, kafka
<1>9. ASSUME NEW w \in Workers, RecordResult(w) PROVE TypeOK'
  <2>1. PICK r \in Requests :
            /\ worker[w].out \in Verdicts
            /\ Writes(r, [request[r] EXCEPT !.result = worker[w].out, !.token = NoToken,
                              !.status = CompletedStatus(worker[w].out), !.stale = FALSE])
            /\ Announce(r, CompletedStatus(worker[w].out))
            /\ ToCommit(w)
            /\ UNCHANGED <<enabled, kafka, faults>>
    BY <1>9 DEF RecordResult
  <2>2. CompletedStatus(worker[w].out) \in Terminal /\ CompletedStatus(worker[w].out) \in Statuses
    BY DEF CompletedStatus, Terminal, Completed, Statuses
  <2>3. [request[r] EXCEPT !.result = worker[w].out, !.token = NoToken,
             !.status = CompletedStatus(worker[w].out), !.stale = FALSE] \in Row
    BY <2>1, <2>2, RowType
  <2>4. /\ request' \in [Requests -> Row] /\ worker' \in [Workers -> Local]
        /\ deliveries' \subseteq Delivery
    BY <2>1, <2>2, <2>3, WritesType, EndStepType, AnnounceType
  <2> QED
    BY <2>1, <2>4 DEF TypeOK, kafka, Delivery
<1>10. ASSUME NEW w \in Workers, FailRequest(w) PROVE TypeOK'
  <2>1. PICK r \in Requests :
            /\ Writes(r, [request[r] EXCEPT !.status = "failed", !.token = NoToken,
                              !.retries = @ + 1, !.stale = FALSE])
            /\ Announce(r, "failed")
            /\ ToCommit(w)
            /\ UNCHANGED <<enabled, kafka, faults>>
    BY <1>10 DEF FailRequest
  <2>2. [request[r] EXCEPT !.status = "failed", !.token = NoToken,
             !.retries = @ + 1, !.stale = FALSE] \in Row
    BY RowType, RetriesType DEF Statuses, Terminal
  <2>3. /\ request' \in [Requests -> Row] /\ worker' \in [Workers -> Local]
        /\ deliveries' \subseteq Delivery
    BY <2>1, <2>2, WritesType, EndStepType, AnnounceType DEF Terminal
  <2> QED
    BY <2>1, <2>3 DEF TypeOK, kafka, Delivery
<1>11. ASSUME NEW w \in Workers, Requeue(w) PROVE TypeOK'
  <2>1. PICK r \in Requests :
            Writes(r, [request[r] EXCEPT !.status = "pending", !.token = NoToken,
                           !.retries = @ + 1, !.stale = FALSE])
    BY <1>11 DEF Requeue, ReleaseClaim
  <2>2. [request[r] EXCEPT !.status = "pending", !.token = NoToken,
             !.retries = @ + 1, !.stale = FALSE] \in Row
    BY RowType, RetriesType DEF Statuses
  <2>3. request' \in [Requests -> Row] /\ worker' \in [Workers -> Local]
    BY <1>11, <2>1, <2>2, WritesType, EndStepType DEF Requeue
  <2> QED
    BY <1>11, <2>3 DEF TypeOK, Requeue, kafka
<1>12. ASSUME NEW r \in Requests, LeaseExpires(r) PROVE TypeOK'
  <2>1. [request[r] EXCEPT !.stale = TRUE] \in Row
    BY RowType
  <2> QED
    BY <1>12, <2>1, WritesType DEF TypeOK, LeaseExpires, kafka
<1>13. ASSUME NEW h \in Webhooks, UpdateWebhook(h) PROVE TypeOK'
  BY <1>13 DEF TypeOK, UpdateWebhook, kafka
<1>14. ASSUME NEW w \in Workers, UnexpectedError(w) PROVE TypeOK'
  <2>1. worker' \in [Workers -> Local] /\ faults' \in [FaultKinds -> Nat]
    BY <1>14, EndStepType, FaultType DEF UnexpectedError
  <2> QED
    BY <1>14, <2>1 DEF TypeOK, UnexpectedError, db, kafka
<1>15. ASSUME NEW w \in Workers, Crash(w) PROVE TypeOK'
  <2>1. worker' \in [Workers -> Local] /\ faults' \in [FaultKinds -> Nat]
    BY <1>15, EndTypes, FaultType DEF Crash, TypeOK
  <2> QED
    BY <1>15, <2>1 DEF TypeOK, Crash, db
<1>16. CASE Rejoin
  BY <1>16, ReassignType DEF TypeOK, Rejoin, Reassign, db
<1>17. CASE Rebalance
  <2>1. faults' \in [FaultKinds -> Nat]
    BY <1>17, FaultType DEF Rebalance
  <2> QED
    BY <1>17, <2>1, ReassignType DEF TypeOK, Rebalance, Reassign, db
<1>18. CASE UNCHANGED vars
  BY <1>18 DEF TypeOK, vars
<1> QED
  BY <1>1, <1>2, <1>3, <1>4, <1>5, <1>6, <1>7, <1>8, <1>9, <1>10, <1>11, <1>12, <1>13, <1>14,
     <1>15, <1>16, <1>17, <1>18
     DEF Next, Environment, Step, Loop, ClaimTxn, Infer, PersistTxn

\* Every reachable state is well-typed, for every value of the constants.
THEOREM TypeCorrect == Spec => []TypeOK
  BY TypeInit, TypeStep, PTL DEF Spec

-------------------------------------------------------------------------------
(* The inductive invariant.                                                *)

Pieces == /\ LocalsMatchPoint /\ ResultMatchesStatus /\ ClaimIsExclusive
          /\ RetriesBounded /\ DeliveriesMatchOutcome

\* A request is decided exactly when its status is final, and its status then
\* is the one an acknowledgement would write.
LEMMA DecidedIsTerminal ==
    ASSUME TypeOK, ResultMatchesStatus, NEW r \in Requests
    PROVE  /\ Decided(r) <=> request[r].status \in Terminal
           /\ Decided(r) => DecidedStatus(r) = request[r].status
<1>1. request[r] \in Row
  BY RowType
<1> QED
  BY <1>1 DEF ResultMatchesStatus, Decided, DecidedStatus, HasResult, CompletedStatus, Completed,
              Terminal, Row, Verdicts

\* Nothing was announced about a request that is still open.
LEMMA OpenIsUnannounced ==
    ASSUME TypeOK, ResultMatchesStatus, DeliveriesMatchOutcome, NEW r \in Requests, ~Decided(r)
    PROVE  \A d \in deliveries : d.req # r
<1>1. \A d \in deliveries : d.status \in Terminal /\ d.status = request[d.req].status
  BY DEF TypeOK, DeliveriesMatchOutcome
<1> QED
  BY <1>1, DecidedIsTerminal

\* A worker that may persist its outcome holds the row's claim: the request is
\* being processed and undecided.
LEMMA OwnerState ==
    ASSUME IInv, NEW w \in Workers, NEW r \in Requests, MayPersist(w, r), ~Superseded(w)
    PROVE  /\ worker[w].req = r /\ worker[w].token # NoToken /\ request[r].token = worker[w].token
           /\ request[r].status = "processing" /\ ~Decided(r) /\ ~HasResult(r)
<1>1. worker[w].req = r /\ worker[w].token # NoToken /\ request[r].token = worker[w].token
  BY DEF IInv, MayPersist, Superseded, LocalsMatchPoint, At
<1>2. request[r].status = "processing"
  BY <1>1 DEF IInv, ClaimIsExclusive
<1> QED
  BY <1>1, <1>2 DEF IInv, ResultMatchesStatus, Decided, HasResult, CompletedStatus

\* A step that changes one worker's locals only, without giving it a token.
LEMMA LocalStep ==
    ASSUME IInv, NEW w \in Workers, NEW l \in Local, Becomes(w, l),
           request' = request, deliveries' = deliveries,
           \/ l.token = NoToken /\ l.pc \notin {"infer", "persist"}
           \/ /\ worker[w].token # NoToken /\ l.token = worker[w].token /\ l.req = worker[w].req
              /\ l.pc = "persist" /\ l.out \in Verdicts \cup Failures
    PROVE  Pieces'
<1>1. /\ worker'[w] = l
      /\ \A v \in Workers : v # w => worker'[v] = worker[v]
  BY DEF IInv, TypeOK, Becomes
<1>2. LocalsMatchPoint'
  BY <1>1 DEF IInv, LocalsMatchPoint
<1>3. ClaimIsExclusive'
  BY <1>1 DEF IInv, ClaimIsExclusive
<1> QED
  BY <1>2, <1>3 DEF Pieces, IInv, ResultMatchesStatus, RetriesBounded, DeliveriesMatchOutcome,
                    HasResult, CompletedStatus, EventOf

\* A step that changes neither requests, nor deliveries, nor workers.
LEMMA OutsideStep ==
    ASSUME IInv, request' = request, deliveries' = deliveries, worker' = worker
    PROVE  Pieces'
  BY DEF Pieces, IInv, LocalsMatchPoint, ResultMatchesStatus, ClaimIsExclusive, RetriesBounded,
         DeliveriesMatchOutcome, HasResult, CompletedStatus, EventOf

\* Announcing the status the request then has keeps deliveries truthful, when
\* the request was open or had that status before.
LEMMA AnnounceStep ==
    ASSUME IInv, TypeOK', NEW r \in Requests, NEW s \in Terminal, Announce(r, s),
           NEW new \in Row, Writes(r, new), new.status = s,
           ~Decided(r) \/ request[r].status = s
    PROVE  DeliveriesMatchOutcome'
<1> SUFFICES ASSUME NEW d \in deliveries'
             PROVE  /\ d.status = request'[d.req].status /\ d.event = EventOf(d.status)
                    /\ TenantOf[d.hook] = TenantOf[d.req]
  BY DEF DeliveriesMatchOutcome, EventOf
<1>1. /\ request'[r] = new
      /\ \A q \in Requests : q # r => request'[q] = request[q]
  BY DEF IInv, TypeOK, Writes
<1>2. CASE d \in deliveries
  <2>1. /\ d.req \in Requests /\ d.status = request[d.req].status /\ d.event = EventOf(d.status)
        /\ TenantOf[d.hook] = TenantOf[d.req]
    BY <1>2 DEF IInv, TypeOK, DeliveriesMatchOutcome
  <2>2. d.req = r => request[r].status = s
    BY <1>2, OpenIsUnannounced DEF IInv
  <2> QED
    BY <1>1, <2>1, <2>2
<1>3. CASE d \notin deliveries
  <2>1. PICK h \in EnabledFor(r) :
            d = [hook |-> h, req |-> r, event |-> EventOf(s), status |-> s]
    BY <1>3 DEF Announce
  <2> QED
    BY <1>1, <2>1 DEF EnabledFor
<1> QED
  BY <1>2, <1>3

\* A step in which w ends its record and writes a row without a claim.
LEMMA EndStep ==
    ASSUME IInv, TypeOK', NEW w \in Workers, NEW r \in Requests, ToCommit(w) \/ Skips(w),
           NEW new \in Row, Writes(r, new), new.token = NoToken, new.status # "processing",
           IF new.result # "none" THEN new.status = CompletedStatus(new.result)
                                  ELSE new.status \notin Completed,
           new.retries <= MaxRetries, new.retries = MaxRetries => new.status = "failed"
    PROVE  LocalsMatchPoint' /\ ResultMatchesStatus' /\ ClaimIsExclusive' /\ RetriesBounded'
<1>1. /\ request'[r] = new
      /\ \A q \in Requests : q # r => request'[q] = request[q]
  BY DEF IInv, TypeOK, Writes
<1>2. /\ worker'[w].token = NoToken /\ worker'[w].pc \notin {"infer", "persist"}
      /\ \A v \in Workers : v # w => worker'[v] = worker[v]
  BY DEF IInv, TypeOK, ToCommit, Skips, Becomes, Idle
<1>3. LocalsMatchPoint'
  BY <1>2 DEF IInv, LocalsMatchPoint
<1>4. ResultMatchesStatus'
  BY <1>1 DEF IInv, ResultMatchesStatus, HasResult, CompletedStatus
<1>5. ClaimIsExclusive'
  BY <1>1, <1>2 DEF IInv, ClaimIsExclusive
<1>6. RetriesBounded'
  BY <1>1 DEF IInv, RetriesBounded
<1> QED
  BY <1>3, <1>4, <1>5, <1>6

\* A decided request stays as it is when its record is acknowledged again.
LEMMA AcknowledgeStep ==
    ASSUME IInv, TypeOK', NEW w \in Workers, NEW r \in Requests, Decided(r), Acknowledge(w, r)
    PROVE  Pieces'
<1> DEFINE new == [request[r] EXCEPT !.status = DecidedStatus(r), !.token = NoToken]
<1>1. DecidedStatus(r) = request[r].status /\ request[r].status \in Terminal
  BY DecidedIsTerminal DEF IInv
<1>2. /\ new \in Row /\ new.token = NoToken /\ new.status = request[r].status
      /\ new.result = request[r].result /\ new.retries = request[r].retries
  BY <1>1, RowType DEF IInv, Row, Statuses
<1>3. Writes(r, new) /\ ToCommit(w) /\ Announce(r, request[r].status)
  BY <1>1 DEF Acknowledge
<1>4. request[r].status # "processing"
  BY <1>1 DEF Terminal, Completed
<1>5. IF new.result # "none" THEN new.status = CompletedStatus(new.result)
                             ELSE new.status \notin Completed
  BY <1>2 DEF IInv, ResultMatchesStatus, HasResult
<1>6. new.retries <= MaxRetries /\ (new.retries = MaxRetries => new.status = "failed")
  BY <1>2 DEF IInv, RetriesBounded
<1> HIDE DEF new
<1>7. LocalsMatchPoint' /\ ResultMatchesStatus' /\ ClaimIsExclusive' /\ RetriesBounded'
  BY <1>2, <1>3, <1>4, <1>5, <1>6, EndStep
<1>8. DeliveriesMatchOutcome'
  BY <1>1, <1>2, <1>3, AnnounceStep
<1> QED
  BY <1>7, <1>8 DEF Pieces

\* A claim hands out a token nobody holds, for a request that is open.
LEMMA ClaimStep == ASSUME IInv, TypeOK', NEW w \in Workers, Claim(w) PROVE Pieces'
<1>1. PICK r \in Requests, t \in Unused :
          /\ worker[w].req = r /\ ~Decided(r)
          /\ Writes(r, [request[r] EXCEPT !.status = "processing", !.token = t, !.stale = FALSE])
          /\ Becomes(w, [worker[w] EXCEPT !.pc = "infer", !.token = t])
          /\ deliveries' = deliveries
  BY DEF Claim
<1>2. /\ t # NoToken
      /\ \A q \in Requests : request[q].token # t
      /\ \A v \in Workers : worker[v].token # t
  BY WorkerAssumption DEF Unused
<1>3. /\ request'[r].status = "processing" /\ request'[r].token = t
      /\ request'[r].result = request[r].result /\ request'[r].retries = request[r].retries
      /\ \A q \in Requests : q # r => request'[q] = request[q]
  BY <1>1 DEF IInv, TypeOK, Writes
<1>4. /\ worker'[w].pc = "infer" /\ worker'[w].token = t /\ worker'[w].req = r
      /\ \A v \in Workers : v # w => worker'[v] = worker[v]
  BY <1>1 DEF IInv, TypeOK, Becomes
<1>5. request[r].status \notin Terminal /\ request[r].result = "none"
  BY <1>1, DecidedIsTerminal DEF IInv, Decided, HasResult
<1>6. LocalsMatchPoint'
  BY <1>2, <1>4 DEF IInv, LocalsMatchPoint
<1>7. ResultMatchesStatus'
  BY <1>3, <1>5 DEF IInv, ResultMatchesStatus, HasResult, CompletedStatus, Completed
<1>8. ClaimIsExclusive'
  BY <1>2, <1>3, <1>4 DEF IInv, ClaimIsExclusive
<1>9. RetriesBounded'
  <2>1. request[r].retries # MaxRetries
    BY <1>5 DEF IInv, RetriesBounded, Terminal
  <2> QED
    BY <1>3, <2>1 DEF IInv, RetriesBounded
<1>10. DeliveriesMatchOutcome'
  <2>1. \A d \in deliveries : d.req \in Requests /\ d.req # r
    BY <1>1, OpenIsUnannounced DEF IInv, TypeOK
  <2> QED
    BY <1>1, <1>3, <2>1 DEF IInv, DeliveriesMatchOutcome, EventOf
<1> QED
  BY <1>6, <1>7, <1>8, <1>9, <1>10 DEF Pieces

\* Recording a result preserves every part of the invariant.
LEMMA RecordStep == ASSUME IInv, TypeOK', NEW w \in Workers, RecordResult(w) PROVE Pieces'
<1>1. PICK r \in Requests :
          /\ MayPersist(w, r) /\ ~Superseded(w)
          /\ worker[w].out \in Verdicts
          /\ Writes(r, [request[r] EXCEPT !.result = worker[w].out, !.token = NoToken,
                            !.status = CompletedStatus(worker[w].out), !.stale = FALSE])
          /\ Announce(r, CompletedStatus(worker[w].out))
          /\ ToCommit(w)
  BY DEF RecordResult
<1> DEFINE s == CompletedStatus(worker[w].out)
           new == [request[r] EXCEPT !.result = worker[w].out, !.token = NoToken,
                       !.status = s, !.stale = FALSE]
<1>2. request[r].status = "processing" /\ ~Decided(r)
  BY <1>1, OwnerState
<1>3. s \in Terminal /\ s \in Statuses /\ s # "processing"
  BY DEF CompletedStatus, Terminal, Completed, Statuses
<1>4. /\ new \in Row /\ new.token = NoToken /\ new.status = s
      /\ new.result = worker[w].out /\ new.retries = request[r].retries
  BY <1>1, <1>3, RowType DEF IInv, Row
<1>5. worker[w].out # "none"
  BY <1>1 DEF Verdicts
<1>6. new.retries <= MaxRetries /\ new.retries # MaxRetries
  BY <1>2, <1>4 DEF IInv, RetriesBounded
<1>7. Writes(r, new) /\ Announce(r, s) /\ ToCommit(w)
  BY <1>1
<1>8. IF new.result # "none" THEN new.status = CompletedStatus(new.result)
                             ELSE new.status \notin Completed
  BY <1>4, <1>5
<1> HIDE DEF new, s
<1>9. LocalsMatchPoint' /\ ResultMatchesStatus' /\ ClaimIsExclusive' /\ RetriesBounded'
  BY <1>3, <1>4, <1>6, <1>7, <1>8, EndStep
<1>10. DeliveriesMatchOutcome'
  BY <1>2, <1>3, <1>4, <1>7, AnnounceStep
<1> QED
  BY <1>9, <1>10 DEF Pieces

\* Failing a request for good preserves every part of the invariant.
LEMMA FailStep == ASSUME IInv, TypeOK', NEW w \in Workers, FailRequest(w) PROVE Pieces'
<1>1. PICK r \in Requests :
          /\ MayPersist(w, r) /\ ~Superseded(w)
          /\ Writes(r, [request[r] EXCEPT !.status = "failed", !.token = NoToken,
                            !.retries = @ + 1, !.stale = FALSE])
          /\ Announce(r, "failed")
          /\ ToCommit(w)
  BY DEF FailRequest
<1> DEFINE new == [request[r] EXCEPT !.status = "failed", !.token = NoToken,
                       !.retries = @ + 1, !.stale = FALSE]
<1>2. request[r].status = "processing" /\ ~Decided(r) /\ request[r].result = "none"
  BY <1>1, OwnerState DEF HasResult
<1>3. request[r].retries + 1 \in Nat /\ request[r].retries \in Nat
  BY RetriesType, RowType DEF IInv, Row
<1>4. /\ new \in Row /\ new.token = NoToken /\ new.status = "failed"
      /\ new.result = "none" /\ new.retries = request[r].retries + 1
  BY <1>2, <1>3, RowType DEF IInv, Row, Statuses, Terminal
<1>5. new.retries <= MaxRetries
  <2>1. request[r].retries <= MaxRetries /\ request[r].retries # MaxRetries
    BY <1>2 DEF IInv, RetriesBounded
  <2> QED
    BY <1>3, <1>4, <2>1, WorkerAssumption
<1>6. Writes(r, new) /\ Announce(r, "failed") /\ ToCommit(w)
  BY <1>1
<1>7. "failed" \in Terminal /\ "failed" \notin Completed
  BY DEF Terminal, Completed
<1> HIDE DEF new
<1>8. LocalsMatchPoint' /\ ResultMatchesStatus' /\ ClaimIsExclusive' /\ RetriesBounded'
  BY <1>4, <1>5, <1>6, <1>7, EndStep
<1>9. DeliveriesMatchOutcome'
  BY <1>2, <1>4, <1>6, <1>7, AnnounceStep
<1> QED
  BY <1>8, <1>9 DEF Pieces

\* Giving a request back for another attempt preserves every part of the invariant.
LEMMA RequeueStep == ASSUME IInv, TypeOK', NEW w \in Workers, Requeue(w) PROVE Pieces'
<1>1. PICK r \in Requests :
          /\ MayPersist(w, r) /\ ~Superseded(w) /\ ~GivesUp(w)
          /\ Writes(r, [request[r] EXCEPT !.status = "pending", !.token = NoToken,
                            !.retries = @ + 1, !.stale = FALSE])
          /\ Skips(w)
          /\ deliveries' = deliveries
  BY DEF Requeue, ReleaseClaim
<1> DEFINE new == [request[r] EXCEPT !.status = "pending", !.token = NoToken,
                       !.retries = @ + 1, !.stale = FALSE]
<1>2. worker[w].req = r /\ ~Decided(r) /\ request[r].result = "none"
  BY <1>1, OwnerState DEF HasResult
<1>3. request[r].retries + 1 \in Nat
  BY RetriesType DEF IInv
<1>4. /\ new \in Row /\ new.token = NoToken /\ new.status = "pending"
      /\ new.result = "none" /\ new.retries = request[r].retries + 1
  <2>1. request[r] \in Row /\ "pending" \in Statuses
    BY RowType DEF IInv, Statuses
  <2> QED
    BY <1>2, <1>3, <2>1 DEF Row
<1>5. ~(request[r].retries + 1 >= MaxRetries)
  BY <1>1, <1>2 DEF GivesUp
<1>6. new.retries <= MaxRetries /\ new.retries # MaxRetries
  BY <1>3, <1>4, <1>5, WorkerAssumption
<1>7. Writes(r, new)
  BY <1>1
<1>8. request'[r] = new /\ \A q \in Requests : q # r => request'[q] = request[q]
  BY <1>7 DEF IInv, TypeOK, Writes
<1> HIDE DEF new
<1>9. LocalsMatchPoint' /\ ResultMatchesStatus' /\ ClaimIsExclusive' /\ RetriesBounded'
  BY <1>1, <1>4, <1>6, <1>7, EndStep DEF Completed
<1>10. DeliveriesMatchOutcome'
  <2>1. \A d \in deliveries : d.req \in Requests /\ d.req # r
    BY <1>2, OpenIsUnannounced DEF IInv, TypeOK
  <2> QED
    BY <1>1, <1>8, <2>1 DEF IInv, DeliveriesMatchOutcome, EventOf
<1> QED
  BY <1>9, <1>10 DEF Pieces

\* The end of a lease, which no worker is told of, disturbs no part of the invariant.
LEMMA LeaseStep == ASSUME IInv, TypeOK', NEW r \in Requests, LeaseExpires(r) PROVE Pieces'
<1>1. /\ worker' = worker /\ deliveries' = deliveries
      /\ \A q \in Requests : /\ request'[q].status = request[q].status
                              /\ request'[q].token = request[q].token
                              /\ request'[q].result = request[q].result
                              /\ request'[q].retries = request[q].retries
  BY DEF IInv, TypeOK, LeaseExpires, Writes
<1>2. \A d \in deliveries : d.req \in Requests
  BY DEF IInv, TypeOK
<1> QED
  BY <1>1, <1>2 DEF Pieces, IInv, LocalsMatchPoint, ResultMatchesStatus, ClaimIsExclusive,
         RetriesBounded, DeliveriesMatchOutcome, HasResult, CompletedStatus, EventOf

\* The inductive invariant holds before any record is published.
LEMMA InvInit == Init => IInv
<1> SUFFICES ASSUME Init PROVE IInv
  OBVIOUS
<1>1. TypeOK
  BY TypeInit
<1>2. Pieces
  BY WorkerAssumption DEF Pieces, Init, Idle, LocalsMatchPoint, ResultMatchesStatus, HasResult,
        ClaimIsExclusive, RetriesBounded, DeliveriesMatchOutcome, Completed
<1> QED
  BY <1>1, <1>2 DEF IInv, Pieces

\* Every step keeps the inductive invariant.
LEMMA InvStep == IInv /\ [Next]_vars => IInv'
<1> SUFFICES ASSUME IInv, [Next]_vars PROVE IInv'
  OBVIOUS
<1>0. TypeOK'
  BY TypeStep DEF IInv
<1> SUFFICES Pieces'
  BY <1>0 DEF IInv, Pieces
<1>1. ASSUME NEW r \in Requests, Publish(r) PROVE Pieces'
  BY <1>1, OutsideStep DEF Publish, db
<1>2. ASSUME NEW p \in Partitions, PublishJunk(p) PROVE Pieces'
  BY <1>2, OutsideStep DEF PublishJunk, db
<1>3. ASSUME NEW w \in Workers, NEW p \in Partitions, Fetch(w, p) PROVE Pieces'
  <2> DEFINE l == [Idle EXCEPT !.pc = "got", !.req = log[p][position[p] + 1]]
  <2>1. log[p][position[p] + 1] \in Requests \cup {NoRequest}
    BY <1>3 DEF IInv, TypeOK, Fetch
  <2>2. l \in Local /\ l.token = NoToken /\ l.pc = "got"
    BY <2>1 DEF Local, Idle, Points
  <2>3. Becomes(w, l) /\ request' = request /\ deliveries' = deliveries
    BY <1>3 DEF Fetch, db
  <2> QED
    BY <2>2, <2>3, LocalStep
<1>4. ASSUME NEW w \in Workers,
             \/ CommitOk(w) \/ CommitFails(w) \/ Discard(w) \/ Busy(w) \/ LoseClaim(w)
             \/ UnexpectedError(w) \/ Crash(w)
      PROVE Pieces'
  <2>1. /\ Becomes(w, Idle) \/ Becomes(w, [Idle EXCEPT !.pc = "commit"])
        /\ request' = request /\ deliveries' = deliveries
    BY <1>4 DEF CommitOk, CommitFails, Discard, Busy, LoseClaim, UnexpectedError, Crash,
                ToCommit, Skips, Becomes, db
  <2>2. /\ Idle.token = NoToken /\ Idle.pc = "idle"
        /\ [Idle EXCEPT !.pc = "commit"].token = NoToken /\ [Idle EXCEPT !.pc = "commit"].pc = "commit"
    BY DEF Idle
  <2> QED
    BY <2>1, <2>2, EndTypes, LocalStep
<1>5. ASSUME NEW w \in Workers, ObserveDecided(w) PROVE Pieces'
  BY <1>0, <1>5, AcknowledgeStep DEF ObserveDecided
<1>6. ASSUME NEW w \in Workers, FindDecided(w) PROVE Pieces'
  BY <1>0, <1>6, AcknowledgeStep DEF FindDecided, Decided
<1>7. ASSUME NEW w \in Workers, Claim(w) PROVE Pieces'
  BY <1>0, <1>7, ClaimStep
<1>8. ASSUME NEW w \in Workers, InferOk(w) \/ InferRejects(w) \/ InferBreaks(w) PROVE Pieces'
  <2>1. PICK o \in Verdicts \cup Failures : Becomes(w, [worker[w] EXCEPT !.pc = "persist", !.out = o])
    BY <1>8 DEF InferOk, InferRejects, InferBreaks, Failures
  <2>2. worker[w].token # NoToken /\ request' = request /\ deliveries' = deliveries
    BY <1>8 DEF InferOk, InferRejects, InferBreaks, At, IInv, LocalsMatchPoint, db
  <2> DEFINE l == [worker[w] EXCEPT !.pc = "persist", !.out = o]
  <2>3. /\ l \in Local /\ l.token = worker[w].token /\ l.req = worker[w].req
        /\ l.pc = "persist" /\ l.out = o
    BY LocalType DEF IInv, Local, Points
  <2> QED
    BY <2>1, <2>2, <2>3, LocalStep
<1>9. ASSUME NEW w \in Workers, RecordResult(w) PROVE Pieces'
  BY <1>0, <1>9, RecordStep
<1>10. ASSUME NEW w \in Workers, FailRequest(w) PROVE Pieces'
  BY <1>0, <1>10, FailStep
<1>11. ASSUME NEW w \in Workers, Requeue(w) PROVE Pieces'
  BY <1>0, <1>11, RequeueStep
<1>12. ASSUME NEW r \in Requests, LeaseExpires(r) PROVE Pieces'
  BY <1>0, <1>12, LeaseStep
<1>13. ASSUME NEW h \in Webhooks, UpdateWebhook(h) PROVE Pieces'
  BY <1>13, OutsideStep DEF UpdateWebhook
<1>14. CASE Rejoin
  BY <1>14, OutsideStep DEF Rejoin, db
<1>15. CASE Rebalance
  BY <1>15, OutsideStep DEF Rebalance, db
<1>16. CASE UNCHANGED vars
  BY <1>16, OutsideStep DEF vars
<1> QED
  BY <1>1, <1>2, <1>3, <1>4, <1>5, <1>6, <1>7, <1>8, <1>9, <1>10, <1>11, <1>12, <1>13, <1>14,
     <1>15, <1>16
     DEF Next, Environment, Step, Loop, ClaimTxn, Infer, PersistTxn

\* The inductive invariant of the claim protocol holds in every reachable state.
THEOREM Invariance == Spec => []IInv
  BY InvInit, InvStep, PTL DEF Spec

-------------------------------------------------------------------------------
(* Safety.                                                                 *)

\* The reported status always agrees with the stored result.
THEOREM StatusIsTruthful == Spec => []ResultMatchesStatus
<1>1. IInv => ResultMatchesStatus
  BY DEF IInv
<1> QED
  BY <1>1, Invariance, PTL

\* At most one worker holds the claim a row records.
THEOREM ClaimsAreExclusive == Spec => []ClaimIsExclusive
<1>1. IInv => ClaimIsExclusive
  BY DEF IInv
<1> QED
  BY <1>1, Invariance, PTL

\* No request is tried more often than MAX_RETRIES after failures.
THEOREM RetriesAreBounded == Spec => []RetriesBounded
<1>1. IInv => RetriesBounded
  BY DEF IInv
<1> QED
  BY <1>1, Invariance, PTL

\* Every webhook delivery carries the final outcome of its request.
THEOREM DeliveriesAreTruthful == Spec => []DeliveriesMatchOutcome
<1>1. IInv => DeliveriesMatchOutcome
  BY DEF IInv
<1> QED
  BY <1>1, Invariance, PTL

\* What an acknowledgement does to the row it finds decided: nothing visible.
LEMMA AcknowledgeKeeps ==
    ASSUME IInv, NEW w \in Workers, NEW r \in Requests, Decided(r), Acknowledge(w, r)
    PROVE  \A q \in Requests : /\ request'[q].status = request[q].status
                               /\ request'[q].result = request[q].result
                               /\ request'[q].retries = request[q].retries
<1>1. DecidedStatus(r) = request[r].status
  BY DecidedIsTerminal DEF IInv
<1> QED
  BY <1>1 DEF Acknowledge, Writes, IInv, TypeOK

\* What each step may do to the outcome of a request.
LEMMA RequestStep ==
    ASSUME IInv, [Next]_vars
    PROVE  \/ \A q \in Requests : /\ request'[q].result = request[q].result
                                  /\ request'[q].retries = request[q].retries
                                  /\ request'[q].status \in {request[q].status, "processing"}
           \/ \E w \in Workers : RecordResult(w) \/ FailRequest(w) \/ Requeue(w)
<1> DEFINE Keeps == \A q \in Requests : /\ request'[q].result = request[q].result
                                        /\ request'[q].retries = request[q].retries
                                        /\ request'[q].status \in {request[q].status, "processing"}
<1>1. ASSUME NEW w \in Workers, ObserveDecided(w) \/ FindDecided(w) PROVE Keeps
  BY <1>1, AcknowledgeKeeps DEF ObserveDecided, FindDecided, Decided
<1>2. ASSUME NEW w \in Workers, Claim(w) PROVE Keeps
  BY <1>2 DEF Claim, Writes, IInv, TypeOK
<1>3. ASSUME NEW r \in Requests, LeaseExpires(r) PROVE Keeps
  BY <1>3 DEF LeaseExpires, Writes, IInv, TypeOK
<1>4. CASE request' = request
  BY <1>4
<1> QED
  BY <1>1, <1>2, <1>3, <1>4
     DEF Next, Environment, Step, Loop, ClaimTxn, Infer, PersistTxn, vars, db,
         Publish, PublishJunk, UpdateWebhook, InferBreaks, UnexpectedError, Crash, Rejoin, Rebalance,
         Fetch, CommitOk, CommitFails, Discard, Busy, InferOk, InferRejects, LoseClaim

\* The three steps that change an outcome are taken by the claim's holder.
LEMMA OwnerStep == IInv /\ [Next]_vars => OwnerDecidesStep
<1> SUFFICES ASSUME IInv, [Next]_vars, NEW r \in Requests,
                    \/ request'[r].result # request[r].result
                    \/ request'[r].retries # request[r].retries
                    \/ request'[r].status \notin {request[r].status, "processing"}
             PROVE  \E w \in Workers :
                      /\ worker[w].pc = "persist" /\ worker[w].req = r
                      /\ worker[w].token = request[r].token /\ worker[w].token # NoToken
                      /\ worker'[w].token = NoToken
  BY DEF OwnerDecidesStep
<1>1. PICK w \in Workers : RecordResult(w) \/ FailRequest(w) \/ Requeue(w)
  BY RequestStep
<1>2. PICK q \in Requests :
          /\ MayPersist(w, q) /\ ~Superseded(w) /\ (ToCommit(w) \/ Skips(w))
          /\ \E new : Writes(q, new)
  BY <1>1 DEF RecordResult, FailRequest, Requeue, ReleaseClaim
<1>3. q = r
  BY <1>2 DEF IInv, TypeOK, Writes
<1>4. worker'[w].token = NoToken
  BY <1>2 DEF ToCommit, Skips, Becomes, Idle, IInv, TypeOK
<1> QED
  BY <1>2, <1>3, <1>4, OwnerState DEF MayPersist, At

\* A worker whose claim was replaced never decides anything.
THEOREM OnlyOwnersDecide == Spec => OwnerDecides
  BY Invariance, OwnerStep, PTL DEF Spec, OwnerDecides

\* The three ends of an inference set its outcome.
LEMMA InferenceEnds ==
    ASSUME NEW w \in Workers, InferOk(w) \/ InferRejects(w) \/ InferBreaks(w)
    PROVE  \E o \in Verdicts \cup Failures : Becomes(w, [worker[w] EXCEPT !.pc = "persist", !.out = o])
<1>1. CASE InferOk(w)
  BY <1>1, Zenon DEF InferOk
<1>2. CASE InferRejects(w)
  BY <1>2, Zenon DEF InferRejects, Failures
<1>3. CASE InferBreaks(w)
  BY <1>3, Zenon DEF InferBreaks, Failures
<1> QED
  BY <1>1, <1>2, <1>3, Zenon

\* A worker that starts inference claims a request no other worker has a live claim of.
LEMMA InferenceStep == IInv /\ [Next]_vars => NoDoubleInferenceStep
<1> SUFFICES ASSUME IInv, [Next]_vars, NEW v \in Workers, NEW w \in Workers,
                    v # w, worker[w].pc = "got", worker'[w].pc = "infer",
                    worker[v].pc = "infer", worker[v].req = worker[w].req
             PROVE  request[worker[v].req].stale \/ Superseded(v)
  BY DEF NoDoubleInferenceStep
<1>1. \A u \in Workers : worker[u] \in Local
  BY LocalType DEF IInv
<1>2. Claim(w)
  <2>2. Idle.pc = "idle" /\ [Idle EXCEPT !.pc = "commit"].pc = "commit"
    BY DEF Idle
  <2>3. ASSUME NEW u \in Workers, NEW l, Becomes(u, l), l.pc # "infer" PROVE FALSE
    <3>1. worker' = [worker EXCEPT ![u] = l] /\ DOMAIN worker = Workers
      BY <2>3 DEF Becomes, IInv, TypeOK
    <3>2. worker'[w] = IF w = u THEN l ELSE worker[w]
      BY <3>1
    <3> QED
      BY <2>3, <3>2
  <2>4. ASSUME NEW u \in Workers, NEW p \in Partitions, Fetch(u, p) PROVE FALSE
    <3> DEFINE l == [Idle EXCEPT !.pc = "got", !.req = log[p][position[p] + 1]]
    <3>1. Becomes(u, l) /\ l.pc = "got"
      BY <2>4 DEF Fetch, Idle
    <3> QED
      BY <2>3, <3>1
  <2>5. ASSUME NEW u \in Workers, ToCommit(u) \/ Skips(u) \/ Becomes(u, Idle) PROVE FALSE
    BY <2>2, <2>3, <2>5 DEF ToCommit, Skips
  <2>6. ASSUME NEW u \in Workers, InferOk(u) \/ InferRejects(u) \/ InferBreaks(u) PROVE FALSE
    <3>1. PICK o \in Verdicts \cup Failures : Becomes(u, [worker[u] EXCEPT !.pc = "persist", !.out = o])
      BY <2>6, InferenceEnds, Zenon
    <3>2. [worker[u] EXCEPT !.pc = "persist", !.out = o].pc = "persist"
      BY <1>1 DEF Local
    <3> QED
      BY <2>3, <3>1, <3>2
  <2>7. ASSUME NEW u \in Workers, Claim(u) PROVE u = w
    BY <2>7 DEF Claim, Becomes, IInv, TypeOK
  <2>8. worker' # worker
    OBVIOUS
  <2>9. ASSUME NEW u \in Workers, Crash(u) PROVE FALSE
    BY <2>5, <2>9 DEF Crash, Becomes
  <2> QED
    BY <2>4, <2>5, <2>6, <2>7, <2>8, <2>9
       DEF Next, Environment, Step, Loop, ClaimTxn, Infer, PersistTxn, vars, db,
           Publish, PublishJunk, UpdateWebhook, UnexpectedError, Rejoin, Rebalance,
           CommitOk, CommitFails, Discard, ObserveDecided, Busy, Acknowledge, FindDecided,
           LoseClaim, RecordResult, FailRequest, Requeue, LeaseExpires
<1>3. PICK r \in Requests : worker[w].req = r /\ ~ClaimIsLive(r)
  BY <1>2 DEF Claim
<1>4. worker[v].token # NoToken
  BY DEF IInv, LocalsMatchPoint
<1>5. CASE request[r].status = "processing"
  BY <1>3, <1>5 DEF ClaimIsLive
<1>6. CASE request[r].status # "processing"
  BY <1>3, <1>4, <1>6 DEF IInv, ClaimIsExclusive, Superseded
<1> QED
  BY <1>5, <1>6

\* Inference runs twice on a request only after a lease ran out or a claim was replaced.
THEOREM InferenceRunsOnce == Spec => NoDoubleInference
  BY Invariance, InferenceStep, PTL DEF Spec, NoDoubleInference

-------------------------------------------------------------------------------
(* Offsets.  As long as nothing fails but partitions move, no record is    *)
(* passed over before its request is decided or somebody carries it.       *)

OnlyRebalances == \A k \in FaultKinds \ {"rebalance"} : faults[k] = 0
NotLost(r) == Decided(r) \/ Carried(r)

\* What the records need: a claim in a row has its holder, a claim held was not given
\* back, and all the owner of a partition has fetched is carried or decided.
HoldersExist == \A r \in Requests : request[r].status = "processing" =>
    \E w \in Workers : worker[w].token = request[r].token /\ worker[w].req = r
ClaimsStay == \A w \in Workers :
    /\ worker[w].token # NoToken => request[worker[w].req].status # "pending"
    /\ worker[w].out # "transient"
OffsetsInLog == \A p \in Partitions : committed[p] <= position[p] /\ position[p] <= Len(log[p])
FetchedIsCarried == \A p \in Partitions, r \in Requests : \A i \in 1 .. position[p] :
    log[p][i] = r => NotLost(r)

CarriedInv == OffsetsInLog /\ (OnlyRebalances => HoldersExist /\ ClaimsStay /\ FetchedIsCarried)

Kept == HoldersExist' /\ ClaimsStay' /\ \A r \in Requests : NotLost(r) => NotLost(r)'

\* A worker's own step is no fault, and moves offsets by fetching and committing only.
LEMMA WorkerStepKeeps ==
    ASSUME NEW w \in Workers, Step(w)
    PROVE  /\ faults' = faults
           /\ UNCHANGED kafka \/ CommitOk(w) \/ \E p \in Partitions : Fetch(w, p)
<1>1. CASE Loop(w)
  BY <1>1, Zenon DEF Loop, Fetch, CommitOk, CommitFails
<1>2. CASE ClaimTxn(w)
  BY <1>2, Zenon DEF ClaimTxn, Discard, ObserveDecided, Busy, Claim, Acknowledge
<1>3. CASE Infer(w)
  BY <1>3, Zenon DEF Infer, InferOk, InferRejects
<1>4. CASE PersistTxn(w)
  BY <1>4, Zenon DEF PersistTxn, FindDecided, Acknowledge, LoseClaim, RecordResult, FailRequest, Requeue
<1> QED
  BY <1>1, <1>2, <1>3, <1>4 DEF Step

\* If nothing but partitions moved after the step, nothing else failed before or in it.
LEMMA OnlyRebalancesBefore ==
    ASSUME IInv, [Next]_vars, OnlyRebalances'
    PROVE  /\ OnlyRebalances
           /\ \A w \in Workers : ~InferBreaks(w) /\ ~UnexpectedError(w) /\ ~Crash(w)
<1>1. faults \in [FaultKinds -> Nat]
  BY DEF IInv, TypeOK
<1>2. ASSUME NEW k \in FaultKinds \ {"rebalance"}, Fault(k) PROVE FALSE
  BY <1>1, <1>2 DEF Fault, OnlyRebalances
<1>3. \A w \in Workers : ~InferBreaks(w) /\ ~UnexpectedError(w) /\ ~Crash(w)
  BY <1>2 DEF InferBreaks, UnexpectedError, Crash
<1>4. faults' = faults \/ Fault("rebalance")
  <2>1. CASE \E w \in Workers : Step(w)
    BY <2>1, WorkerStepKeeps
  <2>2. CASE Environment
    BY <1>3, <2>2, Zenon DEF Environment, Publish, PublishJunk, UpdateWebhook, Rejoin, Rebalance,
                             LeaseExpires
  <2> QED
    BY <2>1, <2>2 DEF Next, vars
<1> QED
  BY <1>1, <1>3, <1>4 DEF Fault, OnlyRebalances

\* A worker that goes on with its record, or that lets go of it while another carries it.
LEMMA LocalKeeps ==
    ASSUME IInv, HoldersExist, ClaimsStay, NEW w \in Workers, NEW l \in Local, Becomes(w, l),
           request' = request, l.out # "transient",
           \/ /\ l.req = worker[w].req /\ l.token = worker[w].token
              /\ l.pc \in {"got", "infer", "persist"}
           \/ /\ l.token = NoToken
              /\ worker[w].token = NoToken \/ Superseded(w)
              /\ worker[w].pc \in {"got", "infer", "persist"} /\ worker[w].req \in Requests =>
                   \/ Decided(worker[w].req)
                   \/ \E v \in Workers \ {w} : /\ worker[v].req = worker[w].req
                                               /\ worker[v].pc \in {"got", "infer", "persist"}
    PROVE  Kept
<1>1. /\ worker'[w] = l
      /\ \A v \in Workers : v # w => worker'[v] = worker[v]
  BY DEF IInv, TypeOK, Becomes
<1>2. HoldersExist'
  <2> SUFFICES ASSUME NEW r \in Requests, request[r].status = "processing"
               PROVE  \E v \in Workers : worker'[v].token = request[r].token /\ worker'[v].req = r
    BY DEF HoldersExist
  <2>1. PICK v \in Workers : worker[v].token = request[r].token /\ worker[v].req = r
    BY DEF HoldersExist
  <2>2. request[r].token # NoToken
    BY DEF IInv, ClaimIsExclusive
  <2>3. CASE v # w
    BY <1>1, <2>1, <2>3
  <2>4. CASE v = w
    BY <1>1, <2>1, <2>2, <2>4 DEF Superseded
  <2> QED
    BY <2>3, <2>4
<1>3. ClaimsStay'
  BY <1>1 DEF ClaimsStay
<1>4. ASSUME NEW r \in Requests, NotLost(r) PROVE NotLost(r)'
  <2>1. CASE Decided(r)
    BY <2>1 DEF NotLost, Decided, HasResult
  <2>2. ASSUME NEW v \in Workers, worker[v].req = r, worker[v].pc \in {"got", "infer", "persist"},
               v # w
        PROVE  NotLost(r)'
    BY <1>1, <2>2 DEF NotLost, Carried
  <2>3. CASE worker[w].req = r /\ worker[w].pc \in {"got", "infer", "persist"}
    <3>1. CASE l.req = r /\ l.pc \in {"got", "infer", "persist"}
      BY <1>1, <3>1 DEF NotLost, Carried
    <3>2. CASE ~(l.req = r /\ l.pc \in {"got", "infer", "persist"})
      BY <2>1, <2>2, <2>3, <3>2
    <3> QED
      BY <3>1, <3>2
  <2> QED
    BY <1>4, <2>1, <2>2, <2>3 DEF NotLost, Carried
<1> QED
  BY <1>2, <1>3, <1>4 DEF Kept

\* A worker that decides the request of its record, or finds it decided.
LEMMA DecisionKeeps ==
    ASSUME IInv, HoldersExist, ClaimsStay, NEW w \in Workers, NEW r \in Requests,
           NEW new \in Row, worker[w].req = r, ToCommit(w), Writes(r, new),
           new.result # "none" \/ new.status = "failed", new.status \in Terminal
    PROVE  Kept
<1>1. /\ worker'[w] = [Idle EXCEPT !.pc = "commit"]
      /\ \A v \in Workers : v # w => worker'[v] = worker[v]
  BY DEF IInv, TypeOK, ToCommit, Becomes
<1>2. /\ request'[r] = new
      /\ \A q \in Requests : q # r => request'[q] = request[q]
  BY DEF IInv, TypeOK, Writes
<1>3. worker'[w].token = NoToken /\ worker'[w].out = "none"
  BY <1>1 DEF Idle
<1>4. new.status # "processing" /\ new.status # "pending"
  BY DEF Terminal, Completed
<1>5. HoldersExist'
  BY <1>1, <1>2, <1>4 DEF HoldersExist
<1>6. ClaimsStay'
  <2> SUFFICES ASSUME NEW v \in Workers
               PROVE  /\ worker'[v].token # NoToken => request'[worker'[v].req].status # "pending"
                      /\ worker'[v].out # "transient"
    BY DEF ClaimsStay
  <2>1. CASE v = w
    BY <1>3, <2>1
  <2>2. CASE v # w
    <3>1. worker'[v] = worker[v] /\ (worker[v].token # NoToken => worker[v].req \in Requests)
      BY <1>1, <2>2 DEF IInv, LocalsMatchPoint
    <3> QED
      BY <1>2, <1>4, <3>1 DEF ClaimsStay
  <2> QED
    BY <2>1, <2>2
<1>7. ASSUME NEW q \in Requests, NotLost(q) PROVE NotLost(q)'
  <2>1. CASE q = r
    BY <1>2, <2>1 DEF NotLost, Decided, HasResult
  <2>2. CASE q # r
    BY <1>1, <1>2, <1>7, <2>2 DEF NotLost, Decided, HasResult, Carried
  <2> QED
    BY <2>1, <2>2
<1> QED
  BY <1>5, <1>6, <1>7 DEF Kept

\* A claim gives the row a holder, who carries the request on.
LEMMA ClaimKeeps ==
    ASSUME IInv, HoldersExist, ClaimsStay, NEW w \in Workers, Claim(w)
    PROVE  Kept
<1>1. PICK r \in Requests, t \in Unused :
        /\ At(w, "got") /\ worker[w].req = r
        /\ Writes(r, [request[r] EXCEPT !.status = "processing", !.token = t, !.stale = FALSE])
        /\ Becomes(w, [worker[w] EXCEPT !.pc = "infer", !.token = t])
  BY Zenon DEF Claim
<1>2. /\ worker'[w] = [worker[w] EXCEPT !.pc = "infer", !.token = t]
      /\ \A v \in Workers : v # w => worker'[v] = worker[v]
  BY <1>1 DEF IInv, TypeOK, Becomes
<1>3. /\ request'[r] = [request[r] EXCEPT !.status = "processing", !.token = t, !.stale = FALSE]
      /\ \A q \in Requests : q # r => request'[q] = request[q]
  BY <1>1 DEF IInv, TypeOK, Writes
<1>4. worker[w] \in Local /\ request[r] \in Row
  BY LocalType, RowType DEF IInv
<1>5. /\ worker'[w].req = r /\ worker'[w].token = t /\ worker'[w].pc = "infer"
      /\ worker'[w].out = worker[w].out
      /\ request'[r].status = "processing" /\ request'[r].token = t
      /\ request'[r].result = request[r].result
  BY <1>1, <1>2, <1>3, <1>4 DEF Local, Row
<1>6. HoldersExist'
  <2> SUFFICES ASSUME NEW q \in Requests, request'[q].status = "processing"
               PROVE  \E v \in Workers : worker'[v].token = request'[q].token /\ worker'[v].req = q
    BY DEF HoldersExist
  <2>1. CASE q = r
    BY <1>5, <2>1
  <2>2. CASE q # r
    <3>1. PICK v \in Workers : worker[v].token = request[q].token /\ worker[v].req = q
      BY <1>3, <2>2 DEF HoldersExist
    <3> QED
      BY <1>1, <1>2, <1>3, <2>2, <3>1
  <2> QED
    BY <2>1, <2>2
<1>7. ClaimsStay'
  <2> SUFFICES ASSUME NEW v \in Workers
               PROVE  /\ worker'[v].token # NoToken => request'[worker'[v].req].status # "pending"
                      /\ worker'[v].out # "transient"
    BY DEF ClaimsStay
  <2>1. CASE v = w
    BY <1>5, <2>1 DEF ClaimsStay
  <2>2. CASE v # w
    <3>1. worker'[v] = worker[v] /\ (worker[v].token # NoToken => worker[v].req \in Requests)
      BY <1>2, <2>2 DEF IInv, LocalsMatchPoint
    <3>2. CASE worker[v].req = r
      BY <1>5, <3>1, <3>2 DEF ClaimsStay
    <3>3. CASE worker[v].req # r
      BY <1>3, <3>1, <3>3 DEF ClaimsStay
    <3> QED
      BY <3>2, <3>3
  <2> QED
    BY <2>1, <2>2
<1>8. ASSUME NEW q \in Requests, NotLost(q) PROVE NotLost(q)'
  <2>1. CASE q = r
    BY <1>5, <2>1 DEF NotLost, Carried
  <2>2. CASE q # r
    BY <1>1, <1>2, <1>3, <1>8, <2>2 DEF NotLost, Decided, HasResult, Carried
  <2> QED
    BY <2>1, <2>2
<1> QED
  BY <1>6, <1>7, <1>8 DEF Kept

\* Claims, holders and carriers stay when neither rows nor workers change but for a lease.
LEMMA OutsideKeeps ==
    ASSUME IInv, HoldersExist, ClaimsStay, worker' = worker,
           request' = request \/ \E r \in Requests : LeaseExpires(r)
    PROVE  Kept
<1>1. \A q \in Requests : /\ request'[q].status = request[q].status
                          /\ request'[q].token = request[q].token
                          /\ request'[q].result = request[q].result
  <2>1. CASE request' = request
    BY <2>1
  <2>2. ASSUME NEW r \in Requests, LeaseExpires(r)
        PROVE  \A q \in Requests : /\ request'[q].status = request[q].status
                                   /\ request'[q].token = request[q].token
                                   /\ request'[q].result = request[q].result
    <3>1. request' = [request EXCEPT ![r] = [request[r] EXCEPT !.stale = TRUE]]
      BY <2>2, Zenon DEF LeaseExpires, Writes
    <3>2. request \in [Requests -> Row]
      BY DEF IInv, TypeOK, Row
    <3> QED
      BY <3>1, <3>2 DEF Row
  <2> QED
    BY <2>1, <2>2
<1>2. \A v \in Workers : worker[v].token # NoToken => worker[v].req \in Requests
  BY DEF IInv, LocalsMatchPoint
<1> QED
  BY <1>1, <1>2 DEF Kept, HoldersExist, ClaimsStay, NotLost, Decided, HasResult, Carried

\* Offsets are committed as far as records were fetched, and those are in the log.
LEMMA OffsetsStep ==
    ASSUME IInv, OffsetsInLog, [Next]_vars
    PROVE  /\ OffsetsInLog'
           /\ \A p \in Partitions : /\ position[p] \in Nat /\ position'[p] \in Nat
                                    /\ \A i \in 1 .. position[p] : log'[p][i] = log[p][i]
           /\ (\A p \in Partitions : position'[p] <= position[p])
                \/ \E w \in Workers, p \in Partitions : Fetch(w, p)
<1>1. /\ position \in [Partitions -> Nat] /\ committed \in [Partitions -> Nat]
      /\ \A p \in Partitions : log[p] \in Seq(Requests \cup {NoRequest})
      /\ DOMAIN log = Partitions
  BY DEF IInv, TypeOK
<1>2. CASE UNCHANGED kafka
  BY <1>1, <1>2 DEF kafka, OffsetsInLog
<1>3. ASSUME NEW p \in Partitions, NEW r \in Requests \cup {NoRequest},
             log' = [log EXCEPT ![p] = Append(@, r)],
             UNCHANGED <<position, committed>>
      PROVE  /\ OffsetsInLog' /\ \A q \in Partitions : position'[q] <= position[q]
             /\ \A q \in Partitions : \A i \in 1 .. position[q] : log'[q][i] = log[q][i]
  <2>1. /\ Len(Append(log[p], r)) = Len(log[p]) + 1 /\ Len(log[p]) \in Nat
        /\ \A i \in 1 .. Len(log[p]) : Append(log[p], r)[i] = log[p][i]
    BY <1>1
  <2>2. /\ log'[p] = Append(log[p], r)
        /\ \A q \in Partitions : q # p => log'[q] = log[q]
    BY <1>1, <1>3
  <2> QED
    BY <1>1, <1>3, <2>1, <2>2 DEF OffsetsInLog
<1>4. ASSUME NEW w \in Workers, NEW p \in Partitions, Fetch(w, p)
      PROVE  OffsetsInLog' /\ log' = log
  BY <1>1, <1>4 DEF Fetch, OffsetsInLog
<1>5. ASSUME NEW w \in Workers, CommitOk(w)
      PROVE  OffsetsInLog' /\ log' = log /\ position' = position
  BY <1>1, <1>5 DEF CommitOk, OffsetsInLog, NextOffset
<1>6. CASE Reassign
  BY <1>1, <1>6 DEF Reassign, OffsetsInLog
<1>7. CASE UNCHANGED <<log, position, committed>>
  BY <1>1, <1>7 DEF OffsetsInLog
<1>8. \/ UNCHANGED kafka \/ UNCHANGED <<log, position, committed>> \/ Reassign
      \/ \E p \in Partitions, r \in Requests \cup {NoRequest} :
            log' = [log EXCEPT ![p] = Append(@, r)] /\ UNCHANGED <<position, committed>>
      \/ \E w \in Workers : CommitOk(w) \/ \E p \in Partitions : Fetch(w, p)
  <2>1. ASSUME NEW w \in Workers, Step(w)
        PROVE  UNCHANGED kafka \/ CommitOk(w) \/ \E p \in Partitions : Fetch(w, p)
    BY <2>1, WorkerStepKeeps
  <2>2. ASSUME NEW r \in Requests, Publish(r)
        PROVE  \E p \in Partitions : log' = [log EXCEPT ![p] = Append(@, r)]
                                     /\ UNCHANGED <<position, committed>>
    BY <2>2, WorkerAssumption DEF Publish
  <2>3. ASSUME NEW p \in Partitions, PublishJunk(p)
        PROVE  log' = [log EXCEPT ![p] = Append(@, NoRequest)] /\ UNCHANGED <<position, committed>>
    BY <2>3 DEF PublishJunk
  <2>4. ASSUME NEW r \in Requests, LeaseExpires(r) PROVE UNCHANGED kafka
    BY <2>4 DEF LeaseExpires
  <2>5. ASSUME NEW h \in Webhooks, UpdateWebhook(h) PROVE UNCHANGED kafka
    BY <2>5 DEF UpdateWebhook
  <2>6. ASSUME NEW w \in Workers, InferBreaks(w) \/ UnexpectedError(w) \/ Crash(w)
        PROVE  UNCHANGED <<log, position, committed>>
    BY <2>6 DEF InferBreaks, UnexpectedError, Crash, kafka
  <2>7. CASE Rejoin \/ Rebalance
    BY <2>7 DEF Rejoin, Rebalance
  <2>8. CASE UNCHANGED vars
    BY <2>8 DEF vars, kafka
  <2> QED
    BY <2>1, <2>2, <2>3, <2>4, <2>5, <2>6, <2>7, <2>8 DEF Next, Environment
<1> QED
  <2>1. \A q \in Partitions : position[q] <= position[q] /\ committed[q] <= position[q]
    BY <1>1 DEF OffsetsInLog
  <2>2. CASE UNCHANGED kafka \/ UNCHANGED <<log, position, committed>> \/ Reassign
    BY <1>1, <1>2, <1>6, <1>7, <2>1, <2>2 DEF kafka, Reassign
  <2>3. ASSUME NEW p \in Partitions, NEW r \in Requests \cup {NoRequest},
               log' = [log EXCEPT ![p] = Append(@, r)], UNCHANGED <<position, committed>>
        PROVE  /\ OffsetsInLog' /\ position' = position
               /\ \A q \in Partitions : \A i \in 1 .. position[q] : log'[q][i] = log[q][i]
    BY <1>3, <2>3
  <2>4. ASSUME NEW w \in Workers, NEW p \in Partitions, Fetch(w, p)
        PROVE  position' \in [Partitions -> Nat]
    BY <1>1, <2>4 DEF Fetch
  <2> QED
    BY <1>1, <1>4, <1>5, <1>8, <2>1, <2>2, <2>3, <2>4

\* Every step of a worker keeps claims, holders and carriers.
LEMMA WorkerKeeps ==
    ASSUME IInv, HoldersExist, ClaimsStay, NEW w \in Workers, Step(w)
    PROVE  Kept
<1>1. /\ Idle \in Local /\ Idle.token = NoToken /\ Idle.out = "none" /\ Idle.pc = "idle"
      /\ [Idle EXCEPT !.pc = "commit"] \in Local /\ [Idle EXCEPT !.pc = "commit"].token = NoToken
      /\ [Idle EXCEPT !.pc = "commit"].out = "none"
  BY EndTypes DEF Idle
<1>2. worker[w] \in Local
  BY LocalType DEF IInv
<1>3. /\ worker[w].pc \in {"idle", "got", "commit"} => worker[w].token = NoToken
      /\ worker[w].pc \in {"infer", "persist"} => worker[w].token # NoToken
  BY DEF IInv, LocalsMatchPoint
<1>4. ASSUME NEW p \in Partitions, Fetch(w, p) PROVE Kept
  <2> DEFINE l == [Idle EXCEPT !.pc = "got", !.req = log[p][position[p] + 1]]
  <2>1. log[p][position[p] + 1] \in Requests \cup {NoRequest}
    BY <1>4 DEF IInv, TypeOK, Fetch
  <2>2. l \in Local /\ l.token = NoToken /\ l.out = "none"
    BY <2>1 DEF Local, Idle, Points
  <2>3. Becomes(w, l) /\ request' = request /\ worker[w].pc = "idle"
    BY <1>4 DEF Fetch, db, At
  <2> QED
    BY <1>3, <2>2, <2>3, LocalKeeps
<1>5. CASE CommitOk(w) \/ CommitFails(w)
  <2>1. Becomes(w, Idle) /\ request' = request /\ worker[w].pc = "commit"
    BY <1>5 DEF CommitOk, CommitFails, db, At
  <2> QED
    BY <1>1, <1>3, <2>1, LocalKeeps
<1>6. CASE Discard(w)
  <2>1. /\ Becomes(w, [Idle EXCEPT !.pc = "commit"]) /\ request' = request
        /\ worker[w].pc = "got" /\ worker[w].req = NoRequest
    BY <1>6 DEF Discard, ToCommit, db, At
  <2> QED
    BY <1>1, <1>3, <2>1, LocalKeeps, WorkerAssumption
<1>7. CASE Busy(w)
  <2>1. /\ Becomes(w, Idle) /\ request' = request
        /\ worker[w].pc = "got" /\ worker[w].req \in Requests /\ ClaimIsLive(worker[w].req)
    BY <1>7 DEF Busy, Skips, db, At
  <2>2. PICK v \in Workers : /\ worker[v].token = request[worker[w].req].token
                             /\ worker[v].req = worker[w].req
    BY <2>1 DEF HoldersExist, ClaimIsLive
  <2>3. worker[v].token # NoToken
    BY <2>1, <2>2 DEF ClaimIsLive, IInv, ClaimIsExclusive
  <2>4. v # w /\ worker[v].pc \in {"infer", "persist"}
    BY <1>3, <2>1, <2>3 DEF IInv, LocalsMatchPoint
  <2> QED
    BY <1>1, <1>3, <2>1, <2>2, <2>4, LocalKeeps
<1>8. CASE Infer(w)
  <2>1. PICK o \in Verdicts \cup {"permanent"} : Becomes(w, [worker[w] EXCEPT !.pc = "persist", !.out = o])
    BY <1>8, Zenon DEF Infer, InferOk, InferRejects
  <2>2. request' = request
    BY <1>8, Zenon DEF Infer, InferOk, InferRejects, db
  <2> DEFINE l == [worker[w] EXCEPT !.pc = "persist", !.out = o]
  <2>3. /\ l \in Local /\ l.token = worker[w].token /\ l.req = worker[w].req /\ l.pc = "persist"
        /\ l.out # "transient"
    BY <1>2 DEF Local, Points, Failures, Verdicts
  <2> QED
    BY <2>1, <2>2, <2>3, LocalKeeps
<1>9. CASE LoseClaim(w)
  <2>1. PICK r \in Requests : MayPersist(w, r) /\ Superseded(w) /\ Skips(w) /\ UNCHANGED db
    BY <1>9, Zenon DEF LoseClaim
  <2>2. worker[w].pc = "persist" /\ worker[w].req = r /\ Becomes(w, Idle) /\ request' = request
    BY <2>1 DEF MayPersist, At, Skips, db
  <2>3. CASE Decided(r)
    BY <1>1, <2>1, <2>2, <2>3, LocalKeeps
  <2>4. CASE ~Decided(r)
    <3>1. request[r].status = "processing"
      <4>1. request[r].status # "pending"
        BY <1>3, <2>2 DEF ClaimsStay
      <4>2. request[r].status \notin Terminal /\ request[r].status \in Statuses
        BY <2>4, DecidedIsTerminal, RowType DEF IInv, Row
      <4> QED
        BY <4>1, <4>2 DEF Statuses
    <3>2. PICK v \in Workers : worker[v].token = request[r].token /\ worker[v].req = r
      BY <3>1 DEF HoldersExist
    <3>3. worker[v].token # NoToken /\ v # w
      BY <2>1, <2>2, <3>1, <3>2 DEF IInv, ClaimIsExclusive, Superseded
    <3>4. worker[v].pc \in {"infer", "persist"}
      BY <3>3 DEF IInv, LocalsMatchPoint
    <3> QED
      BY <1>1, <2>1, <2>2, <3>2, <3>3, <3>4, LocalKeeps
  <2> QED
    BY <2>3, <2>4
<1>10. ASSUME NEW r \in Requests, worker[w].req = r, Decided(r), Acknowledge(w, r) PROVE Kept
  <2> DEFINE new == [request[r] EXCEPT !.status = DecidedStatus(r), !.token = NoToken]
  <2>1. Writes(r, new) /\ ToCommit(w)
    BY <1>10 DEF Acknowledge
  <2>2. request[r] \in Row /\ DecidedStatus(r) \in Terminal
    BY RowType, DecidedType DEF IInv
  <2>3. new \in Row /\ new.status = DecidedStatus(r) /\ new.result = request[r].result
    BY <2>2 DEF Row, Statuses
  <2>4. new.result # "none" \/ new.status = "failed"
    BY <2>3 DEF DecidedStatus, HasResult
  <2> QED
    BY <1>10, <2>1, <2>2, <2>3, <2>4, DecisionKeeps
<1>11. CASE ObserveDecided(w) \/ FindDecided(w)
  BY <1>10, <1>11 DEF ObserveDecided, FindDecided, Decided
<1>12. CASE RecordResult(w)
  <2>1. PICK r \in Requests :
          /\ MayPersist(w, r) /\ worker[w].out \in Verdicts /\ ToCommit(w)
          /\ Writes(r, [request[r] EXCEPT !.result = worker[w].out, !.token = NoToken,
                             !.status = CompletedStatus(worker[w].out), !.stale = FALSE])
    BY <1>12, Zenon DEF RecordResult
  <2> DEFINE new == [request[r] EXCEPT !.result = worker[w].out, !.token = NoToken,
                             !.status = CompletedStatus(worker[w].out), !.stale = FALSE]
  <2>2. request[r] \in Row /\ CompletedStatus(worker[w].out) \in Terminal
    BY RowType DEF IInv, CompletedStatus, Terminal, Completed
  <2>3. /\ new \in Row /\ new.status = CompletedStatus(worker[w].out)
        /\ new.result = worker[w].out
    BY <2>1, <2>2 DEF Row, Statuses
  <2>4. worker[w].req = r /\ new.result # "none"
    BY <2>1, <2>3 DEF MayPersist, Verdicts
  <2> QED
    BY <2>1, <2>2, <2>3, <2>4, DecisionKeeps
<1>13. CASE FailRequest(w)
  <2>1. PICK r \in Requests :
          /\ MayPersist(w, r) /\ ToCommit(w)
          /\ Writes(r, [request[r] EXCEPT !.status = "failed", !.token = NoToken,
                             !.retries = @ + 1, !.stale = FALSE])
    BY <1>13, Zenon DEF FailRequest
  <2> DEFINE new == [request[r] EXCEPT !.status = "failed", !.token = NoToken,
                             !.retries = @ + 1, !.stale = FALSE]
  <2>2. request[r] \in Row /\ request[r].retries + 1 \in Nat
    BY RowType, RetriesType DEF IInv
  <2>3. new \in Row /\ new.status = "failed"
    BY <2>2 DEF Row, Statuses, Terminal
  <2>4. worker[w].req = r
    BY <2>1 DEF MayPersist
  <2> QED
    BY <2>1, <2>3, <2>4, DecisionKeeps DEF Terminal
<1>14. CASE Requeue(w)
  BY <1>14 DEF Requeue, ClaimsStay, GivesUp, Failures
<1>15. CASE Claim(w)
  BY <1>15, ClaimKeeps
<1> QED
  BY <1>4, <1>5, <1>6, <1>7, <1>8, <1>9, <1>11, <1>12, <1>13, <1>14, <1>15
     DEF Step, Loop, ClaimTxn, PersistTxn

\* Before any record is published none is passed over.
LEMMA CarriedInit == Init => CarriedInv
  BY DEF Init, CarriedInv, OffsetsInLog, HoldersExist, ClaimsStay, FetchedIsCarried, Idle

\* Every step keeps what is fetched carried, as long as nothing fails but partitions move.
LEMMA CarriedStep == IInv /\ CarriedInv /\ [Next]_vars => CarriedInv'
<1> SUFFICES ASSUME IInv, CarriedInv, [Next]_vars PROVE CarriedInv'
  OBVIOUS
<1>1. OffsetsInLog'
  BY OffsetsStep DEF CarriedInv
<1> SUFFICES ASSUME OnlyRebalances' PROVE HoldersExist' /\ ClaimsStay' /\ FetchedIsCarried'
  BY <1>1 DEF CarriedInv
<1>2. /\ OnlyRebalances
      /\ \A w \in Workers : ~InferBreaks(w) /\ ~UnexpectedError(w) /\ ~Crash(w)
  BY OnlyRebalancesBefore
<1>3. HoldersExist /\ ClaimsStay /\ FetchedIsCarried /\ OffsetsInLog
  BY <1>2 DEF CarriedInv
<1>4. Kept
  <2>1. ASSUME NEW w \in Workers, Step(w) PROVE Kept
    BY <1>3, <2>1, WorkerKeeps
  <2>2. CASE Environment
    <3>1. worker' = worker /\ (request' = request \/ \E r \in Requests : LeaseExpires(r))
      BY <1>2, <2>2, Zenon DEF Environment, Publish, PublishJunk, UpdateWebhook, Rejoin, Rebalance,
                               LeaseExpires, db
    <3> QED
      BY <1>3, <3>1, OutsideKeeps
  <2>3. CASE UNCHANGED vars
    BY <1>3, <2>3, OutsideKeeps DEF vars
  <2> QED
    BY <2>1, <2>2, <2>3 DEF Next
<1>5. \A r \in Requests : NotLost(r) => NotLost(r)'
  BY <1>4 DEF Kept
<1>6. \A p \in Partitions : /\ position[p] \in Nat /\ position'[p] \in Nat
                            /\ \A i \in 1 .. position[p] : log'[p][i] = log[p][i]
  BY <1>3, OffsetsStep
<1>7. ASSUME \A p \in Partitions : position'[p] <= position[p] PROVE FetchedIsCarried'
  <2>1. \A p \in Partitions : \A i \in 1 .. position'[p] :
            i \in 1 .. position[p] /\ log'[p][i] = log[p][i]
    BY <1>6, <1>7
  <2> QED
    BY <1>3, <1>5, <2>1 DEF FetchedIsCarried
<1>8. ASSUME NEW w \in Workers, NEW p \in Partitions, Fetch(w, p) PROVE FetchedIsCarried'
  <2>1. /\ worker'[w] = [Idle EXCEPT !.pc = "got", !.req = log[p][position[p] + 1]]
        /\ log' = log
        /\ position' = [position EXCEPT ![p] = @ + 1]
    BY <1>8 DEF Fetch, Becomes, IInv, TypeOK
  <2>2. worker'[w].req = log[p][position[p] + 1] /\ worker'[w].pc = "got"
    BY <2>1 DEF Idle
  <2>3. position \in [Partitions -> Nat]
    BY DEF IInv, TypeOK
  <2> SUFFICES ASSUME NEW q \in Partitions, NEW r \in Requests, NEW i \in 1 .. position'[q],
                      log'[q][i] = r
               PROVE  NotLost(r)'
    BY DEF FetchedIsCarried
  <2>4. CASE i \in 1 .. position[q]
    BY <1>3, <1>5, <2>1, <2>4 DEF FetchedIsCarried
  <2>5. CASE i \notin 1 .. position[q]
    <3>1. q = p /\ i = position[p] + 1
      BY <2>1, <2>3, <2>5
    <3> QED
      BY <2>1, <2>2, <3>1 DEF NotLost, Carried
  <2> QED
    BY <2>4, <2>5
<1>9. FetchedIsCarried'
  BY <1>3, <1>7, <1>8, OffsetsStep
<1> QED
  BY <1>4, <1>9 DEF Kept

\* What is committed was fetched, and so is decided or carried.
LEMMA CommittedWasFetched ==
    ASSUME IInv, CarriedInv, OnlyRebalances
    PROVE  CommittedIsCarried
<1> SUFFICES ASSUME NEW r \in CommittedRequests PROVE Decided(r) \/ Carried(r)
  BY DEF CommittedIsCarried
<1> DEFINE p == PartitionOf[r]
<1>1. r \in Requests /\ p \in Partitions
  BY WorkerAssumption DEF CommittedRequests
<1>2. PICK i \in DOMAIN log[p] : i <= committed[p] /\ log[p][i] = r
  BY DEF CommittedRequests
<1>3. log[p] \in Seq(Requests \cup {NoRequest}) /\ position[p] \in Nat /\ committed[p] \in Nat
  BY <1>1 DEF IInv, TypeOK
<1>4. i \in 1 .. Len(log[p])
  BY <1>2, <1>3
<1>5. i \in 1 .. position[p]
  BY <1>1, <1>2, <1>3, <1>4 DEF CarriedInv, OffsetsInLog
<1> QED
  BY <1>1, <1>2, <1>5 DEF CarriedInv, FetchedIsCarried, NotLost

\* However partitions move, an offset passes a record only when its request is decided or a
\* worker is at it, until an inference breaks, the database fails or a worker dies.
THEOREM NothingIsPassedOver == Spec => [](OnlyRebalances => CommittedIsCarried)
<1>1. Init => IInv /\ CarriedInv
  BY InvInit, CarriedInit
<1>2. IInv /\ CarriedInv /\ [Next]_vars => (IInv /\ CarriedInv)'
  BY InvStep, CarriedStep
<1>3. IInv /\ CarriedInv => (OnlyRebalances => CommittedIsCarried)
  BY CommittedWasFetched
<1> QED
  BY <1>1, <1>2, <1>3, PTL DEF Spec

-------------------------------------------------------------------------------
(* Refinement.                                                             *)

\* Announcing tells the webhooks enabled now and forgets nobody told before.
LEMMA AnnounceTells ==
    ASSUME NEW r \in Requests, NEW s \in Terminal, Announce(r, s)
    PROVE  Told' = Told \cup Lifecycle!Audience(r)
<1>1. ASSUME NEW x \in Told' PROVE x \in Told \cup Lifecycle!Audience(r)
  <2>1. PICK d \in deliveries' : x = <<d.hook, d.req>>
    BY <1>1 DEF Told
  <2>2. CASE d \in deliveries
    BY <2>1, <2>2 DEF Told
  <2>3. CASE d \notin deliveries
    <3>1. PICK h \in EnabledFor(r) : d = [hook |-> h, req |-> r, event |-> EventOf(s), status |-> s]
      BY <2>3 DEF Announce
    <3> QED
      BY <2>1, <3>1 DEF Lifecycle!Audience, EnabledFor
  <2> QED
    BY <2>2, <2>3
<1>2. ASSUME NEW x \in Told PROVE x \in Told'
  BY <1>2 DEF Told, Announce
<1>3. ASSUME NEW h \in EnabledFor(r) PROVE <<h, r>> \in Told'
  <2>1. CASE \E d \in deliveries : d.hook = h /\ d.req = r
    BY <2>1 DEF Told, Announce
  <2>2. CASE ~\E d \in deliveries : d.hook = h /\ d.req = r
    <3> DEFINE d == [hook |-> h, req |-> r, event |-> EventOf(s), status |-> s]
    <3>1. d \in deliveries'
      BY <1>3, <2>2 DEF Announce
    <3>2. d.hook = h /\ d.req = r
      OBVIOUS
    <3> QED
      BY <3>1, <3>2 DEF Told
  <2> QED
    BY <2>1, <2>2
<1>4. Lifecycle!Audience(r) = EnabledFor(r) \X {r}
  BY DEF Lifecycle!Audience, EnabledFor
<1> QED
  BY <1>1, <1>2, <1>3, <1>4

\* Outcomes as the status says, given the invariant.
LEMMA OutcomeIs ==
    ASSUME TypeOK, ResultMatchesStatus, NEW r \in Requests
    PROVE  /\ Outcome[r] = IF request[r].status \in Terminal THEN request[r].status ELSE "open"
           /\ Outcome[r] = "open" <=> ~Decided(r)
  BY DecidedIsTerminal DEF Outcome, Terminal, Completed

\* Steps that leave every final status and every open request as they were.
LEMMA SameOutcome ==
    ASSUME IInv, IInv',
           \A q \in Requests : \/ request'[q].status = request[q].status
                               \/ {request[q].status, request'[q].status} \cap Terminal = {}
    PROVE  Outcome' = Outcome
<1>1. ASSUME NEW q \in Requests PROVE Outcome'[q] = Outcome[q]
  <2>1. Outcome[q] = IF request[q].status \in Terminal THEN request[q].status ELSE "open"
    BY OutcomeIs DEF IInv
  <2>2. Outcome'[q] = IF request'[q].status \in Terminal THEN request'[q].status ELSE "open"
    <3>1. TypeOK' /\ ResultMatchesStatus'
      BY DEF IInv
    <3>2. Decided(q)' <=> request'[q].status \in Terminal
      <4>1. request'[q] \in Row
        BY <3>1 DEF TypeOK, Row
      <4> QED
        BY <3>1, <4>1 DEF ResultMatchesStatus, Decided, HasResult, CompletedStatus, Completed,
                          Terminal, Row, Verdicts
    <3> QED
      BY <3>2 DEF Outcome
  <2> QED
    BY <2>1, <2>2
<1> QED
  BY <1>1 DEF Outcome

\* At the start every request is open and no webhook has been told anything.
LEMMA LifecycleInit == Init => Lifecycle!Init
  BY DEF Init, Lifecycle!Init, Outcome, Told, Decided, HasResult

\* An acknowledgement of a decided request is a reminder.
LEMMA AcknowledgeReminds ==
    ASSUME IInv, IInv', NEW w \in Workers, NEW r \in Requests, Decided(r), Acknowledge(w, r)
    PROVE  Lifecycle!Remind(r)
<1>1. Outcome[r] # "open"
  BY OutcomeIs DEF IInv
<1>2. Told' = Told \cup Lifecycle!Audience(r)
  BY AnnounceTells, DecidedType DEF Acknowledge
<1>3. Outcome' = Outcome
  BY AcknowledgeKeeps, SameOutcome
<1> QED
  BY <1>1, <1>2, <1>3 DEF Lifecycle!Remind, Acknowledge

\* Recording a result and failing a request are decisions.
LEMMA DecisionDecides ==
    ASSUME IInv, IInv', NEW w \in Workers, NEW r \in Requests, NEW s \in Terminal,
           MayPersist(w, r), ~Superseded(w), NEW new \in Row, new.status = s,
           Writes(r, new), Announce(r, s), enabled' = enabled
    PROVE  Lifecycle!Decide(r)
<1>1. /\ request'[r].status = s
      /\ \A q \in Requests : q # r => request'[q] = request[q]
  BY DEF IInv, TypeOK, Writes
<1>2. Outcome[r] = "open"
  BY OwnerState, OutcomeIs DEF IInv
<1>3. Decided(r)'
  <2>1. ResultMatchesStatus'
    BY DEF IInv
  <2> QED
    BY <1>1, <2>1 DEF ResultMatchesStatus, Decided, Terminal
<1>4. \A q \in Requests : q # r => (Decided(q)' <=> Decided(q))
  BY <1>1 DEF Decided, HasResult
<1>5. Outcome' = [Outcome EXCEPT ![r] = s]
  BY <1>1, <1>3, <1>4 DEF Outcome
<1>6. s \in Lifecycle!Outcomes
  BY DEF Terminal, Completed, Lifecycle!Outcomes
<1>7. Told' = Told \cup Lifecycle!Audience(r)
  BY AnnounceTells
<1> QED
  BY <1>2, <1>5, <1>6, <1>7 DEF Lifecycle!Decide

\* Every step of the workers is a step of the lifecycle, or invisible to it.
LEMMA LifecycleStep ==
    IInv /\ IInv' /\ [Next]_vars => [Lifecycle!Next]_<<Outcome, Told, enabled>>
<1> DEFINE Goal == [Lifecycle!Next]_<<Outcome, Told, enabled>>
<1> SUFFICES ASSUME IInv, IInv', [Next]_vars PROVE Goal
  OBVIOUS
<1>1. ASSUME NEW w \in Workers, ObserveDecided(w) \/ FindDecided(w) PROVE Goal
  <2>1. PICK r \in Requests : Decided(r) /\ Acknowledge(w, r)
    BY <1>1 DEF ObserveDecided, FindDecided, Decided
  <2>2. Lifecycle!Remind(r)
    BY <2>1, AcknowledgeReminds
  <2> QED
    BY <2>2 DEF Lifecycle!Next
<1>2. ASSUME NEW w \in Workers, RecordResult(w) PROVE Goal
  <2>1. PICK r \in Requests :
            /\ MayPersist(w, r) /\ ~Superseded(w) /\ worker[w].out \in Verdicts
            /\ Writes(r, [request[r] EXCEPT !.result = worker[w].out, !.token = NoToken,
                              !.status = CompletedStatus(worker[w].out), !.stale = FALSE])
            /\ Announce(r, CompletedStatus(worker[w].out)) /\ enabled' = enabled
    BY <1>2 DEF RecordResult
  <2> DEFINE s == CompletedStatus(worker[w].out)
             new == [request[r] EXCEPT !.result = worker[w].out, !.token = NoToken,
                         !.status = s, !.stale = FALSE]
  <2>2. s \in Terminal /\ s \in Statuses
    BY DEF CompletedStatus, Terminal, Completed, Statuses
  <2>3. new \in Row /\ new.status = s
    BY <2>1, <2>2, RowType DEF IInv, Row
  <2>4. Writes(r, new) /\ Announce(r, s)
    BY <2>1
  <2> HIDE DEF s, new
  <2>5. Lifecycle!Decide(r)
    BY <2>1, <2>2, <2>3, <2>4, DecisionDecides
  <2> QED
    BY <2>5 DEF Lifecycle!Next
<1>3. ASSUME NEW w \in Workers, FailRequest(w) PROVE Goal
  <2>1. PICK r \in Requests :
            /\ MayPersist(w, r) /\ ~Superseded(w)
            /\ Writes(r, [request[r] EXCEPT !.status = "failed", !.token = NoToken,
                              !.retries = @ + 1, !.stale = FALSE])
            /\ Announce(r, "failed") /\ enabled' = enabled
    BY <1>3 DEF FailRequest
  <2> DEFINE new == [request[r] EXCEPT !.status = "failed", !.token = NoToken,
                         !.retries = @ + 1, !.stale = FALSE]
  <2>2. new \in Row /\ new.status = "failed"
    BY RowType, RetriesType DEF IInv, Row, Statuses, Terminal
  <2>3. Writes(r, new) /\ "failed" \in Terminal
    BY <2>1 DEF Terminal
  <2> HIDE DEF new
  <2>4. Lifecycle!Decide(r)
    BY <2>1, <2>2, <2>3, DecisionDecides
  <2> QED
    BY <2>4 DEF Lifecycle!Next
<1>4. ASSUME NEW w \in Workers, Claim(w) \/ Requeue(w) PROVE Goal
  <2> DEFINE Reopens(r, new) == ~Decided(r) /\ Writes(r, new) /\ new.status \in {"pending", "processing"}
  <2>0. \E r \in Requests : \E new : Reopens(r, new)
    <3>1. ASSUME Claim(w) PROVE \E r \in Requests : \E new : Reopens(r, new)
      <4>1. PICK r \in Requests, t \in Unused :
              /\ ~Decided(r)
              /\ Writes(r, [request[r] EXCEPT !.status = "processing", !.token = t, !.stale = FALSE])
        BY <3>1 DEF Claim
      <4>2. [request[r] EXCEPT !.status = "processing", !.token = t, !.stale = FALSE].status = "processing"
        BY RowType DEF IInv, Row
      <4> QED
        BY <4>1, <4>2
    <3>2. ASSUME Requeue(w) PROVE \E r \in Requests : \E new : Reopens(r, new)
      <4>1. PICK r \in Requests :
              /\ MayPersist(w, r) /\ ~Superseded(w)
              /\ Writes(r, [request[r] EXCEPT !.status = "pending", !.token = NoToken,
                                !.retries = @ + 1, !.stale = FALSE])
        BY <3>2 DEF Requeue, ReleaseClaim
      <4>2. [request[r] EXCEPT !.status = "pending", !.token = NoToken,
                 !.retries = @ + 1, !.stale = FALSE].status = "pending"
        BY RowType DEF IInv, Row
      <4> QED
        BY <4>1, <4>2, OwnerState
    <3> QED
      BY <1>4, <3>1, <3>2
  <2> HIDE DEF Reopens
  <2>a. PICK r \in Requests : \E new : Reopens(r, new)
    BY <2>0
  <2>b. PICK new : Reopens(r, new)
    BY <2>a
  <2>1. ~Decided(r) /\ Writes(r, new) /\ new.status \in {"pending", "processing"}
    BY <2>b DEF Reopens
  <2>2. /\ request[r].status \notin Terminal /\ request'[r].status \notin Terminal
        /\ \A q \in Requests : q # r => request'[q] = request[q]
    BY <2>1, DecidedIsTerminal DEF IInv, TypeOK, Writes, Terminal, Completed
  <2>3. Outcome' = Outcome
    BY <2>2, SameOutcome
  <2>4. Told' = Told /\ enabled' = enabled
    BY <1>4 DEF Claim, Requeue, Told
  <2> QED
    BY <2>3, <2>4
<1>5. ASSUME NEW r \in Requests, LeaseExpires(r) PROVE Goal
  <2>1. \A q \in Requests : request'[q].status = request[q].status
    BY <1>5 DEF LeaseExpires, Writes, IInv, TypeOK
  <2> QED
    BY <1>5, <2>1, SameOutcome DEF LeaseExpires, Told
<1>6. ASSUME NEW h \in Webhooks, UpdateWebhook(h) PROVE Goal
  <2>1. Lifecycle!Update(h)
    BY <1>6 DEF UpdateWebhook, Lifecycle!Update, Outcome, Told, Decided, HasResult
  <2> QED
    BY <2>1 DEF Lifecycle!Next
<1>7. CASE request' = request /\ deliveries' = deliveries /\ enabled' = enabled
  BY <1>7 DEF Outcome, Told, Decided, HasResult
<1> HIDE DEF Goal
<1> QED
  BY <1>1, <1>2, <1>3, <1>4, <1>5, <1>6, <1>7
     DEF Next, Environment, Step, Loop, ClaimTxn, Infer, PersistTxn, vars, db,
         Publish, PublishJunk, InferBreaks, UnexpectedError, Crash, Rejoin, Rebalance,
         Fetch, CommitOk, CommitFails, Discard, Busy, InferOk, InferRejects, LoseClaim

\* The workers implement the abstract lifecycle, however many workers, claims,
\* retries, redeliveries and crashes there are.
THEOREM WorkersImplementLifecycle == Spec => ImplementsLifecycle
<1>1. IInv /\ IInv' /\ [Next]_vars => [Lifecycle!Next]_<<Outcome, Told, enabled>>
  BY LifecycleStep
<1> QED
  BY <1>1, LifecycleInit, Invariance, PTL DEF Spec, ImplementsLifecycle, Lifecycle!Spec

-------------------------------------------------------------------------------
(* The dashboard's view.  ModerationLog lets requests be decided while its *)
(* pages look: what it allows is all that workers do to the status column. *)

StatusOf == [r \in Requests |-> request[r].status]
Seen == INSTANCE ModerationLog
    WITH NumRequests <- Cardinality(Requests), Outcomes <- Terminal,
         count <- Cardinality(Requests), status <- StatusOf

\* What may become of a status.
Moves(from, to) ==
    \/ from = "pending" /\ to = "processing"
    \/ from = "processing" /\ to \in Terminal \cup {"pending"}

Moved == \E r \in Requests : \E s \in Statuses :
    Moves(StatusOf[r], s) /\ StatusOf' = [StatusOf EXCEPT ![r] = s]

\* Writing one row changes the status of one request.
LEMMA WriteMoves ==
    ASSUME TypeOK, NEW r \in Requests, NEW new \in Row, Writes(r, new)
    PROVE  /\ StatusOf' = [StatusOf EXCEPT ![r] = new.status]
           /\ new.status = request[r].status => StatusOf' = StatusOf
           /\ Moves(request[r].status, new.status) => Moved
<1>1. \A q \in Requests : request'[q] = IF q = r THEN new ELSE request[q]
  BY DEF TypeOK, Writes
<1>2. StatusOf' = [StatusOf EXCEPT ![r] = new.status]
  BY <1>1 DEF StatusOf
<1>3. new.status = request[r].status => StatusOf' = StatusOf
  BY <1>1 DEF StatusOf
<1>4. new.status \in Statuses /\ StatusOf[r] = request[r].status
  BY DEF Row, StatusOf
<1> QED
  BY <1>2, <1>3, <1>4 DEF Moved

\* A request is claimed, decided or put back; a claim taken over is not seen.
LEMMA StatusStep ==
    ASSUME IInv, [Next]_vars
    PROVE  Moved \/ StatusOf' = StatusOf
<1> DEFINE Goal == Moved \/ StatusOf' = StatusOf
<1>1. ASSUME NEW w \in Workers, ObserveDecided(w) \/ FindDecided(w) PROVE Goal
  BY <1>1, AcknowledgeKeeps DEF ObserveDecided, FindDecided, Decided, StatusOf
<1>2. ASSUME NEW w \in Workers, Claim(w) PROVE Goal
  <2>1. PICK r \in Requests, t \in Unused :
          /\ ~Decided(r)
          /\ Writes(r, [request[r] EXCEPT !.status = "processing", !.token = t, !.stale = FALSE])
    BY <1>2 DEF Claim
  <2> DEFINE new == [request[r] EXCEPT !.status = "processing", !.token = t, !.stale = FALSE]
  <2>2. new \in Row /\ new.status = "processing"
    BY <2>1, RowType DEF IInv, Row, Statuses, Unused
  <2>3. request[r].status \in {"pending", "processing"}
    BY <2>1, RowType, DecidedIsTerminal DEF IInv, Row, Statuses
  <2> QED
    BY <2>1, <2>2, <2>3, WriteMoves DEF Moves, IInv
<1>3. ASSUME NEW w \in Workers, RecordResult(w) \/ FailRequest(w) \/ Requeue(w) PROVE Goal
  <2>1. PICK r \in Requests : MayPersist(w, r) /\ ~Superseded(w) /\ \E new \in Row :
          Writes(r, new) /\ new.status \in Terminal \cup {"pending"}
    <3>1. ASSUME NEW r \in Requests, NEW v \in Verdicts
          PROVE  LET new == [request[r] EXCEPT !.result = v, !.token = NoToken,
                                 !.status = CompletedStatus(v), !.stale = FALSE]
                 IN  new \in Row /\ new.status \in Terminal
      <4>1. CompletedStatus(v) \in Terminal \cap Statuses
        BY DEF CompletedStatus, Terminal, Completed, Statuses
      <4> HIDE DEF CompletedStatus
      <4> QED
        BY <4>1, RowType DEF IInv, Row
    <3> DEFINE Tried(r, s) == [request[r] EXCEPT !.status = s, !.token = NoToken,
                                   !.retries = @ + 1, !.stale = FALSE]
    <3>2. ASSUME NEW r \in Requests, NEW s \in {"failed", "pending"}
          PROVE  /\ Tried(r, s) \in Row /\ Tried(r, s).status = s
                 /\ s \in Terminal \cup {"pending"}
      BY RowType, RetriesType DEF IInv, Row, Statuses, Terminal
    <3>3. CASE RecordResult(w)
      BY <3>1, <3>3 DEF RecordResult
    <3>4. CASE FailRequest(w)
      <4>1. PICK r \in Requests :
              MayPersist(w, r) /\ ~Superseded(w) /\ Writes(r, Tried(r, "failed"))
        BY <3>4 DEF FailRequest
      <4> HIDE DEF Tried
      <4> QED
        BY <3>2, <4>1
    <3>5. CASE Requeue(w)
      <4>1. PICK r \in Requests :
              MayPersist(w, r) /\ ~Superseded(w) /\ Writes(r, Tried(r, "pending"))
        BY <3>5 DEF Requeue, ReleaseClaim
      <4> HIDE DEF Tried
      <4> QED
        BY <3>2, <4>1
    <3> QED
      BY <1>3, <3>3, <3>4, <3>5
  <2>2. request[r].status = "processing"
    BY <2>1, OwnerState
  <2> QED
    BY <2>1, <2>2, WriteMoves DEF Moves, IInv
<1>4. ASSUME NEW r \in Requests, LeaseExpires(r) PROVE Goal
  <2> DEFINE new == [request[r] EXCEPT !.stale = TRUE]
  <2>1. new \in Row /\ new.status = request[r].status
    BY RowType DEF IInv, Row
  <2> QED
    BY <1>4, <2>1, WriteMoves DEF LeaseExpires, IInv
<1>5. CASE request' = request
  BY <1>5 DEF StatusOf
<1>6. \/ request' = request
      \/ \E w \in Workers : \/ ObserveDecided(w) \/ FindDecided(w) \/ Claim(w)
                            \/ RecordResult(w) \/ FailRequest(w) \/ Requeue(w)
      \/ \E r \in Requests : LeaseExpires(r)
  BY DEF Next, Environment, Step, Loop, ClaimTxn, Infer, PersistTxn, vars, db,
         Publish, PublishJunk, UpdateWebhook, InferBreaks, UnexpectedError, Crash, Rejoin, Rebalance,
         Fetch, CommitOk, CommitFails, Discard, Busy, InferOk, InferRejects, LoseClaim
<1> QED
  BY <1>1, <1>2, <1>3, <1>4, <1>5, <1>6

\* When requests are named by their place in a log, all that the workers do to their
\* statuses, in whatever way they crash, race and repeat themselves, is what the pages
\* of the dashboard are shown to cope with.
THEOREM WorkersDecideTheLog ==
    ASSUME Requests = 1 .. Cardinality(Requests)
    PROVE  Spec => [][\E r \in Requests : Seen!Decide(r)]_StatusOf
<1>1. ASSUME Moved PROVE \E r \in Requests : Seen!Decide(r)
  <2>1. PICK r \in Requests, s \in Statuses :
          Moves(StatusOf[r], s) /\ StatusOf' = [StatusOf EXCEPT ![r] = s]
    BY <1>1 DEF Moved
  <2>2. Seen!Decide(r)
    BY <2>1 DEF Moves, Seen!Decide, Seen!Submitted
  <2> QED
    BY <2>2
<1>2. IInv /\ [Next]_vars => [\E r \in Requests : Seen!Decide(r)]_StatusOf
  BY <1>1, StatusStep
<1> QED
  BY <1>2, Invariance, PTL DEF Spec
===============================================================================
