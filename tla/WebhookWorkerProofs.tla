-------------------------- MODULE WebhookWorkerProofs --------------------------
(***************************************************************************)
(* Theorems about the webhook workers for every number of deliveries,      *)
(* webhooks, workers, batches, attempts and faults.                        *)
(***************************************************************************)
EXTENDS WebhookWorker, FiniteSetTheorems, WellFoundedInduction, TLAPS

Row == [status : Statuses, token : Tokens \cup {NoToken}, stale : BOOLEAN, due : BOOLEAN, attempts : Nat]
Claims == [Deliveries -> Tokens \cup {NoToken}]
Local == [pc : Points, item : Deliveries \cup {NoDelivery}, out : Outcomes \cup {"none"}, held : Claims]
Tally == [posts : Nat, copies : Nat, refused : BOOLEAN]

-------------------------------------------------------------------------------
(* Lemmas about the helpers.                                               *)

\* A non-empty set of numbers has a least one.
LEMMA LeastExists == ASSUME NEW S \in SUBSET Nat, S # {} PROVE \E x \in S : \A y \in S : x <= y
<1> DEFINE Less == OpToRel(<, Nat)
<1>1. \A x, y \in Nat : x < y => <<x, y>> \in Less
  BY DEF OpToRel
<1>2. IsWellFoundedOn(Less, Nat)
  BY NatLessThanWellFounded
<1> HIDE DEF Less
<1>3. PICK x \in S : \A y \in S : ~ (<<y, x>> \in Less)
  BY <1>2, WFMin
<1>4. ASSUME NEW y \in S PROVE x <= y
  <2>1. ~ (y < x)
    BY <1>1, <1>3
  <2> QED
    BY <2>1
<1> QED
  BY <1>4

\* The oldest of some deliveries is one of them.
LEMMA OldestType == ASSUME NEW S \in SUBSET Deliveries, S # {} PROVE Oldest(S) \in S
<1>1. \E d \in S : \A e \in S : d <= e
  BY LeastExists, WebhookAssumption DEF Deliveries
<1> QED
  BY <1>1 DEF Oldest

\* The variables have the types of the invariant.
LEMMA Types ==
    ASSUME TypeOK
    PROVE  /\ row \in [Deliveries -> Row] /\ worker \in [Workers -> Local]
           /\ tenant \in [Deliveries -> Tally] /\ faults \in Nat
           /\ hook \in [Hooks -> {"enabled", "disabled", "deleted"}]
  BY DEF TypeOK, Row, Local, Claims, Tally

\* A row before its delivery exists.
LEMMA AbsentType == Absent \in Row /\ Absent.status = "absent" /\ Absent.token = NoToken
  BY DEF Absent, Row, Statuses

\* A worker that polls holds nothing.
LEMMA PollingType == /\ Polling \in Local /\ Polling.pc = "recover"
                     /\ \A d \in Deliveries : Polling.held[d] = NoToken
  BY DEF Polling, Local, Claims, Points

\* A freed row has the status it was freed with and no claim.
LEMMA FreeType ==
    ASSUME TypeOK, NEW d \in Deliveries, NEW status \in Statuses
    PROVE  /\ Free(d, status) \in Row
           /\ Free(d, status).status = status /\ Free(d, status).token = NoToken
           /\ Free(d, status).attempts = row[d].attempts
<1>1. row[d] \in Row
  BY Types
<1>2. Free(d, status) \in Row
  <2>1. status \in Statuses /\ NoToken \in Tokens \cup {NoToken} /\ FALSE \in BOOLEAN
    OBVIOUS
  <2> QED
    BY <1>1, <2>1, Zenon DEF Free, Row
<1>3. Free(d, status).status = status /\ Free(d, status).token = NoToken
  BY <1>1 DEF Free, Row
<1>4. Free(d, status).attempts = row[d].attempts
  BY <1>1 DEF Free, Row
<1> QED
  BY <1>2, <1>3, <1>4

\* What an attempt writes: the row of its item, without the claim.
LEMMA RecordedType ==
    ASSUME TypeOK, NEW w \in Workers, Item(w) \in Deliveries, worker[w].out \in Outcomes,
           NEW due \in BOOLEAN
    PROVE  /\ Recorded(w, due) \in Row
           /\ Recorded(w, due).token = NoToken
           /\ Recorded(w, due).attempts = row[Item(w)].attempts
           /\ Recorded(w, due).status \in {"pending", "delivered", "failed"}
           /\ Recorded(w, due).status = "delivered" => worker[w].out = "delivered"
           /\ Recorded(w, due).status = "failed" => \/ worker[w].out = "failed"
                                                    \/ Exhausted(Item(w))
           /\ Recorded(w, due).status = "pending" => /\ worker[w].out = "retry"
                                                     /\ ~Exhausted(Item(w))
<1> DEFINE d == Item(w)
           waits == [Free(d, "pending") EXCEPT !.due = due]
<1>1. \A status \in {"pending", "delivered", "failed"} :
        /\ Free(d, status) \in Row
        /\ Free(d, status).status = status /\ Free(d, status).token = NoToken
        /\ Free(d, status).attempts = row[d].attempts
  BY FreeType DEF Statuses, Settled
<1>2. /\ waits \in Row /\ waits.status = "pending" /\ waits.token = NoToken
      /\ waits.attempts = row[d].attempts
  BY <1>1 DEF Row
<1>3. CASE worker[w].out = "delivered"
  BY <1>1, <1>3 DEF Recorded
<1>4. CASE worker[w].out = "failed"
  BY <1>1, <1>4 DEF Recorded
<1>5. CASE worker[w].out = "retry"
  <2>1. Recorded(w, due) = IF Exhausted(d) THEN Free(d, "failed") ELSE waits
    BY <1>5 DEF Recorded
  <2> HIDE DEF waits
  <2> QED
    BY <1>1, <1>2, <1>5, <2>1
<1> QED
  BY <1>3, <1>4, <1>5 DEF Outcomes

\* The ways a worker's program point moves within an attempt.
LEMMA GoToType ==
    ASSUME TypeOK, NEW w \in Workers, NEW point \in Points, GoTo(w, point)
    PROVE  /\ worker' \in [Workers -> Local]
           /\ worker'[w] = [worker[w] EXCEPT !.pc = point]
           /\ \A v \in Workers : v # w => worker'[v] = worker[v]
           /\ worker'[w].pc = point /\ worker'[w].item = worker[w].item
           /\ worker'[w].out = worker[w].out /\ worker'[w].held = worker[w].held
<1>1. worker \in [Workers -> Local] /\ worker[w] \in Local
  BY Types
<1>2. worker' = [worker EXCEPT ![w] = [worker[w] EXCEPT !.pc = point]]
  BY <1>1 DEF GoTo
<1>3. [worker[w] EXCEPT !.pc = point] \in Local
  BY <1>1 DEF Local
<1> QED
  BY <1>1, <1>2, <1>3 DEF Local

\* An attempt ends with an outcome to record.
LEMMA ConcludesType ==
    ASSUME TypeOK, NEW w \in Workers, NEW outcome \in Outcomes, Concludes(w, outcome, "record")
    PROVE  /\ worker' \in [Workers -> Local]
           /\ \A v \in Workers : v # w => worker'[v] = worker[v]
           /\ worker'[w].pc = "record" /\ worker'[w].item = worker[w].item
           /\ worker'[w].out = outcome /\ worker'[w].held = worker[w].held
<1> DEFINE l == [worker[w] EXCEPT !.out = outcome, !.pc = "record"]
<1>1. worker \in [Workers -> Local] /\ worker[w] \in Local
  BY Types
<1>2. worker' = [worker EXCEPT ![w] = l]
  BY <1>1 DEF Concludes
<1>3. /\ l.pc = "record" /\ l.item = worker[w].item
      /\ l.out = outcome /\ l.held = worker[w].held
  BY <1>1 DEF Local
<1>4. l \in Local
  <2>1. "record" \in Points /\ outcome \in Outcomes \cup {"none"}
    BY DEF Points
  <2> QED
    BY <1>1, <2>1, Zenon DEF Local
<1> HIDE DEF l
<1>5. worker' \in [Workers -> Local] /\ worker'[w] = l
  BY <1>1, <1>2, <1>4
<1> QED
  BY <1>1, <1>2, <1>3, <1>5

\* A batch that is dropped is forgotten by the worker alone.
LEMMA DropsType ==
    ASSUME TypeOK, NEW w \in Workers, DropsBatch(w)
    PROVE  /\ worker' \in [Workers -> Local] /\ worker'[w] = Polling
           /\ \A v \in Workers : v # w => worker'[v] = worker[v]
  BY Types, PollingType DEF DropsBatch

\* Going on with the batch: the next item is one the worker still holds, and no
\* token is added to what it holds.
LEMMA AdvanceType ==
    ASSUME TypeOK, NEW w \in Workers, Item(w) \in Deliveries, Advance(w)
    PROVE  /\ worker' \in [Workers -> Local]
           /\ \A v \in Workers : v # w => worker'[v] = worker[v]
           /\ \A d \in Deliveries : worker'[w].held[d] \in {NoToken, worker[w].held[d]}
           /\ worker'[w].pc \in {"recover", "load"}
           /\ worker'[w].pc = "load" => /\ worker'[w].item \in Deliveries
                                        /\ worker'[w].held[worker'[w].item] # NoToken
<1> DEFINE rest == Held(w) \ {Item(w)}
           held == [worker[w].held EXCEPT ![Item(w)] = NoToken]
           l == [pc |-> "load", item |-> Oldest(rest), out |-> "none", held |-> held]
<1>1. worker \in [Workers -> Local] /\ worker[w].held \in Claims
  BY Types DEF Local
<1>2. worker' = [worker EXCEPT ![w] = IF rest = {} THEN Polling ELSE l]
  BY DEF Advance
<1>3. held \in Claims /\ \A d \in Deliveries : held[d] \in {NoToken, worker[w].held[d]}
  BY <1>1 DEF Claims
<1>4. CASE rest = {}
  BY <1>1, <1>2, <1>4, PollingType
<1>5. CASE rest # {}
  <2>1. Oldest(rest) \in rest
    BY <1>5, OldestType DEF Held
  <2>2. Oldest(rest) \in Deliveries /\ held[Oldest(rest)] # NoToken
    BY <2>1, <1>1 DEF Held, Claims
  <2>3. l \in Local
    BY <1>3, <2>2 DEF Local, Points
  <2>4. worker' = [worker EXCEPT ![w] = l]
    BY <1>2, <1>5
  <2>5. worker'[w] = l
    BY <1>1, <2>4
  <2> QED
    BY <1>1, <1>3, <2>2, <2>3, <2>4, <2>5
<1> QED
  BY <1>4, <1>5

\* A POST is counted for its delivery; copies and refusals only grow.
LEMMA PostsType ==
    ASSUME TypeOK, NEW w \in Workers, Item(w) \in Deliveries,
           NEW accepted \in BOOLEAN, NEW refused \in BOOLEAN, Posts(w, accepted, refused)
    PROVE  /\ tenant' \in [Deliveries -> Tally]
           /\ \A d \in Deliveries : d # Item(w) => tenant'[d] = tenant[d]
           /\ tenant'[Item(w)].copies = tenant[Item(w)].copies + (IF accepted THEN 1 ELSE 0)
           /\ tenant'[Item(w)].refused = (tenant[Item(w)].refused \/ refused)
           /\ tenant'[Item(w)].posts = tenant[Item(w)].posts + 1
<1> DEFINE t == [posts |-> tenant[Item(w)].posts + 1,
                 copies |-> tenant[Item(w)].copies + (IF accepted THEN 1 ELSE 0),
                 refused |-> (tenant[Item(w)].refused \/ refused)]
<1>1. tenant \in [Deliveries -> Tally] /\ tenant[Item(w)] \in Tally
  BY Types
<1>2. tenant' = [tenant EXCEPT ![Item(w)] = t]
  BY <1>1 DEF Posts
<1>3. t \in Tally
  <2>1. tenant[Item(w)].posts \in Nat /\ tenant[Item(w)].copies \in Nat
    BY <1>1 DEF Tally
  <2>2. tenant[Item(w)].posts + 1 \in Nat /\ tenant[Item(w)].copies + (IF accepted THEN 1 ELSE 0) \in Nat
    BY <2>1
  <2>3. (tenant[Item(w)].refused \/ refused) \in BOOLEAN
    OBVIOUS
  <2> QED
    BY <2>2, <2>3, Zenon DEF Tally
<1>4. tenant'[Item(w)] = t /\ \A d \in Deliveries : d # Item(w) => tenant'[d] = tenant[d]
  BY <1>1, <1>2
<1> QED
  BY <1>1, <1>2, <1>3, <1>4

\* A refusal is noted for the delivery.
LEMMA RefuseType ==
    ASSUME TypeOK, NEW d \in Deliveries, Refuse(d)
    PROVE  /\ tenant' \in [Deliveries -> Tally]
           /\ \A e \in Deliveries : e # d => tenant'[e] = tenant[e]
           /\ tenant'[d].copies = tenant[d].copies /\ tenant'[d].refused
           /\ tenant'[d].posts = tenant[d].posts
<1> DEFINE t == [tenant[d] EXCEPT !.refused = TRUE]
<1>1. tenant \in [Deliveries -> Tally] /\ tenant[d] \in Tally
  BY Types
<1>2. tenant' = [tenant EXCEPT ![d] = t]
  BY <1>1 DEF Refuse
<1>3. t \in Tally /\ t.copies = tenant[d].copies /\ t.refused /\ t.posts = tenant[d].posts
  BY <1>1 DEF Tally
<1> QED
  BY <1>1, <1>2, <1>3

-------------------------------------------------------------------------------
(* Type correctness.                                                       *)

\* The program starts well typed.
LEMMA TypeInit == Init => TypeOK
<1> SUFFICES ASSUME Init PROVE TypeOK
  OBVIOUS
<1>1. /\ row \in [Deliveries -> Row] /\ worker \in [Workers -> Local]
      /\ tenant \in [Deliveries -> Tally]
  BY AbsentType, PollingType DEF Init, Tally
<1> QED
  BY <1>1 DEF Init, TypeOK, Row, Local, Claims, Tally

\* A row of a batch under its new claim.
Claimed(d, token) == [row[d] EXCEPT !.status = "processing", !.token = token, !.stale = FALSE,
                                    !.attempts = CountAttempt(d)]

\* What Claim does, for the tokens it draws.
ClaimsBatch(w, tok) ==
    /\ \A d \in Batch : tok[d] \in Unused(d)
    /\ row' = [d \in Deliveries |-> IF d \in Batch THEN Claimed(d, tok[d]) ELSE row[d]]
    /\ worker' = [worker EXCEPT ![w] =
                  [pc |-> "load", item |-> Oldest(Batch), out |-> "none",
                   held |-> [d \in Deliveries |-> IF d \in Batch THEN tok[d] ELSE NoToken]]]

\* A claim draws some tokens.
LEMMA ClaimWithTokens == ASSUME NEW w \in Workers, Claim(w)
                         PROVE  \E tok \in [Batch -> Tokens] : ClaimsBatch(w, tok)
  BY DEF Claim, ClaimsBatch, Claimed

\* A claimed row has its token and counts one attempt more.
LEMMA ClaimedType ==
    ASSUME TypeOK, NEW d \in Deliveries, NEW token \in Tokens
    PROVE  /\ Claimed(d, token) \in Row
           /\ Claimed(d, token).status = "processing" /\ Claimed(d, token).token = token
           /\ ~Claimed(d, token).stale /\ Claimed(d, token).attempts = row[d].attempts + 1
<1>1. row[d] \in Row
  BY Types
<1>2. CountAttempt(d) \in Nat
  BY <1>1 DEF Row, CountAttempt
<1>3. Claimed(d, token) \in Row
  <2>1. "processing" \in Statuses /\ token \in Tokens \cup {NoToken} /\ FALSE \in BOOLEAN
    BY DEF Statuses
  <2> QED
    BY <1>1, <1>2, <2>1, Zenon DEF Claimed, Row
<1> QED
  BY <1>1, <1>3 DEF Claimed, CountAttempt, Row

\* The batch claimed by a worker, with one fresh token per row.
LEMMA ClaimType ==
    ASSUME TypeOK, NEW w \in Workers, Batch # {}, NEW tok \in [Batch -> Tokens], ClaimsBatch(w, tok)
    PROVE  /\ row' \in [Deliveries -> Row] /\ worker' \in [Workers -> Local]
           /\ \A v \in Workers : v # w => worker'[v] = worker[v]
           /\ \A d \in Deliveries : worker'[w].held[d] = IF d \in Batch THEN tok[d] ELSE NoToken
           /\ worker'[w].pc = "load" /\ worker'[w].item \in Batch
           /\ \A d \in Batch : /\ row'[d].status = "processing" /\ row'[d].token = tok[d]
                               /\ tok[d] \in Tokens /\ tok[d] # NoToken
                               /\ ~row'[d].stale /\ row'[d].attempts = row[d].attempts + 1
           /\ \A d \in Deliveries : d \notin Batch => row'[d] = row[d]
<1>1. row \in [Deliveries -> Row] /\ worker \in [Workers -> Local]
  BY Types
<1>2. Batch \subseteq Deliveries /\ \A d \in Batch : tok[d] \in Tokens /\ tok[d] # NoToken
  BY WebhookAssumption DEF Batch
<1>3. Oldest(Batch) \in Batch
  BY <1>2, OldestType
<1> DEFINE l == [pc |-> "load", item |-> Oldest(Batch), out |-> "none",
                 held |-> [d \in Deliveries |-> IF d \in Batch THEN tok[d] ELSE NoToken]]
<1>4. l \in Local
  BY <1>2, <1>3 DEF Local, Claims, Points
<1>5. \A d \in Batch : /\ Claimed(d, tok[d]) \in Row
                       /\ Claimed(d, tok[d]).status = "processing"
                       /\ Claimed(d, tok[d]).token = tok[d] /\ ~Claimed(d, tok[d]).stale
                       /\ Claimed(d, tok[d]).attempts = row[d].attempts + 1
  BY <1>2, ClaimedType
<1>6. row' = [d \in Deliveries |-> IF d \in Batch THEN Claimed(d, tok[d]) ELSE row[d]]
  BY DEF ClaimsBatch
<1>7. row' \in [Deliveries -> Row]
  BY <1>1, <1>5, <1>6
<1>8. worker' = [worker EXCEPT ![w] = l]
  BY DEF ClaimsBatch
<1> QED
  BY <1>1, <1>2, <1>3, <1>4, <1>5, <1>6, <1>7, <1>8

\* The row of an item after an attempt, whoever holds its claim now.
LEMMA WritesType ==
    ASSUME TypeOK, NEW w \in Workers, Item(w) \in Deliveries, worker[w].out \in Outcomes, Writes(w)
    PROVE  /\ row' \in [Deliveries -> Row]
           /\ \/ row' = row
              \/ /\ OwnsClaim(w)
                 /\ \A d \in Deliveries : d # Item(w) => row'[d] = row[d]
                 /\ row'[Item(w)].token = NoToken
                 /\ row'[Item(w)].attempts = row[Item(w)].attempts
                 /\ row'[Item(w)].status \in {"pending", "delivered", "failed"}
                 /\ row'[Item(w)].status = "delivered" => worker[w].out = "delivered"
                 /\ row'[Item(w)].status = "failed" => \/ worker[w].out = "failed"
                                                       \/ Exhausted(Item(w))
                 /\ row'[Item(w)].status = "pending" => /\ worker[w].out = "retry"
                                                        /\ ~Exhausted(Item(w))
<1>1. row \in [Deliveries -> Row]
  BY Types
<1>2. PICK due \in BOOLEAN :
        row' = IF OwnsClaim(w) THEN [row EXCEPT ![Item(w)] = Recorded(w, due)] ELSE row
  BY DEF Writes
<1>3. CASE ~OwnsClaim(w)
  BY <1>1, <1>2, <1>3
<1>4. CASE OwnsClaim(w)
  <2>1. row' = [row EXCEPT ![Item(w)] = Recorded(w, due)]
    BY <1>2, <1>4
  <2>2. Recorded(w, due) \in Row
    BY RecordedType
  <2>3. row'[Item(w)] = Recorded(w, due) /\ \A d \in Deliveries : d # Item(w) => row'[d] = row[d]
    BY <1>1, <2>1
  <2>4. row' \in [Deliveries -> Row]
    BY <1>1, <2>1, <2>2
  <2> QED
    BY <1>4, <2>3, <2>4, RecordedType
<1> QED
  BY <1>3, <1>4

\* The new row of a delivery, when its webhook is deleted or its worker's claim recovered.
LEMMA GoneType == [Absent EXCEPT !.status = "gone"] \in Row
                  /\ [Absent EXCEPT !.status = "gone"].status = "gone"
                  /\ [Absent EXCEPT !.status = "gone"].token = NoToken
  BY DEF Absent, Row, Statuses, Settled

\* The row of a new delivery.
LEMMA NewType == [Absent EXCEPT !.status = "pending", !.due = TRUE] \in Row
                 /\ [Absent EXCEPT !.status = "pending", !.due = TRUE].status = "pending"
                 /\ [Absent EXCEPT !.status = "pending", !.due = TRUE].token = NoToken
<1>1. Absent \in Row
  BY AbsentType
<1>2. "pending" \in Statuses /\ TRUE \in BOOLEAN
  BY DEF Statuses
<1>3. [Absent EXCEPT !.status = "pending", !.due = TRUE] \in Row
  BY <1>1, <1>2, Zenon DEF Row
<1>4. /\ [Absent EXCEPT !.status = "pending", !.due = TRUE].status = "pending"
      /\ [Absent EXCEPT !.status = "pending", !.due = TRUE].token = NoToken
  BY DEF Absent
<1> QED
  BY <1>3, <1>4

\* Every step of the workers and their environment is well typed.
LEMMA TypeStep == TypeOK /\ LocalsMatchPoint /\ [Next]_vars => TypeOK'
<1> SUFFICES ASSUME TypeOK, LocalsMatchPoint, [Next]_vars PROVE TypeOK'
  OBVIOUS
<1> DEFINE Good == /\ row' \in [Deliveries -> Row] /\ worker' \in [Workers -> Local]
                   /\ tenant' \in [Deliveries -> Tally] /\ faults' \in Nat
                   /\ hook' \in [Hooks -> {"enabled", "disabled", "deleted"}]
<1>0. /\ row \in [Deliveries -> Row] /\ worker \in [Workers -> Local]
      /\ tenant \in [Deliveries -> Tally] /\ faults \in Nat
      /\ hook \in [Hooks -> {"enabled", "disabled", "deleted"}]
  BY Types
<1>a. \A w \in Workers : At(w, "load") \/ At(w, "check") \/ At(w, "post") \/ At(w, "record")
                           => Item(w) \in Deliveries
  BY DEF At, LocalsMatchPoint
<1>b. {"delivered", "failed", "retry"} \subseteq Outcomes
  BY DEF Outcomes
<1>1. ASSUME NEW w \in Workers, Recover(w) PROVE Good
  <2>1. \A d \in Deliveries : Free(d, "pending") \in Row
    BY FreeType DEF Statuses
  <2>2. row' \in [Deliveries -> Row]
    BY <1>0, <1>1, <2>1 DEF Recover
  <2> QED
    BY <1>0, <1>1, <2>2, GoToType DEF Recover, Points
<1>2. ASSUME NEW w \in Workers, ClaimNothing(w) \/ LoadDelivery(w) \/ HookUsable(w) PROVE Good
  BY <1>0, <1>2, GoToType DEF ClaimNothing, LoadDelivery, HookUsable, Points
<1>3. ASSUME NEW w \in Workers, Claim(w) PROVE Good
  <2>1. PICK tok \in [Batch -> Tokens] : ClaimsBatch(w, tok)
    BY <1>3, ClaimWithTokens
  <2>2. row' \in [Deliveries -> Row] /\ worker' \in [Workers -> Local]
    BY <1>3, <2>1, ClaimType DEF Claim
  <2> QED
    BY <1>0, <1>3, <2>2 DEF Claim
<1>4. ASSUME NEW w \in Workers, SkipItem(w) PROVE Good
  BY <1>0, <1>a, <1>4, AdvanceType DEF SkipItem
<1>5. ASSUME NEW w \in Workers, HookUnusable(w) \/ BadDestination(w) PROVE Good
  <2>1. tenant' \in [Deliveries -> Tally] /\ worker' \in [Workers -> Local]
    BY <1>a, <1>b, <1>5, RefuseType, ConcludesType DEF HookUnusable, BadDestination, MayPost
  <2> QED
    BY <1>0, <1>5, <2>1 DEF HookUnusable, BadDestination
<1>6. ASSUME NEW w \in Workers, HookVanishes(w) \/ LoseBatch(w) PROVE Good
  BY <1>0, <1>6, DropsType DEF HookVanishes, LoseBatch, Fault
<1>7. ASSUME NEW w \in Workers, PostAccepted(w) \/ PostRejected(w) \/ PostDeferred(w) \/ PostUnclear(w)
      PROVE  Good
  <2>1. worker' \in [Workers -> Local]
    BY <1>b, <1>7, ConcludesType DEF PostAccepted, PostRejected, PostDeferred, PostUnclear
  <2>2. tenant' \in [Deliveries -> Tally]
    BY <1>a, <1>7, PostsType DEF PostAccepted, PostRejected, PostDeferred, PostUnclear, MayPost
  <2>3. row' = row /\ hook' = hook
    BY <1>7 DEF PostAccepted, PostRejected, PostDeferred, PostUnclear
  <2>4. faults' = faults \/ faults' = faults + 1
    BY <1>7 DEF PostAccepted, PostRejected, PostDeferred, PostUnclear, Fault
  <2> QED
    BY <1>0, <2>1, <2>2, <2>3, <2>4
<1>8. ASSUME NEW w \in Workers, Record(w) PROVE Good
  <2>1. Item(w) \in Deliveries /\ worker[w].out \in Outcomes
    BY <1>8 DEF Record, At, LocalsMatchPoint
  <2> QED
    BY <1>0, <1>8, <2>1, AdvanceType, WritesType DEF Record
<1>9. ASSUME NEW w \in Workers, RecordRaises(w) PROVE Good
  <2>1. Item(w) \in Deliveries /\ worker[w].out \in Outcomes
    BY <1>9 DEF RecordRaises, At, LocalsMatchPoint
  <2> QED
    BY <1>0, <1>9, <2>1, DropsType, WritesType DEF RecordRaises, Fault
<1>10. ASSUME NEW d \in Deliveries, Create(d) PROVE Good
  BY <1>0, <1>10, NewType DEF Create
<1>11. ASSUME NEW h \in Hooks, UpdateWebhook(h) PROVE Good
  BY <1>0, <1>11 DEF UpdateWebhook
<1>12. ASSUME NEW h \in Hooks, DeleteWebhook(h) PROVE Good
  BY <1>0, <1>12, GoneType DEF DeleteWebhook
<1>13. ASSUME NEW d \in Deliveries, BecomesDue(d) \/ ClaimGoesStale(d) PROVE Good
  <2>1. [row[d] EXCEPT !.due = TRUE] \in Row /\ [row[d] EXCEPT !.stale = TRUE] \in Row
    BY <1>0 DEF Row
  <2>2. \/ row' = [row EXCEPT ![d] = [row[d] EXCEPT !.due = TRUE]]
        \/ row' = [row EXCEPT ![d] = [row[d] EXCEPT !.stale = TRUE]]
    BY <1>0, <1>13 DEF BecomesDue, ClaimGoesStale
  <2>3. row' \in [Deliveries -> Row]
    BY <1>0, <2>1, <2>2
  <2> QED
    BY <1>0, <1>13, <2>3 DEF BecomesDue, ClaimGoesStale, Fault
<1>14. ASSUME UNCHANGED vars PROVE Good
  BY <1>0, <1>14 DEF vars
<1>15. Good => TypeOK'
  BY DEF TypeOK, Row, Local, Claims, Tally
<1> HIDE DEF Good
<1> QED
  BY <1>1, <1>2, <1>3, <1>4, <1>5, <1>6, <1>7, <1>8, <1>9, <1>10, <1>11, <1>12, <1>13, <1>14, <1>15
     DEF Next, Step, Attempt

-------------------------------------------------------------------------------
(* The inductive invariant.                                                *)

\* Every action but Claim takes tokens away only, and leaves the claims in the
\* table as they are or ends them.
HeldShrinks == \A w \in Workers, d \in Deliveries :
    worker'[w].held[d] \in {NoToken, worker[w].held[d]}
RowsEvolve == \A d \in Deliveries :
    \/ row'[d].status = row[d].status /\ row'[d].token = row[d].token
    \/ row'[d].status \in {"pending", "delivered", "failed", "gone"} /\ row'[d].token = NoToken

\* Such an action keeps claims exclusive, and rows under a claim in the table.
LEMMA ClaimsKept ==
    ASSUME IInv, HeldShrinks, RowsEvolve
    PROVE  /\ ClaimIsExclusive'
           /\ \A w \in Workers, d \in Deliveries :
                worker'[w].held[d] # NoToken => row'[d].status # "absent"
<1>1. ASSUME NEW d \in Deliveries PROVE row'[d].token # NoToken <=> row'[d].status = "processing"
  BY DEF IInv, ClaimIsExclusive, RowsEvolve
<1>2. ASSUME NEW d \in Deliveries, NEW v \in Workers, NEW w \in Workers, row'[d].token # NoToken,
             worker'[v].held[d] = row'[d].token, worker'[w].held[d] = row'[d].token
      PROVE  v = w
  <2>1. row'[d].token = row[d].token
    BY <1>2 DEF RowsEvolve
  <2>2. worker[v].held[d] = row[d].token /\ worker[w].held[d] = row[d].token
    BY <1>2, <2>1 DEF HeldShrinks
  <2> QED
    BY <1>2, <2>1, <2>2 DEF IInv, ClaimIsExclusive
<1>3. ASSUME NEW w \in Workers, NEW d \in Deliveries, worker'[w].held[d] # NoToken
      PROVE  row'[d].status # "absent"
  <2>1. worker[w].held[d] # NoToken
    BY <1>3 DEF HeldShrinks
  <2>2. row[d].status # "absent"
    BY <2>1 DEF IInv, LocalsMatchPoint
  <2> QED
    BY <2>2 DEF RowsEvolve
<1> QED
  BY <1>1, <1>2, <1>3 DEF ClaimIsExclusive

\* What a worker knows at its program point, after a step.
PointKept(w) ==
    /\ worker'[w].pc \in {"load", "check", "post", "record"} =>
         worker'[w].item \in Deliveries /\ worker'[w].held[worker'[w].item] # NoToken
    /\ worker'[w].pc = "record" =>
         /\ worker'[w].out \in Outcomes
         /\ worker'[w].out = "delivered" => tenant'[worker'[w].item].copies > 0
         /\ worker'[w].out = "failed" => tenant'[worker'[w].item].refused

\* What the tenants have is not taken back, and what is given up has a reason.
TenantGrows == \A d \in Deliveries : /\ tenant[d].copies > 0 => tenant'[d].copies > 0
                                     /\ tenant[d].refused => tenant'[d].refused
FailuresKept == \A d \in Deliveries : row'[d].status = "failed" =>
    \/ row[d].status = "failed" /\ row'[d].attempts = row[d].attempts
    \/ tenant'[d].refused \/ row'[d].attempts >= MaxAttempts

\* A worker that does not step keeps what it knows.
LEMMA OthersKeepPoint ==
    ASSUME IInv, TenantGrows, NEW w \in Workers, worker'[w] = worker[w]
    PROVE  PointKept(w)
  BY DEF PointKept, IInv, LocalsMatchPoint, TenantGrows, Item

\* A step that takes away tokens only, and of which each worker keeps what it knows,
\* preserves the invariant.
LEMMA StepKeepsInv ==
    ASSUME IInv, TypeOK', HeldShrinks, RowsEvolve, TenantGrows, FailuresKept,
           \A w \in Workers : PointKept(w)
    PROVE  IInv'
<1>1. GivenUpForAReason'
  <2>1. ASSUME NEW d \in Deliveries, row'[d].status = "failed"
        PROVE  tenant'[d].refused \/ row'[d].attempts >= MaxAttempts
    BY <2>1 DEF IInv, GivenUpForAReason, TenantGrows, FailuresKept
  <2> QED
    BY <2>1 DEF GivenUpForAReason
<1>2. LocalsMatchPoint'
  BY ClaimsKept DEF LocalsMatchPoint, PointKept, Item
<1> QED
  BY <1>1, <1>2, ClaimsKept DEF IInv

\* The same, of a step of one worker.
LEMMA WorkerStepKeepsInv ==
    ASSUME IInv, TypeOK', RowsEvolve, TenantGrows, FailuresKept, NEW w \in Workers, PointKept(w),
           \A v \in Workers : v # w => worker'[v] = worker[v],
           \A d \in Deliveries : worker'[w].held[d] \in {NoToken, worker[w].held[d]}
    PROVE  IInv'
<1>1. HeldShrinks
  BY DEF HeldShrinks
<1>2. \A v \in Workers : PointKept(v)
  BY OthersKeepPoint
<1> QED
  BY <1>1, <1>2, StepKeepsInv

\* A step that touches rows only.
LEMMA RowStepKeepsInv ==
    ASSUME IInv, TypeOK', RowsEvolve, FailuresKept, worker' = worker, tenant' = tenant
    PROVE  IInv'
<1>1. HeldShrinks /\ TenantGrows
  BY DEF HeldShrinks, TenantGrows
<1>2. \A v \in Workers : PointKept(v)
  BY <1>1, OthersKeepPoint
<1> QED
  BY <1>1, <1>2, StepKeepsInv

\* Nothing is claimed, held or given up in the beginning.
LEMMA InvInit == Init => IInv
<1> SUFFICES ASSUME Init PROVE IInv
  OBVIOUS
<1>1. TypeOK
  BY TypeInit
<1>2. LocalsMatchPoint /\ ClaimIsExclusive /\ GivenUpForAReason
  BY PollingType, AbsentType DEF Init, LocalsMatchPoint, ClaimIsExclusive, GivenUpForAReason
<1> QED
  BY <1>1, <1>2 DEF IInv

\* Recovery ends claims that are stale and moves the worker on.
LEMMA RecoverInv == ASSUME IInv, TypeOK', NEW w \in Workers, Recover(w) PROVE IInv'
<1>1. /\ worker'[w].pc = "claim" /\ worker'[w].held = worker[w].held
      /\ \A v \in Workers : v # w => worker'[v] = worker[v]
  BY GoToType DEF Recover, IInv, Points
<1>2. \A d \in Deliveries : Free(d, "pending").status = "pending" /\ Free(d, "pending").token = NoToken
  BY FreeType DEF IInv, Statuses
<1>3. RowsEvolve /\ FailuresKept /\ TenantGrows
  BY <1>2 DEF Recover, RowsEvolve, FailuresKept, TenantGrows
<1>4. PointKept(w)
  BY <1>1 DEF PointKept
<1> QED
  BY <1>1, <1>3, <1>4, WorkerStepKeepsInv

\* A claim gives each row of the batch a token that no worker holds.
LEMMA ClaimInv == ASSUME IInv, TypeOK', NEW w \in Workers, Claim(w) PROVE IInv'
<1>1. PICK tok \in [Batch -> Tokens] : ClaimsBatch(w, tok)
  BY ClaimWithTokens
<1>2. /\ \A v \in Workers : v # w => worker'[v] = worker[v]
      /\ \A d \in Deliveries : worker'[w].held[d] = IF d \in Batch THEN tok[d] ELSE NoToken
      /\ worker'[w].pc = "load" /\ worker'[w].item \in Batch
      /\ \A d \in Batch : /\ row'[d].status = "processing" /\ row'[d].token = tok[d]
                          /\ tok[d] \in Tokens /\ tok[d] # NoToken
      /\ \A d \in Deliveries : d \notin Batch => row'[d] = row[d]
  <2>1. TypeOK /\ Batch # {}
    BY DEF Claim, IInv
  <2> QED
    BY <1>1, <2>1, ClaimType
<1>3. Batch \subseteq Deliveries /\ tenant' = tenant
  BY DEF Batch, Claim
<1>4. GivenUpForAReason'
  BY <1>2, <1>3 DEF IInv, GivenUpForAReason
<1>5. LocalsMatchPoint'
  <2>1. TenantGrows
    BY <1>3 DEF TenantGrows
  <2>2. \A v \in Workers : v # w => PointKept(v)
    BY <1>2, <2>1, OthersKeepPoint
  <2>3. PointKept(w)
    BY <1>2, <1>3 DEF PointKept
  <2>4. ASSUME NEW v \in Workers, NEW d \in Deliveries, worker'[v].held[d] # NoToken
        PROVE  row'[d].status # "absent"
    <3>1. CASE d \in Batch
      BY <1>2, <3>1
    <3>2. CASE d \notin Batch
      BY <1>2, <2>4, <3>2 DEF IInv, LocalsMatchPoint
    <3> QED
      BY <3>1, <3>2
  <2> QED
    BY <2>2, <2>3, <2>4 DEF LocalsMatchPoint, PointKept, Item
<1>6. ClaimIsExclusive'
  <2>1. ASSUME NEW d \in Deliveries PROVE row'[d].token # NoToken <=> row'[d].status = "processing"
    BY <1>2, <1>3 DEF IInv, ClaimIsExclusive
  <2>2. ASSUME NEW d \in Deliveries, NEW u \in Workers, NEW v \in Workers, row'[d].token # NoToken,
               worker'[u].held[d] = row'[d].token, worker'[v].held[d] = row'[d].token
        PROVE  u = v
    <3>1. CASE d \in Batch
      <4>1. \A o \in Workers : o # w => worker'[o].held[d] # tok[d]
        BY <1>1, <1>2, <3>1 DEF ClaimsBatch, Unused
      <4> QED
        BY <2>2, <1>2, <3>1, <4>1
    <3>2. CASE d \notin Batch
      <4>1. worker'[w].held[d] = NoToken /\ row'[d] = row[d]
        BY <1>2, <3>2
      <4>2. u # w /\ v # w
        BY <2>2, <4>1
      <4> QED
        BY <2>2, <4>1, <4>2, <1>2 DEF IInv, ClaimIsExclusive
    <3> QED
      BY <3>1, <3>2
  <2> QED
    BY <2>1, <2>2 DEF ClaimIsExclusive
<1> QED
  BY <1>4, <1>5, <1>6 DEF IInv

\* Going on to the next item, or to poll again, keeps what the worker knows.
LEMMA AdvanceInv == ASSUME IInv, TypeOK', NEW w \in Workers, SkipItem(w) PROVE IInv'
<1>1. Item(w) \in Deliveries
  BY DEF SkipItem, At, IInv, LocalsMatchPoint
<1>2. /\ \A v \in Workers : v # w => worker'[v] = worker[v]
      /\ \A d \in Deliveries : worker'[w].held[d] \in {NoToken, worker[w].held[d]}
      /\ PointKept(w)
  BY <1>1, AdvanceType DEF SkipItem, IInv, PointKept
<1>3. RowsEvolve /\ TenantGrows /\ FailuresKept
  BY DEF SkipItem, RowsEvolve, TenantGrows, FailuresKept
<1> QED
  BY <1>2, <1>3, WorkerStepKeepsInv

\* Polling again, and going on within an attempt.
LEMMA MoveInv == ASSUME IInv, TypeOK', NEW w \in Workers,
                        ClaimNothing(w) \/ LoadDelivery(w) \/ HookUsable(w)
                 PROVE  IInv'
<1>1. PICK point \in {"recover", "check", "post"} :
        /\ GoTo(w, point) /\ row' = row /\ tenant' = tenant
        /\ point # "recover" => worker[w].pc \in {"load", "check"}
  BY DEF ClaimNothing, LoadDelivery, HookUsable, At
<1>2. /\ worker'[w].pc = point /\ worker'[w].item = worker[w].item
      /\ worker'[w].held = worker[w].held
      /\ \A v \in Workers : v # w => worker'[v] = worker[v]
  BY <1>1, GoToType DEF IInv, Points
<1>3. PointKept(w)
  BY <1>1, <1>2 DEF PointKept, IInv, LocalsMatchPoint, Item
<1>4. RowsEvolve /\ TenantGrows /\ FailuresKept
  BY <1>1 DEF RowsEvolve, TenantGrows, FailuresKept
<1> QED
  BY <1>2, <1>3, <1>4, WorkerStepKeepsInv

\* An attempt ends: what the worker is about to record, the tenant or the settings said.
LEMMA ConcludeInv ==
    ASSUME IInv, TypeOK', NEW w \in Workers, row' = row, TenantGrows, Item(w) \in Deliveries,
           worker[w].held[Item(w)] # NoToken, NEW outcome \in Outcomes,
           Concludes(w, outcome, "record"),
           outcome = "delivered" => tenant'[Item(w)].copies > 0,
           outcome = "failed" => tenant'[Item(w)].refused
    PROVE  IInv'
<1>1. /\ worker'[w].pc = "record" /\ worker'[w].item = worker[w].item
      /\ worker'[w].out = outcome /\ worker'[w].held = worker[w].held
      /\ \A v \in Workers : v # w => worker'[v] = worker[v]
  BY ConcludesType DEF IInv
<1>2. PointKept(w)
  BY <1>1 DEF PointKept, Item
<1>3. RowsEvolve /\ FailuresKept
  BY DEF RowsEvolve, FailuresKept
<1> QED
  BY <1>1, <1>2, <1>3, WorkerStepKeepsInv

\* Refused before anything is sent.
LEMMA RefusedInv == ASSUME IInv, TypeOK', NEW w \in Workers, HookUnusable(w) \/ BadDestination(w)
                    PROVE  IInv'
<1>1. Item(w) \in Deliveries /\ worker[w].held[Item(w)] # NoToken
  BY DEF HookUnusable, BadDestination, MayPost, At, IInv, LocalsMatchPoint
<1>2. Concludes(w, "failed", "record") /\ Refuse(Item(w)) /\ row' = row
  BY DEF HookUnusable, BadDestination
<1>3. TenantGrows /\ tenant'[Item(w)].refused
  BY <1>1, <1>2, RefuseType DEF TenantGrows, IInv
<1>4. "failed" \in Outcomes
  BY DEF Outcomes
<1> QED
  BY <1>1, <1>2, <1>3, <1>4, ConcludeInv

\* A POST and its answer.
LEMMA PostInv ==
    ASSUME IInv, TypeOK', NEW w \in Workers,
           PostAccepted(w) \/ PostRejected(w) \/ PostDeferred(w) \/ PostUnclear(w)
    PROVE  IInv'
<1>1. Item(w) \in Deliveries /\ worker[w].held[Item(w)] # NoToken /\ row' = row
  BY DEF PostAccepted, PostRejected, PostDeferred, PostUnclear, MayPost, At, IInv, LocalsMatchPoint
<1>2. PICK accepted \in BOOLEAN, refused \in BOOLEAN, outcome \in Outcomes :
        /\ Posts(w, accepted, refused) /\ Concludes(w, outcome, "record")
        /\ outcome = "delivered" => accepted
        /\ outcome = "failed" => refused
  BY DEF PostAccepted, PostRejected, PostDeferred, PostUnclear, Outcomes
<1>3. /\ \A d \in Deliveries : d # Item(w) => tenant'[d] = tenant[d]
      /\ tenant'[Item(w)].copies = tenant[Item(w)].copies + (IF accepted THEN 1 ELSE 0)
      /\ tenant'[Item(w)].refused = (tenant[Item(w)].refused \/ refused)
      /\ tenant[Item(w)].copies \in Nat
  BY <1>1, <1>2, PostsType, Types DEF IInv, Tally
<1>4. /\ tenant[Item(w)].copies > 0 => tenant'[Item(w)].copies > 0
      /\ accepted => tenant'[Item(w)].copies > 0
  BY <1>3
<1>5. (tenant[Item(w)].refused \/ refused) => tenant'[Item(w)].refused
  BY <1>3
<1>6. TenantGrows
  BY <1>3, <1>4, <1>5 DEF TenantGrows
<1> QED
  BY <1>1, <1>2, <1>4, <1>5, <1>6, ConcludeInv

\* What an update does to the rows has the reason the worker knows.
LEMMA WritesKeep ==
    ASSUME IInv, NEW w \in Workers, At(w, "record"), Writes(w), tenant' = tenant
    PROVE  RowsEvolve /\ FailuresKept
<1>1. /\ Item(w) \in Deliveries /\ worker[w].out \in Outcomes
      /\ worker[w].out = "failed" => tenant[Item(w)].refused
  BY DEF At, IInv, LocalsMatchPoint
<1>2. CASE row' = row
  BY <1>2 DEF RowsEvolve, FailuresKept
<1>3. CASE row' # row
  <2>1. /\ \A d \in Deliveries : d # Item(w) => row'[d] = row[d]
        /\ row'[Item(w)].token = NoToken /\ row'[Item(w)].attempts = row[Item(w)].attempts
        /\ row'[Item(w)].status \in {"pending", "delivered", "failed"}
        /\ row'[Item(w)].status = "failed" => worker[w].out = "failed" \/ Exhausted(Item(w))
    BY <1>1, <1>3, WritesType DEF IInv
  <2>2. RowsEvolve
    BY <2>1 DEF RowsEvolve
  <2>3. FailuresKept
    BY <1>1, <2>1 DEF FailuresKept, Exhausted
  <2> QED
    BY <2>2, <2>3
<1> QED
  BY <1>2, <1>3

\* The update at the end of an attempt.
LEMMA RecordInv == ASSUME IInv, TypeOK', NEW w \in Workers, Record(w) PROVE IInv'
<1>1. Item(w) \in Deliveries
  BY DEF Record, At, IInv, LocalsMatchPoint
<1>2. /\ \A v \in Workers : v # w => worker'[v] = worker[v]
      /\ \A d \in Deliveries : worker'[w].held[d] \in {NoToken, worker[w].held[d]}
      /\ PointKept(w)
  BY <1>1, AdvanceType DEF Record, IInv, PointKept
<1>3. RowsEvolve /\ FailuresKept /\ TenantGrows
  BY WritesKeep DEF Record, TenantGrows
<1> QED
  BY <1>2, <1>3, WorkerStepKeepsInv

\* A worker that drops its batch knows and holds nothing any more.
LEMMA DropInv ==
    ASSUME IInv, TypeOK', NEW w \in Workers, DropsBatch(w), RowsEvolve, FailuresKept, tenant' = tenant
    PROVE  IInv'
<1>1. worker'[w] = Polling /\ \A v \in Workers : v # w => worker'[v] = worker[v]
  BY DropsType DEF IInv
<1>2. PointKept(w) /\ \A d \in Deliveries : worker'[w].held[d] = NoToken
  BY <1>1, PollingType DEF PointKept
<1>3. TenantGrows
  BY DEF TenantGrows
<1> QED
  BY <1>1, <1>2, <1>3, WorkerStepKeepsInv

\* Every step preserves the invariant.
LEMMA InvStep == IInv /\ [Next]_vars => IInv'
<1> SUFFICES ASSUME IInv, [Next]_vars PROVE IInv'
  OBVIOUS
<1>0. TypeOK'
  BY TypeStep DEF IInv
<1>1. ASSUME row' = row PROVE RowsEvolve /\ FailuresKept
  BY <1>1 DEF RowsEvolve, FailuresKept
<1>2. ASSUME NEW w \in Workers, HookVanishes(w) \/ LoseBatch(w) PROVE IInv'
  BY <1>0, <1>1, <1>2, DropInv DEF HookVanishes, LoseBatch
<1>3. ASSUME NEW w \in Workers, RecordRaises(w) PROVE IInv'
  BY <1>0, <1>1, <1>3, DropInv, WritesKeep DEF RecordRaises
<1>4. ASSUME NEW d \in Deliveries, Create(d) PROVE IInv'
  <2>1. /\ \A e \in Deliveries : e # d => row'[e] = row[e]
        /\ row'[d].status = "pending" /\ row'[d].token = NoToken
    BY <1>4, NewType DEF Create, IInv, TypeOK
  <2>2. RowsEvolve /\ FailuresKept
    BY <2>1 DEF RowsEvolve, FailuresKept
  <2> QED
    BY <1>0, <1>4, <2>2, RowStepKeepsInv DEF Create
<1>5. ASSUME NEW d \in Deliveries, BecomesDue(d) \/ ClaimGoesStale(d) PROVE IInv'
  <2>1. row \in [Deliveries -> Row]
    BY Types DEF IInv
  <2>2. \A e \in Deliveries : /\ row'[e].status = row[e].status /\ row'[e].token = row[e].token
                              /\ row'[e].attempts = row[e].attempts
    BY <1>5, <2>1 DEF BecomesDue, ClaimGoesStale, Row
  <2>3. RowsEvolve /\ FailuresKept
    BY <2>2 DEF RowsEvolve, FailuresKept
  <2> QED
    BY <1>0, <1>5, <2>3, RowStepKeepsInv DEF BecomesDue, ClaimGoesStale
<1>6. ASSUME NEW h \in Hooks, DeleteWebhook(h) PROVE IInv'
  <2>1. \A d \in Deliveries : \/ row'[d] = row[d]
                              \/ row'[d].status = "gone" /\ row'[d].token = NoToken
    BY <1>6, GoneType DEF DeleteWebhook
  <2>2. RowsEvolve /\ FailuresKept
    BY <2>1 DEF RowsEvolve, FailuresKept
  <2> QED
    BY <1>0, <1>6, <2>2, RowStepKeepsInv DEF DeleteWebhook
<1>7. ASSUME NEW h \in Hooks, UpdateWebhook(h) PROVE IInv'
  BY <1>0, <1>1, <1>7, RowStepKeepsInv DEF UpdateWebhook
<1>8. ASSUME UNCHANGED vars PROVE IInv'
  BY <1>0, <1>1, <1>8, RowStepKeepsInv DEF vars
<1> QED
  BY <1>0, <1>2, <1>3, <1>4, <1>5, <1>6, <1>7, <1>8, RecoverInv, ClaimInv, AdvanceInv, MoveInv,
     RefusedInv, PostInv, RecordInv DEF Next, Step, Attempt

\* The inductive invariant of the webhook workers holds in every reachable state.
THEOREM Invariance == Spec => []IInv
BY InvInit, InvStep, PTL DEF Spec

\* Rows, webhooks, workers and tallies keep the types declared for them.
THEOREM TypeCorrect == Spec => []TypeOK
<1>1. IInv => TypeOK
  BY DEF IInv
<1> QED
  BY <1>1, Invariance, PTL

\* Claims are exclusive: one worker at most holds the claim that a delivery records
\* (claim_pending_deliveries, webhook_worker.py:13).
THEOREM ClaimsAreExclusive == Spec => []ClaimIsExclusive
<1>1. IInv => ClaimIsExclusive
  BY DEF IInv
<1> QED
  BY <1>1, Invariance, PTL

\* No delivery is given up without a refusal or MAX_ATTEMPTS counted attempts
\* (_attempt, webhook_worker.py:78).
THEOREM FailuresAreJustified == Spec => []GivenUpForAReason
<1>1. IInv => GivenUpForAReason
  BY DEF IInv
<1> QED
  BY <1>1, Invariance, PTL

-------------------------------------------------------------------------------
(* Fencing.                                                                *)

\* A step that leaves the claims in the table is not at issue.
LEMMA FencedUnlessFreed ==
    ASSUME \A d \in Deliveries : row[d].status = "processing" => row'[d].status = "processing"
    PROVE  FencedStep
  BY DEF FencedStep

\* An update frees the row of the item whose claim the worker holds.
LEMMA WritesAreFenced ==
    ASSUME IInv, NEW w \in Workers, At(w, "record"), Writes(w)
    PROVE  FencedStep
<1>1. Item(w) \in Deliveries /\ worker[w].out \in Outcomes /\ worker[w].pc = "record"
  BY DEF At, IInv, LocalsMatchPoint
<1>2. CASE row' = row
  BY <1>2, FencedUnlessFreed
<1>3. CASE row' # row
  <2>1. OwnsClaim(w) /\ \A d \in Deliveries : d # Item(w) => row'[d] = row[d]
    BY <1>1, <1>3, WritesType DEF IInv
  <2>2. worker[w].held[Item(w)] = row[Item(w)].token
    BY <2>1 DEF OwnsClaim
  <2> QED
    BY <1>1, <2>1, <2>2 DEF FencedStep
<1> QED
  BY <1>2, <1>3

\* Every step respects the claims that have not gone stale.
LEMMA FencedEveryStep == IInv /\ [Next]_vars => FencedStep
<1> SUFFICES ASSUME IInv, [Next]_vars PROVE FencedStep
  OBVIOUS
<1>0. row \in [Deliveries -> Row]
  BY Types DEF IInv
<1>1. ASSUME NEW w \in Workers, Recover(w) PROVE FencedStep
  BY <1>1 DEF Recover, FencedStep, StaleClaims
<1>2. ASSUME NEW w \in Workers, Claim(w) PROVE FencedStep
  <2>1. PICK tok \in [Batch -> Tokens] : ClaimsBatch(w, tok)
    BY <1>2, ClaimWithTokens
  <2>2. \A d \in Batch : row'[d].status = "processing"
    BY <1>2, <2>1, ClaimType DEF Claim, IInv
  <2>3. \A d \in Deliveries : d \notin Batch => row'[d] = row[d]
    BY <2>1 DEF ClaimsBatch
  <2> QED
    BY <2>2, <2>3, FencedUnlessFreed
<1>3. ASSUME NEW w \in Workers, Record(w) PROVE FencedStep
  BY <1>3, WritesAreFenced DEF Record
<1>4. ASSUME row' = row PROVE FencedStep
  BY <1>4, FencedUnlessFreed
<1>5. ASSUME NEW w \in Workers, RecordRaises(w) PROVE FencedStep
  BY <1>4, <1>5, WritesAreFenced DEF RecordRaises
<1>6. ASSUME NEW d \in Deliveries, Create(d) PROVE FencedStep
  BY <1>0, <1>6, FencedUnlessFreed DEF Create
<1>7. ASSUME NEW d \in Deliveries, BecomesDue(d) \/ ClaimGoesStale(d) PROVE FencedStep
  <2>1. \A e \in Deliveries : row'[e].status = row[e].status
    BY <1>0, <1>7 DEF BecomesDue, ClaimGoesStale, Row
  <2> QED
    BY <2>1, FencedUnlessFreed
<1>8. ASSUME NEW h \in Hooks, DeleteWebhook(h) PROVE FencedStep
  BY <1>8, GoneType DEF DeleteWebhook, FencedStep
<1> QED
  BY <1>1, <1>2, <1>3, <1>4, <1>5, <1>6, <1>7, <1>8
     DEF Next, Step, Attempt, vars, ClaimNothing, SkipItem, LoadDelivery, HookUnusable, HookUsable,
         HookVanishes, BadDestination, PostAccepted, PostRejected, PostDeferred, PostUnclear,
         LoseBatch, UpdateWebhook

\* A worker that lost its claim never touches the delivery of the new owner: the
\* update is conditional on the token (_attempt, webhook_worker.py:81).
THEOREM WorkersAreFenced == Spec => Fenced
  BY FencedEveryStep, Invariance, PTL DEF Spec, Fenced

-------------------------------------------------------------------------------
(* Copies and attempts.  Each delivery has a budget of one copy, plus one  *)
(* for each fault, and a budget of MaxAttempts claims, plus one for each   *)
(* fault and each webhook deleted.  What may still be sent or claimed      *)
(* again is counted together with what was.                                *)

Count(b) == IF b THEN 1 ELSE 0

\* A worker that may still post a delivery, or records something else than the tenant's yes.
Undelivered(w, d) == worker[w].held[d] # NoToken
                     /\ ~(worker[w].pc = "record" /\ Item(w) = d /\ worker[w].out = "delivered")
\* A worker that may still post a delivery for the attempt it counted.
Unposted(w, d) == worker[w].held[d] # NoToken /\ ~(worker[w].pc = "record" /\ Item(w) = d)
Carriers(d) == {w \in Workers : Undelivered(w, d)}
Posters(d) == {w \in Workers : Unposted(w, d)}

\* A row that will not be claimed again unless a fault happens first, and one that will
\* not even when the webhook some worker is about to POST to has been deleted.
Holds(w, d) == worker[w].held[d] = row[d].token
HookGone(w) == worker[w].pc = "post" /\ hook[HookOf[Item(w)]] = "deleted"
UnderClaim(d) == row[d].status = "processing" /\ ~row[d].stale
Spent(d) == \/ row[d].status \in Settled
            \/ UnderClaim(d) /\ \E w \in Workers : Holds(w, d)
Final(d) == \/ row[d].status \in Settled
            \/ UnderClaim(d) /\ \E w \in Workers : Holds(w, d) /\ ~HookGone(w)

DeletedHooks == {h \in Hooks : hook[h] = "deleted"}
Granted == MaxAttempts + faults + Cardinality(DeletedHooks)

CopiesKept == \A d \in Deliveries :
    /\ IsFiniteSet(Carriers(d))
    /\ Cardinality(Carriers(d)) + Count(~Spent(d)) + tenant[d].copies <= 1 + faults
PostsKept == \A d \in Deliveries :
    /\ IsFiniteSet(Posters(d))
    /\ row[d].status # "gone" => Cardinality(Posters(d)) + tenant[d].posts <= row[d].attempts
AttemptsKept == /\ IsFiniteSet(DeletedHooks)
                /\ \A d \in Deliveries : row[d].attempts + Count(~Final(d)) <= Granted
PollersHoldNothing == \A w \in Workers : worker[w].pc \in {"recover", "claim"} =>
    \A d \in Deliveries : worker[w].held[d] = NoToken

BudgetInv == CopiesKept /\ PostsKept /\ AttemptsKept /\ PollersHoldNothing

\* What a worker's step takes from the budgets of a delivery it pays for.
CopyPaid(w, d) ==
    Count(Undelivered(w, d))' + Count(~Spent(d))' + tenant'[d].copies + faults
        <= Count(Undelivered(w, d)) + Count(~Spent(d)) + tenant[d].copies + faults'
PostPaid(w, d) ==
    /\ row[d].status = "gone" => row'[d].status = "gone"
    /\ Count(Unposted(w, d))' + tenant'[d].posts + row[d].attempts
           <= Count(Unposted(w, d)) + tenant[d].posts + row'[d].attempts
AttemptPaid(d) ==
    \/ row'[d].attempts < MaxAttempts
    \/ row'[d].attempts + Count(~Final(d))' + faults <= row[d].attempts + Count(~Final(d)) + faults'
Paid(w, d) == CopyPaid(w, d) /\ PostPaid(w, d) /\ AttemptPaid(d)

\* What the budgets of a delivery count are numbers.
LEMMA Numbers ==
    ASSUME TypeOK, NEW d \in Deliveries
    PROVE  /\ tenant[d].copies \in Nat /\ tenant[d].posts \in Nat
           /\ row[d].attempts \in Nat /\ faults \in Nat
  BY Types DEF Tally, Row

\* The same after a step.
LEMMA NextNumbers ==
    ASSUME TypeOK', NEW d \in Deliveries
    PROVE  /\ tenant'[d].copies \in Nat /\ tenant'[d].posts \in Nat
           /\ row'[d].attempts \in Nat /\ faults' \in Nat
  BY DEF TypeOK

\* Two sets that agree but for one element differ in size by what that element counts.
LEMMA OneElement ==
    ASSUME NEW S, NEW T, NEW x, IsFiniteSet(S), S \ {x} = T \ {x}
    PROVE  /\ IsFiniteSet(T) /\ Cardinality(S) \in Nat /\ Cardinality(T) \in Nat
           /\ Cardinality(T) + Count(x \in S) = Cardinality(S) + Count(x \in T)
<1>1. /\ IsFiniteSet(S \ {x}) /\ Cardinality(S) \in Nat /\ Cardinality(S \ {x}) \in Nat
      /\ Cardinality(S \ {x}) = IF x \in S THEN Cardinality(S) - 1 ELSE Cardinality(S)
  BY FS_RemoveElement, FS_CardinalityType
<1>2. /\ IsFiniteSet((T \ {x}) \cup {x})
      /\ T = T \ {x} \/ T = (T \ {x}) \cup {x}
  BY <1>1, FS_AddElement
<1>3. IsFiniteSet(T)
  BY <1>1, <1>2
<1>4. /\ Cardinality(T) \in Nat
      /\ Cardinality(T \ {x}) = IF x \in T THEN Cardinality(T) - 1 ELSE Cardinality(T)
  BY <1>3, FS_RemoveElement, FS_CardinalityType
<1> QED
  BY <1>1, <1>3, <1>4 DEF Count

\* A step of a worker that pays for what it takes keeps the budgets.
LEMMA PaidStep ==
    ASSUME IInv, TypeOK', BudgetInv, NEW w \in Workers, hook' = hook, faults' \in {faults, faults + 1},
           \A v \in Workers : v # w => worker'[v] = worker[v],
           worker'[w].pc \in {"recover", "claim"} => \A d \in Deliveries : worker'[w].held[d] = NoToken,
           \A d \in Deliveries : Paid(w, d)
    PROVE  BudgetInv'
<1>1. CopiesKept'
  <2> SUFFICES ASSUME NEW d \in Deliveries
               PROVE  /\ IsFiniteSet(Carriers(d)')
                      /\ Cardinality(Carriers(d)') + Count(~Spent(d))' + tenant'[d].copies <= 1 + faults'
    BY DEF CopiesKept
  <2>1. /\ IsFiniteSet(Carriers(d)) /\ Carriers(d) \ {w} = Carriers(d)' \ {w}
        /\ (w \in Carriers(d) <=> Undelivered(w, d)) /\ (w \in Carriers(d)' <=> Undelivered(w, d)')
        /\ Cardinality(Carriers(d)) + Count(~Spent(d)) + tenant[d].copies <= 1 + faults
    BY DEF BudgetInv, CopiesKept, Carriers, Undelivered, Item
  <2>2. /\ IsFiniteSet(Carriers(d)')
        /\ Cardinality(Carriers(d)) \in Nat /\ Cardinality(Carriers(d)') \in Nat
        /\ Cardinality(Carriers(d)') + Count(w \in Carriers(d)) = Cardinality(Carriers(d)) + Count(w \in Carriers(d)')
    BY <2>1, OneElement
  <2>3. tenant[d].copies \in Nat /\ tenant'[d].copies \in Nat /\ faults \in Nat /\ faults' \in Nat
    BY Numbers, NextNumbers DEF IInv
  <2>4. CopyPaid(w, d)
    BY DEF Paid
  <2> QED
    BY <2>1, <2>2, <2>3, <2>4 DEF CopyPaid, Count
<1>2. PostsKept'
  <2> SUFFICES ASSUME NEW d \in Deliveries
               PROVE  /\ IsFiniteSet(Posters(d)')
                      /\ row'[d].status # "gone" => Cardinality(Posters(d)') + tenant'[d].posts <= row'[d].attempts
    BY DEF PostsKept
  <2>1. /\ IsFiniteSet(Posters(d)) /\ Posters(d) \ {w} = Posters(d)' \ {w}
        /\ (w \in Posters(d) <=> Unposted(w, d)) /\ (w \in Posters(d)' <=> Unposted(w, d)')
        /\ row[d].status # "gone" => Cardinality(Posters(d)) + tenant[d].posts <= row[d].attempts
    BY DEF BudgetInv, PostsKept, Posters, Unposted, Item
  <2>2. /\ IsFiniteSet(Posters(d)')
        /\ Cardinality(Posters(d)) \in Nat /\ Cardinality(Posters(d)') \in Nat
        /\ Cardinality(Posters(d)') + Count(w \in Posters(d)) = Cardinality(Posters(d)) + Count(w \in Posters(d)')
    BY <2>1, OneElement
  <2>3. /\ tenant[d].posts \in Nat /\ tenant'[d].posts \in Nat
        /\ row[d].attempts \in Nat /\ row'[d].attempts \in Nat
    BY Numbers, NextNumbers DEF IInv
  <2>4. PostPaid(w, d)
    BY DEF Paid
  <2> QED
    BY <2>1, <2>2, <2>3, <2>4 DEF PostPaid, Count
<1>3. AttemptsKept'
  <2>1. IsFiniteSet(DeletedHooks) /\ DeletedHooks' = DeletedHooks
    BY DEF BudgetInv, AttemptsKept, DeletedHooks
  <2>2. Cardinality(DeletedHooks) \in Nat /\ Cardinality(DeletedHooks') = Cardinality(DeletedHooks)
    BY <2>1, FS_CardinalityType
  <2>3. ASSUME NEW d \in Deliveries PROVE row'[d].attempts + Count(~Final(d))' <= Granted'
    <3>1. /\ row[d].attempts \in Nat /\ row'[d].attempts \in Nat /\ faults \in Nat
          /\ MaxAttempts \in Nat
      BY Numbers, NextNumbers, WebhookAssumption DEF IInv
    <3>2. AttemptPaid(d) /\ row[d].attempts + Count(~Final(d)) <= Granted
      BY DEF Paid, BudgetInv, AttemptsKept
    <3> QED
      BY <2>2, <3>1, <3>2 DEF AttemptPaid, Granted, Count
  <2> QED
    BY <2>1, <2>3 DEF AttemptsKept
<1>4. PollersHoldNothing'
  BY DEF BudgetInv, PollersHoldNothing
<1> QED
  BY <1>1, <1>2, <1>3, <1>4 DEF BudgetInv

\* A row no step touches stays as it is counted while whoever holds its claim keeps it.
LEMMA ClaimStays ==
    ASSUME NEW w \in Workers, NEW d \in Deliveries, row'[d] = row[d],
           \A v \in Workers : v # w => worker'[v] = worker[v],
           worker'[w].held[d] = worker[w].held[d] \/ ~Holds(w, d)
    PROVE  /\ Spent(d) => Spent(d)'
           /\ hook' = hook /\ ~HookGone(w)' => (Final(d) => Final(d)')
<1>1. \A v \in Workers : Holds(v, d) => Holds(v, d)'
  BY DEF Holds
<1>2. Spent(d) => Spent(d)'
  BY <1>1 DEF Spent, UnderClaim
<1>3. ASSUME hook' = hook, ~HookGone(w)', Final(d) PROVE Final(d)'
  <2>1. CASE row[d].status \in Settled
    BY <2>1 DEF Final
  <2>2. CASE row[d].status \notin Settled
    <3>1. PICK v \in Workers : UnderClaim(d) /\ Holds(v, d) /\ ~HookGone(v)
      BY <1>3, <2>2 DEF Final
    <3>2. Holds(v, d)' /\ ~HookGone(v)'
      BY <1>1, <1>3, <3>1 DEF HookGone, Item
    <3> QED
      BY <3>1, <3>2 DEF Final, UnderClaim
  <2> QED
    BY <2>1, <2>2
<1> QED
  BY <1>2, <1>3

\* A step that leaves a delivery, and what the worker holds of it, as they are.
LEMMA UntouchedPaid ==
    ASSUME TypeOK, NEW w \in Workers, NEW d \in Deliveries, row'[d] = row[d], hook' = hook,
           \A v \in Workers : v # w => worker'[v] = worker[v],
           worker'[w].held[d] = worker[w].held[d], ~HookGone(w)',
           tenant'[d].copies = tenant[d].copies, tenant'[d].posts = tenant[d].posts,
           faults' \in {faults, faults + 1},
           Undelivered(w, d)' => Undelivered(w, d), Unposted(w, d)' => Unposted(w, d)
    PROVE  Paid(w, d)
<1>1. (Spent(d) => Spent(d)') /\ (Final(d) => Final(d)')
  BY ClaimStays
<1>2. /\ tenant[d].copies \in Nat /\ tenant[d].posts \in Nat
      /\ row[d].attempts \in Nat /\ faults \in Nat
  BY Numbers
<1>3. CopyPaid(w, d)
  BY <1>1, <1>2 DEF CopyPaid, Count
<1>4. PostPaid(w, d)
  BY <1>2 DEF PostPaid, Count
<1>5. AttemptPaid(d)
  BY <1>1, <1>2 DEF AttemptPaid, Count
<1> QED
  BY <1>3, <1>4, <1>5 DEF Paid

\* Polling, and going on within an attempt, change nobody's budget: a claim that is
\* recovered was not counted, and a POST is begun only to a webhook that is there.
LEMMA MovePaid ==
    ASSUME IInv, NEW w \in Workers, NEW d \in Deliveries,
           Recover(w) \/ ClaimNothing(w) \/ LoadDelivery(w) \/ HookUsable(w)
    PROVE  Paid(w, d)
<1>1. /\ hook' = hook /\ tenant' = tenant /\ faults' = faults
      /\ worker'[w].held = worker[w].held /\ worker'[w].item = worker[w].item
      /\ worker[w].pc # "record" /\ worker'[w].pc # "record"
      /\ worker'[w].pc = "post" => HookUsable(w)
      /\ \A v \in Workers : v # w => worker'[v] = worker[v]
  BY GoToType DEF Recover, ClaimNothing, LoadDelivery, HookUsable, At, IInv, Points
<1>2. ~HookGone(w)'
  BY <1>1 DEF HookGone, HookUsable, Item
<1>3. (Undelivered(w, d)' <=> Undelivered(w, d)) /\ (Unposted(w, d)' <=> Unposted(w, d))
  BY <1>1 DEF Undelivered, Unposted
<1>4. CASE row'[d] = row[d]
  BY <1>1, <1>2, <1>3, <1>4, UntouchedPaid DEF IInv
<1>5. CASE row'[d] # row[d]
  <2>1. row[d].status = "processing" /\ row[d].stale /\ row'[d] = Free(d, "pending")
    BY <1>5 DEF Recover, ClaimNothing, LoadDelivery, HookUsable, StaleClaims
  <2>2. ~Spent(d) /\ ~Final(d) /\ row'[d].attempts = row[d].attempts
    BY <2>1, FreeType DEF Spent, Final, UnderClaim, Settled, IInv, Statuses
  <2>3. /\ tenant[d].copies \in Nat /\ tenant[d].posts \in Nat
        /\ row[d].attempts \in Nat /\ faults \in Nat
    BY Numbers DEF IInv
  <2>4. CopyPaid(w, d)
    BY <1>1, <1>3, <2>2, <2>3 DEF CopyPaid, Count
  <2>5. PostPaid(w, d)
    BY <1>1, <1>3, <2>1, <2>2, <2>3 DEF PostPaid, Count
  <2>6. AttemptPaid(d)
    BY <1>1, <2>2, <2>3 DEF AttemptPaid, Count
  <2> QED
    BY <2>4, <2>5, <2>6 DEF Paid
<1> QED
  BY <1>4, <1>5

\* A claim counts an attempt for each row it takes, and for each copy it may send.
LEMMA ClaimPaid ==
    ASSUME IInv, PollersHoldNothing, NEW w \in Workers, Claim(w), NEW d \in Deliveries
    PROVE  Paid(w, d)
<1>1. PICK tok \in [Batch -> Tokens] : ClaimsBatch(w, tok)
  BY ClaimWithTokens
<1>2. /\ \A v \in Workers : v # w => worker'[v] = worker[v]
      /\ \A e \in Deliveries : worker'[w].held[e] = IF e \in Batch THEN tok[e] ELSE NoToken
      /\ worker'[w].pc = "load"
      /\ \A e \in Batch : /\ row'[e].status = "processing" /\ row'[e].token = tok[e]
                          /\ ~row'[e].stale /\ row'[e].attempts = row[e].attempts + 1
      /\ \A e \in Deliveries : e \notin Batch => row'[e] = row[e]
  <2>1. TypeOK /\ Batch # {}
    BY DEF Claim, IInv
  <2> QED
    BY <1>1, <2>1, ClaimType
<1>3. /\ worker[w].held[d] = NoToken
      /\ hook' = hook /\ tenant' = tenant /\ faults' = faults
  BY DEF Claim, At, PollersHoldNothing
<1>4. ~HookGone(w)'
  BY <1>2 DEF HookGone
<1>5. CASE d \notin Batch
  <2>1. ~Undelivered(w, d)' /\ ~Unposted(w, d)' /\ worker'[w].held[d] = worker[w].held[d]
    BY <1>2, <1>3, <1>5 DEF Undelivered, Unposted
  <2> QED
    BY <1>2, <1>3, <1>4, <1>5, <2>1, UntouchedPaid DEF IInv
<1>6. CASE d \in Batch
  <2>1. ~Spent(d) /\ ~Final(d) /\ row[d].status # "gone"
    BY <1>6 DEF Batch, Claimable, Spent, Final, UnderClaim, Settled
  <2>2. Holds(w, d)'
    BY <1>2, <1>6 DEF Holds
  <2>3. Spent(d)' /\ Final(d)'
    BY <1>2, <1>4, <1>6, <2>2 DEF Spent, Final, UnderClaim
  <2>4. /\ tenant[d].copies \in Nat /\ tenant[d].posts \in Nat
        /\ row[d].attempts \in Nat /\ faults \in Nat
    BY Numbers DEF IInv
  <2>5. CopyPaid(w, d)
    BY <1>3, <2>1, <2>3, <2>4 DEF CopyPaid, Count
  <2>6. PostPaid(w, d)
    BY <1>2, <1>3, <1>6, <2>1, <2>4 DEF PostPaid, Count
  <2>7. AttemptPaid(d)
    BY <1>2, <1>3, <1>6, <2>1, <2>3, <2>4 DEF AttemptPaid, Count
  <2> QED
    BY <2>5, <2>6, <2>7 DEF Paid
<1> QED
  BY <1>5, <1>6

\* An attempt that ends without a POST costs nothing.
LEMMA RefusedPaid ==
    ASSUME IInv, NEW w \in Workers, HookUnusable(w) \/ BadDestination(w), NEW d \in Deliveries
    PROVE  Paid(w, d)
<1>1. /\ Item(w) \in Deliveries /\ worker[w].pc \in {"check", "post"}
      /\ Concludes(w, "failed", "record") /\ Refuse(Item(w))
      /\ row' = row /\ hook' = hook /\ faults' = faults
  BY DEF HookUnusable, BadDestination, MayPost, At, IInv, LocalsMatchPoint
<1>2. /\ worker'[w].pc = "record" /\ worker'[w].out = "failed"
      /\ worker'[w].held = worker[w].held
      /\ \A v \in Workers : v # w => worker'[v] = worker[v]
  BY <1>1, ConcludesType DEF IInv, Outcomes
<1>3. tenant'[d].copies = tenant[d].copies /\ tenant'[d].posts = tenant[d].posts
  BY <1>1, RefuseType DEF IInv
<1>4. ~HookGone(w)'
  BY <1>2 DEF HookGone
<1>5. (Undelivered(w, d)' => Undelivered(w, d)) /\ (Unposted(w, d)' => Unposted(w, d))
  BY <1>1, <1>2 DEF Undelivered, Unposted
<1> QED
  BY <1>1, <1>2, <1>3, <1>4, <1>5, UntouchedPaid DEF IInv

\* A POST was counted with its attempt, and a copy with it or with the lost answer.
LEMMA PostPaidFor ==
    ASSUME IInv, NEW w \in Workers, NEW d \in Deliveries,
           PostAccepted(w) \/ PostRejected(w) \/ PostDeferred(w) \/ PostUnclear(w)
    PROVE  Paid(w, d)
<1>1. /\ Item(w) \in Deliveries /\ worker[w].held[Item(w)] # NoToken /\ worker[w].pc = "post"
      /\ row' = row /\ hook' = hook
  BY DEF PostAccepted, PostRejected, PostDeferred, PostUnclear, MayPost, At, IInv, LocalsMatchPoint
<1>2. PICK accepted \in BOOLEAN, refused \in BOOLEAN, outcome \in Outcomes :
        /\ Posts(w, accepted, refused) /\ Concludes(w, outcome, "record")
        /\ \/ faults' = faults /\ (accepted => outcome = "delivered")
           \/ faults' = faults + 1
  BY DEF PostAccepted, PostRejected, PostDeferred, PostUnclear, Outcomes, Fault
<1>3. /\ worker'[w].pc = "record" /\ worker'[w].item = worker[w].item
      /\ worker'[w].out = outcome /\ worker'[w].held = worker[w].held
      /\ \A v \in Workers : v # w => worker'[v] = worker[v]
  BY <1>2, ConcludesType DEF IInv
<1>4. ~HookGone(w)' /\ faults' \in {faults, faults + 1}
  BY <1>2, <1>3 DEF HookGone
<1>5. CASE d # Item(w)
  <2>1. tenant'[d] = tenant[d]
    BY <1>1, <1>2, <1>5, PostsType DEF IInv
  <2>2. (Undelivered(w, d)' => Undelivered(w, d)) /\ (Unposted(w, d)' => Unposted(w, d))
    BY <1>1, <1>3 DEF Undelivered, Unposted
  <2> QED
    BY <1>1, <1>3, <1>4, <2>1, <2>2, UntouchedPaid DEF IInv
<1>6. CASE d = Item(w)
  <2>1. /\ tenant'[d].copies = tenant[d].copies + (IF accepted THEN 1 ELSE 0)
        /\ tenant'[d].posts = tenant[d].posts + 1
    BY <1>1, <1>2, <1>6, PostsType DEF IInv
  <2>2. /\ Undelivered(w, d) /\ Unposted(w, d) /\ ~Unposted(w, d)'
        /\ outcome = "delivered" => ~Undelivered(w, d)'
    BY <1>1, <1>3, <1>6 DEF Undelivered, Unposted, Item
  <2>3. (Spent(d) => Spent(d)') /\ (Final(d) => Final(d)')
    BY <1>1, <1>3, <1>4, ClaimStays
  <2>4. /\ tenant[d].copies \in Nat /\ tenant[d].posts \in Nat
        /\ row[d].attempts \in Nat /\ faults \in Nat
    BY Numbers DEF IInv
  <2>5. CopyPaid(w, d)
    BY <1>2, <2>1, <2>2, <2>3, <2>4 DEF CopyPaid, Count
  <2>6. PostPaid(w, d)
    BY <1>1, <2>1, <2>2, <2>4 DEF PostPaid, Count
  <2>7. AttemptPaid(d)
    BY <1>1, <1>4, <2>3, <2>4 DEF AttemptPaid, Count
  <2> QED
    BY <2>5, <2>6, <2>7 DEF Paid
<1> QED
  BY <1>5, <1>6

\* Going on with the batch drops the token of the item and no other.
LEMMA AdvanceDrops ==
    ASSUME TypeOK, NEW w \in Workers, Item(w) \in Deliveries, Advance(w), NEW d \in Deliveries
    PROVE  /\ worker'[w].held[d] = IF d = Item(w) THEN NoToken ELSE worker[w].held[d]
           /\ worker'[w].pc = "recover" => worker'[w].held[d] = NoToken
<1> DEFINE rest == Held(w) \ {Item(w)}
           held == [worker[w].held EXCEPT ![Item(w)] = NoToken]
<1>1. worker \in [Workers -> Local] /\ worker[w].held \in Claims
  BY Types DEF Local
<1>2. worker' = [worker EXCEPT ![w] = IF rest = {} THEN Polling
                     ELSE [pc |-> "load", item |-> Oldest(rest), out |-> "none", held |-> held]]
  BY DEF Advance
<1>3. /\ worker'[w].held[d] = IF rest = {} THEN NoToken ELSE held[d]
      /\ worker'[w].pc = "recover" => rest = {}
  BY <1>1, <1>2, PollingType
<1>4. rest = {} => d = Item(w) \/ worker[w].held[d] = NoToken
  BY DEF Held
<1> QED
  BY <1>1, <1>3, <1>4 DEF Claims

\* The update of an attempt settles the delivery, or leaves it for an attempt within
\* the limit, or comes too late and does nothing.
LEMMA WritesSettle ==
    ASSUME IInv, NEW w \in Workers, At(w, "record"), Writes(w), NEW d \in Deliveries
    PROVE  /\ row'[d].attempts = row[d].attempts
           /\ row[d].status = "gone" => row'[d].status = "gone"
           /\ ~OwnsClaim(w) \/ d # Item(w) => row'[d] = row[d]
           /\ OwnsClaim(w) => \/ row'[Item(w)].status \in Settled
                              \/ /\ row'[Item(w)].status = "pending" /\ worker[w].out = "retry"
                                 /\ row'[Item(w)].attempts < MaxAttempts
<1>1. Item(w) \in Deliveries /\ worker[w].out \in Outcomes /\ row \in [Deliveries -> Row]
  BY Types DEF At, IInv, LocalsMatchPoint
<1>2. PICK due \in BOOLEAN :
        row' = IF OwnsClaim(w) THEN [row EXCEPT ![Item(w)] = Recorded(w, due)] ELSE row
  BY DEF Writes
<1>3. CASE ~OwnsClaim(w)
  BY <1>2, <1>3
<1>4. CASE OwnsClaim(w)
  <2>1. row'[Item(w)] = Recorded(w, due) /\ \A e \in Deliveries : e # Item(w) => row'[e] = row[e]
    BY <1>1, <1>2, <1>4
  <2>2. /\ row'[Item(w)].attempts = row[Item(w)].attempts
        /\ row'[Item(w)].status \in {"pending", "delivered", "failed"}
        /\ row'[Item(w)].status = "pending" => worker[w].out = "retry" /\ ~Exhausted(Item(w))
    BY <1>1, <2>1, RecordedType DEF IInv
  <2>3. row[Item(w)].attempts \in Nat /\ MaxAttempts \in Nat
    BY <1>1, Numbers, WebhookAssumption DEF IInv
  <2>4. row[Item(w)].status = "processing"
    BY <1>4 DEF OwnsClaim
  <2> QED
    BY <1>4, <2>1, <2>2, <2>3, <2>4 DEF Exhausted, Settled
<1> QED
  BY <1>3, <1>4

\* An item that is done with, recorded or skipped, gives back what was not sent.
LEMMA AdvancePaid ==
    ASSUME IInv, NEW w \in Workers, SkipItem(w) \/ Record(w), NEW d \in Deliveries
    PROVE  Paid(w, d)
<1>1. /\ Item(w) \in Deliveries /\ worker[w].held[Item(w)] # NoToken
      /\ worker[w].pc \in {"load", "record"} /\ Advance(w)
      /\ hook' = hook /\ tenant' = tenant /\ faults' = faults
  BY DEF SkipItem, Record, IInv, LocalsMatchPoint, At
<1>2. /\ \A v \in Workers : v # w => worker'[v] = worker[v]
      /\ worker'[w].pc \in {"recover", "load"}
      /\ worker'[w].held[d] = IF d = Item(w) THEN NoToken ELSE worker[w].held[d]
  BY <1>1, AdvanceType, AdvanceDrops DEF IInv
<1>3. ~HookGone(w)'
  BY <1>2 DEF HookGone
<1>4. /\ tenant[d].copies \in Nat /\ tenant[d].posts \in Nat
      /\ row[d].attempts \in Nat /\ faults \in Nat
  BY Numbers DEF IInv
<1>5. /\ row'[d].attempts = row[d].attempts
      /\ row[d].status = "gone" => row'[d].status = "gone"
      /\ ~OwnsClaim(w) \/ d # Item(w) => row'[d] = row[d]
      /\ OwnsClaim(w) => \/ row'[Item(w)].status \in Settled
                         \/ /\ worker[w].out = "retry" /\ worker[w].pc = "record"
                            /\ row'[Item(w)].attempts < MaxAttempts
  BY WritesSettle DEF SkipItem, Record, At
<1>6. CASE d # Item(w)
  <2>1. (Undelivered(w, d)' => Undelivered(w, d)) /\ (Unposted(w, d)' => Unposted(w, d))
    BY <1>2, <1>6 DEF Undelivered, Unposted
  <2> QED
    BY <1>1, <1>2, <1>3, <1>5, <1>6, <2>1, UntouchedPaid DEF IInv
<1>7. CASE d = Item(w)
  <2>1. /\ ~Undelivered(w, d)' /\ ~Unposted(w, d)'
        /\ worker[w].out = "retry" => Undelivered(w, d)
    BY <1>1, <1>2, <1>7 DEF Undelivered, Unposted
  <2>2. PostPaid(w, d)
    BY <1>1, <1>4, <1>5, <2>1 DEF PostPaid, Count
  <2>3. CASE OwnsClaim(w) /\ row'[d].status \notin Settled
    <3>1. CopyPaid(w, d)
      BY <1>1, <1>4, <1>5, <1>7, <2>1, <2>3 DEF CopyPaid, Count
    <3>2. AttemptPaid(d)
      BY <1>5, <1>7, <2>3 DEF AttemptPaid
    <3> QED
      BY <2>2, <3>1, <3>2 DEF Paid
  <2>4. CASE ~OwnsClaim(w) \/ row'[d].status \in Settled
    <3>1. (Spent(d) => Spent(d)') /\ (Final(d) => Final(d)')
      <4>1. CASE row'[d].status \in Settled
        BY <4>1 DEF Spent, Final
      <4>2. CASE ~OwnsClaim(w) /\ row[d].status # "processing"
        BY <1>5, <4>2 DEF Spent, Final, UnderClaim
      <4>3. CASE ~OwnsClaim(w) /\ row[d].status = "processing"
        <5>1. row'[d] = row[d] /\ ~Holds(w, d)
          BY <1>5, <1>7, <4>3 DEF OwnsClaim, Holds
        <5> QED
          BY <1>1, <1>2, <1>3, <5>1, ClaimStays
      <4> QED
        BY <2>4, <4>1, <4>2, <4>3
    <3>2. CopyPaid(w, d)
      BY <1>1, <1>4, <2>1, <3>1 DEF CopyPaid, Count
    <3>3. AttemptPaid(d)
      BY <1>1, <1>4, <1>5, <3>1 DEF AttemptPaid, Count
    <3> QED
      BY <2>2, <3>2, <3>3 DEF Paid
  <2> QED
    BY <2>3, <2>4
<1> QED
  BY <1>6, <1>7

\* A batch that is dropped is sent again: a fault pays, or a webhook was deleted.
LEMMA DropPaid ==
    ASSUME IInv, NEW w \in Workers, HookVanishes(w) \/ LoseBatch(w) \/ RecordRaises(w), NEW d \in Deliveries
    PROVE  Paid(w, d)
<1>1. worker'[w] = Polling /\ \A v \in Workers : v # w => worker'[v] = worker[v]
  BY DropsType DEF HookVanishes, LoseBatch, RecordRaises, IInv
<1>2. /\ ~Undelivered(w, d)' /\ ~Unposted(w, d)' /\ ~HookGone(w)'
      /\ worker'[w].held[d] = NoToken
  BY <1>1, PollingType DEF Undelivered, Unposted, HookGone
<1>3. /\ tenant[d].copies \in Nat /\ tenant[d].posts \in Nat
      /\ row[d].attempts \in Nat /\ faults \in Nat
  BY Numbers DEF IInv
<1>4. /\ row'[d].attempts = row[d].attempts
      /\ row[d].status = "gone" => row'[d].status = "gone"
  BY WritesSettle DEF HookVanishes, LoseBatch, RecordRaises
<1>5. hook' = hook /\ tenant' = tenant
  BY DEF HookVanishes, LoseBatch, RecordRaises
<1>6. PostPaid(w, d)
  BY <1>2, <1>3, <1>4, <1>5 DEF PostPaid, Count
<1>7. CASE faults' = faults + 1
  <2>1. CopyPaid(w, d)
    BY <1>2, <1>3, <1>5, <1>7 DEF CopyPaid, Count
  <2>2. AttemptPaid(d)
    BY <1>3, <1>4, <1>7 DEF AttemptPaid, Count
  <2> QED
    BY <1>6, <2>1, <2>2 DEF Paid
<1>8. CASE HookVanishes(w)
  <2>1. row' = row /\ faults' = faults /\ HookGone(w) /\ worker[w].pc = "post"
    BY <1>8 DEF HookVanishes, At, HookGone
  <2>2. Final(d) => Final(d)'
    <3>1. CASE row[d].status \in Settled
      BY <2>1, <3>1 DEF Final
    <3>2. ASSUME NEW v \in Workers, UnderClaim(d), Holds(v, d), ~HookGone(v) PROVE Final(d)'
      <4>1. v # w
        BY <2>1, <3>2
      <4>2. Holds(v, d)' /\ ~HookGone(v)' /\ UnderClaim(d)'
        BY <1>1, <1>5, <2>1, <3>2, <4>1 DEF Holds, HookGone, UnderClaim, Item
      <4> QED
        BY <4>2 DEF Final
    <3> QED
      BY <3>1, <3>2 DEF Final
  <2>3. CASE Undelivered(w, d)
    <3>1. CopyPaid(w, d)
      BY <1>2, <1>3, <1>5, <2>1, <2>3 DEF CopyPaid, Count
    <3>2. AttemptPaid(d)
      BY <1>3, <1>4, <2>1, <2>2 DEF AttemptPaid, Count
    <3> QED
      BY <1>6, <3>1, <3>2 DEF Paid
  <2>4. CASE ~Undelivered(w, d)
    <3>1. worker[w].held[d] = NoToken
      BY <2>1, <2>4 DEF Undelivered
    <3>2. Spent(d) => Spent(d)'
      BY <1>1, <1>2, <2>1, <3>1, ClaimStays
    <3>3. CopyPaid(w, d)
      BY <1>2, <1>3, <1>5, <2>1, <2>4, <3>2 DEF CopyPaid, Count
    <3>4. AttemptPaid(d)
      BY <1>3, <1>4, <2>1, <2>2 DEF AttemptPaid, Count
    <3> QED
      BY <1>6, <3>3, <3>4 DEF Paid
  <2> QED
    BY <2>3, <2>4
<1> QED
  BY <1>7, <1>8 DEF LoseBatch, RecordRaises, Fault

\* Only a delivery that does not exist yet looks as one that does not exist yet.
LEMMA AbsentStays ==
    ASSUME IInv, [Next]_vars, NEW d \in Deliveries, row'[d].status = "absent"
    PROVE  row'[d] = row[d]
<1>0. row \in [Deliveries -> Row]
  BY Types DEF IInv
<1>1. ASSUME NEW w \in Workers, Recover(w) PROVE row'[d] = row[d]
  BY <1>1, FreeType DEF Recover, IInv, Statuses
<1>2. ASSUME NEW w \in Workers, Claim(w) PROVE row'[d] = row[d]
  <2>1. PICK tok \in [Batch -> Tokens] : ClaimsBatch(w, tok)
    BY <1>2, ClaimWithTokens
  <2>2. TypeOK /\ Batch # {}
    BY <1>2 DEF Claim, IInv
  <2> QED
    BY <2>1, <2>2, ClaimType
<1>3. ASSUME NEW w \in Workers, Record(w) \/ RecordRaises(w) PROVE row'[d] = row[d]
  <2>1. row' = row \/ (At(w, "record") /\ Writes(w))
    BY <1>3 DEF Record, RecordRaises
  <2>2. CASE At(w, "record") /\ Writes(w)
    BY <2>2, WritesSettle DEF Settled
  <2> QED
    BY <2>1, <2>2
<1>4. ASSUME NEW e \in Deliveries, Create(e) \/ BecomesDue(e) \/ ClaimGoesStale(e) PROVE row'[d] = row[d]
  <2>1. \A f \in Deliveries : f # e => row'[f] = row[f]
    BY <1>0, <1>4 DEF Create, BecomesDue, ClaimGoesStale
  <2>2. row'[e].status # "absent"
    <3>1. CASE Create(e)
      BY <1>0, <3>1, NewType DEF Create
    <3>2. CASE BecomesDue(e) \/ ClaimGoesStale(e)
      BY <1>0, <3>2 DEF BecomesDue, ClaimGoesStale, Row
    <3> QED
      BY <1>4, <3>1, <3>2
  <2> QED
    BY <2>1, <2>2
<1>5. ASSUME NEW h \in Hooks, DeleteWebhook(h) PROVE row'[d] = row[d]
  BY <1>5, GoneType DEF DeleteWebhook
<1> QED
  BY <1>1, <1>2, <1>3, <1>4, <1>5
     DEF Next, Step, Attempt, vars, ClaimNothing, SkipItem, LoadDelivery, HookUnusable, HookUsable,
         HookVanishes, BadDestination, PostAccepted, PostRejected, PostDeferred, PostUnclear,
         LoseBatch, UpdateWebhook

\* A step of nobody's worker, by what it does to each delivery and to the webhooks.
LEMMA OutsidePaid ==
    ASSUME IInv, BudgetInv, TypeOK', worker' = worker, tenant' = tenant, faults' \in {faults, faults + 1},
           NEW grant \in {0, 1}, IsFiniteSet(DeletedHooks'),
           Cardinality(DeletedHooks') = Cardinality(DeletedHooks) + grant,
           \A d \in Deliveries :
             /\ Spent(d) => Spent(d)' \/ faults' = faults + 1
             /\ row'[d].status # "gone" => /\ row[d].status # "gone"
                                           /\ row'[d].attempts = row[d].attempts
             /\ \/ row'[d].attempts = 0
                \/ /\ row'[d].attempts = row[d].attempts
                   /\ Final(d) => Final(d)' \/ faults' = faults + 1 \/ grant = 1
    PROVE  BudgetInv'
<1>1. CopiesKept'
  <2> SUFFICES ASSUME NEW d \in Deliveries
               PROVE  /\ IsFiniteSet(Carriers(d)')
                      /\ Cardinality(Carriers(d)') + Count(~Spent(d))' + tenant'[d].copies <= 1 + faults'
    BY DEF CopiesKept
  <2>1. /\ IsFiniteSet(Carriers(d)) /\ Carriers(d)' = Carriers(d)
        /\ Cardinality(Carriers(d)) + Count(~Spent(d)) + tenant[d].copies <= 1 + faults
    BY DEF BudgetInv, CopiesKept, Carriers, Undelivered, Item
  <2>2. Cardinality(Carriers(d)) \in Nat /\ tenant[d].copies \in Nat /\ faults \in Nat
    BY <2>1, FS_CardinalityType, Numbers DEF IInv
  <2> QED
    BY <2>1, <2>2 DEF Count
<1>2. PostsKept'
  <2> SUFFICES ASSUME NEW d \in Deliveries
               PROVE  /\ IsFiniteSet(Posters(d)')
                      /\ row'[d].status # "gone" => Cardinality(Posters(d)') + tenant'[d].posts <= row'[d].attempts
    BY DEF PostsKept
  <2>1. Posters(d)' = Posters(d)
    BY DEF Posters, Unposted, Item
  <2> QED
    BY <2>1 DEF BudgetInv, PostsKept
<1>3. AttemptsKept'
  <2>1. ASSUME NEW d \in Deliveries PROVE row'[d].attempts + Count(~Final(d))' <= Granted'
    <3>1. /\ row[d].attempts \in Nat /\ row'[d].attempts \in Nat /\ faults \in Nat
          /\ MaxAttempts \in Nat \ {0}
      BY Numbers, NextNumbers, WebhookAssumption DEF IInv
    <3>2. Cardinality(DeletedHooks) \in Nat /\ row[d].attempts + Count(~Final(d)) <= Granted
      BY FS_CardinalityType DEF BudgetInv, AttemptsKept
    <3> QED
      BY <3>1, <3>2 DEF Granted, Count
  <2> QED
    BY <2>1 DEF AttemptsKept
<1>4. PollersHoldNothing'
  BY DEF BudgetInv, PollersHoldNothing
<1> QED
  BY <1>1, <1>2, <1>3, <1>4 DEF BudgetInv

\* Rows whose webhook stays count as before, unless somebody was about to POST to it.
LEMMA UntouchedRow ==
    ASSUME NEW d \in Deliveries, worker' = worker, row'[d] = row[d]
    PROVE  /\ Spent(d) => Spent(d)'
           /\ (\A w \in Workers : HookGone(w)' => HookGone(w)) => (Final(d) => Final(d)')
<1>1. \A w \in Workers : Holds(w, d) => Holds(w, d)'
  BY DEF Holds
<1> QED
  BY <1>1 DEF Spent, Final, UnderClaim

\* What happens outside the workers keeps the budgets: a claim in use that is overrun is
\* a fault, and a webhook deleted grants one attempt more to the batches it breaks.
LEMMA OutsideBudget ==
    ASSUME IInv, BudgetInv, TypeOK',
           \A d \in Deliveries : row[d].status = "absent" => row[d].attempts = 0,
           \/ \E d \in Deliveries : Create(d) \/ BecomesDue(d) \/ ClaimGoesStale(d)
           \/ \E h \in Hooks : UpdateWebhook(h) \/ DeleteWebhook(h)
           \/ UNCHANGED vars
    PROVE  BudgetInv'
<1>0. /\ row \in [Deliveries -> Row] /\ hook \in [Hooks -> {"enabled", "disabled", "deleted"}]
      /\ faults \in Nat
  BY Types DEF IInv
<1>a. IsFiniteSet(DeletedHooks) /\ Cardinality(DeletedHooks) \in Nat
  BY FS_CardinalityType DEF BudgetInv, AttemptsKept
<1>b. worker' = worker /\ tenant' = tenant /\ faults' \in {faults, faults + 1}
  BY DEF Create, BecomesDue, ClaimGoesStale, UpdateWebhook, DeleteWebhook, vars, Fault
<1>1. ASSUME NEW d \in Deliveries, Create(d) PROVE BudgetInv'
  <2>1. /\ \A e \in Deliveries : e # d => row'[e] = row[e]
        /\ row'[d] = [Absent EXCEPT !.status = "pending", !.due = TRUE]
        /\ hook' = hook /\ row[d].status = "absent"
    BY <1>0, <1>1 DEF Create
  <2>2. /\ DeletedHooks' = DeletedHooks /\ row'[d].attempts = 0 /\ row[d].attempts = 0
        /\ \A w \in Workers : HookGone(w)' => HookGone(w)
    BY <1>b, <2>1 DEF DeletedHooks, Absent, HookGone, Item
  <2>3. ~Spent(d)
    BY <2>1 DEF Spent, UnderClaim, Settled
  <2>4. \A e \in Deliveries : e # d => (Spent(e) => Spent(e)') /\ (Final(e) => Final(e)')
    BY <1>b, <2>1, <2>2, UntouchedRow
  <2>5. IsFiniteSet(DeletedHooks') /\ Cardinality(DeletedHooks') = Cardinality(DeletedHooks) + 0
    BY <1>a, <2>2
  <2> QED
    BY <1>b, <2>1, <2>2, <2>3, <2>4, <2>5, OutsidePaid
<1>2. ASSUME NEW d \in Deliveries, BecomesDue(d) \/ ClaimGoesStale(d) PROVE BudgetInv'
  <2>1. /\ \A e \in Deliveries : e # d => row'[e] = row[e]
        /\ row'[d].status = row[d].status /\ row'[d].attempts = row[d].attempts
        /\ row[d].status \notin Settled /\ hook' = hook
    BY <1>0, <1>2 DEF BecomesDue, ClaimGoesStale, Row, Settled
  <2>2. /\ DeletedHooks' = DeletedHooks
        /\ \A w \in Workers : HookGone(w)' => HookGone(w)
    BY <1>b, <2>1 DEF DeletedHooks, HookGone, Item
  <2>3. Spent(d) \/ Final(d) => faults' = faults + 1
    BY <1>2, <2>1 DEF BecomesDue, ClaimGoesStale, Spent, Final, UnderClaim, Holds, Fault
  <2>4. \A e \in Deliveries : e # d => (Spent(e) => Spent(e)') /\ (Final(e) => Final(e)')
    BY <1>b, <2>1, <2>2, UntouchedRow
  <2>5. IsFiniteSet(DeletedHooks') /\ Cardinality(DeletedHooks') = Cardinality(DeletedHooks) + 0
    BY <1>a, <2>2
  <2>6. \A e \in Deliveries :
          /\ row'[e].status = row[e].status /\ row'[e].attempts = row[e].attempts
          /\ Spent(e) => Spent(e)' \/ faults' = faults + 1
          /\ Final(e) => Final(e)' \/ faults' = faults + 1
    BY <2>1, <2>3, <2>4
  <2> QED
    BY <1>b, <2>5, <2>6, OutsidePaid
<1>3. ASSUME NEW h \in Hooks, UpdateWebhook(h) PROVE BudgetInv'
  <2>1. /\ row' = row /\ \A k \in Hooks : hook'[k] = "deleted" <=> hook[k] = "deleted"
    BY <1>0, <1>3 DEF UpdateWebhook
  <2>2. DeletedHooks' = DeletedHooks
    BY <2>1 DEF DeletedHooks
  <2>3. \A w \in Workers : HookGone(w)' => HookGone(w)
    <3>1. \A w \in Workers : worker[w].pc = "post" => HookOf[Item(w)] \in Hooks
      BY WebhookAssumption DEF IInv, LocalsMatchPoint
    <3> QED
      BY <1>b, <2>1, <3>1 DEF HookGone, Item
  <2>4. \A e \in Deliveries : (Spent(e) => Spent(e)') /\ (Final(e) => Final(e)')
    BY <1>b, <2>1, <2>3, UntouchedRow
  <2>5. IsFiniteSet(DeletedHooks') /\ Cardinality(DeletedHooks') = Cardinality(DeletedHooks) + 0
    BY <1>a, <2>2
  <2> QED
    BY <1>b, <2>1, <2>4, <2>5, OutsidePaid
<1>4. ASSUME NEW h \in Hooks, DeleteWebhook(h) PROVE BudgetInv'
  <2>1. \A d \in Deliveries : \/ row'[d] = row[d]
                              \/ row'[d].status = "gone" /\ row'[d].attempts = 0
    BY <1>4 DEF DeleteWebhook, Absent
  <2>2. DeletedHooks' = DeletedHooks \cup {h} /\ h \notin DeletedHooks
    BY <1>0, <1>4 DEF DeleteWebhook, DeletedHooks
  <2>3. IsFiniteSet(DeletedHooks') /\ Cardinality(DeletedHooks') = Cardinality(DeletedHooks) + 1
    BY <1>a, <2>2, FS_AddElement
  <2>4. \A d \in Deliveries : row'[d] = row[d] => (Spent(d) => Spent(d)')
    BY <1>b, UntouchedRow
  <2>5. \A d \in Deliveries : row'[d].status = "gone" => Spent(d)'
    BY DEF Spent, Settled
  <2> QED
    BY <1>b, <2>1, <2>3, <2>4, <2>5, OutsidePaid
<1>5. CASE UNCHANGED vars
  <2>1. row' = row /\ hook' = hook
    BY <1>5 DEF vars
  <2>2. DeletedHooks' = DeletedHooks /\ \A w \in Workers : HookGone(w)' => HookGone(w)
    BY <1>b, <2>1 DEF DeletedHooks, HookGone, Item
  <2>3. \A e \in Deliveries : (Spent(e) => Spent(e)') /\ (Final(e) => Final(e)')
    BY <1>b, <2>1, <2>2, UntouchedRow
  <2>4. IsFiniteSet(DeletedHooks') /\ Cardinality(DeletedHooks') = Cardinality(DeletedHooks) + 0
    BY <1>a, <2>2
  <2> QED
    BY <1>b, <2>1, <2>3, <2>4, OutsidePaid
<1> QED
  BY <1>1, <1>2, <1>3, <1>4, <1>5

\* Everything the budgets need.
AllBudgets == IInv /\ BudgetInv /\ \A d \in Deliveries : row[d].status = "absent" => row[d].attempts = 0

\* Before the first event every budget is whole.
LEMMA BudgetInit == Init => AllBudgets
<1> SUFFICES ASSUME Init PROVE AllBudgets
  OBVIOUS
<1>1. ASSUME NEW d \in Deliveries
      PROVE  /\ Carriers(d) = {} /\ Posters(d) = {} /\ row[d].status = "absent"
             /\ row[d].attempts = 0 /\ tenant[d].copies = 0 /\ tenant[d].posts = 0
  BY PollingType DEF Init, Carriers, Posters, Undelivered, Unposted, Absent
<1>2. IsFiniteSet({}) /\ Cardinality({}) = 0 /\ MaxAttempts \in Nat \ {0}
  BY FS_EmptySet, WebhookAssumption
<1>3. DeletedHooks = {} /\ faults = 0
  BY DEF Init, DeletedHooks
<1>4. CopiesKept
  <2>1. \A d \in Deliveries : Count(~Spent(d)) \in {0, 1}
    BY DEF Count
  <2>2. \A d \in Deliveries : Cardinality(Carriers(d)) = 0 /\ IsFiniteSet(Carriers(d))
    BY <1>1, <1>2
  <2>3. \A d \in Deliveries : 0 + Count(~Spent(d)) + 0 <= 1 + 0
    BY <2>1
  <2> QED
    BY <1>1, <1>3, <2>2, <2>3 DEF CopiesKept
<1>5. PostsKept
  BY <1>1, <1>2 DEF PostsKept
<1>6. AttemptsKept
  BY <1>1, <1>2, <1>3 DEF AttemptsKept, Granted, Count
<1>7. PollersHoldNothing
  BY PollingType DEF Init, PollersHoldNothing
<1> QED
  BY <1>1, <1>4, <1>5, <1>6, <1>7, InvInit DEF AllBudgets, BudgetInv

\* A worker's step moves no other worker, touches no webhook, and polls with empty hands.
LEMMA WorkerFrame ==
    ASSUME IInv, PollersHoldNothing, NEW w \in Workers,
           Step(w) \/ PostUnclear(w) \/ RecordRaises(w) \/ LoseBatch(w)
    PROVE  /\ hook' = hook /\ faults' \in {faults, faults + 1}
           /\ \A v \in Workers : v # w => worker'[v] = worker[v]
           /\ worker'[w].pc \in {"recover", "claim"} =>
                \A d \in Deliveries : worker'[w].held[d] = NoToken
<1>1. hook' = hook /\ faults' \in {faults, faults + 1}
  BY DEF Step, Attempt, Recover, ClaimNothing, Claim, SkipItem, LoadDelivery, HookUnusable, HookUsable,
         HookVanishes, BadDestination, PostAccepted, PostRejected, PostDeferred, PostUnclear,
         Record, RecordRaises, LoseBatch, Fault
<1>2. worker \in [Workers -> Local]
  BY Types DEF IInv
<1>3. \A v \in Workers : v # w => worker'[v] = worker[v]
  BY <1>2 DEF Step, Attempt, Recover, ClaimNothing, Claim, SkipItem, LoadDelivery, HookUnusable, HookUsable,
              HookVanishes, BadDestination, PostAccepted, PostRejected, PostDeferred, PostUnclear,
              Record, RecordRaises, LoseBatch, GoTo, Concludes, DropsBatch, Advance
<1>4. CASE Recover(w) \/ ClaimNothing(w)
  <2>1. worker'[w].held = worker[w].held /\ worker[w].pc \in {"recover", "claim"}
    BY <1>4, GoToType DEF Recover, ClaimNothing, At, IInv, Points
  <2> QED
    BY <1>1, <1>3, <2>1 DEF PollersHoldNothing
<1>5. CASE LoadDelivery(w) \/ HookUsable(w)
  <2>1. worker'[w].pc \in {"check", "post"}
    BY <1>5, GoToType DEF LoadDelivery, HookUsable, IInv, Points
  <2> QED
    BY <1>1, <1>3, <2>1
<1>6. CASE Claim(w)
  <2>1. PICK tok \in [Batch -> Tokens] : ClaimsBatch(w, tok)
    BY <1>6, ClaimWithTokens
  <2>2. TypeOK /\ Batch # {}
    BY <1>6 DEF Claim, IInv
  <2>3. worker'[w].pc = "load"
    BY <2>1, <2>2, ClaimType
  <2> QED
    BY <1>1, <1>3, <2>3
<1>7. CASE SkipItem(w) \/ Record(w)
  <2>1. Item(w) \in Deliveries /\ Advance(w)
    BY <1>7 DEF SkipItem, Record, At, IInv, LocalsMatchPoint
  <2>2. /\ worker'[w].pc \in {"recover", "load"}
        /\ \A d \in Deliveries : worker'[w].pc = "recover" => worker'[w].held[d] = NoToken
    BY <2>1, AdvanceType, AdvanceDrops DEF IInv
  <2> QED
    BY <1>1, <1>3, <2>2
<1>8. CASE HookVanishes(w) \/ LoseBatch(w) \/ RecordRaises(w)
  <2>1. worker'[w] = Polling
    BY <1>8, DropsType DEF HookVanishes, LoseBatch, RecordRaises, IInv
  <2> QED
    BY <1>1, <1>3, <2>1, PollingType
<1>9. ASSUME NEW outcome \in Outcomes, Concludes(w, outcome, "record") PROVE worker'[w].pc = "record"
  BY <1>9, ConcludesType DEF IInv
<1>10. CASE \/ HookUnusable(w) \/ BadDestination(w)
            \/ PostAccepted(w) \/ PostRejected(w) \/ PostDeferred(w) \/ PostUnclear(w)
  <2>1. worker'[w].pc = "record"
    BY <1>9, <1>10 DEF HookUnusable, BadDestination, PostAccepted, PostRejected, PostDeferred,
                       PostUnclear, Outcomes
  <2> QED
    BY <1>1, <1>3, <2>1
<1> QED
  BY <1>4, <1>5, <1>6, <1>7, <1>8, <1>10 DEF Step, Attempt

\* Every step keeps every budget.
LEMMA BudgetStep == AllBudgets /\ [Next]_vars => AllBudgets'
<1> SUFFICES ASSUME IInv, BudgetInv, [Next]_vars,
                    \A d \in Deliveries : row[d].status = "absent" => row[d].attempts = 0
             PROVE  AllBudgets'
  BY DEF AllBudgets
<1>1. IInv' /\ TypeOK' /\ PollersHoldNothing
  BY InvStep DEF IInv, BudgetInv
<1>2. ASSUME NEW w \in Workers, Step(w) \/ PostUnclear(w) \/ RecordRaises(w) \/ LoseBatch(w)
      PROVE  BudgetInv'
  <2>1. \A d \in Deliveries : Paid(w, d)
    BY <1>1, <1>2, MovePaid, ClaimPaid, RefusedPaid, PostPaidFor, AdvancePaid, DropPaid DEF Step, Attempt
  <2> QED
    BY <1>1, <1>2, <2>1, WorkerFrame, PaidStep
<1>3. BudgetInv'
  BY <1>1, <1>2, OutsideBudget DEF Next
<1>4. \A d \in Deliveries : row'[d].status = "absent" => row'[d].attempts = 0
  BY AbsentStays
<1> QED
  BY <1>1, <1>3, <1>4 DEF AllBudgets

\* The budgets hold in every reachable state.
LEMMA BudgetsHold == Spec => []AllBudgets
  BY BudgetInit, BudgetStep, PTL DEF Spec

\* A tenant gets an event once, and once more at most for each crash, lost answer or
\* overrun claim.
THEOREM DuplicatesArePaidFor == Spec => []DuplicatesNeedFaults
<1>1. AllBudgets => DuplicatesNeedFaults
  <2> SUFFICES ASSUME IInv, BudgetInv, NEW d \in Deliveries PROVE tenant[d].copies <= 1 + faults
    BY DEF AllBudgets, DuplicatesNeedFaults
  <2>1. /\ tenant[d].copies \in Nat /\ faults \in Nat /\ Cardinality(Carriers(d)) \in Nat
        /\ Cardinality(Carriers(d)) + Count(~Spent(d)) + tenant[d].copies <= 1 + faults
    BY Numbers, FS_CardinalityType DEF IInv, BudgetInv, CopiesKept
  <2> QED
    BY <2>1 DEF Count
<1> QED
  BY <1>1, BudgetsHold, PTL

\* Every POST was counted before it was made, and the limit on attempts is passed only by
\* as many as there were faults and webhooks deleted.
THEOREM AttemptsAreLimited == Spec => []AttemptsAreCounted
<1>1. AllBudgets => AttemptsAreCounted
  <2> SUFFICES ASSUME IInv, BudgetInv, NEW d \in Deliveries, row[d].status # "gone"
               PROVE  /\ tenant[d].posts <= row[d].attempts
                      /\ row[d].attempts <= MaxAttempts + faults + Cardinality(DeletedHooks)
    BY DEF AllBudgets, AttemptsAreCounted, DeletedHooks
  <2>1. /\ tenant[d].posts \in Nat /\ row[d].attempts \in Nat /\ faults \in Nat
        /\ MaxAttempts \in Nat /\ Cardinality(Posters(d)) \in Nat /\ Cardinality(DeletedHooks) \in Nat
    BY Numbers, WebhookAssumption, FS_CardinalityType DEF IInv, BudgetInv, PostsKept, AttemptsKept
  <2>2. /\ Cardinality(Posters(d)) + tenant[d].posts <= row[d].attempts
        /\ row[d].attempts + Count(~Final(d)) <= MaxAttempts + faults + Cardinality(DeletedHooks)
    BY DEF BudgetInv, PostsKept, AttemptsKept, Granted
  <2> QED
    BY <2>1, <2>2 DEF Count
<1> QED
  BY <1>1, BudgetsHold, PTL

-------------------------------------------------------------------------------
(* Refinement.                                                             *)

absVars == <<AbsState, Copies>>

\* Claims, releases and recoveries are invisible: the delivery stays open.
Open == {"pending", "processing"}
LEMMA SameAbsState ==
    ASSUME \A d \in Deliveries : \/ row'[d].status = row[d].status
                                 \/ row'[d].status \in Open /\ row[d].status \in Open
    PROVE  AbsState' = AbsState
<1>1. \A d \in Deliveries : StateOf(row'[d].status) = StateOf(row[d].status)
  BY DEF StateOf, Open
<1> QED
  BY <1>1 DEF AbsState

\* Refusals and answers that deny a copy are invisible.
LEMMA SameCopies ==
    ASSUME \A d \in Deliveries : tenant'[d].copies = tenant[d].copies
    PROVE  Copies' = Copies
  BY DEF Copies

\* A delivery whose status changes alone moves alone.
LEMMA OneMoves ==
    ASSUME NEW d \in Deliveries, NEW from, NEW to,
           \A e \in Deliveries : e # d => row'[e] = row[e],
           StateOf(row[d].status) = from, StateOf(row'[d].status) = to, tenant' = tenant
    PROVE  Queue!Moves(d, from, to)
<1>1. AbsState[d] = from
  BY DEF AbsState
<1>2. AbsState' = [AbsState EXCEPT ![d] = to]
  BY DEF AbsState
<1>3. Copies' = Copies
  BY SameCopies
<1> QED
  BY <1>1, <1>2, <1>3 DEF Queue!Moves

\* An update ends its item, delivers it again later, or comes too late.
LEMMA WritesMove ==
    ASSUME IInv, NEW w \in Workers, At(w, "record"), Writes(w), tenant' = tenant
    PROVE  [Queue!Next]_absVars
<1> DEFINE d == Item(w)
<1>1. /\ d \in Deliveries /\ worker[w].out \in Outcomes
      /\ worker[w].out = "delivered" => tenant[d].copies > 0
  BY DEF At, IInv, LocalsMatchPoint
<1>2. Copies' = Copies
  BY SameCopies
<1>3. CASE row' = row
  BY <1>2, <1>3, SameAbsState DEF absVars
<1>4. CASE row' # row
  <2>1. /\ OwnsClaim(w)
        /\ \A e \in Deliveries : e # d => row'[e] = row[e]
        /\ row'[d].status \in {"pending", "delivered", "failed"}
        /\ row'[d].status = "delivered" => worker[w].out = "delivered"
    BY <1>1, <1>4, WritesType DEF IInv
  <2>2. row[d].status = "processing"
    BY <2>1 DEF OwnsClaim
  <2>3. CASE row'[d].status = "pending"
    BY <1>2, <2>1, <2>2, <2>3, SameAbsState DEF absVars, Open
  <2>4. CASE row'[d].status = "delivered"
    <3>1. Queue!Moves(d, "open", "done")
      BY <1>1, <2>1, <2>2, <2>4, OneMoves DEF StateOf
    <3>2. Copies[d] > 0
      BY <1>1, <2>1, <2>4 DEF Copies
    <3> QED
      BY <1>1, <3>1, <3>2 DEF Queue!Next, Queue!Keeps, Queue!Finish
  <2>5. CASE row'[d].status = "failed"
    <3>1. Queue!Moves(d, "open", "dropped")
      BY <1>1, <2>1, <2>2, <2>5, OneMoves DEF StateOf
    <3> QED
      BY <1>1, <3>1 DEF Queue!Next, Queue!GiveUp
  <2> QED
    BY <2>1, <2>3, <2>4, <2>5
<1> QED
  BY <1>3, <1>4

\* A POST brings a copy, or none.
LEMMA PostsArrive ==
    ASSUME IInv, NEW w \in Workers, Item(w) \in Deliveries, worker[w].held[Item(w)] # NoToken,
           NEW accepted \in BOOLEAN, NEW refused \in BOOLEAN, Posts(w, accepted, refused), row' = row
    PROVE  [Queue!Next]_absVars
<1> DEFINE d == Item(w)
<1>1. /\ \A e \in Deliveries : e # d => tenant'[e] = tenant[e]
      /\ tenant'[d].copies = tenant[d].copies + (IF accepted THEN 1 ELSE 0)
      /\ tenant[d].copies \in Nat
  BY PostsType, Types DEF IInv, Tally
<1>2. AbsState' = AbsState
  BY SameAbsState
<1>3. CASE accepted
  <2>1. row[d].status # "absent" /\ row[d].status \in Statuses
    BY Types DEF IInv, LocalsMatchPoint, Row
  <2>2. AbsState[d] # "absent"
    BY <2>1 DEF AbsState, StateOf, Statuses, Settled
  <2>3. Copies' = [Copies EXCEPT ![d] = Copies[d] + 1]
    BY <1>1, <1>3 DEF Copies
  <2> QED
    BY <1>2, <2>2, <2>3 DEF Queue!Next, Queue!Keeps, Queue!Arrive
<1>4. CASE ~accepted
  <2>1. \A e \in Deliveries : tenant'[e].copies = tenant[e].copies
    BY <1>1, <1>4
  <2> QED
    BY <1>2, <2>1, SameCopies DEF absVars
<1> QED
  BY <1>3, <1>4

\* A deleted webhook takes its deliveries out of the queue.
LEMMA DeletionRemoves ==
    ASSUME NEW h \in Hooks, DeleteWebhook(h) PROVE Queue!Next
<1> DEFINE S == {d \in Deliveries : HookOf[d] = h}
<1>1. /\ \A d \in S : row'[d].status = "gone"
      /\ \A d \in Deliveries : d \notin S => row'[d] = row[d]
  BY GoneType DEF DeleteWebhook
<1>2. AbsState' = [d \in Deliveries |-> IF d \in S THEN "removed" ELSE AbsState[d]]
  <2>1. StateOf("gone") = "removed"
    BY DEF StateOf
  <2>2. \A d \in Deliveries : StateOf(row'[d].status)
                               = IF d \in S THEN "removed" ELSE StateOf(row[d].status)
    BY <1>1, <2>1
  <2> QED
    BY <2>2 DEF AbsState
<1>3. Copies' = Copies
  BY SameCopies DEF DeleteWebhook
<1> QED
  BY <1>2, <1>3 DEF Queue!Next, Queue!Remove

\* Each step of the workers is one of the queue, or invisible.
LEMMA QueueStep == IInv /\ [Next]_vars => [Queue!Next]_absVars
<1> SUFFICES ASSUME IInv, [Next]_vars PROVE [Queue!Next]_absVars
  OBVIOUS
<1>0. row \in [Deliveries -> Row]
  BY Types DEF IInv
<1>a. ASSUME row' = row, tenant' = tenant PROVE [Queue!Next]_absVars
  BY <1>a, SameAbsState, SameCopies DEF absVars
<1>1. ASSUME NEW w \in Workers, Recover(w) PROVE [Queue!Next]_absVars
  <2>1. \A d \in Deliveries : Free(d, "pending").status = "pending"
    BY FreeType DEF IInv, Statuses
  <2>2. \A d \in Deliveries : \/ row'[d].status = row[d].status
                              \/ row'[d].status \in Open /\ row[d].status \in Open
    BY <1>1, <2>1 DEF Recover, StaleClaims, Open
  <2> QED
    BY <1>1, <2>2, SameAbsState, SameCopies DEF Recover, absVars
<1>2. ASSUME NEW w \in Workers, Claim(w) PROVE [Queue!Next]_absVars
  <2>1. PICK tok \in [Batch -> Tokens] : ClaimsBatch(w, tok)
    BY <1>2, ClaimWithTokens
  <2>2. \A d \in Batch : row'[d].status = "processing" /\ row[d].status = "pending"
    BY <1>2, <2>1, ClaimType DEF Claim, IInv, Batch, Claimable
  <2>3. \A d \in Deliveries : d \notin Batch => row'[d] = row[d]
    BY <2>1 DEF ClaimsBatch
  <2> QED
    BY <1>2, <2>2, <2>3, SameAbsState, SameCopies DEF Claim, Open, absVars
<1>3. ASSUME NEW w \in Workers, HookUnusable(w) \/ BadDestination(w) PROVE [Queue!Next]_absVars
  <2>1. Item(w) \in Deliveries
    BY <1>3 DEF HookUnusable, BadDestination, MayPost, At, IInv, LocalsMatchPoint
  <2>2. \A d \in Deliveries : tenant'[d].copies = tenant[d].copies
    BY <1>3, <2>1, RefuseType DEF HookUnusable, BadDestination, IInv
  <2> QED
    BY <1>3, <2>2, SameAbsState, SameCopies DEF HookUnusable, BadDestination, absVars
<1>4. ASSUME NEW w \in Workers, PostAccepted(w) \/ PostRejected(w) \/ PostDeferred(w) \/ PostUnclear(w)
      PROVE  [Queue!Next]_absVars
  <2>1. Item(w) \in Deliveries /\ worker[w].held[Item(w)] # NoToken
    BY <1>4 DEF PostAccepted, PostRejected, PostDeferred, PostUnclear, MayPost, At, IInv, LocalsMatchPoint
  <2> QED
    BY <1>4, <2>1, PostsArrive DEF PostAccepted, PostRejected, PostDeferred, PostUnclear
<1>5. ASSUME NEW w \in Workers, Record(w) PROVE [Queue!Next]_absVars
  BY <1>5, WritesMove DEF Record
<1>6. ASSUME NEW w \in Workers, RecordRaises(w) PROVE [Queue!Next]_absVars
  BY <1>a, <1>6, WritesMove DEF RecordRaises
<1>7. ASSUME NEW d \in Deliveries, Create(d) PROVE [Queue!Next]_absVars
  <2>1. /\ \A e \in Deliveries : e # d => row'[e] = row[e]
        /\ row'[d].status = "pending" /\ row[d].status = "absent" /\ tenant' = tenant
    BY <1>0, <1>7, NewType DEF Create
  <2>2. Queue!Moves(d, "absent", "open")
    BY <2>1, OneMoves DEF StateOf
  <2> QED
    BY <2>2 DEF Queue!Next, Queue!Keeps, Queue!Accept
<1>8. ASSUME NEW d \in Deliveries, BecomesDue(d) \/ ClaimGoesStale(d) PROVE [Queue!Next]_absVars
  <2>1. \A e \in Deliveries : row'[e].status = row[e].status
    BY <1>0, <1>8 DEF BecomesDue, ClaimGoesStale, Row
  <2> QED
    BY <1>8, <2>1, SameAbsState, SameCopies DEF BecomesDue, ClaimGoesStale, absVars
<1>9. ASSUME NEW h \in Hooks, DeleteWebhook(h) PROVE [Queue!Next]_absVars
  BY <1>9, DeletionRemoves
<1> QED
  BY <1>a, <1>1, <1>2, <1>3, <1>4, <1>5, <1>6, <1>7, <1>8, <1>9
     DEF Next, Step, Attempt, vars, ClaimNothing, SkipItem, LoadDelivery, HookUsable, HookVanishes,
         LoseBatch, UpdateWebhook

\* Before the first delivery the queue is empty.
LEMMA QueueInit == Init => Queue!Init
  BY AbsentType DEF Init, Queue!Init, AbsState, Copies, StateOf

\* The workers implement a queue that delivers at least once what it calls delivered,
\* and gives up, or loses to a deletion, the rest.
THEOREM WorkersDeliverAtLeastOnce == Spec => ImplementsAtLeastOnce
<1>1. IInv /\ [Next]_vars => [Queue!Next]_<<AbsState, Copies>>
  BY QueueStep DEF absVars
<1> QED
  BY <1>1, QueueInit, Invariance, PTL DEF Spec, ImplementsAtLeastOnce, Queue!Spec
===============================================================================
