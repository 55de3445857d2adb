--------------------------- MODULE StatusPagesProofs ---------------------------
(***************************************************************************)
(* Theorems about the detail page and the simulator, for any number of     *)
(* requests and of polls.                                                  *)
(***************************************************************************)
EXTENDS StatusPages, TLAPS

\* What a query has read of request r, status first, is still true.
QueryHolds(q, r) ==
    /\ q.stage \in {"read", "served"} /\ q.answer.status \in Final => q.answer.status = status[r]
    /\ q.stage = "served" /\ q.answer.status \in Final => q.answer.verdict = VerdictOf(r)
    /\ q.answer.verdict = "flagged" => q.stage = "served" /\ status[r] = "flagged"

DetailHolds ==
    /\ detail.open => detail.request \in Requests
    /\ detail.timer \/ detail.error \/ detail.loaded \/ detail.query # NoQuery => detail.open
    /\ QueryHolds(detail.query, detail.request)
    /\ FinalIsComplete
    /\ detail.loaded /\ detail.shown.verdict = "flagged" => status[detail.request] = "flagged"

\* An outcome of the API's that says "Approved" is of a request decided otherwise than
\* flagged, or came when the polls had run out.
OutcomeHolds ==
    sim.at = "idle" /\ sim.result.from = "api" /\ ~sim.result.flagged
        => \/ sim.result.attempts = MaxAttempts
           \/ sim.request \in Requests /\ status[sim.request] \in Final \ {"flagged"}

SimHolds ==
    /\ sim.at \in {"created", "get", "pause"} => sim.request \in Requests
    /\ sim.at = "pause" => sim.attempts < MaxAttempts
    /\ sim.query # NoQuery => sim.at = "get"
    /\ QueryHolds(sim.query, sim.request)
    /\ OutcomeHolds

\* The types need what is known of the requests asked about, and of the attempts left.
StatusInv == StatusTypeOK /\ DetailHolds /\ SimHolds

-------------------------------------------------------------------------------
(* The server: what is final stays.                                        *)

Settled == \A r \in Requests : status[r] \in Final => status'[r] = status[r]

LEMMA ServerStep ==
    ASSUME ServerTypeOK, ServerNext \/ UNCHANGED server
    PROVE  ServerTypeOK' /\ Settled
<1> USE DEF ServerTypeOK, Requests, Unfinished, Final, Settled
<1>1. CASE Submit
  BY <1>1, LogAssumption DEF Submit
<1>2. ASSUME NEW r \in Requests, Decide(r) PROVE ServerTypeOK' /\ Settled
  <2>1. PICK s \in Unfinished \cup Final : status' = [status EXCEPT ![r] = s]
    BY <1>2, LogAssumption DEF Decide
  <2>2. status[r] \in Unfinished /\ count' = count
    BY <1>2 DEF Decide
  <2> QED
    BY <2>1, <2>2
<1>3. CASE UNCHANGED server
  BY <1>3 DEF server
<1> QED
  BY <1>1, <1>2, <1>3 DEF ServerNext

\* What was read stays true while nothing but the server moves.
LEMMA QueryStays ==
    ASSUME Settled, NEW q \in Query, NEW r, q # NoQuery => r \in Requests, QueryHolds(q, r)
    PROVE  QueryHolds(q, r)'
<1>1. CASE q = NoQuery
  BY <1>1 DEF QueryHolds, NoQuery, NoAnswer
<1>2. CASE r \in Requests
  BY <1>2 DEF Settled, QueryHolds, VerdictOf, Final
<1> QED
  BY <1>1, <1>2

\* The API's two statements.
LEMMA Advances ==
    ASSUME ServerTypeOK, NEW q \in Query, NEW r \in Requests, QueryHolds(q, r), AtApi(q)
    PROVE  Advanced(q, r) \in Query /\ QueryHolds(Advanced(q, r), r) /\ Advanced(q, r) # NoQuery
<1> USE DEF Query, Answer, Verdicts
<1>1. status[r] \in Unfinished \cup Final /\ VerdictOf(r) \in Verdicts
  BY DEF ServerTypeOK, VerdictOf
<1>2. CASE q.stage = "sent"
  <2>1. Advanced(q, r) = [q EXCEPT !.stage = "read", !.answer.status = status[r]]
    BY <1>2 DEF Advanced
  <2>2. Advanced(q, r) \in Query
    BY <1>1, <2>1
  <2>3. /\ Advanced(q, r).stage = "read" /\ Advanced(q, r).answer.status = status[r]
        /\ Advanced(q, r).answer.verdict = q.answer.verdict
    BY <2>1
  <2> QED
    BY <1>2, <2>2, <2>3 DEF QueryHolds, NoQuery
<1>3. CASE q.stage = "read"
  <2>1. Advanced(q, r) = [q EXCEPT !.stage = "served", !.answer.verdict = VerdictOf(r)]
    BY <1>3 DEF Advanced
  <2>2. Advanced(q, r) \in Query
    BY <1>1, <2>1
  <2>3. /\ Advanced(q, r).stage = "served" /\ Advanced(q, r).answer.status = q.answer.status
        /\ Advanced(q, r).answer.verdict = VerdictOf(r)
    BY <2>1
  <2>4. VerdictOf(r) = "flagged" => status[r] = "flagged"
    BY DEF VerdictOf
  <2> QED
    BY <1>3, <2>2, <2>3, <2>4 DEF QueryHolds, NoQuery
<1> QED
  BY <1>2, <1>3 DEF AtApi

LEMMA NewQueryHolds ==
    ASSUME NEW r
    PROVE  /\ NewQuery \in Query /\ QueryHolds(NewQuery, r)
           /\ NoQuery \in Query /\ QueryHolds(NoQuery, r)
           /\ NoAnswer \in Answer
BY DEF NewQuery, NoQuery, NoAnswer, Query, Answer, Verdicts, Unfinished, QueryHolds

-------------------------------------------------------------------------------
(* The detail page.                                                        *)

\* What a page asks when it fetches, or polls.
LEMMA Fetches ==
    ASSUME NEW d \in DetailState
    PROVE  FetchDetail(d) \in DetailState
<1>1. NewQuery \in Query
  BY NewQueryHolds
<1> QED
  BY <1>1, Zenon DEF FetchDetail, DetailState

LEMMA ClosedHolds == ClosedDetail \in DetailState
<1>1. NoRequest \in Requests \cup {NoRequest} /\ NoAnswer \in Answer /\ NoQuery \in Query
  BY NewQueryHolds
<1> QED
  BY <1>1, Zenon DEF ClosedDetail, DetailState

LEMMA DetailUserStep ==
    ASSUME StatusInv, (\E r \in Requests : OpenDetail(r)) \/ RetryDetail \/ CloseDetail
    PROVE  detail' \in DetailState /\ DetailHolds'
<1> USE DEF StatusInv, StatusTypeOK
<1>1. status' = status
  BY DEF OpenDetail, RetryDetail, CloseDetail, server
<1>2. ASSUME NEW r \in Requests, OpenDetail(r) PROVE detail' \in DetailState /\ DetailHolds'
  <2> DEFINE d == [ClosedDetail EXCEPT !.open = TRUE, !.request = r]
  <2>1. d \in DetailState
    BY ClosedHolds, Zenon DEF DetailState
  <2>2. detail' = FetchDetail(d)
    BY <1>2 DEF OpenDetail
  <2>3. /\ detail'.open /\ detail'.request = r /\ detail'.query = NewQuery
        /\ ~detail'.loaded
    BY <2>2 DEF FetchDetail, ClosedDetail
  <2> QED
    BY <1>1, <2>1, <2>2, <2>3, Fetches
       DEF DetailHolds, FinalIsComplete, QueryHolds, NewQuery, NoQuery, NoAnswer
<1>3. CASE RetryDetail
  <2>1. detail' = FetchDetail(detail) /\ detail.error
    BY <1>3 DEF RetryDetail, DetailView
  <2>2. detail.open
    BY <2>1 DEF DetailHolds
  <2>3. /\ detail'.open /\ detail'.request = detail.request /\ detail'.query = NewQuery
        /\ detail'.loaded = detail.loaded /\ detail'.shown = detail.shown
    BY <2>1, <2>2 DEF FetchDetail, DetailState
  <2> QED
    BY <1>1, <2>1, <2>3, Fetches, NewQueryHolds
       DEF DetailHolds, FinalIsComplete, QueryHolds, VerdictOf
<1>4. CASE CloseDetail
  <2>1. detail' = ClosedDetail
    BY <1>4 DEF CloseDetail
  <2>2. /\ ~detail'.open /\ ~detail'.timer /\ ~detail'.error /\ ~detail'.loaded
        /\ detail'.query = NoQuery
    BY <2>1 DEF ClosedDetail
  <2> QED
    BY <2>1, <2>2, ClosedHolds, NewQueryHolds DEF DetailHolds, FinalIsComplete, QueryHolds, NoQuery,
                                                  NoAnswer
<1> QED
  BY <1>2, <1>3, <1>4

LEMMA DetailRunStep ==
    ASSUME StatusInv, DetailRuns
    PROVE  detail' \in DetailState /\ DetailHolds'
<1> USE DEF StatusInv, StatusTypeOK
<1>1. status' = status
  BY DEF DetailRuns, AnswerDetail, TakeDetail, PollDetail, DetailFails, DetailDenied, CloseDetail,
         server
<1>2. detail.query \in Query /\ NoQuery.stage = "idle"
  BY DEF DetailState, NoQuery
<1>3. CASE AnswerDetail
  <2>1. AtApi(detail.query) /\ detail' = [detail EXCEPT !.query = Advanced(@, detail.request)]
    BY <1>3 DEF AnswerDetail
  <2>2. detail.open /\ detail.request \in Requests
    BY <1>2, <2>1 DEF DetailHolds, AtApi
  <2> DEFINE q == Advanced(detail.query, detail.request)
  <2>3. q \in Query /\ QueryHolds(q, detail.request) /\ q # NoQuery
    BY <1>2, <2>1, <2>2, Advances DEF DetailHolds
  <2> HIDE DEF q
  <2>4. detail' = [detail EXCEPT !.query = q]
    BY <2>1 DEF q
  <2>5. /\ detail'.open /\ detail'.request = detail.request /\ detail'.query = q
        /\ detail'.loaded = detail.loaded /\ detail'.shown = detail.shown
    BY <2>2, <2>4 DEF DetailState
  <2>6. detail' \in DetailState
    BY <2>3, <2>4, Zenon DEF DetailState
  <2> QED
    BY <1>1, <2>2, <2>3, <2>5, <2>6 DEF DetailHolds, FinalIsComplete, QueryHolds, VerdictOf
<1>4. CASE TakeDetail
  <2> DEFINE again == detail.query.answer.status \notin Final
  <2>1. /\ detail.query.stage = "served"
        /\ detail' = [detail EXCEPT !.shown = detail.query.answer, !.loaded = TRUE,
                                    !.loading = FALSE, !.query = NoQuery, !.timer = again]
    BY <1>4 DEF TakeDetail
  <2>2. detail.open /\ detail.request \in Requests
    BY <1>2, <2>1 DEF DetailHolds
  <2>3. detail.query.answer \in Answer /\ again \in BOOLEAN
    BY <1>2 DEF Query
  <2> HIDE DEF again
  <2>4. detail' \in DetailState
    BY <2>1, <2>3, NewQueryHolds, Zenon DEF DetailState
  <2>5. /\ detail'.open /\ detail'.request = detail.request /\ detail'.query = NoQuery
        /\ detail'.loaded /\ detail'.shown = detail.query.answer
    BY <2>1, <2>2 DEF DetailState
  <2> QED
    BY <1>1, <2>1, <2>2, <2>4, <2>5
       DEF DetailHolds, FinalIsComplete, QueryHolds, VerdictOf, NoQuery, NoAnswer
<1>5. CASE PollDetail
  <2>1. detail.timer /\ detail' = [detail EXCEPT !.timer = FALSE, !.query = NewQuery]
    BY <1>5 DEF PollDetail
  <2>2. detail' \in DetailState
    BY <2>1, NewQueryHolds, Zenon DEF DetailState
  <2>3. /\ detail.open /\ detail'.open /\ detail'.request = detail.request /\ detail'.query = NewQuery
        /\ detail'.loaded = detail.loaded /\ detail'.shown = detail.shown
    BY <2>1 DEF DetailState, DetailHolds
  <2> QED
    BY <1>1, <2>2, <2>3 DEF DetailHolds, FinalIsComplete, QueryHolds, VerdictOf, NewQuery, NoQuery,
                             NoAnswer
<1>6. CASE DetailFails
  <2> DEFINE lost == detail.pollLost \/ ~detail.loading
  <2>1. /\ detail.query # NoQuery
        /\ detail' = [detail EXCEPT !.query = NoQuery, !.error = detail.loading, !.loading = FALSE,
                                    !.pollLost = lost]
    BY <1>6 DEF DetailFails
  <2>2. lost \in BOOLEAN /\ detail.loading \in BOOLEAN
    BY DEF DetailState
  <2> HIDE DEF lost
  <2>3. detail' \in DetailState
    BY <2>1, <2>2, NewQueryHolds, Zenon DEF DetailState
  <2>4. /\ detail.open /\ detail'.open /\ detail'.request = detail.request /\ detail'.query = NoQuery
        /\ detail'.loaded = detail.loaded /\ detail'.shown = detail.shown
    BY <2>1 DEF DetailState, DetailHolds
  <2> QED
    BY <1>1, <2>3, <2>4 DEF DetailHolds, FinalIsComplete, QueryHolds, VerdictOf, NoQuery, NoAnswer
<1>7. CASE DetailDenied
  BY <1>7, DetailUserStep DEF DetailDenied
<1> QED
  BY <1>3, <1>4, <1>5, <1>6, <1>7 DEF DetailRuns

-------------------------------------------------------------------------------
(* The simulator.                                                          *)

\* A query that nobody waits for, or that was just sent, says nothing yet.
LEMMA NothingRead ==
    ASSUME NEW q \in {NoQuery, NewQuery}, NEW r
    PROVE  QueryHolds(q, r) /\ QueryHolds(q, r)'
BY DEF QueryHolds, NewQuery, NoQuery, NoAnswer

LEMMA NewSimHolds == NewSim \in SimState
<1>1. /\ NoRequest \in Requests \cup {NoRequest} /\ NoQuery \in Query /\ 0 \in 0 .. MaxAttempts
      /\ "canned" \in {"canned", "api", "regex"} /\ FALSE \in BOOLEAN
  BY NewQueryHolds, StatusAssumption
<1>2. [from |-> "canned", flagged |-> FALSE, attempts |-> 0] \in Outcome
  BY <1>1, Zenon DEF Outcome
<1> QED
  BY <1>1, <1>2, Zenon DEF NewSim, SimState

\* Up to the first query.
LEMMA SimStarts ==
    ASSUME StatusInv, RunSimulation \/ SimCreated \/ SimAsks
    PROVE  sim' \in SimState /\ SimHolds'
<1> USE DEF StatusInv, StatusTypeOK
<1>1. sim \in SimState /\ NoQuery \in Query /\ NewQuery \in Query /\ 0 \in 0 .. MaxAttempts
  BY NewQueryHolds, StatusAssumption
<1>2. CASE RunSimulation
  <2>1. PICK toxic \in BOOLEAN :
          sim' = [sim EXCEPT !.at = "create", !.toxic = toxic, !.request = NoRequest, !.attempts = 0]
    BY <1>2 DEF RunSimulation
  <2>2. sim' \in SimState
    BY <1>1, <2>1, Zenon DEF SimState
  <2>3. sim.query = NoQuery
    BY <1>2 DEF RunSimulation, SimHolds
  <2>4. sim'.at = "create" /\ sim'.query = NoQuery
    BY <2>1, <2>3 DEF SimState
  <2> QED
    BY <2>2, <2>4, NothingRead DEF SimHolds, OutcomeHolds
<1>3. CASE SimCreated
  <2> DEFINE n == count + 1
  <2>1. sim.at = "create" /\ sim' = [sim EXCEPT !.at = "created", !.request = n]
    BY <1>3 DEF SimCreated
  <2>2. n \in Requests
    BY <1>3, LogAssumption DEF SimCreated, Requests, ServerTypeOK
  <2> HIDE DEF n
  <2>3. sim' \in SimState
    BY <1>1, <2>1, <2>2, Zenon DEF SimState
  <2>4. sim'.at = "created" /\ sim'.query = NoQuery /\ sim'.request = n
    BY <2>1 DEF SimState, SimHolds
  <2> QED
    BY <2>2, <2>3, <2>4, NothingRead DEF SimHolds, OutcomeHolds
<1>4. CASE SimAsks
  <2> DEFINE n == sim.attempts + (IF sim.at = "pause" THEN 1 ELSE 0)
  <2>1. /\ sim.at \in {"created", "pause"}
        /\ sim' = [sim EXCEPT !.at = "get", !.query = NewQuery, !.attempts = n]
    BY <1>4 DEF SimAsks
  <2>2. n \in 0 .. MaxAttempts
    BY <2>1, StatusAssumption DEF SimHolds, SimState
  <2> HIDE DEF n
  <2>3. sim' \in SimState
    BY <1>1, <2>1, <2>2, Zenon DEF SimState
  <2>4. sim'.at = "get" /\ sim'.query = NewQuery /\ sim'.request = sim.request
    BY <2>1 DEF SimState
  <2> QED
    BY <2>1, <2>3, <2>4, NothingRead DEF SimHolds, OutcomeHolds
<1> QED
  BY <1>2, <1>3, <1>4

\* From an answer to the outcome, and to a page that is left.
LEMMA SimEnds ==
    ASSUME StatusInv,
           AnswerSim \/ SimPauses \/ SimShows \/ SimFails \/ SimFallsBack \/ LeaveSim
    PROVE  sim' \in SimState /\ SimHolds'
<1> USE DEF StatusInv, StatusTypeOK
<1>1. status' = status
  BY DEF AnswerSim, SimPauses, SimShows, SimFails, SimFallsBack, LeaveSim, server
<1>2. /\ sim \in SimState /\ sim.query \in Query /\ sim.query.answer \in Answer
      /\ NoQuery \in Query /\ NoQuery.stage = "idle"
  BY NewQueryHolds DEF SimState, Query, NoQuery
<1>3. CASE AnswerSim
  <2> DEFINE q == Advanced(sim.query, sim.request)
  <2>1. AtApi(sim.query) /\ sim' = [sim EXCEPT !.query = q]
    BY <1>3 DEF AnswerSim
  <2>2. sim.at = "get" /\ sim.request \in Requests
    BY <1>2, <2>1 DEF SimHolds, AtApi
  <2>3. q \in Query /\ QueryHolds(q, sim.request)
    BY <1>2, <2>1, <2>2, Advances DEF SimHolds
  <2> HIDE DEF q
  <2>4. sim' \in SimState
    BY <1>2, <2>1, <2>3, Zenon DEF SimState
  <2>5. sim'.at = "get" /\ sim'.query = q /\ sim'.request = sim.request
    BY <2>1, <2>2 DEF SimState
  <2> QED
    BY <1>1, <2>2, <2>3, <2>4, <2>5 DEF SimHolds, OutcomeHolds, QueryHolds, VerdictOf
<1>4. ASSUME sim.query.stage = "served"
      PROVE  sim.at = "get" /\ sim.request \in Requests
  BY <1>2, <1>4 DEF SimHolds
<1>5. CASE SimPauses
  <2>1. sim' = [sim EXCEPT !.at = "pause", !.query = NoQuery] /\ sim.attempts < MaxAttempts
    BY <1>5 DEF SimPauses, GoesOn
  <2>2. sim' \in SimState
    BY <1>2, <2>1, Zenon DEF SimState
  <2>3. /\ sim'.at = "pause" /\ sim'.query = NoQuery /\ sim'.request = sim.request
        /\ sim'.attempts = sim.attempts
    BY <2>1 DEF SimState
  <2> QED
    BY <1>4, <1>5, <2>1, <2>2, <2>3, NothingRead DEF SimHolds, OutcomeHolds, SimPauses
<1>6. CASE SimShows
  <2> DEFINE answer == sim.query.answer
             flag == IF answer.verdict = "none" THEN answer.status = "flagged"
                     ELSE answer.verdict = "flagged"
             result == [from |-> "api", attempts |-> sim.attempts, flagged |-> flag]
  <2>1. /\ sim.query.stage = "served" /\ ~GoesOn
        /\ sim' = [sim EXCEPT !.at = "idle", !.query = NoQuery, !.result = result]
    BY <1>6 DEF SimShows
  <2>2. result \in Outcome
    <3>1. sim.attempts \in 0 .. MaxAttempts /\ flag \in BOOLEAN
      BY DEF SimState
    <3> HIDE DEF flag
    <3> QED
      BY <3>1, Zenon DEF Outcome
  <2>3. ~flag => \/ sim.attempts = MaxAttempts
                 \/ status[sim.request] \in Final \ {"flagged"}
    <3>1. CASE answer.status \in Final
      <4>1. answer.status = status[sim.request] /\ answer.verdict = VerdictOf(sim.request)
        BY <2>1, <3>1 DEF SimHolds, QueryHolds
      <4> QED
        BY <3>1, <4>1 DEF VerdictOf
    <3>2. CASE ~(sim.attempts < MaxAttempts)
      BY <3>2, StatusAssumption DEF SimState
    <3> QED
      BY <2>1, <3>1, <3>2 DEF GoesOn
  <2>4. result.flagged = flag /\ result.attempts = sim.attempts
    OBVIOUS
  <2> HIDE DEF result, flag
  <2>5. sim' \in SimState
    BY <1>2, <2>1, <2>2, Zenon DEF SimState
  <2>6. /\ sim'.at = "idle" /\ sim'.query = NoQuery /\ sim'.request = sim.request
        /\ sim'.result = result
    BY <2>1 DEF SimState
  <2> QED
    BY <1>1, <1>4, <2>1, <2>3, <2>4, <2>5, <2>6, NothingRead DEF SimHolds, OutcomeHolds
<1>7. CASE SimFails
  <2>1. sim' = [sim EXCEPT !.at = "fallback", !.query = NoQuery]
    BY <1>7 DEF SimFails
  <2>2. sim' \in SimState
    BY <1>2, <2>1, Zenon DEF SimState
  <2>3. sim'.at = "fallback" /\ sim'.query = NoQuery
    BY <2>1 DEF SimState
  <2> QED
    BY <2>2, <2>3, NothingRead DEF SimHolds, OutcomeHolds
<1>8. CASE SimFallsBack
  <2> DEFINE result == [from |-> "regex", flagged |-> sim.toxic, attempts |-> 0]
  <2>1. sim.at = "fallback" /\ sim' = [sim EXCEPT !.at = "idle", !.result = result]
    BY <1>8 DEF SimFallsBack
  <2>2. result \in Outcome /\ result.from = "regex"
    <3>1. sim.toxic \in BOOLEAN /\ 0 \in 0 .. MaxAttempts
      BY StatusAssumption DEF SimState
    <3> QED
      BY <3>1, Zenon DEF Outcome
  <2> HIDE DEF result
  <2>3. sim' \in SimState
    BY <1>2, <2>1, <2>2, Zenon DEF SimState
  <2>4. sim'.at = "idle" /\ sim'.query = NoQuery /\ sim'.result = result
    BY <2>1 DEF SimState, SimHolds
  <2> QED
    BY <2>2, <2>3, <2>4, NothingRead DEF SimHolds, OutcomeHolds
<1>9. CASE LeaveSim
  <2>1. sim' = NewSim
    BY <1>9 DEF LeaveSim
  <2>2. sim'.at = "idle" /\ sim'.query = NoQuery /\ sim'.result.from = "canned"
    BY <2>1 DEF NewSim
  <2> QED
    BY <2>1, <2>2, NewSimHolds, NothingRead DEF SimHolds, OutcomeHolds
<1> QED
  BY <1>3, <1>5, <1>6, <1>7, <1>8, <1>9

-------------------------------------------------------------------------------
(* Every step, and the theorems.                                           *)

\* The worker decides while the pages show, wait and ask.
LEMMA ServerKeeps ==
    ASSUME StatusInv, ServerNext \/ UNCHANGED server, UNCHANGED <<detail, sim>>
    PROVE  StatusInv'
<1> USE DEF StatusInv, StatusTypeOK
<1>1. ServerTypeOK' /\ Settled
  BY ServerStep
<1>2. /\ detail.query \in Query /\ sim.query \in Query
      /\ detail.query # NoQuery => detail.request \in Requests
      /\ sim.query # NoQuery => sim.request \in Requests
  BY DEF DetailState, SimState, DetailHolds, SimHolds
<1>3. QueryHolds(detail.query, detail.request)' /\ QueryHolds(sim.query, sim.request)'
  BY <1>1, <1>2, QueryStays DEF DetailHolds, SimHolds, QueryHolds
<1>4. DetailHolds'
  <2>1. detail.loaded => detail.request \in Requests
    BY DEF DetailHolds
  <2> QED
    BY <1>1, <1>3, <2>1 DEF DetailHolds, FinalIsComplete, Settled, VerdictOf, Final
<1>5. SimHolds'
  BY <1>1, <1>3 DEF SimHolds, OutcomeHolds, Settled
<1> QED
  BY <1>1, <1>4, <1>5

\* What the server does changes nothing for a page that does not move.
LEMMA OthersKeep ==
    ASSUME StatusInv, UNCHANGED server
    PROVE  /\ ServerTypeOK'
           /\ UNCHANGED detail => detail' \in DetailState /\ DetailHolds'
           /\ UNCHANGED sim => sim' \in SimState /\ SimHolds'
<1> USE DEF StatusInv, StatusTypeOK, server
<1>1. ServerTypeOK'
  BY DEF ServerTypeOK
<1>2. ASSUME UNCHANGED detail PROVE DetailHolds'
  BY <1>2 DEF DetailHolds, QueryHolds, FinalIsComplete, VerdictOf
<1>3. ASSUME UNCHANGED sim PROVE SimHolds'
  BY <1>3 DEF SimHolds, OutcomeHolds, QueryHolds, VerdictOf
<1> QED
  BY <1>1, <1>2, <1>3

LEMMA StatusStart == StatusInit => StatusInv
<1> SUFFICES ASSUME StatusInit PROVE StatusInv
  OBVIOUS
<1>1. ServerTypeOK
  BY LogAssumption DEF StatusInit, ServerInit, ServerTypeOK, Unfinished
<1>2. DetailHolds
  BY NothingRead DEF StatusInit, DetailHolds, FinalIsComplete, ClosedDetail
<1>3. SimHolds
  <2>1. sim.at = "idle" /\ sim.query = NoQuery /\ sim.result.from = "canned"
    BY DEF StatusInit, NewSim
  <2> QED
    BY <2>1, NothingRead DEF SimHolds, OutcomeHolds
<1> QED
  BY <1>1, <1>2, <1>3, ClosedHolds, NewSimHolds DEF StatusInv, StatusTypeOK, StatusInit

LEMMA StatusStep == StatusInv /\ [StatusNext]_statusVars => StatusInv'
<1> SUFFICES ASSUME StatusInv, [StatusNext]_statusVars PROVE StatusInv'
  OBVIOUS
<1>1. CASE (\E r \in Requests : OpenDetail(r)) \/ DetailUser \/ DetailRuns
  <2>1. UNCHANGED server /\ UNCHANGED sim
    BY <1>1 DEF OpenDetail, DetailUser, RetryDetail, CloseDetail, DetailRuns, AnswerDetail,
                TakeDetail, PollDetail, DetailFails, DetailDenied
  <2>2. detail' \in DetailState /\ DetailHolds'
    BY <1>1, DetailUserStep, DetailRunStep DEF DetailUser
  <2> QED
    BY <2>1, <2>2, OthersKeep DEF StatusInv, StatusTypeOK
<1>2. CASE RunSimulation \/ SimAsks \/ LeaveSim \/ AnswerSim \/ SimPauses \/ SimShows \/ SimFails
           \/ SimFallsBack
  <2>1. UNCHANGED server /\ UNCHANGED detail
    BY <1>2 DEF RunSimulation, SimAsks, LeaveSim, AnswerSim, SimPauses, SimShows, SimFails,
                SimFallsBack
  <2>2. sim' \in SimState /\ SimHolds'
    BY <1>2, SimStarts, SimEnds
  <2> QED
    BY <2>1, <2>2, OthersKeep DEF StatusInv, StatusTypeOK
<1>3. CASE SimCreated
  <2>1. sim' \in SimState /\ SimHolds'
    BY <1>3, SimStarts
  <2>2. Submit /\ UNCHANGED detail
    BY <1>3 DEF SimCreated, Submit
  <2>3. ServerTypeOK' /\ status' = status
    BY <2>2, ServerStep DEF StatusInv, StatusTypeOK, ServerNext, Submit
  <2>4. detail' \in DetailState /\ DetailHolds'
    BY <2>2, <2>3 DEF StatusInv, StatusTypeOK, DetailHolds, QueryHolds, FinalIsComplete, VerdictOf
  <2> QED
    BY <2>1, <2>3, <2>4 DEF StatusInv, StatusTypeOK
<1>4. CASE ServerNext /\ UNCHANGED <<detail, sim>>
  BY <1>4, ServerKeeps
<1>5. CASE UNCHANGED statusVars
  BY <1>5, ServerKeeps DEF statusVars, server
<1> QED
  BY <1>1, <1>2, <1>3, <1>4, <1>5 DEF StatusNext, SimRuns

\* Both pages keep their types: no request is asked about that was not submitted, and no
\* poll is counted beyond the last.
THEOREM StatusTypes == StatusSpec => []StatusTypeOK
<1>1. StatusInv => StatusTypeOK
  BY DEF StatusInv
<1> QED
  BY <1>1, StatusStart, StatusStep, PTL DEF StatusSpec

\* Whatever the worker commits between the API's two statements, a final status is shown
\* with its own verdict.
THEOREM FinalShownComplete == StatusSpec => []FinalIsComplete
<1>1. StatusInv => FinalIsComplete
  BY DEF StatusInv, DetailHolds
<1> QED
  BY <1>1, StatusStart, StatusStep, PTL DEF StatusSpec

\* "Flagged / Abusive" is read only of a request that is flagged.
THEOREM FlaggedShownIsTrue == StatusSpec => []FlaggedIsTrue
<1>1. StatusInv => FlaggedIsTrue
  <2> SUFFICES ASSUME StatusInv, DetailView = "request", Heading = "Flagged / Abusive"
               PROVE  status[detail.request] = "flagged"
    BY DEF FlaggedIsTrue
  <2>1. detail.loaded
    BY DEF DetailView
  <2>2. detail.shown.verdict = "flagged"
    BY DEF Heading
  <2> QED
    BY <2>1, <2>2 DEF StatusInv, DetailHolds
<1> QED
  BY <1>1, StatusStart, StatusStep, PTL DEF StatusSpec

\* The simulator calls a flagged text "Approved" only when its polls have run out, however
\* many it has.
THEOREM ApprovedShownIsHonest == StatusSpec => []ApprovedIsHonest
<1>1. StatusInv => ApprovedIsHonest
  BY DEF StatusInv, SimHolds, OutcomeHolds, ApprovedIsHonest
<1> QED
  BY <1>1, StatusStart, StatusStep, PTL DEF StatusSpec
===============================================================================
