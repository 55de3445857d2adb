------------------------------ MODULE StatusPages ------------------------------
(***************************************************************************)
(* The two pages that wait for one request to be decided: its detail page  *)
(* (app/dashboard/submissions/[requestId]/page.tsx), which polls every     *)
(* second, and the simulator of the landing page (app/page.tsx), which     *)
(* submits a text, polls a bounded number of times and, if anything fails, *)
(* makes a verdict up from the words of the text.                          *)
(*                                                                         *)
(* The API answers a status query with two statements, the request first   *)
(* and its result second: the worker's commit may come between them.       *)
(***************************************************************************)
EXTENDS ModerationLog

CONSTANT MaxAttempts    \* polls of the simulator after its first query

ASSUME StatusAssumption == MaxAttempts \in Nat

VARIABLES
    detail,   \* the detail page
    sim       \* the simulator

statusVars == <<count, status, detail, sim>>

\* Verdicts name what is_flagged says; "none" is null: no result was found.
Verdicts == {"none", "clean", "flagged"}
Answer == [status : Unfinished \cup Final, verdict : Verdicts]
NoAnswer == [status |-> "pending", verdict |-> "none"]

\* A status query: not sent, on its way, its status read, its result read too.
Query == [stage : {"idle", "sent", "read", "served"}, answer : Answer]
NoQuery == [stage |-> "idle", answer |-> NoAnswer]
NewQuery == [NoQuery EXCEPT !.stage = "sent"]

\* pollLost: the answer to a poll never came, or was an error.
DetailState == [open : BOOLEAN, request : Requests \cup {NoRequest}, loading : BOOLEAN,
                error : BOOLEAN, loaded : BOOLEAN, shown : Answer, query : Query,
                timer : BOOLEAN, pollLost : BOOLEAN]

\* canned: what the page shows before any simulation; regex: made up.
Outcome == [from : {"canned", "api", "regex"}, flagged : BOOLEAN, attempts : 0 .. MaxAttempts]
SimState == [at : {"idle", "create", "created", "get", "pause", "fallback"}, toxic : BOOLEAN,
             request : Requests \cup {NoRequest}, query : Query, attempts : 0 .. MaxAttempts,
             result : Outcome]

StatusTypeOK == ServerTypeOK /\ detail \in DetailState /\ sim \in SimState

-------------------------------------------------------------------------------
(* The status query.  A definition marked "slip" is no part of the model:  *)
(* it is a plausible bug in the definition below it, kept to show that     *)
(* some property would notice.                                             *)

\* The worker writes a result in the transaction that makes the request final.
VerdictOf(r) == CASE status[r] = "flagged" -> "flagged" [] status[r] = "approved" -> "clean"
                  [] OTHER -> "none"

ResultFirst(query, r) ==   \* slip
    CASE query.stage = "sent" -> [query EXCEPT !.stage = "read", !.answer.verdict = VerdictOf(r)]
      [] query.stage = "read" -> [query EXCEPT !.stage = "served", !.answer.status = status[r]]
Advanced(query, r) ==
    CASE query.stage = "sent" -> [query EXCEPT !.stage = "read", !.answer.status = status[r]]
      [] query.stage = "read" -> [query EXCEPT !.stage = "served", !.answer.verdict = VerdictOf(r)]
AtApi(query) == query.stage \in {"sent", "read"}

-------------------------------------------------------------------------------
(* The detail page.                                                        *)

ClosedDetail == [open |-> FALSE, request |-> NoRequest, loading |-> FALSE, error |-> FALSE,
                 loaded |-> FALSE, shown |-> NoAnswer, query |-> NoQuery, timer |-> FALSE,
                 pollLost |-> FALSE]

\* The landing page as it opens, and while it is not open: the tab shows one page.
NewSim == [at |-> "idle", toxic |-> FALSE, request |-> NoRequest, query |-> NoQuery, attempts |-> 0,
           result |-> [from |-> "canned", flagged |-> FALSE, attempts |-> 0]]

\* fetchDetail, to its await.
FetchDetail(page) == [page EXCEPT !.loading = TRUE, !.error = FALSE, !.query = NewQuery]

\* What the page shows: a spinner, an error, or the request.
DetailView == CASE detail.loading -> "loading" [] detail.error -> "error"
                [] detail.loaded -> "request" [] OTHER -> "nothing"

\* The heading knows two cases: no verdict yet, and none ever, read "Clean / Approved".
Heading == IF detail.shown.verdict = "flagged" THEN "Flagged / Abusive" ELSE "Clean / Approved"

OpenDetail(r) ==
    /\ ~detail.open /\ sim = NewSim /\ r \in Submitted
    /\ detail' = FetchDetail([ClosedDetail EXCEPT !.open = TRUE, !.request = r])
    /\ UNCHANGED <<server, sim>>

RetryDetail ==
    /\ DetailView = "error"
    /\ detail' = FetchDetail(detail)
    /\ UNCHANGED <<server, sim>>

CloseDetail == detail.open /\ detail' = ClosedDetail /\ UNCHANGED <<server, sim>>

AnswerDetail ==
    /\ AtApi(detail.query)
    /\ detail' = [detail EXCEPT !.query = Advanced(@, detail.request)]
    /\ UNCHANGED <<server, sim>>

\* setDetail; the effect that depends on it arms the timer unless the status is final.
ArmsOnce ==   \* slip
    /\ detail.query.stage = "served"
    /\ detail' = [detail EXCEPT !.shown = detail.query.answer, !.loaded = TRUE,
                                !.loading = FALSE, !.query = NoQuery,
                                !.timer = ~detail.loaded /\ detail.query.answer.status \notin Final]
    /\ UNCHANGED <<server, sim>>
TakeDetail ==
    /\ detail.query.stage = "served"
    /\ detail' = [detail EXCEPT !.shown = detail.query.answer, !.loaded = TRUE,
                                !.loading = FALSE, !.query = NoQuery,
                                !.timer = detail.query.answer.status \notin Final]
    /\ UNCHANGED <<server, sim>>

PollDetail ==
    /\ detail.timer
    /\ detail' = [detail EXCEPT !.timer = FALSE, !.query = NewQuery]
    /\ UNCHANGED <<server, sim>>

\* An error is shown for a fetch; for a poll it is swallowed, and no timer is set again.
DetailFails ==
    /\ detail.query # NoQuery
    /\ detail' = [detail EXCEPT !.query = NoQuery, !.error = detail.loading, !.loading = FALSE,
                                !.pollLost = @ \/ ~detail.loading]
    /\ UNCHANGED <<server, sim>>

\* 401: request() loads the login page.
DetailDenied == detail.query # NoQuery /\ CloseDetail

-------------------------------------------------------------------------------
(* The simulator.                                                          *)

\* The button is dead while a simulation runs.
RunSimulation ==
    /\ sim.at = "idle" /\ ~detail.open
    /\ \E toxic \in BOOLEAN :
         sim' = [sim EXCEPT !.at = "create", !.toxic = toxic, !.request = NoRequest, !.attempts = 0]
    /\ UNCHANGED <<server, detail>>

SimCreated ==
    /\ sim.at = "create" /\ count < NumRequests
    /\ count' = count + 1
    /\ sim' = [sim EXCEPT !.at = "created", !.request = count + 1]
    /\ UNCHANGED <<status, detail>>

\* The first query, and one after every pause.
SimAsks ==
    /\ sim.at \in {"created", "pause"}
    /\ sim' = [sim EXCEPT !.at = "get", !.query = NewQuery,
                          !.attempts = @ + (IF sim.at = "pause" THEN 1 ELSE 0)]
    /\ UNCHANGED <<server, detail>>

AnswerSim ==
    /\ AtApi(sim.query)
    /\ sim' = [sim EXCEPT !.query = Advanced(@, sim.request)]
    /\ UNCHANGED <<server, detail>>

\* The loop goes on while the status is not final and attempts are left.
OnlyWhilePending == sim.query.answer.status = "pending" /\ sim.attempts < MaxAttempts   \* slip
GoesOn == sim.query.answer.status \notin Final /\ sim.attempts < MaxAttempts

SimPauses ==
    /\ sim.query.stage = "served" /\ GoesOn
    /\ sim' = [sim EXCEPT !.at = "pause", !.query = NoQuery]
    /\ UNCHANGED <<server, detail>>

\* is_flagged ?? status = "flagged": null and not flagged are both "Approved".
SimShows ==
    /\ sim.query.stage = "served" /\ ~GoesOn
    /\ LET answer == sim.query.answer IN
       sim' = [sim EXCEPT !.at = "idle", !.query = NoQuery,
                 !.result = [from |-> "api", attempts |-> sim.attempts,
                             flagged |-> IF answer.verdict = "none" THEN answer.status = "flagged"
                                         ELSE answer.verdict = "flagged"]]
    /\ UNCHANGED <<server, detail>>

\* Any error, 401 apart, ends in the fallback.
SimFails ==
    /\ sim.at \in {"create", "created", "get"}
    /\ sim' = [sim EXCEPT !.at = "fallback", !.query = NoQuery]
    /\ UNCHANGED <<server, detail>>

SimFallsBack ==
    /\ sim.at = "fallback"
    /\ sim' = [sim EXCEPT !.at = "idle",
                          !.result = [from |-> "regex", flagged |-> sim.toxic, attempts |-> 0]]
    /\ UNCHANGED <<server, detail>>

-------------------------------------------------------------------------------
\* 401, or the visitor goes elsewhere: the page is gone, to be opened as new.
LeaveSim == sim # NewSim /\ sim' = NewSim /\ UNCHANGED <<server, detail>>

StatusInit == ServerInit /\ detail = ClosedDetail /\ sim = NewSim

DetailUser == RetryDetail \/ CloseDetail
DetailRuns == AnswerDetail \/ TakeDetail \/ PollDetail \/ DetailFails \/ DetailDenied
SimRuns == SimCreated \/ SimAsks \/ AnswerSim \/ SimPauses \/ SimShows \/ SimFails \/ SimFallsBack

StatusNext ==
    \/ \E r \in Requests : OpenDetail(r)
    \/ DetailUser \/ DetailRuns
    \/ RunSimulation \/ SimRuns \/ LeaveSim
    \/ ServerNext /\ UNCHANGED <<detail, sim>>

StatusSpec == StatusInit /\ [][StatusNext]_statusVars
                         /\ WF_statusVars(DetailRuns) /\ WF_statusVars(SimRuns)

-------------------------------------------------------------------------------
(* Properties.                                                             *)

\* A final status is shown with its verdict, and both are the server's: because the
\* status is read before the result (moderation.py:63 and :76), a commit between the two
\* gives an unfinished status with a verdict, never a final one without.
FinalIsComplete ==
    detail.loaded /\ detail.shown.status \in Final
        => /\ detail.shown.status = status[detail.request]
           /\ detail.shown.verdict = VerdictOf(detail.request)

\* Whoever reads "Flagged / Abusive" reads it of a flagged request, even if the status
\* beside it still says processing.
FlaggedIsTrue ==
    DetailView = "request" /\ Heading = "Flagged / Abusive" => status[detail.request] = "flagged"

\* A detail page left open shows the outcome once there is one, unless a poll was lost:
\* a failed poll is swallowed, and the timer is armed only by an answer.
PollingReachesVerdict ==
    (detail.loaded /\ status[detail.request] \in Final)
        ~> (detail.shown.status \in Final \/ detail.pollLost \/ ~detail.open)

\* The simulator calls a flagged text "Approved" only if its polls ran out first.
ApprovedIsHonest ==
    sim.at = "idle" /\ sim.result.from = "api" /\ ~sim.result.flagged
        => status[sim.request] # "flagged" \/ sim.result.attempts = MaxAttempts
===============================================================================
