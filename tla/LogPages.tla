------------------------------- MODULE LogPages -------------------------------
(***************************************************************************)
(* The pages that show the log: overview, analytics, submissions and queue *)
(* (app/dashboard/page.tsx and the pages beside it).  Each fetches when it *)
(* opens and when its range or page number changes, puts whatever arrives  *)
(* into its state, and decides by that state what can be seen and clicked. *)
(* No fetch is cancelled: answers may come in any order.                   *)
(*                                                                         *)
(* One action per handler, one per statement of the API that another       *)
(* request can come between.  The timer of 0 ms before a fetch is part of  *)
(* the action that starts it.                                              *)
(***************************************************************************)
EXTENDS ModerationLog, Sequences

CONSTANTS
    Ranges,      \* the days the date selector offers
    FirstParam,  \* per page: the range or page number it opens with
    SizeOf,      \* per page: rows it asks the log for
    Sought,      \* requests somebody searches for by their id
    MaxCalls     \* bound on fetches in flight

LogNames == {"overview", "analytics", "submissions", "queue"}

ASSUME LogPagesAssumption ==
    /\ Ranges \subseteq Nat /\ Sought \subseteq Requests /\ MaxCalls \in Nat
    /\ FirstParam \in [LogNames -> Nat \ {0}] /\ SizeOf \in [LogNames -> Nat]
    /\ FirstParam["submissions"] = 1 /\ SizeOf["submissions"] > 0

VARIABLE
    logs    \* the state of the page that is open

logVars == <<count, status, logs>>

\* What the page knows: the range or page number it asked for, the number of requests
\* and its rows.  Not known to it: torn, whether the log grew between count and rows.
NoData == [loaded |-> FALSE, param |-> 0, total |-> 0, items |-> {}, torn |-> FALSE]

\* mishaps: "overlap", a fetch sent while another is in flight; "crossed", its answer
\* taken before that of an older one; "torn", an answer that was.
Closed == [page |-> "closed", param |-> 0, loading |-> FALSE, error |-> FALSE, data |-> NoData,
           calls |-> <<>>, search |-> NoRequest, filter |-> "all", mishaps |-> {}]
IsOpen(page) == logs.page = page

Row == [id : Requests, status : Final \cup {"unfinished"}]
LogData == [loaded : BOOLEAN, param : Nat, total : Nat, items : SUBSET Row, torn : BOOLEAN]
LogCall == [stage : {"connecting", "sent", "counted", "served"}, data : LogData]
LogState == [page : LogNames \cup {"closed"}, param : Nat, loading : BOOLEAN, error : BOOLEAN,
             data : LogData, calls : Seq(LogCall), search : Sought \cup {NoRequest},
             filter : {"all"} \cup Outcomes, mishaps : SUBSET {"overlap", "crossed", "torn"}]

LogTypeOK == ServerTypeOK /\ logs \in LogState

-------------------------------------------------------------------------------
(* Helpers.  A definition marked "slip" is no part of the model: it is a   *)
(* plausible bug in the definition below it, kept to show that some        *)
(* property would notice.                                                  *)

\* The overview tests the connection before it asks for anything.
CallFor(page, param) ==
    [stage |-> IF page = "overview" THEN "connecting" ELSE "sent",
     data |-> [NoData EXCEPT !.param = param]]

\* fetchDashboardData, fetchAnalytics, fetchRequests, fetchFlagged, to their await.
FirstClosure(param) ==   \* slip
    [logs EXCEPT !.param = param, !.loading = TRUE, !.error = FALSE,
                 !.calls = Append(@, CallFor(logs.page, FirstParam[logs.page])),
                 !.mishaps = @ \cup {m \in {"overlap"} : logs.calls # <<>>}]
Fetching(param) ==
    [logs EXCEPT !.param = param, !.loading = TRUE, !.error = FALSE,
                 !.calls = Append(@, CallFor(logs.page, param)),
                 !.mishaps = @ \cup {m \in {"overlap"} : logs.calls # <<>>}]
Fetch(param) == Len(logs.calls) < MaxCalls /\ logs' = Fetching(param) /\ UNCHANGED server

Without(i) == SubSeq(logs.calls, 1, i - 1) \o SubSeq(logs.calls, i + 1, Len(logs.calls))
\* No page tells the two unfinished states apart.
Rows(ids) == {[id |-> r, status |-> IF status[r] \in Final THEN status[r] ELSE "unfinished"] : r \in ids}

-------------------------------------------------------------------------------
(* What can be seen.                                                       *)

\* The filters of the submissions, which look at the page that was fetched; the
\* queue keeps what is flagged.
Matches(row) ==
    CASE logs.page = "submissions" -> /\ logs.search \in {NoRequest, row.id}
                                      /\ logs.filter \in {"all", row.status}
      [] logs.page = "queue"       -> row.status = "flagged"
      [] OTHER                     -> TRUE
Shown == {row \in logs.data.items : Matches(row)}

TotalPages == IF logs.data.loaded
              THEN (logs.data.total + SizeOf["submissions"] - 1) \div SizeOf["submissions"] ELSE 1

\* Overview and analytics, once loaded, never show an error again.
OverviewView ==
    CASE logs.loading                       -> "loading"
      [] logs.error /\ ~logs.data.loaded    -> "error"
      [] logs.data.total = 0                -> "empty"
      [] OTHER                              -> "charts"
AnalyticsView ==
    CASE logs.loading                       -> "loading"
      [] logs.error /\ ~logs.data.loaded    -> "error"
      [] OTHER                              -> "charts"
TableView ==
    CASE logs.loading -> "loading" [] logs.error -> "error"
      [] Shown = {} -> "empty" [] OTHER -> "table"
QueueView == TableView

View == CASE IsOpen("overview")    -> OverviewView
          [] IsOpen("analytics")   -> AnalyticsView
          [] IsOpen("submissions") -> TableView
          [] IsOpen("queue")       -> QueueView
          [] OTHER                 -> "closed"

-------------------------------------------------------------------------------
(* What can be clicked.                                                    *)

OpenLog(page) ==
    /\ IsOpen("closed")
    /\ logs' = [Closed EXCEPT !.page = page, !.param = FirstParam[page], !.loading = TRUE,
                              !.calls = <<CallFor(page, FirstParam[page])>>]
    /\ UNCHANGED server

CloseLog == ~IsOpen("closed") /\ logs' = Closed /\ UNCHANGED server

\* The selector of the top bar is there while the page loads, not with an error.
SelectRange(days) ==
    /\ logs.page \in {"overview", "analytics"} /\ View # "error" /\ days # logs.param
    /\ Fetch(days)

Retry == View = "error" /\ Fetch(logs.param)

\* The button above the table is never disabled.
Refresh == IsOpen("submissions") /\ Fetch(logs.param)

NoBound ==   \* slip
    /\ IsOpen("submissions") /\ View = "table"
    /\ Fetch(logs.param + 1)
NextPage ==
    /\ IsOpen("submissions") /\ View = "table" /\ logs.param # TotalPages
    /\ Fetch(IF logs.param < TotalPages THEN logs.param + 1 ELSE TotalPages)

PreviousPage ==
    /\ IsOpen("submissions") /\ View = "table" /\ logs.param # 1
    /\ Fetch(IF logs.param > 1 THEN logs.param - 1 ELSE 1)

SetFilters ==
    /\ IsOpen("submissions")
    /\ \E r \in Sought \cup {NoRequest}, s \in {"all"} \cup Outcomes :
         logs' = [logs EXCEPT !.search = r, !.filter = s]
    /\ UNCHANGED server

ClearFilters ==
    /\ IsOpen("submissions") /\ (logs.search # NoRequest \/ logs.filter # "all")
    /\ logs' = [logs EXCEPT !.search = NoRequest, !.filter = "all"]
    /\ UNCHANGED server

-------------------------------------------------------------------------------
(* Fetches and their answers.                                              *)

InFlight(i, stage) == i \in DOMAIN logs.calls /\ logs.calls[i].stage = stage

Connected(i) ==
    /\ InFlight(i, "connecting")
    /\ logs' = [logs EXCEPT !.calls[i].stage = "sent"]
    /\ UNCHANGED server

\* The API counts the requests, then reads the rows: two statements (of one
\* endpoint for the log, of several for the overview).  Page 0 it rejects.
CountRows(i) ==
    /\ InFlight(i, "sent") /\ logs.calls[i].data.param > 0
    /\ logs' = [logs EXCEPT !.calls[i] = [@ EXCEPT !.stage = "counted", !.data.total = count]]
    /\ UNCHANGED server

\* The page number goes to the API for the submissions; the others take the newest.
PageNumber(i) == IF IsOpen("submissions") THEN logs.calls[i].data.param ELSE 1
ReadRows(i) ==
    /\ InFlight(i, "counted")
    /\ LET data == logs.calls[i].data
           answer == [data EXCEPT !.loaded = TRUE, !.torn = data.total # count,
                                  !.items = Rows(Page(PageNumber(i), SizeOf[logs.page]))] IN
       logs' = [logs EXCEPT !.calls[i] = [stage |-> "served", data |-> answer]]
    /\ UNCHANGED server

\* The answer is taken as it comes; finally, loading is over.
TakeAnswer(i) ==
    /\ InFlight(i, "served")
    /\ LET data == logs.calls[i].data IN
       logs' = [logs EXCEPT !.data = data, !.loading = FALSE, !.calls = Without(i),
                            !.mishaps = @ \cup {m \in {"crossed"} : i > 1}
                                          \cup {m \in {"torn"} : data.torn}]
    /\ UNCHANGED server

\* No answer, or an error: shown if the page shows errors.
NoFinally(i) ==   \* slip
    /\ i \in DOMAIN logs.calls
    /\ logs' = [logs EXCEPT !.error = TRUE, !.calls = Without(i)]
    /\ UNCHANGED server
FetchFails(i) ==
    /\ i \in DOMAIN logs.calls
    /\ logs' = [logs EXCEPT !.error = TRUE, !.loading = FALSE, !.calls = Without(i)]
    /\ UNCHANGED server

\* 401: request() loads the login page.
FetchDenied(i) ==
    /\ i \in DOMAIN logs.calls
    /\ logs' = Closed
    /\ UNCHANGED server

LogInit == ServerInit /\ logs = Closed

LogUser ==
    \/ CloseLog \/ Retry \/ Refresh \/ NextPage \/ PreviousPage \/ SetFilters \/ ClearFilters
    \/ \E days \in Ranges : SelectRange(days)

LogCalls == \E i \in 1 .. MaxCalls :
    Connected(i) \/ CountRows(i) \/ ReadRows(i) \/ TakeAnswer(i) \/ FetchFails(i) \/ FetchDenied(i)

LogNext == (\E page \in LogNames : OpenLog(page)) \/ LogUser \/ LogCalls \/ (ServerNext /\ UNCHANGED logs)

LogSpec == LogInit /\ [][LogNext]_logVars /\ WF_logVars(LogCalls)

-------------------------------------------------------------------------------
(* Properties.                                                             *)

Untroubled(kinds) == logs.mishaps \cap kinds = {}

\* At rest and without a failure, the data shown is for the range or page number
\* selected, unless answers crossed: the last to come wins, whatever it answers.
ShownIsSelected ==
    logs.calls = <<>> /\ ~logs.error /\ logs.data.loaded /\ Untroubled({"crossed"})
        => logs.data.param = logs.param

\* A page that spins waits for something, and one that waits spins, as long as it
\* sends one fetch at a time: the first answer ends the spinner of all.
SpinnerMeansWaiting ==
    /\ logs.loading => logs.calls # <<>>
    /\ logs.calls # <<>> /\ Untroubled({"overlap"}) => logs.loading

\* The submissions stay on a page that exists, unless an answer was overtaken or torn
\* by a new request: a total of 0 beside a first row leads "next" to page 0.
PageInRange ==
    IsOpen("submissions") /\ Untroubled({"overlap", "torn"})
        => logs.param \in 1 .. (IF TotalPages > 1 THEN TotalPages ELSE 1)
===============================================================================
