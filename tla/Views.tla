--------------------------------- MODULE Views ---------------------------------
(***************************************************************************)
(* One tab that shows the pages of the log, the page of a request or the   *)
(* landing page with its simulator, one at a time, while requests of other *)
(* clients arrive and are decided.  A row of a table leads to the page of  *)
(* its request.                                                            *)
(***************************************************************************)
EXTENDS LogPages, StatusPages

VARIABLE clicked   \* the status the row showed that led to the detail page, or "none"

viewVars == <<count, status, logs, detail, sim, clicked>>

\* The tab shows one page; a page opened by its address comes from none of the others.
NothingOpen == IsOpen("closed") /\ ~detail.open /\ sim = NewSim

OpenRow ==
    /\ View = "table" \/ (IsOpen("overview") /\ View = "charts")
    /\ \E row \in Shown :
         /\ detail' = FetchDetail([ClosedDetail EXCEPT !.open = TRUE, !.request = row.id])
         /\ clicked' = row.status
    /\ logs' = Closed
    /\ UNCHANGED <<server, sim>>

\* A step of one page leaves the others alone.
InLog(step) == step /\ UNCHANGED <<detail, sim, clicked>>
InStatus(step) == step /\ UNCHANGED logs /\ clicked' = IF detail'.open THEN clicked ELSE "none"

ViewsInit == LogInit /\ detail = ClosedDetail /\ sim = NewSim /\ clicked = "none"

ViewsNext ==
    \/ OpenRow
    \/ InLog(NothingOpen /\ \E page \in LogNames : OpenLog(page))
    \/ InLog(LogUser)
    \/ InLog(LogCalls)
    \/ InStatus(IsOpen("closed") /\ ((\E r \in Requests : OpenDetail(r)) \/ RunSimulation))
    \/ InStatus(DetailUser \/ LeaveSim)
    \/ InStatus(DetailRuns)
    \/ InStatus(SimRuns)
    \/ ServerNext /\ UNCHANGED <<logs, detail, sim, clicked>>

\* What is sent is answered or fails, and timers fire; nobody must click, and the worker
\* need not decide anything.
ViewsSpec ==
    /\ ViewsInit /\ [][ViewsNext]_viewVars
    /\ WF_viewVars(InLog(LogCalls)) /\ WF_viewVars(InStatus(DetailRuns)) /\ WF_viewVars(InStatus(SimRuns))

-------------------------------------------------------------------------------
(* Properties.                                                             *)

\* A row that shows how a request ended leads to a page that shows the same: no answer,
\* however late or torn, takes a request back to being undecided.
RowAndDetailAgree == detail.loaded /\ clicked \in Final => detail.shown.status = clicked
===============================================================================
