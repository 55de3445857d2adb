------------------------------ MODULE WebhooksPage ------------------------------
(***************************************************************************)
(* The integrations page (app/dashboard/integrations/page.tsx): a table of *)
(* webhooks, loaded when it opens and again after every change, a form to  *)
(* add one, and the deliveries of the row selected.  Each handler sends    *)
(* one request and sets the state by whatever comes back; only adding is   *)
(* disabled while the page loads, so requests of several handlers may be   *)
(* in flight together and be answered in any order.                        *)
(*                                                                         *)
(* A webhook is named by the order of its creation.                        *)
(***************************************************************************)
EXTENDS Integers, Sequences

CONSTANTS
    MaxHooks,       \* bound on webhooks ever created
    MaxHookCalls    \* bound on requests in flight

ASSUME WebhooksAssumption == MaxHooks \in Nat /\ MaxHookCalls \in Nat

Hooks == 1 .. MaxHooks
NoHook == 0

VARIABLES
    made,      \* webhooks created so far
    enabled,   \* those the API has, and whether each is enabled
    hookPage   \* the page's state

hookVars == <<made, enabled, hookPage>>
hookServer == <<made, enabled>>

\* A request has a kind, "list", "create", "toggle", "delete" or "view" (of deliveries);
\* done: the API has performed it; on: what a toggle asks for; rows: the answer of a list.
NewCall(kind, id) == [kind |-> kind, done |-> FALSE, id |-> id, on |-> FALSE, rows |-> {}]

\* deliveries: the webhook whose deliveries are held; secret: the one whose secret is.
\* History: muddled, whether since a load was last sent alone requests overlapped, a
\* change failed or another client deleted one; mixed, whether since a view was last sent
\* alone requests overlapped or one failed.
NoHookPage == [open |-> FALSE, rows |-> {}, loading |-> FALSE, error |-> FALSE, secret |-> NoHook,
               selected |-> NoHook, deliveries |-> NoHook, viewing |-> FALSE, calls |-> <<>>,
               muddled |-> FALSE, mixed |-> FALSE]

HookRow == [id : Hooks, on : BOOLEAN]
HookCall == [kind : {"list", "create", "toggle", "delete", "view"}, done : BOOLEAN,
             id : Hooks \cup {NoHook}, on : BOOLEAN, rows : SUBSET HookRow]
HookPage == [open : BOOLEAN, rows : SUBSET HookRow, loading : BOOLEAN, error : BOOLEAN,
             secret : Hooks \cup {NoHook}, selected : Hooks \cup {NoHook},
             deliveries : Hooks \cup {NoHook}, viewing : BOOLEAN, calls : Seq(HookCall),
             muddled : BOOLEAN, mixed : BOOLEAN]

HookTypeOK ==
    /\ made \in 0 .. MaxHooks
    /\ DOMAIN enabled \subseteq 1 .. made /\ \A h \in DOMAIN enabled : enabled[h] \in BOOLEAN
    /\ hookPage \in HookPage

-------------------------------------------------------------------------------
(* Helpers.  A definition marked "slip" is no part of the model: it is a   *)
(* plausible bug in the definition below it, kept to show that some        *)
(* property would notice.                                                  *)

\* The page after sending a request.
Sending(page, call) ==
    LET alone == page.calls = <<>> IN
    [page EXCEPT !.calls = Append(@, call),
                 !.muddled = IF call.kind = "list" /\ alone THEN FALSE ELSE @ \/ ~alone,
                 !.mixed = IF call.kind = "view" /\ alone THEN FALSE ELSE @ \/ ~alone]

\* loadWebhooks, to its await.
LoadWebhooks(page) ==
    Sending([page EXCEPT !.loading = TRUE, !.error = FALSE], NewCall("list", NoHook))

WithoutCall(i) == [hookPage EXCEPT
    !.calls = SubSeq(@, 1, i - 1) \o SubSeq(@, i + 1, Len(@))]

HasRoom == Len(hookPage.calls) < MaxHookCalls
ServerRows == {[id |-> h, on |-> enabled[h]] : h \in DOMAIN enabled}

\* What can be seen of the webhooks: the rows, and under the one selected its deliveries.
IsListed(h) == \E row \in hookPage.rows : row.id = h
ShowsDeliveries == IsListed(hookPage.selected) /\ ~hookPage.viewing

-------------------------------------------------------------------------------
(* What can be clicked.                                                    *)

OpenHooks ==
    /\ ~hookPage.open
    /\ hookPage' = LoadWebhooks([NoHookPage EXCEPT !.open = TRUE])
    /\ UNCHANGED hookServer

CloseHooks == hookPage.open /\ hookPage' = NoHookPage /\ UNCHANGED hookServer

RefreshHooks ==
    /\ hookPage.open /\ HasRoom
    /\ hookPage' = LoadWebhooks(hookPage)
    /\ UNCHANGED hookServer

\* The button is dead while the page loads.
CreateWebhook ==
    /\ hookPage.open /\ HasRoom /\ ~hookPage.loading
    /\ hookPage' = Sending([hookPage EXCEPT !.loading = TRUE, !.error = FALSE, !.secret = NoHook],
                           NewCall("create", NoHook))
    /\ UNCHANGED hookServer

\* Asks for the opposite of what the row shows.
ToggleWebhook ==
    /\ hookPage.open /\ HasRoom
    /\ \E row \in hookPage.rows :
         hookPage' = Sending([hookPage EXCEPT !.error = FALSE],
                             [NewCall("toggle", row.id) EXCEPT !.on = ~row.on])
    /\ UNCHANGED hookServer

DeleteWebhook ==
    /\ hookPage.open /\ HasRoom
    /\ \E row \in hookPage.rows :
         hookPage' = Sending([hookPage EXCEPT !.error = FALSE], NewCall("delete", row.id))
    /\ UNCHANGED hookServer

\* Leaves the error that may be shown, and the deliveries held, as they are.
ViewSpinsNot ==   \* slip
    /\ hookPage.open /\ HasRoom
    /\ \E row \in hookPage.rows :
         hookPage' = Sending([hookPage EXCEPT !.selected = row.id], NewCall("view", row.id))
    /\ UNCHANGED hookServer
ViewDeliveries ==
    /\ hookPage.open /\ HasRoom
    /\ \E row \in hookPage.rows :
         hookPage' = Sending([hookPage EXCEPT !.selected = row.id, !.viewing = TRUE],
                             NewCall("view", row.id))
    /\ UNCHANGED hookServer

DismissSecret ==
    /\ hookPage.secret # NoHook
    /\ hookPage' = [hookPage EXCEPT !.secret = NoHook]
    /\ UNCHANGED hookServer

-------------------------------------------------------------------------------
(* What the API does.  A webhook it does not have it answers with 404.     *)

Performs(i, kind) ==
    i \in DOMAIN hookPage.calls /\ ~hookPage.calls[i].done /\ hookPage.calls[i].kind = kind

Known(i) == hookPage.calls[i].id \in DOMAIN enabled
Done(i) == hookPage' = [hookPage EXCEPT !.calls[i].done = TRUE]

ListAtApi(i) ==
    /\ Performs(i, "list")
    /\ hookPage' = [hookPage EXCEPT !.calls[i] = [@ EXCEPT !.done = TRUE, !.rows = ServerRows]]
    /\ UNCHANGED hookServer

CreateAtApi(i) ==
    /\ Performs(i, "create") /\ made < MaxHooks
    /\ made' = made + 1
    /\ enabled' = [h \in DOMAIN enabled \cup {made + 1} |-> h = made + 1 \/ enabled[h]]
    /\ hookPage' = [hookPage EXCEPT !.calls[i] = [@ EXCEPT !.done = TRUE, !.id = made + 1]]

ToggleAtApi(i) ==
    /\ Performs(i, "toggle") /\ Known(i)
    /\ enabled' = [enabled EXCEPT ![hookPage.calls[i].id] = hookPage.calls[i].on]
    /\ Done(i)
    /\ UNCHANGED made

DeleteAtApi(i) ==
    /\ Performs(i, "delete") /\ Known(i)
    /\ enabled' = [h \in DOMAIN enabled \ {hookPage.calls[i].id} |-> enabled[h]]
    /\ Done(i)
    /\ UNCHANGED made

ViewAtApi(i) ==
    /\ Performs(i, "view") /\ Known(i)
    /\ Done(i)
    /\ UNCHANGED hookServer

\* Another client of the tenant deletes one.
Elsewhere ==
    /\ hookPage.open
    /\ \E h \in DOMAIN enabled : enabled' = [g \in DOMAIN enabled \ {h} |-> enabled[g]]
    /\ UNCHANGED made
    /\ hookPage' = [hookPage EXCEPT !.muddled = TRUE]

-------------------------------------------------------------------------------
(* Answers.                                                                *)

Answered(i, kind) ==
    i \in DOMAIN hookPage.calls /\ hookPage.calls[i].done /\ hookPage.calls[i].kind = kind

ListOk(i) ==
    /\ Answered(i, "list")
    /\ hookPage' = [WithoutCall(i) EXCEPT !.rows = hookPage.calls[i].rows, !.loading = FALSE]
    /\ UNCHANGED hookServer

\* The secret is in the answer; the list is loaded again.
CreateOk(i) ==
    /\ Answered(i, "create")
    /\ hookPage' = LoadWebhooks([WithoutCall(i) EXCEPT !.secret = hookPage.calls[i].id])
    /\ UNCHANGED hookServer

ToggleOk(i) ==
    /\ Answered(i, "toggle")
    /\ hookPage' = LoadWebhooks(WithoutCall(i))
    /\ UNCHANGED hookServer

\* 204 has no body and request() parses one: the deletion is reported as an error, the
\* list not loaded again, the selection kept.
SwallowsError(i) ==   \* slip
    /\ Answered(i, "delete")
    /\ hookPage' = WithoutCall(i)
    /\ UNCHANGED hookServer
DeleteOk(i) ==
    /\ Answered(i, "delete")
    /\ hookPage' = [WithoutCall(i) EXCEPT !.error = TRUE]
    /\ UNCHANGED hookServer

ViewOk(i) ==
    /\ Answered(i, "view")
    /\ hookPage' = [WithoutCall(i) EXCEPT !.deliveries = hookPage.calls[i].id, !.viewing = FALSE]
    /\ UNCHANGED hookServer

\* finally: the spinner of the handler stops; a toggle and a deletion have none.
HookCallFails(i) ==
    /\ i \in DOMAIN hookPage.calls
    /\ LET kind == hookPage.calls[i].kind IN
       hookPage' = [WithoutCall(i) EXCEPT
           !.error = TRUE, !.muddled = @ \/ kind # "view", !.mixed = TRUE,
           !.loading = @ /\ kind \notin {"list", "create"}, !.viewing = @ /\ kind # "view"]
    /\ UNCHANGED hookServer

\* 401: request() loads the login page.
HookCallDenied == hookPage.calls # <<>> /\ CloseHooks

-------------------------------------------------------------------------------
HooksInit == made = 0 /\ enabled = <<>> /\ hookPage = NoHookPage

HooksUser ==
    \/ OpenHooks \/ CloseHooks \/ RefreshHooks \/ CreateWebhook \/ ToggleWebhook \/ DeleteWebhook
    \/ ViewDeliveries \/ DismissSecret

HooksApi == \E i \in 1 .. MaxHookCalls :
    ListAtApi(i) \/ CreateAtApi(i) \/ ToggleAtApi(i) \/ DeleteAtApi(i) \/ ViewAtApi(i)

HooksAnswers ==
    \/ \E i \in 1 .. MaxHookCalls :
         ListOk(i) \/ CreateOk(i) \/ ToggleOk(i) \/ DeleteOk(i) \/ ViewOk(i) \/ HookCallFails(i)
    \/ HookCallDenied

HooksNext == HooksUser \/ HooksApi \/ HooksAnswers \/ Elsewhere

HooksSpec == HooksInit /\ [][HooksNext]_hookVars

-------------------------------------------------------------------------------
(* Properties.                                                             *)

\* At rest and without an error the rows are the webhooks the API has, unless requests
\* overlapped, failed or another client wrote since they were loaded: every handler ends by
\* loading the list, or with the error that a deletion, even one that succeeded, leaves.
ListIsCurrent ==
    hookPage.open /\ hookPage.calls = <<>> /\ ~hookPage.error /\ ~hookPage.muddled
        => hookPage.rows = ServerRows

\* The deliveries shown under a row are that webhook's, unless requests overlapped or one
\* failed since its button was clicked: those of the row selected before stay in the state
\* until an answer replaces them.
DeliveriesAreItsOwn ==
    ShowsDeliveries /\ ~hookPage.mixed => hookPage.deliveries = hookPage.selected
===============================================================================
