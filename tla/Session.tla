------------------------------- MODULE Session --------------------------------
(***************************************************************************)
(* The dashboard's session (lib/api/client.ts, the login and signup pages, *)
(* components/layout).  All tabs of a browser share one API key and one    *)
(* tenant in localStorage.  Every request reads the key when it is sent    *)
(* and, refused, removes whatever key is stored when the refusal arrives.  *)
(* Logging in stores the key before it is verified and the tenant after.   *)
(*                                                                         *)
(* One action per handler up to its next await.  Handlers of one tab take  *)
(* turns; those of several tabs, and the API, interleave.                  *)
(***************************************************************************)
EXTENDS Naturals, FiniteSets

CONSTANTS
    Tabs,
    Keys,          \* API keys, issued or still to be issued
    NoKey,
    Tenants,       \* companies, each with its slug
    NoTenant,
    OwnerOf,       \* the tenant a key belongs to
    FirstKeys,     \* keys issued before the browser is opened
    MaxCalls       \* bound on requests a tab has in flight

ASSUME SessionAssumption ==
    /\ NoKey \notin Keys /\ NoTenant \notin Tenants
    /\ OwnerOf \in [Keys -> Tenants] /\ FirstKeys \subseteq Keys
    /\ MaxCalls \in Nat

VARIABLES
    key, tenant,   \* localStorage: moderashield_api_key and moderashield_tenant_*
    page,          \* per tab: the page it shows
    form,          \* per tab: how far a submitted login or signup has got
    calls,         \* per tab: other requests in flight, with the key they carry
    shown,         \* per tab: the tenant named in the sidebar
    moved,         \* per tab: another tab signed in since, or while, the sidebar looked
    registered,    \* tenants the API knows
    issued,        \* keys it has issued
    active,        \* keys it accepts
    mishaps        \* what went wrong so far: kinds of Mishaps

store == <<key, tenant>>
api == <<registered, issued, active>>
vars == <<key, tenant, page, form, calls, shown, moved, registered, issued, active, mishaps>>

Pages == {"login", "signup", "dashboard"}

\* "conn" is testConnection of the overview, which loads its figures next;
\* "load" is any single request, the badge of the top bar included.
Call == [kind : {"conn", "load"}, key : Keys \cup {NoKey}]

\* create and issue wait for the API; created and issued for its answer.
Points == {"idle", "verify", "create", "created", "issue", "issued"}
Form == [at : Points, key : Keys \cup {NoKey}, tenant : Tenants \cup {NoTenant}]
IdleForm == [at |-> "idle", key |-> NoKey, tenant |-> NoTenant]

\* overlap: two forms in flight at once.  closed: a form cut off by its tab.
\* lost: a signup request or its answer.  replaced: a key stored while requests
\* with another, or none, were in flight.
Mishaps == {"overlap", "closed", "lost", "replaced"}

TypeOK ==
    /\ key \in Keys \cup {NoKey} /\ tenant \in Tenants \cup {NoTenant}
    /\ page \in [Tabs -> Pages] /\ form \in [Tabs -> Form]
    /\ calls \in [Tabs -> SUBSET Call]
    /\ shown \in [Tabs -> Tenants \cup {NoTenant}] /\ moved \in [Tabs -> BOOLEAN]
    /\ registered \subseteq Tenants /\ issued \subseteq Keys /\ active \subseteq Keys
    /\ mishaps \subseteq Mishaps

-------------------------------------------------------------------------------
(* Helpers.  A definition marked "slip" is no part of the model: it is a   *)
(* plausible bug in the definition below it, kept to show that some        *)
(* property would notice.                                                  *)

At(t, point) == form[t].at = point
GoTo(t, point) == form' = [form EXCEPT ![t].at = point]
Verifying == \E u \in Tabs : At(u, "verify")
EndForm(t) == form' = [form EXCEPT ![t] = IdleForm]
Mishap(kind, happened) == mishaps' = mishaps \cup {m \in {kind} : happened}

\* setStoredApiKey, as far as other requests and tabs are concerned.
Stores(t, k) ==
    /\ key' = k
    /\ moved' = [u \in Tabs |-> moved[u] \/ (u # t /\ page[u] = "dashboard")]
Outdates(k) == \E u \in Tabs : \E c \in calls[u] : c.key # k

\* removeStoredApiKey.
RemoveStoredApiKey == key' = NoKey /\ tenant' = NoTenant

\* request() adds the key that is stored when it is called.
Sends(t, kind) == calls' = [calls EXCEPT ![t] = @ \cup {[kind |-> kind, key |-> key]}]

\* The tab loads another document: its handlers and requests are gone.
Reloads(t, to) ==
    /\ page' = [page EXCEPT ![t] = to]
    /\ calls' = [calls EXCEPT ![t] = {}]
    /\ shown' = [shown EXCEPT ![t] = NoTenant]
    /\ EndForm(t)
    /\ Mishap("closed", ~At(t, "idle"))

\* The router shows another page: what is in flight goes on.
Pushes(t, to) ==
    /\ page' = [page EXCEPT ![t] = to]
    /\ shown' = [shown EXCEPT ![t] = NoTenant]

\* What the two pages let a visitor do: a form is dead while it is in flight.
LoginForm(t) == page[t] = "login" /\ At(t, "idle")
SignupForm(t) == page[t] = "signup" /\ At(t, "idle")

-------------------------------------------------------------------------------
(* Logging in.                                                             *)

\* The form checks only the prefix; the key is stored "temporarily".
SubmitLogin(t, k) ==
    /\ LoginForm(t) /\ k \in issued
    /\ Stores(t, k)
    /\ form' = [form EXCEPT ![t] = [at |-> "verify", key |-> k, tenant |-> NoTenant]]
    /\ mishaps' = mishaps \cup {m \in {"overlap"} : \E u \in Tabs : ~At(u, "idle")}
                          \cup {m \in {"replaced"} : Outdates(k)}
    /\ UNCHANGED <<tenant, page, calls, shown, api>>

\* verify-tenant names the tenant of the key.
LoginOk(t) ==
    /\ At(t, "verify") /\ form[t].key \in active
    /\ tenant' = OwnerOf[form[t].key]
    /\ EndForm(t) /\ Pushes(t, "dashboard")
    /\ UNCHANGED <<key, calls, moved, api, mishaps>>

\* Refused: request() removes the key and loads the login page anew.
LoginDenied(t) ==
    /\ At(t, "verify") /\ form[t].key \notin active
    /\ RemoveStoredApiKey
    /\ page' = [page EXCEPT ![t] = "login"] /\ shown' = [shown EXCEPT ![t] = NoTenant]
    /\ calls' = [calls EXCEPT ![t] = {}] /\ EndForm(t)
    /\ UNCHANGED <<moved, api, mishaps>>

\* No answer, or an error of the API: the key is removed all the same.
KeepsUnverified(t) ==   \* slip
    /\ At(t, "verify")
    /\ EndForm(t)
    /\ UNCHANGED <<store, page, calls, shown, moved, api, mishaps>>
LoginFails(t) ==
    /\ At(t, "verify")
    /\ RemoveStoredApiKey
    /\ EndForm(t)
    /\ UNCHANGED <<page, calls, shown, moved, api, mishaps>>

-------------------------------------------------------------------------------
(* Signing up: a tenant, then its first key.                               *)

SubmitSignup(t, a) ==
    /\ SignupForm(t)
    /\ form' = [form EXCEPT ![t] = [at |-> "create", key |-> NoKey, tenant |-> a]]
    /\ Mishap("overlap", \E u \in Tabs : ~At(u, "idle"))
    /\ UNCHANGED <<store, page, calls, shown, moved, api>>

\* The API registers a slug once.
TenantCreated(t) ==
    /\ At(t, "create") /\ form[t].tenant \notin registered
    /\ registered' = registered \cup {form[t].tenant}
    /\ GoTo(t, "created")
    /\ UNCHANGED <<store, page, calls, shown, moved, issued, active, mishaps>>

SlugTaken(t) ==
    /\ At(t, "create") /\ form[t].tenant \in registered
    /\ EndForm(t)
    /\ UNCHANGED <<store, page, calls, shown, moved, api, mishaps>>

StopsThere(t) ==   \* slip
    /\ At(t, "created")
    /\ EndForm(t)
    /\ UNCHANGED <<store, page, calls, shown, moved, api, mishaps>>
RequestKey(t) ==
    /\ At(t, "created")
    /\ GoTo(t, "issue")
    /\ UNCHANGED <<store, page, calls, shown, moved, api, mishaps>>

KeyIssued(t) ==
    /\ At(t, "issue")
    /\ \E k \in Keys \ issued :
         /\ OwnerOf[k] = form[t].tenant
         /\ issued' = issued \cup {k} /\ active' = active \cup {k}
         /\ form' = [form EXCEPT ![t] = [at |-> "issued", key |-> k, tenant |-> @.tenant]]
    /\ UNCHANGED <<store, page, calls, shown, moved, registered, mishaps>>

SignupOk(t) ==
    /\ At(t, "issued")
    /\ Stores(t, form[t].key) /\ tenant' = form[t].tenant
    /\ EndForm(t) /\ Pushes(t, "dashboard")
    /\ Mishap("replaced", Outdates(form[t].key))
    /\ UNCHANGED <<calls, api>>

\* A request or its answer is lost, or the API fails.
SignupFails(t) ==
    /\ form[t].at \in {"create", "created", "issue", "issued"}
    /\ EndForm(t)
    /\ Mishap("lost", TRUE)
    /\ UNCHANGED <<store, page, calls, shown, moved, api>>

-------------------------------------------------------------------------------
(* Using the dashboard.                                                    *)

\* A link between the two forms, or the address of any page typed in.
OpenForm(t) ==
    /\ LoginForm(t) \/ SignupForm(t)
    /\ \E to \in {"login", "signup"} \ {page[t]} : Pushes(t, to)
    /\ UNCHANGED <<store, form, calls, moved, api, mishaps>>

Reload(t) ==
    /\ \E to \in {"login", "dashboard"} : Reloads(t, to)
    /\ UNCHANGED <<store, moved, api>>

\* The layout mounts, or its path changes: the sidebar turns a visitor without key
\* away and reads the tenant; the page that opens sends its requests.
Navigate(t) ==
    /\ page[t] = "dashboard" /\ key # NoKey /\ Cardinality(calls[t]) < MaxCalls
    /\ shown' = [shown EXCEPT ![t] = IF tenant = NoTenant THEN @ ELSE tenant]
    /\ moved' = [moved EXCEPT ![t] = Verifying]
    /\ \E kind \in {"conn", "load"} : Sends(t, kind)
    /\ UNCHANGED <<store, page, form, api, mishaps>>

TurnedAway(t) ==
    /\ page[t] = "dashboard" /\ key = NoKey
    /\ Pushes(t, "login")
    /\ UNCHANGED <<store, form, calls, moved, api, mishaps>>

\* A button or a timer of the page sends a request: nobody looks for a key first.
Request(t) ==
    /\ page[t] = "dashboard" /\ Cardinality(calls[t]) < MaxCalls
    /\ Sends(t, "load")
    /\ UNCHANGED <<store, page, form, shown, moved, api, mishaps>>

Logout(t) ==
    /\ page[t] = "dashboard"
    /\ RemoveStoredApiKey
    /\ Pushes(t, "login")
    /\ UNCHANGED <<form, calls, moved, api, mishaps>>

-------------------------------------------------------------------------------
(* Answers.                                                                *)

\* What the overview sends once it is connected, with the key stored by then.
Loads(c) == IF c.kind = "conn" THEN {[kind |-> "load", key |-> key]} ELSE {}

\* A request answered.  The overview goes on although its page may be gone.
CallOk(t, c) ==
    /\ c \in calls[t] /\ c.key \in active
    /\ calls' = [calls EXCEPT ![t] = (@ \ {c}) \cup Loads(c)]
    /\ UNCHANGED <<store, page, form, shown, moved, api, mishaps>>

\* No answer, or an error other than 401 and 403: the page reports it.
DropsKey(t, c) ==   \* slip
    /\ c \in calls[t]
    /\ calls' = [calls EXCEPT ![t] = @ \ {c}]
    /\ RemoveStoredApiKey
    /\ UNCHANGED <<page, form, shown, moved, api, mishaps>>
CallFails(t, c) ==
    /\ c \in calls[t]
    /\ calls' = [calls EXCEPT ![t] = @ \ {c}]
    /\ UNCHANGED <<store, page, form, shown, moved, api, mishaps>>

\* 401: the stored key goes, whichever it is by now, and so does the tab.
CallDenied(t, c) ==
    /\ c \in calls[t] /\ c.key \notin active
    /\ RemoveStoredApiKey
    /\ Reloads(t, "login")
    /\ UNCHANGED <<moved, api>>

\* A key is switched off in the database: no endpoint does it.
Deactivate(k) ==
    /\ k \in active
    /\ active' = active \ {k}
    /\ UNCHANGED <<store, page, form, calls, shown, moved, registered, issued, mishaps>>

-------------------------------------------------------------------------------
Init ==
    /\ key = NoKey /\ tenant = NoTenant
    /\ page = [t \in Tabs |-> "login"] /\ form = [t \in Tabs |-> IdleForm]
    /\ calls = [t \in Tabs |-> {}]
    /\ shown = [t \in Tabs |-> NoTenant] /\ moved = [t \in Tabs |-> FALSE]
    /\ registered = {OwnerOf[k] : k \in FirstKeys}
    /\ issued = FirstKeys /\ active = FirstKeys
    /\ mishaps = {}

FormStep(t) ==
    \/ LoginOk(t) \/ LoginDenied(t) \/ LoginFails(t)
    \/ TenantCreated(t) \/ SlugTaken(t) \/ RequestKey(t) \/ KeyIssued(t)
    \/ SignupOk(t) \/ SignupFails(t)

UserStep(t) ==
    \/ \E k \in Keys : SubmitLogin(t, k)
    \/ \E a \in Tenants : SubmitSignup(t, a)
    \/ OpenForm(t) \/ Reload(t) \/ Navigate(t) \/ TurnedAway(t) \/ Request(t) \/ Logout(t)

CallStep(t) == \E c \in calls[t] : CallOk(t, c) \/ CallFails(t, c) \/ CallDenied(t, c)

Next ==
    \/ \E t \in Tabs : FormStep(t) \/ UserStep(t) \/ CallStep(t)
    \/ \E k \in Keys : Deactivate(k)

Spec == Init /\ [][Next]_vars

-------------------------------------------------------------------------------
(* Properties.                                                             *)

Calm == "overlap" \notin mishaps /\ "closed" \notin mishaps

\* Once a login is over, the stored tenant is the one the stored key belongs to,
\* unless two forms overlapped or a tab closed on one: setStoredApiKey before
\* testConnection, setStoredTenant after it, are two writes any tab may come between.
TenantMatchesKey ==
    Calm /\ ~Verifying /\ key # NoKey => tenant = OwnerOf[key]

\* The sidebar names the tenant that the tab's requests are made for, unless another
\* tab signed in during or after its last navigation.
ShownIsActing == \A t \in Tabs :
    Calm /\ page[t] = "dashboard" /\ ~moved[t] /\ shown[t] # NoTenant /\ key # NoKey
        => shown[t] = OwnerOf[key]

\* A tenant without key is a signup that was cut off: the slug is taken, so trying
\* again cannot help ("Please try again", app/signup/page.tsx:66).
LockedOutByFaults == \A a \in registered :
    \/ \E k \in issued : OwnerOf[k] = a
    \/ \E t \in Tabs : form[t].at \in {"created", "issue"} /\ form[t].tenant = a
    \/ mishaps \cap {"closed", "lost"} # {}

\* A key the API accepts is removed only by logging out or by a login that failed or was
\* refused, unless it was stored while requests with another key, or none, were in
\* flight: their 401 removes whatever is stored then.
GoodKeyStays ==
    [][key' = NoKey /\ key \in active /\ "replaced" \notin mishaps
         => \E t \in Tabs : Logout(t) \/ LoginFails(t) \/ LoginDenied(t)]_vars
===============================================================================
