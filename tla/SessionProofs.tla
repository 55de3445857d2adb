----------------------------- MODULE SessionProofs -----------------------------
(***************************************************************************)
(* Theorems about the dashboard's session for any number of tabs, keys,    *)
(* tenants and requests in flight.                                         *)
(***************************************************************************)
EXTENDS Session, TLAPS

\* What a form in flight carries.
FormHolds(f) ==
    /\ f.at = "verify" => f.key \in Keys
    /\ f.at \in {"create", "created", "issue", "issued"} => f.tenant \in Tenants
    /\ f.at = "issued" => f.key \in Keys /\ OwnerOf[f.key] = f.tenant
FormsHold == \A t \in Tabs : FormHolds(form[t])

\* Types alone are not inductive: the tenant a signup registers comes from its form.
TypeInv == TypeOK /\ FormsHold

-------------------------------------------------------------------------------
(* Type correctness.                                                       *)

LEMMA InitType == Init => TypeInv
<1> SUFFICES ASSUME Init PROVE TypeInv
  OBVIOUS
<1>1. registered \subseteq Tenants
  BY SessionAssumption DEF Init
<1>2. IdleForm \in Form /\ FormHolds(IdleForm)
  BY DEF IdleForm, Form, Points, FormHolds
<1> QED
  BY <1>1, <1>2, SessionAssumption DEF Init, TypeInv, FormsHold, TypeOK, Pages

\* One form replaced by another that holds what it should.
LEMMA NewForm ==
    ASSUME TypeInv, NEW t \in Tabs, NEW f \in Form, FormHolds(f),
           form' = [form EXCEPT ![t] = f]
    PROVE  form' \in [Tabs -> Form] /\ FormsHold'
BY DEF TypeInv, TypeOK, FormsHold, FormHolds

LEMMA FormEnds ==
    ASSUME TypeInv, NEW t \in Tabs, EndForm(t)
    PROVE  form' \in [Tabs -> Form] /\ FormsHold'
<1>1. IdleForm \in Form /\ FormHolds(IdleForm)
  BY DEF IdleForm, Form, Points, FormHolds
<1> QED
  BY <1>1, NewForm DEF EndForm

LEMMA FormStays ==
    ASSUME TypeInv, UNCHANGED form
    PROVE  form' \in [Tabs -> Form] /\ FormsHold'
BY DEF TypeInv, TypeOK, FormsHold, FormHolds

\* A request added to a tab's.
LEMMA SendsType ==
    ASSUME TypeOK, NEW t \in Tabs, NEW kind \in {"conn", "load"}, Sends(t, kind)
    PROVE  calls' \in [Tabs -> SUBSET Call]
<1>1. [kind |-> kind, key |-> key] \in Call
  BY DEF TypeOK, Call
<1> QED
  BY <1>1 DEF Sends, TypeOK

\* A login, from its submission to its end.
LEMMA LoginType ==
    ASSUME TypeInv, NEW t \in Tabs,
           \/ \E k \in Keys : SubmitLogin(t, k)
           \/ LoginOk(t) \/ LoginDenied(t) \/ LoginFails(t)
    PROVE  TypeInv'
<1> USE DEF TypeOK, Pages, Mishaps, At, Pushes, store, api
<1>1. ASSUME NEW k \in Keys, SubmitLogin(t, k) PROVE TypeInv'
  <2> DEFINE f == [at |-> "verify", key |-> k, tenant |-> NoTenant]
  <2>1. f \in Form /\ FormHolds(f)
    BY DEF TypeInv, Form, FormHolds, Points
  <2>2. form' = [form EXCEPT ![t] = f]
    BY <1>1 DEF SubmitLogin, TypeInv, Form
  <2>3. form' \in [Tabs -> Form] /\ FormsHold'
    BY <2>1, <2>2, NewForm
  <2>4. moved' \in [Tabs -> BOOLEAN]
    BY <1>1, Zenon DEF SubmitLogin, Stores
  <2>5. mishaps' \subseteq Mishaps
    <3>1. {m \in {"overlap"} : \E u \in Tabs : ~At(u, "idle")} \subseteq Mishaps
      OBVIOUS
    <3>2. {m \in {"replaced"} : Outdates(k)} \subseteq Mishaps
      OBVIOUS
    <3> QED
      BY <1>1, <3>1, <3>2 DEF SubmitLogin, TypeInv
  <2> QED
    BY <1>1, <2>3, <2>4, <2>5 DEF SubmitLogin, Stores, TypeInv
<1>2. CASE LoginOk(t)
  <2>1. tenant' \in Tenants
    BY <1>2, SessionAssumption DEF LoginOk, TypeInv
  <2> QED
    BY <1>2, <2>1, FormEnds DEF LoginOk, TypeInv
<1>3. CASE LoginDenied(t)
  BY <1>3, FormEnds DEF LoginDenied, RemoveStoredApiKey, TypeInv
<1>4. CASE LoginFails(t)
  BY <1>4, FormEnds DEF LoginFails, RemoveStoredApiKey, TypeInv
<1> QED
  BY <1>1, <1>2, <1>3, <1>4

\* A signup.
LEMMA SignupType ==
    ASSUME TypeInv, NEW t \in Tabs,
           \/ \E a \in Tenants : SubmitSignup(t, a)
           \/ TenantCreated(t) \/ SlugTaken(t) \/ RequestKey(t) \/ KeyIssued(t)
           \/ SignupOk(t) \/ SignupFails(t)
    PROVE  TypeInv'
<1> USE DEF TypeOK, Pages, Mishaps, Pushes, Mishap, store, api
<1>1. ASSUME NEW a \in Tenants, SubmitSignup(t, a) PROVE TypeInv'
  <2> DEFINE f == [at |-> "create", key |-> NoKey, tenant |-> a]
  <2>1. f \in Form /\ FormHolds(f)
    BY DEF TypeInv, Form, FormHolds, Points
  <2>2. form' = [form EXCEPT ![t] = f]
    BY <1>1 DEF SubmitSignup, TypeInv, Form
  <2>3. form' \in [Tabs -> Form] /\ FormsHold'
    BY <2>1, <2>2, NewForm
  <2>4. mishaps' \subseteq Mishaps
    BY <1>1 DEF SubmitSignup, TypeInv
  <2> QED
    BY <1>1, <2>3, <2>4 DEF SubmitSignup, TypeInv
<1>2. CASE TenantCreated(t)
  <2> DEFINE f == [form[t] EXCEPT !.at = "created"]
  <2>1. f \in Form /\ FormHolds(f) /\ form[t].tenant \in Tenants
    BY <1>2 DEF TypeInv, Form, FormsHold, FormHolds, Points, TenantCreated, At
  <2>2. form' = [form EXCEPT ![t] = f]
    BY <1>2 DEF TenantCreated, GoTo
  <2>3. form' \in [Tabs -> Form] /\ FormsHold'
    BY <2>1, <2>2, NewForm
  <2> QED
    BY <1>2, <2>1, <2>3 DEF TenantCreated, TypeInv
<1>3. CASE SlugTaken(t)
  BY <1>3, FormEnds DEF SlugTaken, TypeInv
<1>4. CASE RequestKey(t)
  <2> DEFINE f == [form[t] EXCEPT !.at = "issue"]
  <2>1. f \in Form /\ FormHolds(f)
    BY <1>4 DEF TypeInv, Form, FormsHold, FormHolds, Points, RequestKey, At
  <2>2. form' = [form EXCEPT ![t] = f]
    BY <1>4 DEF RequestKey, GoTo
  <2>3. form' \in [Tabs -> Form] /\ FormsHold'
    BY <2>1, <2>2, NewForm
  <2> QED
    BY <1>4, <2>3 DEF RequestKey, TypeInv
<1>5. CASE KeyIssued(t)
  <2>1. PICK k \in Keys \ issued :
          /\ OwnerOf[k] = form[t].tenant
          /\ issued' = issued \cup {k} /\ active' = active \cup {k}
          /\ form' = [form EXCEPT ![t] = [at |-> "issued", key |-> k, tenant |-> @.tenant]]
    BY <1>5 DEF KeyIssued
  <2> DEFINE f == [at |-> "issued", key |-> k, tenant |-> form[t].tenant]
  <2>2. f \in Form /\ FormHolds(f)
    BY <1>5, <2>1 DEF TypeInv, Form, FormsHold, FormHolds, Points, KeyIssued, At
  <2>3. form' = [form EXCEPT ![t] = f]
    BY <2>1 DEF TypeInv, Form
  <2>4. form' \in [Tabs -> Form] /\ FormsHold'
    BY <2>2, <2>3, NewForm
  <2> QED
    BY <1>5, <2>1, <2>4 DEF KeyIssued, TypeInv
<1>6. CASE SignupOk(t)
  <2>1. form[t].key \in Keys /\ form[t].tenant \in Tenants
    BY <1>6 DEF SignupOk, At, TypeInv, FormsHold, FormHolds
  <2>2. moved' \in [Tabs -> BOOLEAN]
    BY <1>6, Zenon DEF SignupOk, Stores
  <2>3. mishaps' \subseteq Mishaps
    BY <1>6 DEF SignupOk, TypeInv
  <2> QED
    BY <1>6, <2>1, <2>2, <2>3, FormEnds DEF SignupOk, Stores, TypeInv
<1>7. CASE SignupFails(t)
  BY <1>7, FormEnds DEF SignupFails, TypeInv
<1> QED
  BY <1>1, <1>2, <1>3, <1>4, <1>5, <1>6, <1>7

\* What can be clicked on the dashboard.
LEMMA UserType ==
    ASSUME TypeInv, NEW t \in Tabs,
           OpenForm(t) \/ Reload(t) \/ Navigate(t) \/ TurnedAway(t) \/ Request(t) \/ Logout(t)
    PROVE  TypeInv'
<1> USE DEF TypeOK, Pages, Mishaps, Pushes, Mishap, store, api
<1>1. CASE OpenForm(t)
  BY <1>1, FormStays DEF OpenForm, TypeInv
<1>2. CASE Reload(t)
  <2>1. mishaps' \subseteq Mishaps
    BY <1>2 DEF Reload, Reloads, TypeInv
  <2> QED
    BY <1>2, <2>1, FormEnds DEF Reload, Reloads, TypeInv
<1>3. CASE Navigate(t)
  <2>1. calls' \in [Tabs -> SUBSET Call]
    BY <1>3, SendsType DEF Navigate, TypeInv
  <2>2. moved' \in [Tabs -> BOOLEAN]
    BY <1>3, Zenon DEF Navigate, Verifying, TypeInv
  <2>3. shown' \in [Tabs -> Tenants \cup {NoTenant}]
    BY <1>3 DEF Navigate, TypeInv
  <2> QED
    BY <1>3, <2>1, <2>2, <2>3, FormStays DEF Navigate, TypeInv
<1>4. CASE TurnedAway(t)
  BY <1>4, FormStays DEF TurnedAway, TypeInv
<1>5. CASE Request(t)
  BY <1>5, SendsType, FormStays DEF Request, TypeInv
<1>6. CASE Logout(t)
  BY <1>6, FormStays DEF Logout, RemoveStoredApiKey, TypeInv
<1> QED
  BY <1>1, <1>2, <1>3, <1>4, <1>5, <1>6

\* Answers, and keys switched off.
LEMMA CallType ==
    ASSUME TypeInv, \/ \E t \in Tabs : CallStep(t)
                    \/ \E k \in Keys : Deactivate(k)
    PROVE  TypeInv'
<1> USE DEF TypeOK, Pages, Mishaps, Mishap, store, api
<1>1. ASSUME NEW t \in Tabs, NEW c \in calls[t], CallOk(t, c) PROVE TypeInv'
  <2>1. Loads(c) \in SUBSET Call
    BY DEF Loads, Call, TypeInv
  <2> QED
    BY <1>1, <2>1, FormStays DEF CallOk, TypeInv
<1>2. ASSUME NEW t \in Tabs, NEW c \in calls[t], CallFails(t, c) PROVE TypeInv'
  BY <1>2, FormStays DEF CallFails, TypeInv
<1>3. ASSUME NEW t \in Tabs, NEW c \in calls[t], CallDenied(t, c) PROVE TypeInv'
  <2>1. mishaps' \subseteq Mishaps
    BY <1>3 DEF CallDenied, Reloads, TypeInv
  <2> QED
    BY <1>3, <2>1, FormEnds DEF CallDenied, RemoveStoredApiKey, Reloads, TypeInv
<1>4. ASSUME NEW k \in Keys, Deactivate(k) PROVE TypeInv'
  BY <1>4, FormStays DEF Deactivate, TypeInv
<1> QED
  BY <1>1, <1>2, <1>3, <1>4 DEF CallStep

LEMMA NextType == TypeInv /\ [Next]_vars => TypeInv'
<1> SUFFICES ASSUME TypeInv, [Next]_vars PROVE TypeInv'
  OBVIOUS
<1>1. CASE UNCHANGED vars
  BY <1>1, FormStays DEF TypeInv, TypeOK, vars
<1>2. CASE Next
  BY <1>2, LoginType, SignupType, UserType, CallType DEF Next, FormStep, UserStep
<1> QED
  BY <1>1, <1>2

\* Every variable keeps its type, for any number of tabs and keys.
THEOREM TypeCorrect == Spec => []TypeOK
<1>1. Init => TypeInv
  BY InitType
<1>2. TypeInv /\ [Next]_vars => TypeInv'
  BY NextType
<1>3. TypeInv => TypeOK
  BY DEF TypeInv
<1> QED
  BY <1>1, <1>2, <1>3, PTL DEF Spec

-------------------------------------------------------------------------------
(* The key that is stored, and the forms that store it.                    *)

\* Unless mishaps say otherwise, one form is in flight at a time,
Alone == Calm => \A t, u \in Tabs : ~At(t, "idle") /\ ~At(u, "idle") => t = u

\* and the key being verified is still stored, or none is.
Verified == Calm => \A t \in Tabs : At(t, "verify") => key \in {NoKey, form[t].key}

\* A request carries the stored key, unless that was stored while it was in flight.
CallsCarry == \A t \in Tabs : \A c \in calls[t] :
    c.key = key \/ key = NoKey \/ "replaced" \in mishaps

KeyInv == TypeInv /\ Alone /\ Verified /\ TenantMatchesKey
SessionInv == KeyInv /\ ShownIsActing

\* Mishaps are not forgotten.
LEMMA MishapsStay == [Next]_vars => mishaps \subseteq mishaps'
<1> SUFFICES ASSUME [Next]_vars PROVE mishaps \subseteq mishaps'
  OBVIOUS
<1>1. CASE UNCHANGED vars
  BY <1>1 DEF vars
<1>2. CASE Next
  <2> USE DEF Mishap, Reloads
  <2>1. ASSUME NEW t \in Tabs, FormStep(t) PROVE mishaps \subseteq mishaps'
    BY <2>1 DEF FormStep, LoginOk, LoginDenied, LoginFails, TenantCreated, SlugTaken,
                RequestKey, KeyIssued, SignupOk, SignupFails
  <2>2. ASSUME NEW t \in Tabs, UserStep(t) PROVE mishaps \subseteq mishaps'
    BY <2>2 DEF UserStep, SubmitLogin, SubmitSignup, OpenForm, Reload, Navigate, TurnedAway,
                Request, Logout
  <2>3. ASSUME NEW t \in Tabs, CallStep(t) PROVE mishaps \subseteq mishaps'
    BY <2>3 DEF CallStep, CallOk, CallFails, CallDenied
  <2>4. ASSUME NEW k \in Keys, Deactivate(k) PROVE mishaps \subseteq mishaps'
    BY <2>4 DEF Deactivate
  <2> QED
    BY <1>2, <2>1, <2>2, <2>3, <2>4 DEF Next
<1> QED
  BY <1>1, <1>2

LEMMA CalmBefore == [Next]_vars /\ Calm' => Calm
BY MishapsStay DEF Calm

\* A form submitted or gone on: the other tabs' forms are not touched.
LEMMA LoginKeepsKey ==
    ASSUME KeyInv, NEW t \in Tabs, Calm, Calm',
           \/ \E k \in Keys : SubmitLogin(t, k)
           \/ LoginOk(t) \/ LoginDenied(t) \/ LoginFails(t)
    PROVE  Alone' /\ Verified' /\ TenantMatchesKey'
<1> USE DEF KeyInv, TypeInv, TypeOK, Form, At
<1>1. ASSUME NEW k \in Keys, SubmitLogin(t, k) PROVE Alone' /\ Verified' /\ TenantMatchesKey'
  <2>1. \A u \in Tabs : At(u, "idle")
    BY <1>1 DEF SubmitLogin, Calm
  <2>2. form' = [form EXCEPT ![t] = [at |-> "verify", key |-> k, tenant |-> NoTenant]]
    BY <1>1 DEF SubmitLogin
  <2>3. At(t, "verify")' /\ form'[t].key = k /\ \A u \in Tabs \ {t} : At(u, "idle")'
    BY <2>1, <2>2
  <2>4. key' = k
    BY <1>1 DEF SubmitLogin, Stores
  <2> QED
    BY <2>3, <2>4 DEF Alone, Verified, TenantMatchesKey, Verifying
<1>2. ASSUME At(t, "verify"), EndForm(t) PROVE \A u \in Tabs : At(u, "idle")'
  <2>1. \A u \in Tabs \ {t} : At(u, "idle")
    BY <1>2 DEF Alone
  <2> QED
    BY <1>2, <2>1 DEF EndForm, IdleForm
<1>3. CASE LoginOk(t)
  <2>1. key \in {NoKey, form[t].key}
    BY <1>3 DEF LoginOk, Verified
  <2> QED
    BY <1>2, <1>3, <2>1 DEF LoginOk, Alone, Verified, TenantMatchesKey, Verifying
<1>4. CASE LoginDenied(t) \/ LoginFails(t)
  BY <1>2, <1>4 DEF LoginDenied, LoginFails, RemoveStoredApiKey, Alone, Verified, TenantMatchesKey
<1> QED
  BY <1>1, <1>3, <1>4

LEMMA SignupKeepsKey ==
    ASSUME KeyInv, NEW t \in Tabs, Calm, Calm',
           \/ \E a \in Tenants : SubmitSignup(t, a)
           \/ TenantCreated(t) \/ SlugTaken(t) \/ RequestKey(t) \/ KeyIssued(t)
           \/ SignupOk(t) \/ SignupFails(t)
    PROVE  Alone' /\ Verified' /\ TenantMatchesKey'
<1> USE DEF KeyInv, TypeInv, TypeOK, Form, At
<1>1. ~At(t, "verify")
  BY DEF SubmitSignup, SignupForm, TenantCreated, SlugTaken, RequestKey, KeyIssued, SignupOk,
         SignupFails
<1>2. \A u \in Tabs \ {t} : form'[u] = form[u]
  BY DEF SubmitSignup, TenantCreated, SlugTaken, RequestKey, KeyIssued, SignupOk, SignupFails,
         GoTo, EndForm
<1>3. ~At(t, "verify")'
  <2>1. CASE \E a \in Tenants : SubmitSignup(t, a)
    BY <2>1 DEF SubmitSignup
  <2>2. CASE TenantCreated(t) \/ RequestKey(t)
    BY <2>2 DEF TenantCreated, RequestKey, GoTo
  <2>3. CASE KeyIssued(t)
    BY <2>3 DEF KeyIssued
  <2>4. CASE SlugTaken(t) \/ SignupOk(t) \/ SignupFails(t)
    <3>1. EndForm(t)
      BY <2>4 DEF SlugTaken, SignupOk, SignupFails
    <3> QED
      BY <3>1 DEF EndForm, IdleForm
  <2> QED
    BY <2>1, <2>2, <2>3, <2>4
<1>4. \A u \in Tabs \ {t} : At(u, "idle")
  <2>1. CASE \E a \in Tenants : SubmitSignup(t, a)
    BY <2>1 DEF SubmitSignup, Mishap, Calm
  <2>2. CASE ~At(t, "idle")
    BY <2>2 DEF Alone
  <2> QED
    BY <2>1, <2>2 DEF TenantCreated, SlugTaken, RequestKey, KeyIssued, SignupOk, SignupFails
<1>5. Alone' /\ Verified' /\ ~Verifying /\ ~Verifying'
  <2>1. \A u \in Tabs : ~At(u, "verify") /\ ~At(u, "verify")'
    BY <1>1, <1>2, <1>3, <1>4
  <2>2. \A u \in Tabs : ~At(u, "idle")' => u = t
    BY <1>2, <1>4
  <2>3. ~Verifying /\ ~Verifying'
    BY <2>1 DEF Verifying
  <2>4. Alone'
    BY <2>2 DEF Alone
  <2>5. Verified'
    BY <2>1 DEF Verified
  <2> QED
    BY <2>3, <2>4, <2>5
<1>6. CASE SignupOk(t)
  BY <1>5, <1>6 DEF SignupOk, Stores, FormsHold, FormHolds, TenantMatchesKey
<1>7. CASE UNCHANGED store
  BY <1>5, <1>7 DEF store, TenantMatchesKey
<1> QED
  BY <1>5, <1>6, <1>7 DEF SubmitSignup, TenantCreated, SlugTaken, RequestKey, KeyIssued, SignupFails

\* A tab that is cut off while its form is in flight is a mishap.
LEMMA OthersKeepKey ==
    ASSUME KeyInv, NEW t \in Tabs, Calm, Calm',
           \/ OpenForm(t) \/ Reload(t) \/ Navigate(t) \/ TurnedAway(t) \/ Request(t) \/ Logout(t)
           \/ CallStep(t)
    PROVE  Alone' /\ Verified' /\ TenantMatchesKey'
<1> USE DEF KeyInv, TypeInv, TypeOK, Form, At
<1>1. \A u \in Tabs : At(u, "idle") = At(u, "idle")' /\ At(u, "verify") = At(u, "verify")'
                      /\ (~At(u, "idle") => form'[u] = form[u])
  <2>1. CASE UNCHANGED form
    BY <2>1
  <2>2. CASE \E to \in Pages : Reloads(t, to)
    BY <2>2 DEF Reloads, EndForm, IdleForm, Mishap, Calm
  <2> QED
    BY <2>1, <2>2 DEF OpenForm, Reload, Navigate, TurnedAway, Request, Logout, CallStep, CallOk,
                      CallFails, CallDenied, Pages
<1>2. UNCHANGED store \/ key' = NoKey
  BY DEF OpenForm, Reload, Navigate, TurnedAway, Request, Logout, CallStep, CallOk, CallFails,
         CallDenied, RemoveStoredApiKey, store
<1>3. Alone'
  BY <1>1 DEF Alone
<1>4. Verified'
  BY <1>1, <1>2 DEF Verified, store
<1>5. TenantMatchesKey'
  BY <1>1, <1>2 DEF TenantMatchesKey, Verifying, store
<1> QED
  BY <1>3, <1>4, <1>5

LEMMA NextKey == KeyInv /\ [Next]_vars => KeyInv'
<1> SUFFICES ASSUME KeyInv, [Next]_vars PROVE KeyInv'
  OBVIOUS
<1>1. TypeInv'
  BY NextType DEF KeyInv
<1>2. CASE ~Calm'
  BY <1>1, <1>2 DEF KeyInv, Alone, Verified, TenantMatchesKey
<1>3. CASE Calm' /\ UNCHANGED vars
  BY <1>1, <1>3 DEF KeyInv, Alone, Verified, TenantMatchesKey, Verifying, At, vars, Calm
<1>4. CASE Calm' /\ Next
  <2>1. Calm
    BY <1>4, CalmBefore
  <2>2. ASSUME NEW t \in Tabs, FormStep(t) \/ UserStep(t) \/ CallStep(t)
        PROVE  Alone' /\ Verified' /\ TenantMatchesKey'
    <3>1. CASE \/ \E k \in Keys : SubmitLogin(t, k)
               \/ LoginOk(t) \/ LoginDenied(t) \/ LoginFails(t)
      BY <1>4, <2>1, <3>1, LoginKeepsKey
    <3>2. CASE \/ \E a \in Tenants : SubmitSignup(t, a)
               \/ TenantCreated(t) \/ SlugTaken(t) \/ RequestKey(t) \/ KeyIssued(t)
               \/ SignupOk(t) \/ SignupFails(t)
      BY <1>4, <2>1, <3>2, SignupKeepsKey
    <3>3. CASE \/ OpenForm(t) \/ Reload(t) \/ Navigate(t) \/ TurnedAway(t) \/ Request(t)
               \/ Logout(t) \/ CallStep(t)
      BY <1>4, <2>1, <3>3, OthersKeepKey
    <3> QED
      BY <2>2, <3>1, <3>2, <3>3 DEF FormStep, UserStep
  <2>3. ASSUME NEW k \in Keys, Deactivate(k) PROVE Alone' /\ Verified' /\ TenantMatchesKey'
    <3>1. UNCHANGED <<store, form, mishaps>>
      BY <2>3 DEF Deactivate
    <3> QED
      BY <2>1, <3>1 DEF KeyInv, Alone, Verified, TenantMatchesKey, Verifying, At, store
  <2> QED
    BY <1>1, <1>4, <2>2, <2>3 DEF Next, KeyInv
<1> QED
  BY <1>2, <1>3, <1>4

LEMMA InitKey == Init => KeyInv
BY InitType DEF Init, KeyInv, Alone, Verified, TenantMatchesKey, At, IdleForm

\* After a login, whatever the order in which tabs and answers took their turns, the
\* stored tenant is the owner of the stored key, unless forms overlapped or were cut off.
THEOREM TenantIsTheKeys == Spec => []TenantMatchesKey
<1>1. KeyInv => TenantMatchesKey
  BY DEF KeyInv
<1> QED
  BY <1>1, InitKey, NextKey, PTL DEF Spec

-------------------------------------------------------------------------------
(* What the sidebar names.                                                 *)

\* The page, the tenant shown and the notice of another tab's login are these steps' only
\* concern once the key stays or goes.
LEMMA ShownStays ==
    ASSUME SessionInv, key' \in {key, NoKey}, Calm' => Calm,
           \A u \in Tabs : /\ page'[u] = "dashboard" /\ shown'[u] # NoTenant
                                => page[u] = "dashboard" /\ shown'[u] = shown[u]
                           /\ ~moved'[u] => ~moved[u]
    PROVE  ShownIsActing'
<1>1. CASE key' = NoKey
  BY <1>1 DEF ShownIsActing
<1>2. CASE key' = key
  BY <1>2 DEF SessionInv, ShownIsActing
<1> QED
  BY <1>1, <1>2

LEMMA NextShown == SessionInv /\ [Next]_vars => SessionInv'
<1> SUFFICES ASSUME SessionInv, [Next]_vars PROVE SessionInv'
  OBVIOUS
<1> USE DEF SessionInv, KeyInv, TypeInv, TypeOK
<1>1. KeyInv' /\ (Calm' => Calm)
  BY NextKey, CalmBefore
<1>2. ASSUME UNCHANGED <<key, page, shown, moved>> PROVE ShownIsActing'
  BY <1>1, <1>2, ShownStays
<1>3. ASSUME NEW t \in Tabs, FormStep(t) PROVE ShownIsActing'
  <2>1. CASE LoginOk(t)
    BY <1>1, <2>1, ShownStays DEF LoginOk, Pushes
  <2>2. CASE LoginDenied(t) \/ LoginFails(t)
    BY <2>2 DEF LoginDenied, LoginFails, RemoveStoredApiKey, ShownIsActing
  <2>3. CASE SignupOk(t)
    <3>1. shown'[t] = NoTenant
      BY <2>3 DEF SignupOk, Pushes
    <3>2. \A u \in Tabs \ {t} : page'[u] = "dashboard" => moved'[u]
      BY <2>3 DEF SignupOk, Pushes, Stores
    <3> QED
      BY <3>1, <3>2 DEF ShownIsActing
  <2>4. CASE TenantCreated(t) \/ SlugTaken(t) \/ RequestKey(t) \/ KeyIssued(t) \/ SignupFails(t)
    BY <1>2, <2>4 DEF TenantCreated, SlugTaken, RequestKey, KeyIssued, SignupFails, store
  <2> QED
    BY <1>3, <2>1, <2>2, <2>3, <2>4 DEF FormStep
<1>4. ASSUME NEW t \in Tabs, UserStep(t) PROVE ShownIsActing'
  <2>1. ASSUME NEW k \in Keys, SubmitLogin(t, k) PROVE ShownIsActing'
    <3>1. \A u \in Tabs : page'[u] = "dashboard" => moved'[u]
      BY <2>1 DEF SubmitLogin, LoginForm, Stores
    <3> QED
      BY <3>1 DEF ShownIsActing
  <2>2. CASE Navigate(t)
    <3>1. CASE Verifying
      <4>1. moved'[t]
        BY <2>2, <3>1 DEF Navigate
      <4>2. \A u \in Tabs \ {t} : shown'[u] = shown[u] /\ moved'[u] = moved[u]
        BY <2>2 DEF Navigate
      <4> QED
        BY <1>1, <2>2, <4>1, <4>2 DEF Navigate, store, ShownIsActing
    <3>2. CASE ~Verifying
      <4>1. Calm => shown'[t] = OwnerOf[key]
        <5>1. Calm => tenant = OwnerOf[key] /\ tenant \in Tenants
          BY <2>2, <3>2, SessionAssumption DEF Navigate, TenantMatchesKey
        <5> QED
          BY <2>2, <5>1, SessionAssumption DEF Navigate
      <4>2. \A u \in Tabs \ {t} : shown'[u] = shown[u] /\ moved'[u] = moved[u]
        BY <2>2 DEF Navigate
      <4> QED
        BY <1>1, <2>2, <4>1, <4>2 DEF Navigate, store, ShownIsActing
    <3> QED
      BY <3>1, <3>2
  <2>3. CASE OpenForm(t) \/ TurnedAway(t)
    BY <1>1, <2>3, ShownStays DEF OpenForm, TurnedAway, Pushes, store
  <2>4. CASE Reload(t)
    BY <1>1, <2>4, ShownStays DEF Reload, Reloads, store
  <2>5. CASE Logout(t)
    BY <2>5 DEF Logout, RemoveStoredApiKey, ShownIsActing
  <2>6. CASE Request(t) \/ \E a \in Tenants : SubmitSignup(t, a)
    BY <1>2, <2>6 DEF Request, SubmitSignup, store
  <2> QED
    BY <1>4, <2>1, <2>2, <2>3, <2>4, <2>5, <2>6 DEF UserStep
<1>5. ASSUME NEW t \in Tabs, CallStep(t) PROVE ShownIsActing'
  <2>1. PICK c \in calls[t] : CallOk(t, c) \/ CallFails(t, c) \/ CallDenied(t, c)
    BY <1>5 DEF CallStep
  <2>2. CASE CallOk(t, c) \/ CallFails(t, c)
    BY <1>2, <2>2 DEF CallOk, CallFails, store
  <2>3. CASE CallDenied(t, c)
    BY <2>3 DEF CallDenied, RemoveStoredApiKey, ShownIsActing
  <2> QED
    BY <2>1, <2>2, <2>3
<1>6. ASSUME NEW k \in Keys, Deactivate(k) PROVE ShownIsActing'
  BY <1>2, <1>6 DEF Deactivate, store
<1>7. CASE UNCHANGED vars
  BY <1>1, <1>2, <1>7 DEF vars
<1> QED
  BY <1>1, <1>3, <1>4, <1>5, <1>6, <1>7 DEF Next

\* The sidebar of a tab names the tenant its requests are made for, however many tabs
\* there are, until another tab signs in or a mishap of two forms.
THEOREM SidebarIsRight == Spec => []ShownIsActing
<1>1. Init => SessionInv
  BY InitKey DEF Init, SessionInv, ShownIsActing
<1>2. SessionInv => ShownIsActing
  BY DEF SessionInv
<1> QED
  BY <1>1, <1>2, NextShown, PTL DEF Spec

-------------------------------------------------------------------------------
(* Tenants without a key.                                                  *)

LEMMA NextLockedOut == TypeInv /\ LockedOutByFaults /\ [Next]_vars => LockedOutByFaults'
<1> SUFFICES ASSUME TypeInv, LockedOutByFaults, [Next]_vars, NEW a \in registered'
             PROVE  \/ \E k \in issued' : OwnerOf[k] = a
                    \/ \E t \in Tabs : form'[t].at \in {"created", "issue"} /\ form'[t].tenant = a
                    \/ mishaps' \cap {"closed", "lost"} # {}
  BY DEF LockedOutByFaults
<1> DEFINE Signing(t) == form[t].at \in {"created", "issue"} /\ form[t].tenant = a
           Has == (\E k \in issued : OwnerOf[k] = a) \/ (\E t \in Tabs : Signing(t))
           Blamed == mishaps \cap {"closed", "lost"} # {}
<1> USE DEF TypeInv, TypeOK, Form
<1>1. Blamed => Blamed'
  BY MishapsStay
<1>2. a \in registered => Has \/ Blamed
  BY DEF LockedOutByFaults
<1>3. CASE UNCHANGED <<form, registered, issued>>
  BY <1>1, <1>2, <1>3
<1>4. ASSUME NEW t \in Tabs, ~Signing(t) \/ Signing(t)', UNCHANGED <<registered, issued>>,
             \A u \in Tabs \ {t} : form'[u] = form[u]
      PROVE  Has' \/ Blamed'
  BY <1>1, <1>2, <1>4
<1>5. ASSUME NEW t \in Tabs, FormStep(t) PROVE Has' \/ Blamed'
  <2>1. CASE LoginOk(t) \/ LoginDenied(t) \/ LoginFails(t) \/ SlugTaken(t) \/ SignupOk(t)
    <3>1. EndForm(t) /\ ~Signing(t) /\ UNCHANGED <<registered, issued>>
      BY <2>1 DEF LoginOk, LoginDenied, LoginFails, SlugTaken, SignupOk, At, api
    <3> QED
      BY <1>4, <3>1 DEF EndForm
  <2>2. CASE TenantCreated(t)
    <3>1. Signing(t)' \/ a \in registered
      BY <2>2 DEF TenantCreated, GoTo, At
    <3>2. ~Signing(t) /\ issued' = issued /\ \A u \in Tabs \ {t} : form'[u] = form[u]
      BY <2>2 DEF TenantCreated, GoTo, At
    <3> QED
      BY <1>1, <1>2, <3>1, <3>2
  <2>3. CASE RequestKey(t)
    <3>1. (Signing(t) => Signing(t)') /\ \A u \in Tabs \ {t} : form'[u] = form[u]
      BY <2>3 DEF RequestKey, GoTo
    <3> QED
      BY <1>4, <2>3, <3>1 DEF RequestKey, api
  <2>4. CASE KeyIssued(t)
    <3>1. PICK k \in Keys : OwnerOf[k] = form[t].tenant /\ issued' = issued \cup {k}
      BY <2>4 DEF KeyIssued
    <3>2. registered' = registered /\ \A u \in Tabs \ {t} : form'[u] = form[u]
      BY <2>4 DEF KeyIssued
    <3> QED
      BY <1>1, <1>2, <3>1, <3>2
  <2>5. CASE SignupFails(t)
    BY <2>5 DEF SignupFails, Mishap
  <2> QED
    BY <1>5, <2>1, <2>2, <2>3, <2>4, <2>5 DEF FormStep
<1>6. ASSUME NEW t \in Tabs, \E to \in Pages : Reloads(t, to), UNCHANGED <<registered, issued>>
      PROVE  Has' \/ Blamed'
  <2>1. CASE At(t, "idle")
    BY <1>4, <1>6, <2>1 DEF Reloads, EndForm, At
  <2>2. CASE ~At(t, "idle")
    BY <1>6, <2>2 DEF Reloads, Mishap
  <2> QED
    BY <2>1, <2>2
<1>7. ASSUME NEW t \in Tabs, UserStep(t) PROVE Has' \/ Blamed'
  <2>1. CASE (\E k \in Keys : SubmitLogin(t, k)) \/ (\E b \in Tenants : SubmitSignup(t, b))
    <3>1. ~Signing(t) /\ UNCHANGED <<registered, issued>>
      BY <2>1 DEF SubmitLogin, SubmitSignup, LoginForm, SignupForm, At, api
    <3>2. \A u \in Tabs \ {t} : form'[u] = form[u]
      BY <2>1 DEF SubmitLogin, SubmitSignup
    <3> QED
      BY <1>4, <3>1, <3>2
  <2>2. CASE Reload(t)
    BY <1>6, <2>2 DEF Reload, Pages, api
  <2>3. CASE OpenForm(t) \/ Navigate(t) \/ TurnedAway(t) \/ Request(t) \/ Logout(t)
    BY <1>3, <2>3 DEF OpenForm, Navigate, TurnedAway, Request, Logout, api
  <2> QED
    BY <1>7, <2>1, <2>2, <2>3 DEF UserStep
<1>8. ASSUME NEW t \in Tabs, CallStep(t) PROVE Has' \/ Blamed'
  <2>1. PICK c \in calls[t] : CallOk(t, c) \/ CallFails(t, c) \/ CallDenied(t, c)
    BY <1>8 DEF CallStep
  <2>2. CASE CallOk(t, c) \/ CallFails(t, c)
    BY <1>3, <2>2 DEF CallOk, CallFails, api
  <2>3. CASE CallDenied(t, c)
    BY <1>6, <2>3 DEF CallDenied, Pages, api
  <2> QED
    BY <2>1, <2>2, <2>3
<1>9. ASSUME NEW k \in Keys, Deactivate(k) PROVE Has' \/ Blamed'
  BY <1>3, <1>9 DEF Deactivate
<1>10. CASE UNCHANGED vars
  BY <1>3, <1>10 DEF vars
<1> QED
  BY <1>5, <1>7, <1>8, <1>9, <1>10 DEF Next

\* A registered tenant without any key exists only while its signup is under way, or
\* after a signup that was closed or lost a request.
THEOREM NoOneLockedOut == Spec => []LockedOutByFaults
<1>1. Init => TypeInv /\ LockedOutByFaults
  BY InitType DEF Init, LockedOutByFaults
<1> QED
  BY <1>1, NextType, NextLockedOut, PTL DEF Spec

-------------------------------------------------------------------------------
(* Which key a refusal removes.                                            *)

LEMMA NextCarry == TypeInv /\ CallsCarry /\ [Next]_vars => CallsCarry'
<1> SUFFICES ASSUME TypeInv, CallsCarry, [Next]_vars PROVE CallsCarry'
  OBVIOUS
<1> USE DEF TypeInv, TypeOK
<1>1. "replaced" \in mishaps => "replaced" \in mishaps'
  BY MishapsStay
<1>2. ASSUME UNCHANGED key, \A u \in Tabs : \A c \in calls'[u] : c \in calls[u] \/ c.key = key
      PROVE  CallsCarry'
  BY <1>1, <1>2 DEF CallsCarry
<1>3. CASE key' = NoKey
  BY <1>3 DEF CallsCarry
<1>4. ASSUME NEW t \in Tabs, NEW k, key' = k, UNCHANGED calls,
             Outdates(k) => "replaced" \in mishaps'
      PROVE  CallsCarry'
  BY <1>4 DEF Outdates, CallsCarry
<1>5. ASSUME NEW t \in Tabs, FormStep(t) PROVE CallsCarry'
  <2>1. CASE LoginDenied(t) \/ LoginFails(t)
    BY <1>3, <2>1 DEF LoginDenied, LoginFails, RemoveStoredApiKey
  <2>2. CASE SignupOk(t)
    BY <1>4, <2>2 DEF SignupOk, Stores, Mishap
  <2>3. CASE LoginOk(t) \/ TenantCreated(t) \/ SlugTaken(t) \/ RequestKey(t) \/ KeyIssued(t)
             \/ SignupFails(t)
    BY <1>2, <2>3 DEF LoginOk, TenantCreated, SlugTaken, RequestKey, KeyIssued, SignupFails, store
  <2> QED
    BY <1>5, <2>1, <2>2, <2>3 DEF FormStep
<1>6. ASSUME NEW t \in Tabs, UserStep(t) PROVE CallsCarry'
  <2>1. ASSUME NEW k \in Keys, SubmitLogin(t, k) PROVE CallsCarry'
    <3>1. Outdates(k) => "replaced" \in mishaps'
      BY <2>1 DEF SubmitLogin
    <3> QED
      BY <1>4, <2>1, <3>1 DEF SubmitLogin, Stores
  <2>2. CASE Navigate(t) \/ Request(t)
    BY <1>2, <2>2 DEF Navigate, Request, Sends, store
  <2>3. CASE Logout(t)
    BY <1>3, <2>3 DEF Logout, RemoveStoredApiKey
  <2>4. CASE Reload(t)
    BY <1>2, <2>4 DEF Reload, Reloads, store
  <2>5. CASE OpenForm(t) \/ TurnedAway(t) \/ \E a \in Tenants : SubmitSignup(t, a)
    BY <1>2, <2>5 DEF OpenForm, TurnedAway, SubmitSignup, store
  <2> QED
    BY <1>6, <2>1, <2>2, <2>3, <2>4, <2>5 DEF UserStep
<1>7. ASSUME NEW t \in Tabs, CallStep(t) PROVE CallsCarry'
  <2>1. PICK c \in calls[t] : CallOk(t, c) \/ CallFails(t, c) \/ CallDenied(t, c)
    BY <1>7 DEF CallStep
  <2>2. CASE CallOk(t, c) \/ CallFails(t, c)
    BY <1>2, <2>2 DEF CallOk, CallFails, Loads, store
  <2>3. CASE CallDenied(t, c)
    BY <1>3, <2>3 DEF CallDenied, RemoveStoredApiKey
  <2> QED
    BY <2>1, <2>2, <2>3
<1>8. ASSUME NEW k \in Keys, Deactivate(k) PROVE CallsCarry'
  BY <1>2, <1>8 DEF Deactivate, store
<1>9. CASE UNCHANGED vars
  BY <1>2, <1>9 DEF vars
<1> QED
  BY <1>5, <1>6, <1>7, <1>8, <1>9 DEF Next

\* A key that the API accepts goes only by a logout or a login that did not succeed.
LEMMA GoodKeyStep ==
    ASSUME TypeInv, CallsCarry, [Next]_vars,
           key' = NoKey, key \in active, "replaced" \notin mishaps
    PROVE  \E t \in Tabs : Logout(t) \/ LoginFails(t) \/ LoginDenied(t)
<1> USE DEF TypeInv, TypeOK
<1>1. key # NoKey /\ key' # key
  BY SessionAssumption
<1>2. ASSUME NEW t \in Tabs, FormStep(t) PROVE LoginFails(t) \/ LoginDenied(t)
  <2>1. ~SignupOk(t)
    BY SessionAssumption DEF SignupOk, Stores, At, FormsHold, FormHolds
  <2> QED
    BY <1>1, <1>2, <2>1 DEF FormStep, LoginOk, TenantCreated, SlugTaken, RequestKey, KeyIssued,
                            SignupFails, store
<1>3. ASSUME NEW t \in Tabs, UserStep(t) PROVE Logout(t)
  <2>1. ASSUME NEW k \in Keys, SubmitLogin(t, k) PROVE FALSE
    BY <2>1, SessionAssumption DEF SubmitLogin, Stores
  <2> QED
    BY <1>1, <1>3, <2>1 DEF UserStep, SubmitSignup, OpenForm, Reload, Navigate, TurnedAway, Request,
                            store
<1>4. ASSUME NEW t \in Tabs, CallStep(t) PROVE FALSE
  <2>1. PICK c \in calls[t] : CallDenied(t, c)
    BY <1>1, <1>4 DEF CallStep, CallOk, CallFails, store
  <2>2. c.key \in active
    BY <1>1 DEF CallsCarry
  <2> QED
    BY <2>1, <2>2 DEF CallDenied
<1>5. ASSUME NEW k \in Keys, Deactivate(k) PROVE FALSE
  BY <1>1, <1>5 DEF Deactivate, store
<1> QED
  BY <1>1, <1>2, <1>3, <1>4, <1>5 DEF Next, vars

\* The refusal of a request sent with another key removes a good key only if that key was
\* stored while the request was in flight.
THEOREM GoodKeysStay == Spec => GoodKeyStays
<1>1. Init => TypeInv /\ CallsCarry
  BY InitType DEF Init, CallsCarry
<1>2. TypeInv /\ CallsCarry /\ [Next]_vars
        => [key' = NoKey /\ key \in active /\ "replaced" \notin mishaps
              => \E t \in Tabs : Logout(t) \/ LoginFails(t) \/ LoginDenied(t)]_vars
  BY GoodKeyStep
<1> QED
  BY <1>1, <1>2, NextType, NextCarry, PTL DEF Spec, GoodKeyStays
===============================================================================
