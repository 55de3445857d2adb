------------------------------- MODULE MCBrowser -------------------------------
(* One run for three parts of the dashboard that share no state: the       *)
(* session of all tabs, the integrations page and the API keys page.  A    *)
(* behaviour is about one of them; the others stay as they begin, so that  *)
(* their states add up and are not multiplied.                             *)
EXTENDS Session, WebhooksPage, ApiKeysPage, TLC

CONSTANTS ka, kb, a, b

VARIABLE about

browserVars == <<vars, hookVars, keyVars, about>>

\* One tenant has a key when the browser is opened; the other is still to sign up.
Owners == ka :> a @@ kb :> b

\* Tabs are interchangeable.
Symmetry == Permutations(Tabs)

BrowserInit == Init /\ HooksInit /\ KeysInit /\ about \in {"session", "webhooks", "keys"}
BrowserNext ==
    \/ about = "session"  /\ Next      /\ UNCHANGED <<hookVars, keyVars, about>>
    \/ about = "webhooks" /\ HooksNext /\ UNCHANGED <<vars, keyVars, about>>
    \/ about = "keys"     /\ KeysNext  /\ UNCHANGED <<vars, hookVars, about>>
BrowserSpec == BrowserInit /\ [][BrowserNext]_browserVars
===============================================================================
