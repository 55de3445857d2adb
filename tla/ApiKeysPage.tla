------------------------------- MODULE ApiKeysPage -------------------------------
(***************************************************************************)
(* The API keys page (app/dashboard/api-keys/page.tsx).  The API neither   *)
(* lists nor revokes keys: the client's stubs throw before they send       *)
(* anything, so the table shows the session's key, if one is stored, and a *)
(* revocation ends in an alert.  Only creating a key is a request; its     *)
(* answer carries the key, which the API keeps hashed and never tells      *)
(* again.  A window asks for the key's name and then shows the key.        *)
(*                                                                         *)
(* A key is named by the order of its creation.                            *)
(***************************************************************************)
EXTENDS Integers

CONSTANT MaxKeys    \* bound on keys created

ASSUME ApiKeysAssumption == MaxKeys \in Nat

ApiKeys == 1 .. MaxKeys
NoApiKey == 0

VARIABLES
    created,   \* keys the API has created
    keyPage,   \* the page's state
    known      \* history of the keys

keyVars == <<created, keyPage, known>>

\* modal: the window is open; data: the key held to be shown; call: the creation sent.
\* listed: what the table shows; revoking: the window that asks before a revocation.
KeyPage == [open : BOOLEAN, listed : {"loading", "session", "nothing"}, modal : BOOLEAN,
            creating : BOOLEAN, data : ApiKeys \cup {NoApiKey},
            call : {"none", "sent", "done"}, revoking : BOOLEAN]

\* seen: keys that were on the screen; hidden: those that no longer are; received: keys
\* whose answer the page got; lost: those lost with their answer or with the page;
\* dismissed: those whose answer came while the window was closed.
Histories == {"seen", "hidden", "received", "lost", "dismissed"}

KeyTypeOK ==
    /\ created \in 0 .. MaxKeys
    /\ keyPage \in KeyPage
    /\ known \in [Histories -> SUBSET ApiKeys]

-------------------------------------------------------------------------------
(* Helpers.  A definition marked "slip" is no part of the model: it is a   *)
(* plausible bug in the definition below it, kept to show that some        *)
(* property would notice.                                                  *)

NoKeyPage == [open |-> FALSE, listed |-> "loading", modal |-> FALSE, creating |-> FALSE,
              data |-> NoApiKey, call |-> "none", revoking |-> FALSE]

\* The keys on the screen: the window covers the page, and shows a key if it holds one.
OnScreen(page) == IF page.modal THEN {page.data} \ {NoApiKey} ELSE {}

\* The page as it becomes, with what that does to the history.
Becomes(page) ==
    /\ keyPage' = page
    /\ known' = [known EXCEPT
         !["seen"] = @ \cup OnScreen(page),
         !["hidden"] = @ \cup (OnScreen(keyPage) \ OnScreen(page))]

\* The page lies bare: no window covers it.
Bare == keyPage.open /\ ~keyPage.modal /\ ~keyPage.revoking

\* fetchKeys: the stub rejects at once, and the table falls back to the stored key.
FetchKeys(page) == {[page EXCEPT !.listed = l] : l \in {"session", "nothing"}}

-------------------------------------------------------------------------------
OpenKeys ==
    /\ ~keyPage.open
    /\ Becomes([NoKeyPage EXCEPT !.open = TRUE])
    /\ UNCHANGED created

LoadKeys ==
    /\ keyPage.open /\ keyPage.listed = "loading"
    /\ \E page \in FetchKeys(keyPage) : Becomes(page)
    /\ UNCHANGED created

\* A key not yet shown is lost with the page, as is the answer in flight; one that the
\* API has not made by then is left out.
CloseKeys ==
    /\ keyPage.open
    /\ keyPage' = NoKeyPage
    /\ known' = [known EXCEPT !["hidden"] = @ \cup OnScreen(keyPage),
                              !["lost"] = @ \cup {k \in {created} : keyPage.call = "done"}
                                            \cup ({keyPage.data} \ ({NoApiKey} \cup known["seen"]))]
    /\ UNCHANGED created

\* The button drops the key that was shown before.
OpenModal ==
    /\ Bare
    /\ Becomes([keyPage EXCEPT !.modal = TRUE, !.data = NoApiKey])
    /\ UNCHANGED created

\* The X hides the window and nothing else, even while the key is on its way.
CloseModal ==
    /\ keyPage.modal
    /\ Becomes([keyPage EXCEPT !.modal = FALSE])
    /\ UNCHANGED created

DoneModal ==
    /\ OnScreen(keyPage) # {}
    /\ Becomes([keyPage EXCEPT !.modal = FALSE, !.data = NoApiKey])
    /\ UNCHANGED created

\* The form's button is dead while a key is being created.
SubmitKey ==
    /\ keyPage.modal /\ keyPage.data = NoApiKey /\ ~keyPage.creating
    /\ Becomes([keyPage EXCEPT !.creating = TRUE, !.call = "sent"])
    /\ UNCHANGED created

CreateApiKey ==
    /\ keyPage.call = "sent" /\ created < MaxKeys
    /\ created' = created + 1
    /\ Becomes([keyPage EXCEPT !.call = "done"])

\* The key is held, the table loaded anew.
ForgetsData(page) == [page EXCEPT !.creating = FALSE, !.call = "none"]   \* slip
Stored(page) == [page EXCEPT !.data = created, !.creating = FALSE, !.call = "none"]
KeyCreated ==
    /\ keyPage.call = "done"
    /\ \E page \in FetchKeys(Stored(keyPage)) :
         /\ keyPage' = page
         /\ known' = [known EXCEPT
              !["received"] = @ \cup {created},
              !["seen"] = @ \cup OnScreen(page),
              !["dismissed"] = @ \cup {k \in {created} : ~keyPage.modal}]
    /\ UNCHANGED created

\* No answer, or an error: an alert.
CreationFails ==
    /\ keyPage.call # "none"
    /\ keyPage' = [keyPage EXCEPT !.creating = FALSE, !.call = "none"]
    /\ known' = [known EXCEPT !["lost"] = @ \cup {k \in {created} : keyPage.call = "done"}]
    /\ UNCHANGED created

\* 401: request() loads the login page.
CreationDenied == keyPage.call # "none" /\ CloseKeys

AskRevoke ==
    /\ Bare /\ keyPage.listed = "session"
    /\ Becomes([keyPage EXCEPT !.revoking = TRUE])
    /\ UNCHANGED created

\* Cancelled, or confirmed: the stub rejects at once, and an alert says so.
EndRevoke ==
    /\ keyPage.revoking
    /\ Becomes([keyPage EXCEPT !.revoking = FALSE])
    /\ UNCHANGED created

-------------------------------------------------------------------------------
KeysInit == created = 0 /\ keyPage = NoKeyPage /\ known = [h \in Histories |-> {}]

KeysNext ==
    \/ OpenKeys \/ LoadKeys \/ CloseKeys \/ OpenModal \/ CloseModal \/ DoneModal \/ SubmitKey
    \/ CreateApiKey \/ KeyCreated \/ CreationFails \/ CreationDenied \/ AskRevoke \/ EndRevoke

KeysSpec == KeysInit /\ [][KeysNext]_keyVars

-------------------------------------------------------------------------------
(* Properties.                                                             *)

\* A key that left the screen never comes back to it: closing the window with its X keeps
\* the key in the state, and only the button that opens the window again drops it.
ShownOnlyOnce == OnScreen(keyPage) \cap known["hidden"] = {}

\* Every key the API created is seen, unless its answer was lost, or came when the window
\* had been closed: nothing shows it then.
UnseenForAReason ==
    \A k \in 1 .. created :
        \/ k \in known["seen"] \cup known["lost"] \cup known["dismissed"]
        \/ k = created /\ keyPage.call = "done"

\* "Newly created keys will be shown only once upon generation." (api-keys/page.tsx:151):
\* a key the page received and no longer holds was shown, unless the page was left.
NewKeysAreShown == known["received"] \subseteq known["seen"] \cup known["lost"] \cup {keyPage.data}
===============================================================================
