------------------------- MODULE ManagementPagesProofs -------------------------
(***************************************************************************)
(* Theorems about the pages that manage API keys and webhooks, for any     *)
(* number of keys, of webhooks and of requests in flight.                  *)
(***************************************************************************)
EXTENDS ApiKeysPage, WebhooksPage, SequenceTheorems, TLAPS

-------------------------------------------------------------------------------
(* The API keys page.                                                      *)

\* The history is consistent, and a key on its way was never on the screen; while one is
\* on its way, no other is held.
KeyInv ==
    /\ KeyTypeOK
    /\ ~keyPage.open => keyPage = NoKeyPage
    /\ OnScreen(keyPage) \subseteq known["seen"] /\ known["hidden"] \subseteq known["seen"]
    /\ known["seen"] \subseteq 1 .. created
    /\ keyPage.call # "none" => keyPage.data = NoApiKey /\ keyPage.creating
    /\ keyPage.call = "done" => created > 0 /\ created \notin known["seen"]
    /\ ShownOnlyOnce /\ UnseenForAReason

\* How a step may change the page: what it needs of the page it leads to.
Follows(page) ==
    /\ page \in KeyPage /\ page.open
    /\ page.call # "none" => page.data = NoApiKey
    /\ page.call = keyPage.call /\ page.creating = keyPage.creating
    /\ page.data \in {NoApiKey, keyPage.data}
    /\ page.modal /\ page.data # NoApiKey => keyPage.modal

\* All steps of the window itself.
LEMMA BecomesKeeps ==
    ASSUME KeyInv, NEW page, Follows(page), Becomes(page), UNCHANGED created
    PROVE  KeyInv'
<1> USE DEF KeyInv, KeyTypeOK, Histories, Follows
<1>1. OnScreen(page) \subseteq OnScreen(keyPage) /\ OnScreen(keyPage) \subseteq ApiKeys
  BY DEF OnScreen, KeyPage
<1>2. keyPage' = page /\ OnScreen(keyPage)' = OnScreen(page)
  BY DEF Becomes, OnScreen
<1>3. /\ known' \in [Histories -> SUBSET ApiKeys]
      /\ known'["seen"] = known["seen"] /\ known'["lost"] = known["lost"]
      /\ known'["dismissed"] = known["dismissed"]
      /\ known'["hidden"] = known["hidden"] \cup (OnScreen(keyPage) \ OnScreen(page))
  BY <1>1 DEF Becomes
<1>4. KeyTypeOK'
  BY <1>2, <1>3
<1>5. ShownOnlyOnce'
  BY <1>1, <1>2, <1>3 DEF ShownOnlyOnce
<1>6. UnseenForAReason'
  BY <1>2, <1>3 DEF UnseenForAReason
<1> QED
  BY <1>1, <1>2, <1>3, <1>4, <1>5, <1>6

LEMMA NoKeyPageType == NoKeyPage \in KeyPage
<1>1. NoApiKey \in ApiKeys \cup {NoApiKey}
  OBVIOUS
<1> QED
  BY <1>1, Zenon DEF NoKeyPage, KeyPage

LEMMA WindowStep ==
    ASSUME KeyInv,
           OpenKeys \/ LoadKeys \/ OpenModal \/ CloseModal \/ DoneModal \/ AskRevoke \/ EndRevoke
    PROVE  KeyInv'
<1> USE DEF KeyInv, KeyTypeOK
<1>1. keyPage \in KeyPage /\ NoApiKey \in ApiKeys \cup {NoApiKey}
  OBVIOUS
<1>2. CASE OpenKeys
  <2> DEFINE p == [NoKeyPage EXCEPT !.open = TRUE]
  <2>1. p \in KeyPage
    BY <1>1, NoKeyPageType, Zenon DEF KeyPage
  <2>2. keyPage = NoKeyPage
    BY <1>2 DEF OpenKeys
  <2>3. Follows(p)
    BY <2>1, <2>2 DEF Follows, NoKeyPage
  <2> QED
    BY <1>2, <2>3, BecomesKeeps DEF OpenKeys
<1>3. keyPage.modal \/ keyPage.revoking \/ Bare => keyPage.open
  BY DEF NoKeyPage, Bare
<1>4. CASE LoadKeys
  <2>1. PICK l \in {"session", "nothing"} : Becomes([keyPage EXCEPT !.listed = l])
    BY <1>4 DEF LoadKeys, FetchKeys
  <2>2. [keyPage EXCEPT !.listed = l] \in KeyPage
    BY <1>1, Zenon DEF KeyPage
  <2>3. Follows([keyPage EXCEPT !.listed = l])
    BY <1>4, <2>2 DEF LoadKeys, Follows, KeyPage
  <2> QED
    BY <1>4, <2>1, <2>3, BecomesKeeps DEF LoadKeys
<1>5. CASE OpenModal
  <2> DEFINE p == [keyPage EXCEPT !.modal = TRUE, !.data = NoApiKey]
  <2>1. p \in KeyPage
    BY <1>1, Zenon DEF KeyPage
  <2>2. Follows(p)
    BY <1>3, <1>5, <2>1 DEF OpenModal, Follows, KeyPage
  <2> QED
    BY <1>5, <2>2, BecomesKeeps DEF OpenModal
<1>6. CASE CloseModal
  <2> DEFINE p == [keyPage EXCEPT !.modal = FALSE]
  <2>1. p \in KeyPage
    BY <1>1, Zenon DEF KeyPage
  <2>2. Follows(p)
    BY <1>3, <1>6, <2>1 DEF CloseModal, Follows, KeyPage
  <2> QED
    BY <1>6, <2>2, BecomesKeeps DEF CloseModal
<1>7. CASE DoneModal
  <2> DEFINE p == [keyPage EXCEPT !.modal = FALSE, !.data = NoApiKey]
  <2>1. p \in KeyPage
    BY <1>1, Zenon DEF KeyPage
  <2>2. Follows(p)
    BY <1>7, <1>3, <2>1 DEF DoneModal, OnScreen, Follows, KeyPage
  <2> QED
    BY <1>7, <2>2, BecomesKeeps DEF DoneModal
<1>8. ASSUME NEW b \in BOOLEAN, keyPage.open PROVE Follows([keyPage EXCEPT !.revoking = b])
  <2>1. [keyPage EXCEPT !.revoking = b] \in KeyPage
    BY <1>1, Zenon DEF KeyPage
  <2> QED
    BY <1>8, <2>1 DEF Follows, KeyPage
<1>9. CASE AskRevoke \/ EndRevoke
  BY <1>8, <1>9, <1>3, BecomesKeeps DEF AskRevoke, EndRevoke
<1> QED
  BY <1>2, <1>4, <1>5, <1>6, <1>7, <1>9

\* The creation: sent, made by the API, answered or not.
LEMMA SubmitStep == ASSUME KeyInv, SubmitKey PROVE KeyInv'
<1> DEFINE p == [keyPage EXCEPT !.creating = TRUE, !.call = "sent"]
<1> USE DEF KeyInv, KeyTypeOK, Histories
<1>1. keyPage.modal /\ keyPage.data = NoApiKey /\ Becomes(p) /\ created' = created
  BY DEF SubmitKey
<1>2. p \in KeyPage
  BY Zenon DEF KeyPage
<1>3. p.data = NoApiKey /\ p.call = "sent" /\ p.open /\ p.creating
  BY <1>1 DEF KeyPage, NoKeyPage
<1> HIDE DEF p
<1>4. OnScreen(p) = {} /\ OnScreen(keyPage) = {}
  BY <1>1, <1>3 DEF OnScreen
<1>5. keyPage' = p
  BY <1>1 DEF Becomes
<1>6. /\ known' \in [Histories -> SUBSET ApiKeys]
      /\ known'["seen"] = known["seen"] /\ known'["lost"] = known["lost"]
      /\ known'["dismissed"] = known["dismissed"] /\ known'["hidden"] = known["hidden"]
  BY <1>1, <1>4 DEF Becomes
<1>7. ~(keyPage.call = "done")
  BY DEF SubmitKey
<1>8. OnScreen(keyPage)' = {}
  BY <1>4, <1>5 DEF OnScreen
<1>9. UnseenForAReason'
  BY <1>1, <1>6, <1>7 DEF UnseenForAReason
<1> QED
  BY <1>1, <1>2, <1>3, <1>5, <1>6, <1>8, <1>9 DEF ShownOnlyOnce

\* The API makes the key while its page waits.
LEMMA CreateStep == ASSUME KeyInv, CreateApiKey PROVE KeyInv'
<1> DEFINE p == [keyPage EXCEPT !.call = "done"]
<1> USE DEF KeyInv, KeyTypeOK, Histories
<1>1. /\ keyPage.call = "sent" /\ Becomes(p) /\ created' = created + 1
      /\ created \in 0 .. MaxKeys /\ created + 1 \in 0 .. MaxKeys
  BY ApiKeysAssumption DEF CreateApiKey
<1>2. p \in KeyPage
  BY Zenon DEF KeyPage
<1>3. p.data = NoApiKey /\ p.call = "done" /\ p.open /\ p.creating
  BY <1>1 DEF KeyPage, NoKeyPage
<1> HIDE DEF p
<1>4. OnScreen(p) = {} /\ OnScreen(keyPage) = {}
  BY <1>1, <1>3 DEF OnScreen
<1>5. keyPage' = p
  BY <1>1 DEF Becomes
<1>6. /\ known' \in [Histories -> SUBSET ApiKeys]
      /\ known'["seen"] = known["seen"] /\ known'["lost"] = known["lost"]
      /\ known'["dismissed"] = known["dismissed"] /\ known'["hidden"] = known["hidden"]
  BY <1>1, <1>4 DEF Becomes
<1>7. OnScreen(keyPage)' = {}
  BY <1>4, <1>5 DEF OnScreen
<1>8. known["seen"] \subseteq 1 .. created + 1 /\ created + 1 \notin known["seen"]
  BY <1>1
<1>9. UnseenForAReason'
  BY <1>1, <1>3, <1>5, <1>6 DEF UnseenForAReason
<1> QED
  BY <1>1, <1>2, <1>3, <1>5, <1>6, <1>7, <1>8, <1>9 DEF ShownOnlyOnce

\* The answer: shown if the window is open, held if it is not.
LEMMA CreatedStep == ASSUME KeyInv, KeyCreated PROVE KeyInv'
<1> USE DEF KeyInv, KeyTypeOK, Histories
<1>1. PICK l \in {"session", "nothing"} :
        LET page == [Stored(keyPage) EXCEPT !.listed = l] IN
          /\ keyPage' = page
          /\ known' = [known EXCEPT
               !["received"] = @ \cup {created},
               !["seen"] = @ \cup OnScreen(page),
               !["dismissed"] = @ \cup {k \in {created} : ~keyPage.modal}]
  BY DEF KeyCreated, FetchKeys
<1> DEFINE p == [Stored(keyPage) EXCEPT !.listed = l]
<1>2. /\ keyPage.call = "done" /\ created' = created /\ created \in ApiKeys
      /\ created \in 1 .. created /\ created # NoApiKey
  BY ApiKeysAssumption DEF KeyCreated, ApiKeys, NoApiKey
<1>3. p \in KeyPage
  <2>1. created \in ApiKeys \cup {NoApiKey}
    BY <1>2
  <2>2. Stored(keyPage) \in KeyPage
    BY <2>1, Zenon DEF Stored, KeyPage
  <2> QED
    BY <2>2, Zenon DEF KeyPage
<1>4. p.data = created /\ p.call = "none" /\ p.open /\ p.modal = keyPage.modal
  BY <1>2 DEF Stored, KeyPage, NoKeyPage
<1> HIDE DEF p
<1>5. keyPage' = p
  BY <1>1 DEF p
<1>6. OnScreen(p) = IF keyPage.modal THEN {created} ELSE {}
  BY <1>2, <1>4 DEF OnScreen
<1>7. /\ known' \in [Histories -> SUBSET ApiKeys]
      /\ known'["seen"] = known["seen"] \cup OnScreen(p)
      /\ known'["lost"] = known["lost"] /\ known'["hidden"] = known["hidden"]
      /\ known'["dismissed"] = known["dismissed"] \cup {k \in {created} : ~keyPage.modal}
  BY <1>1, <1>2, <1>6 DEF p
<1>8. OnScreen(keyPage)' = OnScreen(p)
  BY <1>5 DEF OnScreen
<1>9. ShownOnlyOnce'
  BY <1>2, <1>6, <1>7, <1>8 DEF ShownOnlyOnce
<1>10. UnseenForAReason'
  BY <1>2, <1>6, <1>7 DEF UnseenForAReason
<1> QED
  BY <1>2, <1>3, <1>4, <1>5, <1>6, <1>7, <1>8, <1>9, <1>10

\* What is in flight is lost with a failure, what is held with the page.
LEMMA LossStep == ASSUME KeyInv, CreationFails \/ CloseKeys PROVE KeyInv'
<1> USE DEF KeyInv, KeyTypeOK, Histories
<1>1. /\ created' = created
      /\ keyPage.call = "done" => created \in ApiKeys
      /\ OnScreen(keyPage) \subseteq ApiKeys
  BY ApiKeysAssumption DEF CreationFails, CloseKeys, ApiKeys, OnScreen, KeyPage
<1>2. CASE CreationFails
  <2> DEFINE p == [keyPage EXCEPT !.creating = FALSE, !.call = "none"]
  <2>1. p \in KeyPage
    BY Zenon DEF KeyPage
  <2>2. p.data = NoApiKey /\ p.call = "none" /\ p.open /\ keyPage.data = NoApiKey
    BY <1>2 DEF CreationFails, KeyPage, NoKeyPage
  <2>3. keyPage' = p
    BY <1>2 DEF CreationFails
  <2> HIDE DEF p
  <2>4. OnScreen(keyPage)' = {}
    BY <2>2, <2>3 DEF OnScreen
  <2>5. /\ known' \in [Histories -> SUBSET ApiKeys]
        /\ known'["seen"] = known["seen"] /\ known'["hidden"] = known["hidden"]
        /\ known'["lost"] = known["lost"] \cup {k \in {created} : keyPage.call = "done"}
        /\ known'["dismissed"] = known["dismissed"]
    BY <1>1, <1>2 DEF CreationFails
  <2>6. UnseenForAReason'
    BY <1>1, <2>5 DEF UnseenForAReason
  <2> QED
    BY <1>1, <2>1, <2>2, <2>3, <2>4, <2>5, <2>6 DEF ShownOnlyOnce
<1>3. CASE CloseKeys
  <2> DEFINE gone == {k \in {created} : keyPage.call = "done"}
                       \cup ({keyPage.data} \ ({NoApiKey} \cup known["seen"]))
  <2>1. keyPage' = NoKeyPage
    BY <1>3 DEF CloseKeys
  <2>2. /\ NoKeyPage.data = NoApiKey /\ NoKeyPage.call = "none" /\ ~NoKeyPage.open
        /\ ~NoKeyPage.modal
    BY DEF NoKeyPage
  <2>3. OnScreen(keyPage)' = {}
    BY <2>1, <2>2 DEF OnScreen
  <2>4. gone \subseteq ApiKeys /\ (keyPage.call = "done" => created \in gone)
    BY <1>1 DEF KeyPage
  <2>5. /\ known' = [known EXCEPT !["hidden"] = @ \cup OnScreen(keyPage), !["lost"] = @ \cup gone]
    BY <1>3 DEF CloseKeys
  <2> HIDE DEF gone
  <2>6. /\ known' \in [Histories -> SUBSET ApiKeys]
        /\ known'["seen"] = known["seen"] /\ known'["lost"] = known["lost"] \cup gone
        /\ known'["hidden"] = known["hidden"] \cup OnScreen(keyPage)
        /\ known'["dismissed"] = known["dismissed"]
    BY <1>1, <2>4, <2>5
  <2>7. UnseenForAReason'
    BY <1>1, <2>4, <2>6 DEF UnseenForAReason
  <2> QED
    BY <1>1, <2>1, <2>2, <2>3, <2>6, <2>7, NoKeyPageType DEF ShownOnlyOnce
<1> QED
  BY <1>2, <1>3

LEMMA KeysStep == KeyInv /\ [KeysNext]_keyVars => KeyInv'
<1> SUFFICES ASSUME KeyInv, [KeysNext]_keyVars PROVE KeyInv'
  OBVIOUS
<1>1. CASE UNCHANGED keyVars
  BY <1>1 DEF keyVars, KeyInv, KeyTypeOK, OnScreen, ShownOnlyOnce, UnseenForAReason
<1>2. CASE KeysNext
  BY <1>2, WindowStep, SubmitStep, CreateStep, CreatedStep, LossStep DEF KeysNext, CreationDenied
<1> QED
  BY <1>1, <1>2

LEMMA KeysStart == KeysInit => KeyInv
<1> SUFFICES ASSUME KeysInit PROVE KeyInv
  OBVIOUS
<1>1. /\ NoKeyPage.data = NoApiKey /\ NoKeyPage.call = "none" /\ ~NoKeyPage.modal
  BY DEF NoKeyPage
<1> QED
  BY <1>1, NoKeyPageType, ApiKeysAssumption
     DEF KeysInit, KeyInv, KeyTypeOK, OnScreen, ShownOnlyOnce, UnseenForAReason, Histories

\* Types: a key is held, shown or lost only once the API has created it.
THEOREM KeyTypes == KeysSpec => []KeyTypeOK
<1>1. KeyInv => KeyTypeOK
  BY DEF KeyInv
<1> QED
  BY <1>1, KeysStart, KeysStep, PTL DEF KeysSpec

\* A key that left the screen never comes back to it, whichever buttons are pressed and
\* whenever the answer comes.
THEOREM KeysShownOnce == KeysSpec => []ShownOnlyOnce
<1>1. KeyInv => ShownOnlyOnce
  BY DEF KeyInv
<1> QED
  BY <1>1, KeysStart, KeysStep, PTL DEF KeysSpec

\* No key goes unseen but by a loss, or by a window closed while it was on its way.
THEOREM KeysAreAccountedFor == KeysSpec => []UnseenForAReason
<1>1. KeyInv => UnseenForAReason
  BY DEF KeyInv
<1> QED
  BY <1>1, KeysStart, KeysStep, PTL DEF KeysSpec

-------------------------------------------------------------------------------
(* The integrations page.                                                  *)

\* One request at a time: at rest, and while deliveries are asked for, the rows are those
\* of the API, and so are the rows of an answer; every other request ends by asking again.
Current(page, rows) == ~page.muddled =>
    /\ Len(page.calls) <= 1
    /\ page.open /\ ~page.error /\ (page.calls = <<>> \/ page.calls[1].kind = "view")
         => page.rows = rows
    /\ page.calls # <<>> /\ page.calls[1].kind = "list" /\ page.calls[1].done
         => page.calls[1].rows = rows

\* One request at a time: the deliveries held are those of the row selected, or these have
\* been asked for and a spinner is shown.
Own(page) == ~page.mixed =>
    /\ Len(page.calls) <= 1
    /\ IF page.calls # <<>> /\ page.calls[1].kind = "view"
       THEN page.viewing /\ page.calls[1].id = page.selected
       ELSE ~page.viewing /\ page.deliveries = page.selected

HookInv ==
    /\ HookTypeOK
    /\ ~hookPage.open => hookPage = NoHookPage
    /\ Current(hookPage, ServerRows) /\ Own(hookPage)

LEMMA NoHookPageType == NoHookPage \in HookPage
<1>1. /\ {} \in SUBSET HookRow /\ NoHook \in Hooks \cup {NoHook} /\ <<>> \in Seq(HookCall)
      /\ FALSE \in BOOLEAN
  OBVIOUS
<1> QED
  BY <1>1, Zenon DEF NoHookPage, HookPage

LEMMA NewCallType ==
    ASSUME NEW kind \in {"list", "create", "toggle", "delete", "view"}, NEW id \in Hooks \cup {NoHook}
    PROVE  /\ NewCall(kind, id) \in HookCall
           /\ NewCall(kind, id).kind = kind /\ ~NewCall(kind, id).done /\ NewCall(kind, id).id = id
<1>1. {} \in SUBSET HookRow /\ FALSE \in BOOLEAN
  OBVIOUS
<1>2. NewCall(kind, id) \in HookCall
  BY <1>1, Zenon DEF NewCall, HookCall
<1> QED
  BY <1>2 DEF NewCall

\* What the page remembers of a request it sends.
LEMMA Sent ==
    ASSUME NEW page \in HookPage, NEW call \in HookCall
    PROVE  LET q == Sending(page, call) IN
           /\ q \in HookPage
           /\ q.open = page.open /\ q.rows = page.rows /\ q.error = page.error
           /\ q.selected = page.selected /\ q.deliveries = page.deliveries
           /\ q.viewing = page.viewing
           /\ q.calls # <<>>
           /\ page.calls = <<>> => /\ Len(q.calls) <= 1 /\ q.calls[1] = call
                                   /\ q.muddled = IF call.kind = "list" THEN FALSE ELSE page.muddled
                                   /\ q.mixed = IF call.kind = "view" THEN FALSE ELSE page.mixed
           /\ page.calls # <<>> => q.muddled /\ q.mixed
<1> DEFINE alone == page.calls = <<>>
           seq == Append(page.calls, call)
           muddled == IF call.kind = "list" /\ alone THEN FALSE ELSE page.muddled \/ ~alone
           mixed == IF call.kind = "view" /\ alone THEN FALSE ELSE page.mixed \/ ~alone
           q == [page EXCEPT !.calls = seq, !.muddled = muddled, !.mixed = mixed]
<1>1. Sending(page, call) = q
  BY DEF Sending
<1>2. page.calls \in Seq(HookCall) /\ page.muddled \in BOOLEAN /\ page.mixed \in BOOLEAN
  BY DEF HookPage
<1>3. /\ seq \in Seq(HookCall) /\ seq # <<>> /\ Len(seq) = Len(page.calls) + 1
      /\ seq[Len(page.calls) + 1] = call
  BY <1>2, AppendProperties
<1>4. alone => Len(seq) <= 1 /\ seq[1] = call
  <2>1. Len(<<>>) = 0
    BY EmptySeq
  <2> HIDE DEF seq
  <2> DEFINE n == Len(seq)
  <2>2. alone => n = 1 /\ seq[1] = call
    BY <1>3, <2>1
  <2> HIDE DEF n
  <2>3. alone => n <= 1
    BY <2>2
  <2> QED
    BY <2>2, <2>3 DEF n
<1>5. /\ muddled \in BOOLEAN /\ mixed \in BOOLEAN
      /\ alone => /\ muddled = IF call.kind = "list" THEN FALSE ELSE page.muddled
                  /\ mixed = IF call.kind = "view" THEN FALSE ELSE page.mixed
      /\ ~alone => muddled /\ mixed
  BY <1>2
<1> HIDE DEF seq, muddled, mixed
<1>6. q \in HookPage
  BY <1>3, <1>5, Zenon DEF HookPage
<1>7. /\ q.open = page.open /\ q.rows = page.rows /\ q.error = page.error
      /\ q.selected = page.selected /\ q.deliveries = page.deliveries
      /\ q.viewing = page.viewing /\ q.calls = seq /\ q.muddled = muddled /\ q.mixed = mixed
  BY DEF HookPage
<1> HIDE DEF q
<1> QED
  BY <1>1, <1>3, <1>4, <1>5, <1>6, <1>7

\* Any request but for deliveries leaves them what they are, and its answer brings the rows.
LEMMA SendsOther ==
    ASSUME NEW page \in HookPage, NEW call \in HookCall, NEW rows,
           call.kind # "view", ~call.done,
           page.calls = <<>> /\ ~page.mixed => ~page.viewing /\ page.deliveries = page.selected
    PROVE  LET q == Sending(page, call) IN
           q \in HookPage /\ q.open = page.open /\ Current(q, rows) /\ Own(q)
<1> DEFINE q == Sending(page, call)
<1>1. /\ q \in HookPage /\ q.open = page.open /\ q.selected = page.selected
      /\ q.deliveries = page.deliveries /\ q.viewing = page.viewing /\ q.calls # <<>>
      /\ page.calls = <<>> => Len(q.calls) <= 1 /\ q.calls[1] = call /\ q.mixed = page.mixed
      /\ page.calls # <<>> => q.muddled /\ q.mixed
  BY Sent
<1> HIDE DEF q
<1>2. CASE page.calls = <<>>
  <2>1. Len(q.calls) <= 1 /\ q.calls[1] = call /\ q.mixed = page.mixed
    BY <1>1, <1>2
  <2> QED
    BY <1>1, <1>2, <2>1 DEF Current, Own, q
<1>3. CASE page.calls # <<>>
  BY <1>1, <1>3 DEF Current, Own, q
<1> QED
  BY <1>2, <1>3

\* Asking for deliveries leaves the rows what they are.
LEMMA SendsView ==
    ASSUME NEW page \in HookPage, NEW call \in HookCall, NEW rows,
           call.kind = "view", ~call.done, page.viewing, call.id = page.selected,
           page.calls = <<>> /\ ~page.muddled /\ page.open /\ ~page.error => page.rows = rows
    PROVE  LET q == Sending(page, call) IN
           q \in HookPage /\ q.open = page.open /\ Current(q, rows) /\ Own(q)
<1> DEFINE q == Sending(page, call)
<1>1. /\ q \in HookPage /\ q.open = page.open /\ q.rows = page.rows /\ q.error = page.error
      /\ q.selected = page.selected /\ q.viewing = page.viewing /\ q.calls # <<>>
      /\ page.calls = <<>> => Len(q.calls) <= 1 /\ q.calls[1] = call /\ q.muddled = page.muddled
      /\ page.calls # <<>> => q.muddled /\ q.mixed
  <2>1. /\ q \in HookPage /\ q.open = page.open /\ q.rows = page.rows /\ q.error = page.error
        /\ q.selected = page.selected /\ q.viewing = page.viewing /\ q.calls # <<>>
    BY Sent
  <2>2. page.calls = <<>> => /\ Len(q.calls) <= 1 /\ q.calls[1] = call
                             /\ q.muddled = IF call.kind = "list" THEN FALSE ELSE page.muddled
    BY Sent
  <2>3. page.calls # <<>> => q.muddled /\ q.mixed
    BY Sent
  <2> HIDE DEF q
  <2> QED
    BY <2>1, <2>2, <2>3
<1> HIDE DEF q
<1>2. CASE page.calls = <<>>
  <2>1. Len(q.calls) <= 1 /\ q.calls[1] = call /\ q.muddled = page.muddled
    BY <1>1, <1>2
  <2> QED
    BY <1>1, <1>2, <2>1 DEF Current, Own, q
<1>3. CASE page.calls # <<>>
  BY <1>1, <1>3 DEF Current, Own, q
<1> QED
  BY <1>2, <1>3

\* The page without one of its requests: at rest, if that was the only one.
LEMMA Less ==
    ASSUME HookInv, NEW i \in DOMAIN hookPage.calls
    PROVE  /\ WithoutCall(i) \in HookPage
           /\ WithoutCall(i) = [hookPage EXCEPT !.calls = WithoutCall(i).calls]
           /\ WithoutCall(i).open = hookPage.open /\ hookPage.open
           /\ Len(hookPage.calls) <= 1 => i = 1 /\ Len(hookPage.calls) = 1 /\ WithoutCall(i).calls = <<>>
           /\ hookPage.calls[i] \in HookCall /\ hookPage.calls # <<>>
<1> DEFINE s == hookPage.calls  n == Len(s)
           rest == SubSeq(s, 1, i - 1) \o SubSeq(s, i + 1, n)
<1>1. hookPage \in HookPage /\ s \in Seq(HookCall)
  BY DEF HookInv, HookTypeOK, HookPage
<1>2. n \in Nat /\ DOMAIN s = 1 .. n /\ i \in 1 .. n /\ \A j \in 1 .. n : s[j] \in HookCall
  BY <1>1, LenProperties, ElementOfSeq
<1>3. rest \in Seq(HookCall)
  <2>1. i - 1 \in Int /\ 1 \in Int /\ \A j \in 1 .. (i - 1) : s[j] \in HookCall
    BY <1>2
  <2>2. SubSeq(s, 1, i - 1) \in Seq(HookCall)
    BY <2>1, SubSeqProperties
  <2>3. i + 1 \in Int /\ n \in Int /\ \A j \in (i + 1) .. n : s[j] \in HookCall
    BY <1>2
  <2>4. SubSeq(s, i + 1, n) \in Seq(HookCall)
    <3> DEFINE m == i + 1
    <3>1. m \in Int /\ n \in Int /\ \A j \in m .. n : s[j] \in HookCall
      BY <2>3
    <3> HIDE DEF m, n
    <3>2. SubSeq(s, m, n) \in Seq(HookCall)
      BY <3>1, SubSeqProperties
    <3> QED
      BY <3>2 DEF m
  <2> QED
    BY <2>2, <2>4, ConcatProperties
<1>4. ASSUME n <= 1 PROVE i = 1 /\ n = 1 /\ rest = <<>>
  <2>1. i = 1 /\ n = 1
    <3> HIDE DEF n
    <3> QED
      BY <1>2, <1>4
  <2>2. SubSeq(s, 1, 0) = <<>> /\ SubSeq(s, 2, 1) = <<>>
    BY SubSeqEmpty
  <2>3. rest = <<>> \o <<>>
    <3>1. i - 1 = 0 /\ i + 1 = 2 /\ n = 1
      BY <2>1
    <3> QED
      BY <2>2, <3>1
  <2>4. <<>> \o <<>> = <<>>
    BY ConcatEmptySeq, EmptySeq
  <2> QED
    BY <2>1, <2>3, <2>4
<1>5. WithoutCall(i) = [hookPage EXCEPT !.calls = rest]
  BY DEF WithoutCall
<1>6. s # <<>>
  BY <1>2
<1>7. hookPage.open
  BY <1>6 DEF HookInv, NoHookPage
<1> HIDE DEF rest
<1>8. WithoutCall(i) \in HookPage /\ WithoutCall(i).calls = rest /\ WithoutCall(i).open = hookPage.open
  <2>1. WithoutCall(i) \in HookPage
    BY <1>1, <1>3, <1>5, Zenon DEF HookPage
  <2> QED
    BY <1>1, <1>5, <2>1 DEF HookPage
<1> QED
  BY <1>2, <1>4, <1>5, <1>6, <1>7, <1>8

\* What the API has.
HooksTyped ==
    /\ made \in 0 .. MaxHooks
    /\ DOMAIN enabled \subseteq 1 .. made /\ \A h \in DOMAIN enabled : enabled[h] \in BOOLEAN

LEMMA ServerRowsType == ASSUME HooksTyped PROVE ServerRows \subseteq HookRow
<1>1. DOMAIN enabled \subseteq Hooks
  BY WebhooksAssumption DEF HooksTyped, Hooks
<1> QED
  BY <1>1 DEF HooksTyped, ServerRows, HookRow

\* A step of the page alone.
LEMMA PageStep ==
    ASSUME HookInv, UNCHANGED hookServer, hookPage' \in HookPage,
           ~hookPage'.open => hookPage' = NoHookPage,
           Current(hookPage', ServerRows), Own(hookPage')
    PROVE  HookInv'
<1>1. made' = made /\ enabled' = enabled /\ ServerRows' = ServerRows
  BY DEF hookServer, ServerRows
<1>2. HookTypeOK'
  BY <1>1 DEF HookInv, HookTypeOK
<1>3. Current(hookPage, ServerRows)' /\ Own(hookPage)'
  BY <1>1 DEF Current, Own
<1> QED
  BY <1>2, <1>3 DEF HookInv

LEMMA Loads ==
    ASSUME NEW page \in HookPage, NEW rows,
           page.calls = <<>> /\ ~page.mixed => ~page.viewing /\ page.deliveries = page.selected
    PROVE  LET q == LoadWebhooks(page) IN
           q \in HookPage /\ q.open = page.open /\ Current(q, rows) /\ Own(q)
<1> DEFINE p == [page EXCEPT !.loading = TRUE, !.error = FALSE]
           c == NewCall("list", NoHook)
<1>1. p \in HookPage
  BY Zenon DEF HookPage
<1>2. /\ p.open = page.open /\ p.calls = page.calls /\ p.mixed = page.mixed
      /\ p.viewing = page.viewing /\ p.deliveries = page.deliveries /\ p.selected = page.selected
  BY DEF HookPage
<1>3. c \in HookCall /\ c.kind = "list" /\ ~c.done
  <2>1. NoHook \in Hooks \cup {NoHook}
    OBVIOUS
  <2> QED
    BY <2>1, NewCallType
<1>4. LoadWebhooks(page) = Sending(p, c)
  BY DEF LoadWebhooks
<1> HIDE DEF p, c
<1> QED
  BY <1>1, <1>2, <1>3, <1>4, SendsOther

LEMMA HooksUserStep ==
    ASSUME HookInv, HooksUser
    PROVE  HookInv'
<1>1. /\ hookPage \in HookPage /\ hookPage.rows \subseteq HookRow /\ UNCHANGED hookServer
      /\ hookPage.calls = <<>> /\ ~hookPage.mixed
           => ~hookPage.viewing /\ hookPage.deliveries = hookPage.selected
      /\ hookPage.calls = <<>> /\ ~hookPage.muddled /\ hookPage.open /\ ~hookPage.error
           => hookPage.rows = ServerRows
  BY DEF HookInv, HookTypeOK, HookPage, Own, Current, HooksUser, OpenHooks, CloseHooks, RefreshHooks,
         CreateWebhook, ToggleWebhook, DeleteWebhook, ViewDeliveries, DismissSecret
<1>2. CASE OpenHooks
  <2> DEFINE p == [NoHookPage EXCEPT !.open = TRUE]
  <2>1. p \in HookPage
    BY NoHookPageType, Zenon DEF HookPage
  <2>2. /\ p.open /\ p.calls = <<>> /\ ~p.viewing /\ p.deliveries = p.selected
        /\ hookPage' = LoadWebhooks(p)
    BY <1>2 DEF OpenHooks, NoHookPage
  <2> HIDE DEF p
  <2> QED
    BY <1>1, <2>1, <2>2, Loads, PageStep
<1>3. CASE CloseHooks
  <2>1. hookPage' = NoHookPage
    BY <1>3 DEF CloseHooks
  <2>2. Current(NoHookPage, ServerRows) /\ Own(NoHookPage)
    <3>1. Len(<<>>) <= 1
      OBVIOUS
    <3> QED
      BY <3>1 DEF Current, Own, NoHookPage
  <2> QED
    BY <1>1, <2>1, <2>2, NoHookPageType, PageStep
<1>4. CASE RefreshHooks
  <2>1. hookPage' = LoadWebhooks(hookPage) /\ hookPage.open
    BY <1>4 DEF RefreshHooks
  <2> QED
    BY <1>1, <2>1, Loads, PageStep
<1>5. CASE CreateWebhook
  <2> DEFINE p == [hookPage EXCEPT !.loading = TRUE, !.error = FALSE, !.secret = NoHook]
             c == NewCall("create", NoHook)
  <2>1. hookPage' = Sending(p, c) /\ hookPage.open
    BY <1>5 DEF CreateWebhook
  <2>2. p \in HookPage
    BY <1>1, Zenon DEF HookPage
  <2>3. /\ p.open = hookPage.open /\ p.calls = hookPage.calls /\ p.mixed = hookPage.mixed
        /\ p.viewing = hookPage.viewing /\ p.deliveries = hookPage.deliveries
        /\ p.selected = hookPage.selected
    BY <1>1 DEF HookPage
  <2>4. c \in HookCall /\ c.kind = "create" /\ ~c.done
    <3>1. NoHook \in Hooks \cup {NoHook}
      OBVIOUS
    <3> QED
      BY <3>1, NewCallType
  <2> HIDE DEF p, c
  <2> QED
    BY <1>1, <2>1, <2>2, <2>3, <2>4, SendsOther, PageStep
<1>6. CASE ToggleWebhook \/ DeleteWebhook
  <2> DEFINE p == [hookPage EXCEPT !.error = FALSE]
  <2>1. PICK c \in HookCall : /\ hookPage' = Sending(p, c)
                              /\ c.kind # "view" /\ ~c.done
    <3>1. CASE ToggleWebhook
      <4>1. PICK row \in hookPage.rows :
              hookPage' = Sending(p, [NewCall("toggle", row.id) EXCEPT !.on = ~row.on])
        BY <3>1 DEF ToggleWebhook
      <4> DEFINE new == NewCall("toggle", row.id)  on == ~row.on  c == [new EXCEPT !.on = on]
      <4>2. row.id \in Hooks \cup {NoHook} /\ on \in BOOLEAN
        BY <1>1 DEF HookRow
      <4>3. new \in HookCall /\ new.kind = "toggle" /\ ~new.done
        BY <4>2, NewCallType
      <4>4. hookPage' = Sending(p, c)
        BY <4>1
      <4> HIDE DEF new, on, p
      <4>5. c \in HookCall
        BY <4>2, <4>3, Zenon DEF HookCall
      <4>6. c.kind = "toggle" /\ ~c.done
        BY <4>3 DEF HookCall
      <4> QED
        BY <4>4, <4>5, <4>6
    <3>2. CASE DeleteWebhook
      <4>1. PICK row \in hookPage.rows : hookPage' = Sending(p, NewCall("delete", row.id))
        BY <3>2 DEF DeleteWebhook
      <4>2. row.id \in Hooks \cup {NoHook}
        BY <1>1 DEF HookRow
      <4>3. /\ NewCall("delete", row.id) \in HookCall /\ NewCall("delete", row.id).kind = "delete"
            /\ ~NewCall("delete", row.id).done
        BY <4>2, NewCallType
      <4> QED
        BY <4>1, <4>3
    <3> QED
      BY <1>6, <3>1, <3>2
  <2>2. p \in HookPage /\ hookPage.open
    BY <1>1, <1>6, Zenon DEF HookPage, ToggleWebhook, DeleteWebhook
  <2>3. /\ p.open = hookPage.open /\ p.calls = hookPage.calls /\ p.mixed = hookPage.mixed
        /\ p.viewing = hookPage.viewing /\ p.deliveries = hookPage.deliveries
        /\ p.selected = hookPage.selected
    BY <1>1 DEF HookPage
  <2> HIDE DEF p
  <2> QED
    BY <1>1, <2>1, <2>2, <2>3, SendsOther, PageStep
<1>7. CASE ViewDeliveries
  <2>1. PICK row \in hookPage.rows :
          hookPage' = Sending([hookPage EXCEPT !.selected = row.id, !.viewing = TRUE],
                              NewCall("view", row.id))
    BY <1>7 DEF ViewDeliveries
  <2> DEFINE id == row.id
             p == [hookPage EXCEPT !.selected = id, !.viewing = TRUE]
             c == NewCall("view", id)
  <2>2. id \in Hooks \cup {NoHook} /\ hookPage.open
    BY <1>1, <1>7 DEF HookRow, ViewDeliveries
  <2> HIDE DEF id
  <2>3. p \in HookPage
    BY <1>1, <2>2, Zenon DEF HookPage
  <2>4. /\ p.open = hookPage.open /\ p.calls = hookPage.calls /\ p.muddled = hookPage.muddled
        /\ p.rows = hookPage.rows /\ p.error = hookPage.error /\ p.selected = id /\ p.viewing
    BY <1>1 DEF HookPage
  <2>5. c \in HookCall /\ c.kind = "view" /\ ~c.done /\ c.id = id
    BY <2>2, NewCallType
  <2>6. hookPage' = Sending(p, c)
    BY <2>1 DEF id
  <2> HIDE DEF p, c
  <2> QED
    BY <1>1, <2>2, <2>3, <2>4, <2>5, <2>6, SendsView, PageStep
<1>8. CASE DismissSecret
  <2>1. hookPage' = [hookPage EXCEPT !.secret = NoHook] /\ hookPage.open
    BY <1>8 DEF DismissSecret, HookInv, NoHookPage
  <2>2. hookPage' \in HookPage
    BY <1>1, <2>1, Zenon DEF HookPage
  <2>3. /\ hookPage'.open /\ hookPage'.calls = hookPage.calls /\ hookPage'.mixed = hookPage.mixed
        /\ hookPage'.muddled = hookPage.muddled /\ hookPage'.rows = hookPage.rows
        /\ hookPage'.error = hookPage.error /\ hookPage'.viewing = hookPage.viewing
        /\ hookPage'.deliveries = hookPage.deliveries /\ hookPage'.selected = hookPage.selected
    BY <1>1, <2>1 DEF HookPage
  <2>4. Current(hookPage', ServerRows) /\ Own(hookPage')
    BY <2>1, <2>3 DEF HookInv, Current, Own
  <2> QED
    BY <1>1, <2>2, <2>3, <2>4, PageStep
<1> QED
  BY <1>2, <1>3, <1>4, <1>5, <1>6, <1>7, <1>8 DEF HooksUser

\* The API performs one request: its answer to a list is what it has, and it changes what
\* it has for no list and no view.
LEMMA PerformStep ==
    ASSUME HookInv, NEW i \in DOMAIN hookPage.calls, NEW c \in HookCall,
           hookPage' = [hookPage EXCEPT !.calls = [hookPage.calls EXCEPT ![i] = c]],
           HooksTyped', c.kind = hookPage.calls[i].kind,
           c.kind = "view" => c.id = hookPage.calls[i].id,
           c.kind = "list" => c.rows = ServerRows,
           c.kind \in {"list", "view"} => UNCHANGED hookServer
    PROVE  HookInv'
<1> DEFINE s == hookPage.calls  t == [s EXCEPT ![i] = c]
<1>1. hookPage \in HookPage /\ s \in Seq(HookCall)
  BY DEF HookInv, HookTypeOK, HookPage
<1>2. Len(s) \in Nat /\ DOMAIN s = 1 .. Len(s)
  BY <1>1, LenProperties
<1>3. /\ t \in Seq(HookCall) /\ Len(t) = Len(s)
      /\ \A j \in 1 .. Len(s) : t[j] = IF j = i THEN c ELSE s[j]
  BY <1>1, <1>2, ExceptSeq
<1>4. hookPage' = [hookPage EXCEPT !.calls = t]
  OBVIOUS
<1>5. s # <<>> /\ (Len(s) <= 1 => i = 1) /\ hookPage.open
  BY <1>2 DEF HookInv, NoHookPage
<1>6. Len(s) <= 1 => t # <<>> /\ t[1] = c /\ Len(t) <= 1
  <2> SUFFICES ASSUME Len(s) <= 1 PROVE t # <<>> /\ t[1] = c /\ Len(t) <= 1
    OBVIOUS
  <2>1. i = 1 /\ 1 \in 1 .. Len(s) /\ 1 \in DOMAIN t
    BY <1>2, <1>5
  <2>2. t # <<>>
    BY <2>1
  <2> HIDE DEF t
  <2> QED
    BY <1>3, <2>1, <2>2
<1> HIDE DEF s, t
<1>7. hookPage' \in HookPage
  BY <1>1, <1>3, <1>4, Zenon DEF HookPage
<1>8. /\ hookPage'.open = hookPage.open /\ hookPage'.rows = hookPage.rows
      /\ hookPage'.error = hookPage.error /\ hookPage'.selected = hookPage.selected
      /\ hookPage'.deliveries = hookPage.deliveries /\ hookPage'.viewing = hookPage.viewing
      /\ hookPage'.calls = t /\ hookPage'.muddled = hookPage.muddled
      /\ hookPage'.mixed = hookPage.mixed
  BY <1>1, <1>4 DEF HookPage
<1>9. UNCHANGED hookServer => ServerRows' = ServerRows
  BY DEF hookServer, ServerRows
<1>10. Len(s) <= 1 => s[1] = s[i]
  BY <1>5
<1>11. Current(hookPage', ServerRows')
  <2> SUFFICES ASSUME ~hookPage.muddled
               PROVE  /\ Len(t) <= 1
                      /\ ~hookPage.error /\ c.kind = "view" => hookPage.rows = ServerRows'
                      /\ c.kind = "list" => c.rows = ServerRows'
    BY <1>6, <1>8 DEF Current, HookInv, s
  <2>1. Len(s) <= 1 /\ (~hookPage.error /\ s[1].kind = "view" => hookPage.rows = ServerRows)
    BY <1>5 DEF HookInv, Current, s
  <2> QED
    BY <1>6, <1>9, <1>10, <2>1 DEF s
<1>12. Own(hookPage')
  <2>1. CASE hookPage.mixed
    BY <1>8, <2>1 DEF Own
  <2>2. CASE ~hookPage.mixed
    <3>1. /\ Len(s) <= 1
          /\ IF s[1].kind = "view" THEN hookPage.viewing /\ s[1].id = hookPage.selected
             ELSE ~hookPage.viewing /\ hookPage.deliveries = hookPage.selected
      BY <1>5, <2>2 DEF HookInv, Own, s
    <3>2. /\ t # <<>> /\ t[1] = c /\ Len(t) <= 1
          /\ IF c.kind = "view" THEN hookPage.viewing /\ c.id = hookPage.selected
             ELSE ~hookPage.viewing /\ hookPage.deliveries = hookPage.selected
      BY <1>6, <1>10, <3>1 DEF s
    <3> QED
      BY <1>8, <3>2 DEF Own
  <2> QED
    BY <2>1, <2>2
<1> QED
  BY <1>5, <1>7, <1>8, <1>11, <1>12 DEF HookInv, HookTypeOK, HooksTyped, Current, Own

LEMMA HooksApiStep ==
    ASSUME HookInv, HooksApi
    PROVE  HookInv'
<1> PICK i \in 1 .. MaxHookCalls :
      ListAtApi(i) \/ CreateAtApi(i) \/ ToggleAtApi(i) \/ DeleteAtApi(i) \/ ViewAtApi(i)
  BY DEF HooksApi
<1> DEFINE s == hookPage.calls  old == s[i]
<1>1. /\ hookPage \in HookPage /\ s \in Seq(HookCall) /\ i \in DOMAIN s /\ HooksTyped
  BY DEF HookInv, HookTypeOK, HooksTyped, HookPage, ListAtApi, CreateAtApi, ToggleAtApi,
         DeleteAtApi, ViewAtApi, Performs
<1>2. old \in HookCall
  <2>1. i \in 1 .. Len(s)
    BY <1>1, LenProperties
  <2> QED
    BY <1>1, <2>1, ElementOfSeq
<1>3. ServerRows \subseteq HookRow
  BY <1>1, ServerRowsType
<1>d. ASSUME Done(i)
      PROVE  LET c == [old EXCEPT !.done = TRUE] IN
             /\ hookPage' = [hookPage EXCEPT !.calls = [s EXCEPT ![i] = c]]
             /\ c \in HookCall /\ c.kind = old.kind /\ c.id = old.id
  <2> DEFINE c == [old EXCEPT !.done = TRUE]
  <2>1. hookPage' = [hookPage EXCEPT !.calls = [s EXCEPT ![i] = c]]
    BY <1>1, <1>d DEF Done
  <2> HIDE DEF old
  <2>2. c \in HookCall
    BY <1>2, Zenon DEF HookCall
  <2>3. c.kind = old.kind /\ c.id = old.id
    BY <1>2 DEF HookCall
  <2> QED
    BY <2>1, <2>2, <2>3 DEF old
<1>4. CASE ListAtApi(i)
  <2> DEFINE rows == ServerRows  c == [old EXCEPT !.done = TRUE, !.rows = rows]
  <2>1. /\ hookPage' = [hookPage EXCEPT !.calls = [s EXCEPT ![i] = c]]
        /\ old.kind = "list" /\ UNCHANGED hookServer
    BY <1>1, <1>4 DEF ListAtApi, Performs
  <2>2. HooksTyped'
    BY <1>1, <2>1 DEF HooksTyped, hookServer
  <2> HIDE DEF old, rows
  <2>3. c \in HookCall
    BY <1>2, <1>3, Zenon DEF HookCall, rows
  <2>4. c.kind = old.kind /\ c.rows = rows /\ c.id = old.id
    BY <1>2 DEF HookCall
  <2> HIDE DEF c
  <2> QED
    BY <1>1, <2>1, <2>2, <2>3, <2>4, PerformStep DEF old, rows
<1>5. CASE CreateAtApi(i)
  <2> DEFINE id == made + 1  c == [old EXCEPT !.done = TRUE, !.id = id]
  <2>1. /\ hookPage' = [hookPage EXCEPT !.calls = [s EXCEPT ![i] = c]] /\ old.kind = "create"
        /\ made < MaxHooks /\ made' = made + 1
        /\ enabled' = [h \in DOMAIN enabled \cup {made + 1} |-> h = made + 1 \/ enabled[h]]
    BY <1>1, <1>5 DEF CreateAtApi, Performs
  <2>2. HooksTyped' /\ id \in Hooks
    <3>1. made \in Nat /\ made + 1 \in 1 .. MaxHooks /\ 1 .. made \subseteq 1 .. (made + 1)
      BY <1>1, <2>1, WebhooksAssumption DEF HooksTyped
    <3>2. made' \in 0 .. MaxHooks
      BY <2>1, <3>1
    <3>3. DOMAIN enabled' = DOMAIN enabled \cup {made + 1}
      BY <2>1
    <3>4. DOMAIN enabled' \subseteq 1 .. made'
      BY <1>1, <2>1, <3>1, <3>3 DEF HooksTyped
    <3>5. \A h \in DOMAIN enabled' : enabled'[h] \in BOOLEAN
      BY <1>1, <2>1, <3>3 DEF HooksTyped
    <3> QED
      BY <3>1, <3>2, <3>4, <3>5 DEF HooksTyped, Hooks
  <2> HIDE DEF old, id
  <2>3. c \in HookCall
    BY <1>2, <2>2, Zenon DEF HookCall
  <2>4. c.kind = old.kind
    BY <1>2 DEF HookCall
  <2> HIDE DEF c
  <2> QED
    BY <1>1, <2>1, <2>2, <2>3, <2>4, PerformStep DEF old
<1>6. CASE ToggleAtApi(i) \/ DeleteAtApi(i) \/ ViewAtApi(i)
  <2>1. Done(i) /\ made' = made /\ old.kind \in {"toggle", "delete", "view"}
    BY <1>6 DEF ToggleAtApi, DeleteAtApi, ViewAtApi, Performs, hookServer
  <2>2. old.kind = "view" => UNCHANGED hookServer
    BY <1>6 DEF ToggleAtApi, DeleteAtApi, ViewAtApi, Performs
  <2>3. DOMAIN enabled' \subseteq DOMAIN enabled /\ \A h \in DOMAIN enabled' : enabled'[h] \in BOOLEAN
    <3>1. old.on \in BOOLEAN /\ \A h \in DOMAIN enabled : enabled[h] \in BOOLEAN
      BY <1>1, <1>2 DEF HookCall, HooksTyped
    <3>2. CASE ToggleAtApi(i)
      <4>1. enabled' = [enabled EXCEPT ![old.id] = old.on]
        BY <3>2 DEF ToggleAtApi
      <4> QED
        BY <3>1, <4>1
    <3>3. CASE DeleteAtApi(i)
      <4>1. enabled' = [h \in DOMAIN enabled \ {old.id} |-> enabled[h]]
        BY <3>3 DEF DeleteAtApi
      <4> QED
        BY <3>1, <4>1
    <3>4. CASE ViewAtApi(i)
      BY <3>1, <3>4 DEF ViewAtApi, hookServer
    <3> QED
      BY <1>6, <3>2, <3>3, <3>4
  <2>4. HooksTyped'
    BY <1>1, <2>1, <2>3 DEF HooksTyped
  <2> DEFINE c == [old EXCEPT !.done = TRUE]
  <2>5. /\ hookPage' = [hookPage EXCEPT !.calls = [s EXCEPT ![i] = c]]
        /\ c \in HookCall /\ c.kind = old.kind /\ c.id = old.id
    BY <1>d, <2>1
  <2> HIDE DEF c
  <2> QED
    BY <1>1, <2>1, <2>2, <2>4, <2>5, PerformStep
<1> QED
  BY <1>4, <1>5, <1>6

LEMMA ElsewhereStep ==
    ASSUME HookInv, Elsewhere
    PROVE  HookInv'
<1>1. hookPage \in HookPage /\ hookPage.open /\ hookPage' = [hookPage EXCEPT !.muddled = TRUE]
  BY DEF HookInv, HookTypeOK, Elsewhere
<1>2. hookPage' \in HookPage
  BY <1>1, Zenon DEF HookPage
<1>3. /\ hookPage'.open /\ hookPage'.muddled /\ hookPage'.calls = hookPage.calls
      /\ hookPage'.mixed = hookPage.mixed /\ hookPage'.viewing = hookPage.viewing
      /\ hookPage'.selected = hookPage.selected /\ hookPage'.deliveries = hookPage.deliveries
  BY <1>1 DEF HookPage
<1>4. HookTypeOK'
  <2>1. PICK h \in DOMAIN enabled : enabled' = [g \in DOMAIN enabled \ {h} |-> enabled[g]]
    BY DEF Elsewhere
  <2>2. made' = made
    BY DEF Elsewhere
  <2> QED
    BY <1>2, <2>1, <2>2 DEF HookInv, HookTypeOK
<1>5. Current(hookPage, ServerRows)' /\ Own(hookPage)'
  BY <1>3 DEF HookInv, Current, Own
<1> QED
  BY <1>3, <1>4, <1>5 DEF HookInv

\* An answer, or a failure: what the only request was for is there, or asked for again.
LEMMA HooksAnswerStep ==
    ASSUME HookInv, HooksAnswers
    PROVE  HookInv'
<1>1. CASE HookCallDenied
  BY <1>1, HooksUserStep DEF HookCallDenied, HooksUser
<1>2. ASSUME NEW i \in 1 .. MaxHookCalls,
             ListOk(i) \/ CreateOk(i) \/ ToggleOk(i) \/ DeleteOk(i) \/ ViewOk(i) \/ HookCallFails(i)
      PROVE  HookInv'
  <2> DEFINE old == hookPage.calls[i]  rest == WithoutCall(i).calls
  <2>1. i \in DOMAIN hookPage.calls /\ UNCHANGED hookServer /\ hookPage \in HookPage
    BY <1>2 DEF ListOk, CreateOk, ToggleOk, DeleteOk, ViewOk, HookCallFails, Answered, HookInv,
                HookTypeOK
  <2>2. /\ WithoutCall(i) \in HookPage /\ WithoutCall(i) = [hookPage EXCEPT !.calls = rest]
        /\ WithoutCall(i).open /\ hookPage.open /\ old \in HookCall /\ hookPage.calls # <<>>
        /\ Len(hookPage.calls) <= 1 => i = 1 /\ rest = <<>>
    BY <2>1, Less
  <2> DEFINE w == WithoutCall(i)
  <2>3. /\ w.rows = hookPage.rows /\ w.error = hookPage.error /\ w.loading = hookPage.loading
        /\ w.selected = hookPage.selected /\ w.deliveries = hookPage.deliveries
        /\ w.viewing = hookPage.viewing /\ w.muddled = hookPage.muddled
        /\ w.mixed = hookPage.mixed
    BY <2>1, <2>2 DEF HookPage
  <2>l. Len(<<>>) <= 1
    OBVIOUS
  <2>m. ~hookPage.muddled =>
          /\ rest = <<>>
          /\ old.kind = "view" /\ ~hookPage.error => hookPage.rows = ServerRows
          /\ old.kind = "list" /\ old.done => old.rows = ServerRows
    BY <2>2 DEF HookInv, Current
  <2>x. ~hookPage.mixed =>
          /\ rest = <<>>
          /\ IF old.kind = "view" THEN hookPage.viewing /\ old.id = hookPage.selected
             ELSE ~hookPage.viewing /\ hookPage.deliveries = hookPage.selected
    BY <2>2 DEF HookInv, Own
  <2> HIDE DEF w, rest, old
  <2>4. CASE ListOk(i)
    <3> DEFINE rows == old.rows
    <3>1. hookPage' = [w EXCEPT !.rows = rows, !.loading = FALSE] /\ old.kind = "list" /\ old.done
      BY <2>4 DEF ListOk, Answered, old, w
    <3>2. w \in HookPage /\ w.open /\ w.calls = rest /\ rows \subseteq HookRow
      BY <2>2 DEF HookCall, w, rest
    <3> HIDE DEF rows
    <3>3. hookPage' \in HookPage
      BY <3>1, <3>2, Zenon DEF HookPage
    <3>4. /\ hookPage'.open /\ hookPage'.rows = rows /\ hookPage'.calls = rest
          /\ hookPage'.muddled = hookPage.muddled /\ hookPage'.mixed = hookPage.mixed
          /\ hookPage'.viewing = hookPage.viewing /\ hookPage'.deliveries = hookPage.deliveries
          /\ hookPage'.selected = hookPage.selected
      BY <2>3, <3>1, <3>2 DEF HookPage
    <3>5. Current(hookPage', ServerRows) /\ Own(hookPage')
      BY <2>l, <2>m, <2>x, <3>1, <3>4 DEF Current, Own, rows
    <3> QED
      BY <2>1, <3>3, <3>4, <3>5, PageStep
  <2>5. CASE CreateOk(i) \/ ToggleOk(i)
    <3>1. PICK p \in HookPage :
            /\ hookPage' = LoadWebhooks(p) /\ p.open
            /\ p.calls = rest /\ p.mixed = w.mixed /\ p.viewing = w.viewing
            /\ p.deliveries = w.deliveries /\ p.selected = w.selected
      <4>1. w \in HookPage /\ w.open /\ w.calls = rest
        BY <2>2 DEF w, rest
      <4>2. CASE CreateOk(i)
        <5> DEFINE id == old.id  p == [w EXCEPT !.secret = id]
        <5>1. id \in Hooks \cup {NoHook} /\ hookPage' = LoadWebhooks(p)
          BY <2>2, <4>2 DEF CreateOk, HookCall, w, old
        <5> HIDE DEF id
        <5>2. p \in HookPage
          BY <4>1, <5>1, Zenon DEF HookPage
        <5>3. /\ p.open = w.open /\ p.calls = w.calls /\ p.mixed = w.mixed /\ p.viewing = w.viewing
              /\ p.deliveries = w.deliveries /\ p.selected = w.selected
          BY <4>1 DEF HookPage
        <5> QED
          BY <4>1, <5>1, <5>2, <5>3
      <4>3. CASE ToggleOk(i)
        BY <4>1, <4>3 DEF ToggleOk, w
      <4> QED
        BY <2>5, <4>2, <4>3
    <3>2. old.kind \in {"create", "toggle"}
      BY <2>5 DEF CreateOk, ToggleOk, Answered, old
    <3>3. p.calls = <<>> /\ ~p.mixed => ~p.viewing /\ p.deliveries = p.selected
      BY <2>3, <2>x, <3>1, <3>2
    <3>4. /\ hookPage' \in HookPage /\ hookPage'.open
          /\ Current(hookPage', ServerRows) /\ Own(hookPage')
      BY <3>1, <3>3, Loads
    <3> QED
      BY <2>1, <3>4, PageStep
  <2>6. CASE DeleteOk(i)
    <3>1. hookPage' = [w EXCEPT !.error = TRUE] /\ old.kind = "delete"
      BY <2>6 DEF DeleteOk, Answered, old, w
    <3>2. w \in HookPage /\ w.open /\ w.calls = rest
      BY <2>2 DEF w, rest
    <3>3. hookPage' \in HookPage
      BY <3>1, <3>2, Zenon DEF HookPage
    <3>4. /\ hookPage'.open /\ hookPage'.error /\ hookPage'.calls = rest
          /\ hookPage'.muddled = hookPage.muddled /\ hookPage'.mixed = hookPage.mixed
          /\ hookPage'.viewing = hookPage.viewing /\ hookPage'.deliveries = hookPage.deliveries
          /\ hookPage'.selected = hookPage.selected
      BY <2>3, <3>1, <3>2 DEF HookPage
    <3>5. Current(hookPage', ServerRows) /\ Own(hookPage')
      BY <2>l, <2>m, <2>x, <3>1, <3>4 DEF Current, Own
    <3> QED
      BY <2>1, <3>3, <3>4, <3>5, PageStep
  <2>7. CASE ViewOk(i)
    <3> DEFINE id == old.id
    <3>1. hookPage' = [w EXCEPT !.deliveries = id, !.viewing = FALSE] /\ old.kind = "view"
      BY <2>7 DEF ViewOk, Answered, old, w
    <3>2. w \in HookPage /\ w.open /\ w.calls = rest /\ id \in Hooks \cup {NoHook}
      BY <2>2 DEF HookCall, w, rest
    <3> HIDE DEF id
    <3>3. hookPage' \in HookPage
      BY <3>1, <3>2, Zenon DEF HookPage
    <3>4. /\ hookPage'.open /\ hookPage'.rows = hookPage.rows /\ hookPage'.error = hookPage.error
          /\ hookPage'.calls = rest /\ hookPage'.muddled = hookPage.muddled
          /\ hookPage'.mixed = hookPage.mixed /\ ~hookPage'.viewing
          /\ hookPage'.deliveries = id /\ hookPage'.selected = hookPage.selected
      BY <2>3, <3>1, <3>2 DEF HookPage
    <3>5. Current(hookPage', ServerRows) /\ Own(hookPage')
      BY <2>l, <2>m, <2>x, <3>1, <3>4 DEF Current, Own, id
    <3> QED
      BY <2>1, <3>3, <3>4, <3>5, PageStep
  <2>8. CASE HookCallFails(i)
    <3> DEFINE muddled == hookPage.muddled \/ old.kind # "view"
               loading == w.loading /\ old.kind \notin {"list", "create"}
               viewing == w.viewing /\ old.kind # "view"
    <3>1. hookPage' = [w EXCEPT !.error = TRUE, !.muddled = muddled, !.mixed = TRUE,
                                !.loading = loading, !.viewing = viewing]
      BY <2>3, <2>8 DEF HookCallFails, old, w
    <3>2. w \in HookPage /\ w.open /\ w.calls = rest
      BY <2>2 DEF w, rest
    <3>3. muddled \in BOOLEAN /\ loading \in BOOLEAN /\ viewing \in BOOLEAN /\ TRUE \in BOOLEAN
      BY <2>1, <3>2 DEF HookPage
    <3>4. ~muddled => ~hookPage.muddled
      OBVIOUS
    <3> HIDE DEF muddled, loading, viewing
    <3> DEFINE noted == [w EXCEPT !.error = TRUE, !.muddled = muddled, !.mixed = TRUE]
    <3>e. noted \in HookPage
      BY <3>2, <3>3, Zenon DEF HookPage
    <3>f. hookPage' = [noted EXCEPT !.loading = loading, !.viewing = viewing]
      BY <3>1
    <3>5. hookPage' \in HookPage
      <4> HIDE DEF noted
      <4> QED
        BY <3>3, <3>e, <3>f, Zenon DEF HookPage
    <3>6. /\ hookPage'.open /\ hookPage'.error /\ hookPage'.calls = rest
          /\ hookPage'.muddled = muddled /\ hookPage'.mixed
      BY <3>1, <3>2 DEF HookPage
    <3>7. Current(hookPage', ServerRows) /\ Own(hookPage')
      BY <2>l, <2>m, <3>4, <3>6 DEF Current, Own
    <3> QED
      BY <2>1, <3>5, <3>6, <3>7, PageStep
  <2> QED
    BY <1>2, <2>4, <2>5, <2>6, <2>7, <2>8
<1> QED
  BY <1>1, <1>2 DEF HooksAnswers

LEMMA HooksStep == HookInv /\ [HooksNext]_hookVars => HookInv'
<1> SUFFICES ASSUME HookInv, [HooksNext]_hookVars PROVE HookInv'
  OBVIOUS
<1>1. CASE UNCHANGED hookVars
  BY <1>1 DEF hookVars, HookInv, HookTypeOK, Current, Own, ServerRows, NoHookPage
<1>2. CASE HooksNext
  BY <1>2, HooksUserStep, HooksApiStep, HooksAnswerStep, ElsewhereStep DEF HooksNext
<1> QED
  BY <1>1, <1>2

LEMMA HooksStart == HooksInit => HookInv
<1> SUFFICES ASSUME HooksInit PROVE HookInv
  OBVIOUS
<1>1. hookPage = NoHookPage /\ made = 0 /\ DOMAIN enabled = {}
  BY DEF HooksInit
<1>2. HookTypeOK
  BY <1>1, NoHookPageType, WebhooksAssumption DEF HookTypeOK
<1>3. Current(NoHookPage, ServerRows) /\ Own(NoHookPage)
  <2>1. Len(<<>>) <= 1
    OBVIOUS
  <2> QED
    BY <2>1 DEF Current, Own, NoHookPage
<1> QED
  BY <1>1, <1>2, <1>3 DEF HookInv

\* Types: a webhook is listed, selected or asked about only if the API made it.
THEOREM HookTypes == HooksSpec => []HookTypeOK
<1>1. HookInv => HookTypeOK
  BY DEF HookInv
<1> QED
  BY <1>1, HooksStart, HooksStep, PTL DEF HooksSpec

\* At rest and without an error the table shows what the API has, unless requests
\* overlapped, failed or another client wrote since it was loaded.
THEOREM ListStaysCurrent == HooksSpec => []ListIsCurrent
<1>1. HookInv => ListIsCurrent
  BY DEF HookInv, Current, ListIsCurrent
<1> QED
  BY <1>1, HooksStart, HooksStep, PTL DEF HooksSpec

\* Under a row stand its own deliveries, unless requests overlapped or one failed since its
\* button was clicked.
THEOREM DeliveriesBelong == HooksSpec => []DeliveriesAreItsOwn
<1>1. HookInv => DeliveriesAreItsOwn
  BY DEF HookInv, Own, DeliveriesAreItsOwn, ShowsDeliveries
<1> QED
  BY <1>1, HooksStart, HooksStep, PTL DEF HooksSpec
===============================================================================
