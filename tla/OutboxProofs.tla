----------------------------- MODULE OutboxProofs -----------------------------
(***************************************************************************)
(* Theorems about the outbox publishers for every number of events,        *)
(* publishers, batches and faults.                                         *)
(***************************************************************************)
EXTENDS Outbox, FiniteSetTheorems, WellFoundedInduction, TLAPS

Row == [status : Statuses, token : Tokens \cup {NoToken}, stale : BOOLEAN]
Claims == [Events -> Tokens \cup {NoToken}]
Local == [pc : Points, item : Events \cup {NoEvent}, held : Claims]

-------------------------------------------------------------------------------
(* Lemmas about the helpers.                                               *)

\* A non-empty set of numbers has a least one.
LEMMA LeastExists == ASSUME NEW S \in SUBSET Nat, S # {} PROVE \E x \in S : \A y \in S : x <= y
<1> DEFINE R == OpToRel(<, Nat)
<1>1. IsWellFoundedOn(R, Nat)
  BY NatLessThanWellFounded
<1>2. \A x, y \in Nat : x < y => <<x, y>> \in R
  BY DEF OpToRel
<1> HIDE DEF R
<1>3. PICK x \in S : \A y \in S : ~ (<<y, x>> \in R)
  BY <1>1, WFMin
<1>4. ASSUME NEW y \in S PROVE x <= y
  <2>1. x \in Nat /\ y \in Nat
    OBVIOUS
  <2>2. ~ (y < x)
    BY <1>2, <1>3, <2>1
  <2> QED
    BY <2>1, <2>2
<1> QED
  BY <1>4

\* The oldest of some events is one of them.
LEMMA OldestType == ASSUME NEW S \in SUBSET Events, S # {} PROVE Oldest(S) \in S
<1>1. S \in SUBSET Nat
  BY OutboxAssumption DEF Events
<1>2. \E e \in S : \A f \in S : e <= f
  BY <1>1, LeastExists
<1> QED
  BY <1>2 DEF Oldest

\* The rows a submission creates and a publisher releases or publishes are well typed.
LEMMA ConstantRows == /\ Absent \in Row /\ Pending \in Row /\ Published \in Row
                      /\ Absent.status = "absent" /\ Pending.status = "pending"
                      /\ Published.status = "published"
                      /\ Absent.token = NoToken /\ Pending.token = NoToken /\ Published.token = NoToken
  BY DEF Absent, Pending, Published, Row, Statuses

\* A publisher that polls holds nothing.
LEMMA PollingType == /\ Polling \in Local /\ Polling.pc = "recover"
                     /\ \A e \in Events : Polling.held[e] = NoToken
  BY DEF Polling, Local, Claims, Points

\* The two ways a publisher's program point moves within an item.
LEMMA GoToType ==
    ASSUME TypeOK, NEW p \in Publishers, NEW point \in Points, GoTo(p, point)
    PROVE  /\ publisher' \in [Publishers -> Local]
           /\ publisher'[p] = [publisher[p] EXCEPT !.pc = point]
           /\ \A q \in Publishers : q # p => publisher'[q] = publisher[q]
           /\ publisher'[p].pc = point /\ publisher'[p].item = publisher[p].item
           /\ publisher'[p].held = publisher[p].held
<1>1. publisher \in [Publishers -> Local]
  BY DEF TypeOK, Local, Claims
<1>2. [publisher[p] EXCEPT !.pc = point] \in Local
  BY <1>1 DEF Local
<1>3. publisher' = [publisher EXCEPT ![p] = [publisher[p] EXCEPT !.pc = point]]
  BY <1>1 DEF GoTo
<1>4. publisher[p] \in Local
  BY <1>1
<1> QED
  BY <1>1, <1>2, <1>3, <1>4 DEF Local

\* Going on with the batch: the next item is one the publisher still holds, and
\* no token is added to what it holds.
LEMMA AdvanceType ==
    ASSUME TypeOK, NEW p \in Publishers, publisher[p].item \in Events, Advance(p)
    PROVE  /\ publisher' \in [Publishers -> Local]
           /\ \A q \in Publishers : q # p => publisher'[q] = publisher[q]
           /\ \A e \in Events : publisher'[p].held[e] \in {NoToken, publisher[p].held[e]}
           /\ publisher'[p].pc \in {"recover", "send"}
           /\ publisher'[p].pc = "send" =>
                /\ publisher'[p].item \in Events
                /\ publisher'[p].held[publisher'[p].item] # NoToken
<1> DEFINE rest == Held(p) \ {publisher[p].item}
           held == [publisher[p].held EXCEPT ![publisher[p].item] = NoToken]
           next == [pc |-> "send", item |-> Oldest(rest), held |-> held]
<1>1. publisher \in [Publishers -> Local] /\ publisher[p].held \in Claims
  BY DEF TypeOK, Local, Claims
<1>2. publisher' = [publisher EXCEPT ![p] = IF rest = {} THEN Polling ELSE next]
  BY DEF Advance
<1>3. held \in Claims /\ \A e \in Events : held[e] \in {NoToken, publisher[p].held[e]}
  BY <1>1 DEF Claims
<1>4. CASE rest = {}
  BY <1>1, <1>2, <1>4, PollingType
<1>5. CASE rest # {}
  <2>1. Oldest(rest) \in rest
    BY <1>5, OldestType DEF Held
  <2>2. Oldest(rest) \in Events /\ held[Oldest(rest)] # NoToken
    BY <2>1, <1>1 DEF Held, Claims
  <2>3. next \in Local
    BY <1>3, <2>2 DEF Local, Points
  <2>4. publisher' = [publisher EXCEPT ![p] = next]
    BY <1>2, <1>5
  <2>5. publisher'[p] = next
    BY <1>1, <2>4
  <2> QED
    BY <1>1, <1>3, <2>2, <2>3, <2>4, <2>5
<1> QED
  BY <1>4, <1>5

-------------------------------------------------------------------------------
(* Type correctness.                                                       *)

\* The program starts well typed.
LEMMA TypeInit == Init => TypeOK
<1> SUFFICES ASSUME Init PROVE TypeOK
  OBVIOUS
<1>1. row \in [Events -> Row] /\ publisher \in [Publishers -> Local] /\ sent \in [Events -> Nat]
  BY ConstantRows, PollingType DEF Init
<1> QED
  BY <1>1 DEF Init, TypeOK, Row, Local, Claims

\* What Claim does, for the tokens it draws.
ClaimsBatch(p, tok) ==
    /\ \A e \in Batch : tok[e] \in Unused(e)
    /\ row' = [e \in Events |-> IF e \in Batch
                  THEN [status |-> "processing", token |-> tok[e], stale |-> FALSE] ELSE row[e]]
    /\ publisher' = [publisher EXCEPT ![p] =
                  [pc |-> "send", item |-> Oldest(Batch),
                   held |-> [e \in Events |-> IF e \in Batch THEN tok[e] ELSE NoToken]]]

\* A claim draws some tokens.
LEMMA ClaimWithTokens == ASSUME NEW p \in Publishers, Claim(p)
                         PROVE  \E tok \in [Batch -> Tokens] : ClaimsBatch(p, tok)
  BY DEF Claim, ClaimsBatch

\* The batch claimed by a publisher, with one fresh token per row.
LEMMA ClaimType ==
    ASSUME TypeOK, NEW p \in Publishers, Batch # {}, NEW tok \in [Batch -> Tokens], ClaimsBatch(p, tok)
    PROVE  /\ row' \in [Events -> Row] /\ publisher' \in [Publishers -> Local]
           /\ \A q \in Publishers : q # p => publisher'[q] = publisher[q]
           /\ \A e \in Events : publisher'[p].held[e] = IF e \in Batch THEN tok[e] ELSE NoToken
           /\ publisher'[p].pc = "send" /\ publisher'[p].item \in Batch
<1>1. row \in [Events -> Row] /\ publisher \in [Publishers -> Local]
  BY DEF TypeOK, Row, Local, Claims
<1>2. Batch \subseteq Events
  BY DEF Batch
<1>3. Oldest(Batch) \in Batch
  BY <1>2, OldestType
<1> DEFINE l == [pc |-> "send", item |-> Oldest(Batch),
                 held |-> [e \in Events |-> IF e \in Batch THEN tok[e] ELSE NoToken]]
<1>4. l \in Local
  BY <1>2, <1>3 DEF Local, Claims, Points
<1>5. row' \in [Events -> Row]
  BY <1>1, <1>2 DEF Row, Statuses, ClaimsBatch
<1>6. publisher' = [publisher EXCEPT ![p] = l]
  BY DEF ClaimsBatch
<1> QED
  BY <1>1, <1>3, <1>4, <1>5, <1>6

\* Every step of the publishers is well typed.
LEMMA TypeStep == TypeOK /\ LocalsMatchPoint /\ [Next]_vars => TypeOK'
<1> SUFFICES ASSUME TypeOK, LocalsMatchPoint, [Next]_vars PROVE TypeOK'
  OBVIOUS
<1> DEFINE Good == /\ row' \in [Events -> Row] /\ publisher' \in [Publishers -> Local]
                   /\ sent' \in [Events -> Nat] /\ faults' \in Nat
<1>0. /\ row \in [Events -> Row] /\ publisher \in [Publishers -> Local]
      /\ sent \in [Events -> Nat] /\ faults \in Nat
  BY DEF TypeOK, Row, Local, Claims
<1>1. ASSUME NEW p \in Publishers, Recover(p) PROVE Good
  BY <1>0, <1>1, GoToType, ConstantRows DEF Recover, Points
<1>2. ASSUME NEW p \in Publishers, ClaimNothing(p) PROVE Good
  BY <1>0, <1>2, GoToType DEF ClaimNothing, Points
<1>3. ASSUME NEW p \in Publishers, Claim(p) PROVE Good
  <2>1. PICK tok \in [Batch -> Tokens] : ClaimsBatch(p, tok)
    BY <1>3, ClaimWithTokens
  <2>2. row' \in [Events -> Row] /\ publisher' \in [Publishers -> Local]
    BY <1>3, <2>1, ClaimType DEF Claim
  <2> QED
    BY <1>0, <1>3, <2>2 DEF Claim
<1>4. ASSUME NEW p \in Publishers, SendOk(p) \/ SendUnclear(p) PROVE Good
  <2>1. publisher' \in [Publishers -> Local]
    BY <1>4, GoToType DEF SendOk, SendUnclear, Points
  <2>2. sent' \in [Events -> Nat]
    BY <1>0, <1>4 DEF SendOk, SendUnclear
  <2> QED
    BY <1>0, <1>4, <2>1, <2>2 DEF SendOk, SendUnclear, Fault
<1>5. ASSUME NEW p \in Publishers, SendFails(p) PROVE Good
  BY <1>0, <1>5, GoToType DEF SendFails, Points
<1>6. ASSUME NEW p \in Publishers, MarkPublished(p) \/ MarkFailed(p) PROVE Good
  <2>1. publisher' \in [Publishers -> Local]
    BY <1>6, AdvanceType DEF MarkPublished, MarkFailed, At, LocalsMatchPoint
  <2>2. row' \in [Events -> Row]
    BY <1>0, <1>6, ConstantRows DEF MarkPublished, MarkFailed
  <2> QED
    BY <1>0, <1>6, <2>1, <2>2 DEF MarkPublished, MarkFailed
<1>7. ASSUME NEW p \in Publishers, MarkPublishedRaises(p) PROVE Good
  <2>1. publisher' \in [Publishers -> Local]
    BY <1>7, GoToType DEF MarkPublishedRaises, Points
  <2>2. row' \in [Events -> Row]
    BY <1>0, <1>7, ConstantRows DEF MarkPublishedRaises
  <2> QED
    BY <1>0, <1>7, <2>1, <2>2 DEF MarkPublishedRaises, Fault
<1>8. ASSUME NEW p \in Publishers, LoseBatch(p) PROVE Good
  BY <1>0, <1>8, PollingType DEF LoseBatch, Fault
<1>9. ASSUME NEW e \in Events, Create(e) PROVE Good
  BY <1>0, <1>9, ConstantRows DEF Create
<1>10. ASSUME NEW e \in Events, ClaimGoesStale(e) PROVE Good
  <2>1. row' \in [Events -> Row]
    <3>1. [row[e] EXCEPT !.stale = TRUE] \in Row
      BY <1>0 DEF Row
    <3>2. row' = [row EXCEPT ![e] = [row[e] EXCEPT !.stale = TRUE]]
      BY <1>0, <1>10 DEF ClaimGoesStale
    <3> QED
      BY <1>0, <3>1, <3>2
  <2> QED
    BY <1>0, <1>10, <2>1 DEF ClaimGoesStale, Fault
<1>11. ASSUME UNCHANGED vars PROVE Good
  BY <1>0, <1>11 DEF vars
<1>12. Good => TypeOK'
  BY DEF TypeOK, Row, Local, Claims
<1> HIDE DEF Good
<1> QED
  BY <1>1, <1>2, <1>3, <1>4, <1>5, <1>6, <1>7, <1>8, <1>9, <1>10, <1>11, <1>12 DEF Next, Step

-------------------------------------------------------------------------------
(* The inductive invariant.                                                *)

\* Every action but Claim takes tokens away only, and leaves the claims in the
\* table as they are or ends them.
HeldShrinks == \A q \in Publishers, e \in Events :
    publisher'[q].held[e] \in {NoToken, publisher[q].held[e]}
RowsEvolve == \A e \in Events :
    \/ row'[e].status = row[e].status /\ row'[e].token = row[e].token
    \/ row'[e].status \in {"pending", "published"} /\ row'[e].token = NoToken

\* Such an action keeps claims exclusive and what publishers hold in the table.
LEMMA ClaimsKept ==
    ASSUME IInv, HeldShrinks, RowsEvolve
    PROVE  /\ OneOwner'
           /\ \A q \in Publishers, e \in Events :
                publisher'[q].held[e] # NoToken => row'[e].status # "absent"
<1>1. ASSUME NEW e \in Events PROVE row'[e].token # NoToken <=> row'[e].status = "processing"
  BY DEF IInv, OneOwner, RowsEvolve
<1>2. ASSUME NEW e \in Events, NEW q \in Publishers, NEW r \in Publishers, row'[e].token # NoToken,
             publisher'[q].held[e] = row'[e].token, publisher'[r].held[e] = row'[e].token
      PROVE  q = r
  <2>1. row'[e].token = row[e].token
    BY <1>2 DEF RowsEvolve
  <2>2. publisher[q].held[e] = row[e].token /\ publisher[r].held[e] = row[e].token
    BY <1>2, <2>1 DEF HeldShrinks
  <2> QED
    BY <1>2, <2>1, <2>2 DEF IInv, OneOwner
<1>3. ASSUME NEW q \in Publishers, NEW e \in Events, publisher'[q].held[e] # NoToken
      PROVE  row'[e].status # "absent"
  <2>1. publisher[q].held[e] # NoToken
    BY <1>3 DEF HeldShrinks
  <2>2. row[e].status # "absent"
    BY <2>1 DEF IInv, LocalsMatchPoint
  <2> QED
    BY <2>2 DEF RowsEvolve
<1> QED
  BY <1>1, <1>2, <1>3 DEF OneOwner

\* What a step of one publisher has to do to its own program point and to the
\* broker, for the rest of the invariant to hold after it.
PointKept(p) ==
    /\ publisher'[p].pc \in {"send", "mark", "fail"} =>
         /\ publisher'[p].item \in Events
         /\ publisher'[p].held[publisher'[p].item] # NoToken
    /\ publisher'[p].pc = "mark" => sent'[publisher'[p].item] > 0
SentGrows == \A e \in Events : sent[e] > 0 => sent'[e] > 0
PublishedKept == \A e \in Events :
    row'[e].status = "published" => row[e].status = "published" \/ sent'[e] > 0

\* Such a step preserves the invariant.
LEMMA StepKeepsInv ==
    ASSUME IInv, TypeOK', HeldShrinks, RowsEvolve, SentGrows, PublishedKept,
           NEW p \in Publishers, PointKept(p),
           \A q \in Publishers : q # p => publisher'[q] = publisher[q]
    PROVE  IInv'
<1>1. OneOwner'
  BY ClaimsKept
<1>2. PublishedWasSent'
  BY DEF IInv, PublishedWasSent, SentGrows, PublishedKept
<1>3. ASSUME NEW q \in Publishers, q # p
      PROVE  /\ publisher'[q].pc \in {"send", "mark", "fail"} =>
                  publisher'[q].item \in Events /\ publisher'[q].held[publisher'[q].item] # NoToken
             /\ publisher'[q].pc = "mark" => sent'[publisher'[q].item] > 0
  BY <1>3 DEF IInv, LocalsMatchPoint, SentGrows
<1>4. LocalsMatchPoint'
  BY <1>3, ClaimsKept DEF LocalsMatchPoint, PointKept
<1> QED
  BY <1>1, <1>2, <1>4 DEF IInv

\* A step of the environment that touches rows only preserves it as well.
LEMMA RowStepKeepsInv ==
    ASSUME IInv, TypeOK', RowsEvolve, publisher' = publisher, sent' = sent,
           \A e \in Events : row'[e].status = "published" => row[e].status = "published"
    PROVE  IInv'
<1>1. HeldShrinks
  BY DEF HeldShrinks
<1>2. LocalsMatchPoint' /\ OneOwner'
  BY <1>1, ClaimsKept DEF IInv, LocalsMatchPoint
<1>3. PublishedWasSent'
  BY DEF IInv, PublishedWasSent
<1> QED
  BY <1>2, <1>3 DEF IInv

\* Nothing is claimed, held or published before the first submission.
LEMMA InvInit == Init => IInv
<1> SUFFICES ASSUME Init PROVE IInv
  OBVIOUS
<1>1. TypeOK
  BY TypeInit
<1>2. LocalsMatchPoint /\ PublishedWasSent /\ OneOwner
  BY PollingType, ConstantRows DEF Init, LocalsMatchPoint, PublishedWasSent, OneOwner
<1> QED
  BY <1>1, <1>2 DEF IInv

\* Recovery ends claims and moves the publisher on; it holds nothing by then.
LEMMA RecoverInv == ASSUME IInv, TypeOK', NEW p \in Publishers, Recover(p) PROVE IInv'
<1>1. /\ publisher'[p].pc = "claim" /\ publisher'[p].held = publisher[p].held
      /\ \A q \in Publishers : q # p => publisher'[q] = publisher[q]
  BY GoToType DEF Recover, IInv, Points
<1>2. HeldShrinks /\ SentGrows /\ PointKept(p)
  BY <1>1 DEF Recover, HeldShrinks, SentGrows, PointKept
<1>3. RowsEvolve /\ PublishedKept
  BY ConstantRows DEF Recover, RowsEvolve, PublishedKept
<1> QED
  BY <1>1, <1>2, <1>3, StepKeepsInv

\* A claim gives each row of the batch a token that no publisher holds.
LEMMA ClaimInv == ASSUME IInv, TypeOK', NEW p \in Publishers, Claim(p) PROVE IInv'
<1>1. PICK tok \in [Batch -> Tokens] : ClaimsBatch(p, tok)
  BY ClaimWithTokens
<1>2. /\ \A q \in Publishers : q # p => publisher'[q] = publisher[q]
      /\ \A e \in Events : publisher'[p].held[e] = IF e \in Batch THEN tok[e] ELSE NoToken
      /\ publisher'[p].pc = "send" /\ publisher'[p].item \in Batch
  BY <1>1, ClaimType DEF Claim, IInv
<1>3. Batch \subseteq Events /\ \A e \in Batch : tok[e] \in Tokens /\ tok[e] # NoToken
  BY OutboxAssumption DEF Batch
<1>4. sent' = sent
  BY DEF Claim
<1>5. \A e \in Events : IF e \in Batch THEN row'[e].status = "processing" /\ row'[e].token = tok[e]
                                       ELSE row'[e] = row[e]
  BY <1>1 DEF ClaimsBatch
<1>6. PublishedWasSent'
  BY <1>4, <1>5 DEF IInv, PublishedWasSent
<1>7. LocalsMatchPoint'
  <2>1. ASSUME NEW q \in Publishers, q # p
        PROVE  /\ publisher'[q].pc \in {"send", "mark", "fail"} =>
                    publisher'[q].item \in Events /\ publisher'[q].held[publisher'[q].item] # NoToken
               /\ publisher'[q].pc = "mark" => sent'[publisher'[q].item] > 0
               /\ \A e \in Events : publisher'[q].held[e] # NoToken => row'[e].status # "absent"
    BY <2>1, <1>2, <1>4, <1>5 DEF IInv, LocalsMatchPoint
  <2>2. /\ publisher'[p].item \in Events /\ publisher'[p].held[publisher'[p].item] # NoToken
        /\ publisher'[p].pc # "mark"
        /\ \A e \in Events : publisher'[p].held[e] # NoToken => row'[e].status # "absent"
    BY <1>2, <1>3, <1>5
  <2> QED
    BY <2>1, <2>2 DEF LocalsMatchPoint
<1>8. OneOwner'
  <2>1. ASSUME NEW e \in Events PROVE row'[e].token # NoToken <=> row'[e].status = "processing"
    BY <1>3, <1>5 DEF IInv, OneOwner
  <2>2. ASSUME NEW e \in Events, NEW q \in Publishers, NEW r \in Publishers, row'[e].token # NoToken,
               publisher'[q].held[e] = row'[e].token, publisher'[r].held[e] = row'[e].token
        PROVE  q = r
    <3>1. CASE e \in Batch
      <4>1. \A o \in Publishers : o # p => publisher'[o].held[e] # tok[e]
        BY <1>1, <1>2, <3>1 DEF ClaimsBatch, Unused
      <4> QED
        BY <2>2, <1>5, <3>1, <4>1
    <3>2. CASE e \notin Batch
      <4>1. publisher'[p].held[e] = NoToken
        BY <1>2, <3>2
      <4>2. q # p /\ r # p
        BY <2>2, <4>1
      <4> QED
        BY <2>2, <4>2, <1>2, <1>5, <3>2 DEF IInv, OneOwner
    <3> QED
      BY <3>1, <3>2
  <2> QED
    BY <2>1, <2>2 DEF OneOwner
<1> QED
  BY <1>6, <1>7, <1>8 DEF IInv

\* A send, whatever its answer, takes the publisher to the matching mark.
LEMMA SendInv == ASSUME IInv, TypeOK', NEW p \in Publishers,
                        SendOk(p) \/ SendFails(p) \/ SendUnclear(p)
                 PROVE  IInv'
<1>1. At(p, "send") /\ row' = row
  BY DEF SendOk, SendFails, SendUnclear
<1>2. publisher[p].item \in Events /\ publisher[p].held[publisher[p].item] # NoToken
  BY <1>1 DEF IInv, LocalsMatchPoint, At
<1>3. /\ publisher'[p].pc \in {"mark", "fail"} /\ publisher'[p].item = publisher[p].item
      /\ publisher'[p].held = publisher[p].held
      /\ \A q \in Publishers : q # p => publisher'[q] = publisher[q]
      /\ publisher'[p].pc = "mark" => SendOk(p)
  BY GoToType DEF SendOk, SendFails, SendUnclear, IInv, Points
<1>4. sent \in [Events -> Nat]
  BY DEF IInv, TypeOK
<1>5. SentGrows /\ (SendOk(p) => sent'[publisher[p].item] > 0)
  BY <1>2, <1>4 DEF SendOk, SendFails, SendUnclear, SentGrows
<1>6. HeldShrinks /\ RowsEvolve /\ PublishedKept /\ PointKept(p)
  BY <1>1, <1>2, <1>3, <1>5 DEF HeldShrinks, RowsEvolve, PublishedKept, PointKept
<1> QED
  BY <1>3, <1>5, <1>6, StepKeepsInv

\* A mark frees the row if the claim is still the publisher's; published means sent.
LEMMA MarkInv == ASSUME IInv, TypeOK', NEW p \in Publishers, MarkPublished(p) \/ MarkFailed(p)
                 PROVE  IInv'
<1>1. /\ publisher[p].item \in Events /\ sent' = sent
      /\ MarkPublished(p) => sent[publisher[p].item] > 0
  BY DEF MarkPublished, MarkFailed, IInv, LocalsMatchPoint, At
<1>2. /\ \A q \in Publishers : q # p => publisher'[q] = publisher[q]
      /\ \A e \in Events : publisher'[p].held[e] \in {NoToken, publisher[p].held[e]}
      /\ publisher'[p].pc \in {"recover", "send"}
      /\ publisher'[p].pc = "send" => /\ publisher'[p].item \in Events
                                      /\ publisher'[p].held[publisher'[p].item] # NoToken
  BY <1>1, AdvanceType DEF MarkPublished, MarkFailed, IInv
<1>3. row \in [Events -> Row]
  BY DEF IInv, TypeOK, Row
<1>4. RowsEvolve /\ PublishedKept
  BY <1>1, <1>3, ConstantRows DEF MarkPublished, MarkFailed, RowsEvolve, PublishedKept
<1>5. HeldShrinks /\ SentGrows /\ PointKept(p)
  BY <1>1, <1>2 DEF HeldShrinks, SentGrows, PointKept
<1> QED
  BY <1>2, <1>4, <1>5, StepKeepsInv

\* The same holds when the mark raises, whether or not it took effect.
LEMMA RaiseInv == ASSUME IInv, TypeOK', NEW p \in Publishers, MarkPublishedRaises(p) PROVE IInv'
<1>1. /\ publisher[p].item \in Events /\ sent' = sent /\ sent[publisher[p].item] > 0
      /\ publisher[p].held[publisher[p].item] # NoToken
  BY DEF MarkPublishedRaises, IInv, LocalsMatchPoint, At
<1>2. /\ publisher'[p].pc = "fail" /\ publisher'[p].item = publisher[p].item
      /\ publisher'[p].held = publisher[p].held
      /\ \A q \in Publishers : q # p => publisher'[q] = publisher[q]
  BY GoToType DEF MarkPublishedRaises, IInv, Points
<1>3. row \in [Events -> Row]
  BY DEF IInv, TypeOK, Row
<1>4. RowsEvolve /\ PublishedKept
  BY <1>1, <1>3, ConstantRows DEF MarkPublishedRaises, RowsEvolve, PublishedKept
<1>5. HeldShrinks /\ SentGrows /\ PointKept(p)
  BY <1>1, <1>2 DEF HeldShrinks, SentGrows, PointKept
<1> QED
  BY <1>2, <1>4, <1>5, StepKeepsInv

\* A publisher that loses its batch holds nothing any more.
LEMMA LoseInv == ASSUME IInv, TypeOK', NEW p \in Publishers, LoseBatch(p) PROVE IInv'
<1>1. publisher' = [publisher EXCEPT ![p] = Polling] /\ row' = row /\ sent' = sent
  BY DEF LoseBatch
<1>2. publisher'[p] = Polling /\ \A q \in Publishers : q # p => publisher'[q] = publisher[q]
  BY <1>1 DEF IInv, TypeOK
<1>3. HeldShrinks /\ RowsEvolve /\ SentGrows /\ PublishedKept /\ PointKept(p)
  BY <1>1, <1>2, PollingType DEF HeldShrinks, RowsEvolve, SentGrows, PublishedKept, PointKept
<1> QED
  BY <1>2, <1>3, StepKeepsInv

\* Every step preserves the invariant.
LEMMA InvStep == IInv /\ [Next]_vars => IInv'
<1> SUFFICES ASSUME IInv, [Next]_vars PROVE IInv'
  OBVIOUS
<1>0. TypeOK'
  BY TypeStep DEF IInv
<1>1. ASSUME NEW p \in Publishers, ClaimNothing(p) PROVE IInv'
  <2>1. /\ publisher'[p].pc = "recover" /\ publisher'[p].held = publisher[p].held
        /\ \A q \in Publishers : q # p => publisher'[q] = publisher[q]
    BY <1>1, GoToType DEF ClaimNothing, IInv, Points
  <2>2. HeldShrinks /\ RowsEvolve /\ SentGrows /\ PublishedKept /\ PointKept(p)
    BY <1>1, <2>1 DEF ClaimNothing, HeldShrinks, RowsEvolve, SentGrows, PublishedKept, PointKept
  <2> QED
    BY <1>0, <2>1, <2>2, StepKeepsInv
<1>2. ASSUME NEW e \in Events, Create(e) PROVE IInv'
  <2>1. \A f \in Events : f # e => row'[f] = row[f]
    BY <1>2 DEF Create, IInv, TypeOK
  <2>2. row'[e] = Pending
    BY <1>2 DEF Create, IInv, TypeOK
  <2>3. RowsEvolve
    BY <2>1, <2>2, ConstantRows DEF RowsEvolve
  <2> QED
    BY <1>0, <1>2, <2>1, <2>2, <2>3, ConstantRows, RowStepKeepsInv DEF Create
<1>3. ASSUME NEW e \in Events, ClaimGoesStale(e) PROVE IInv'
  <2>1. \A f \in Events : row'[f].status = row[f].status /\ row'[f].token = row[f].token
    BY <1>3 DEF ClaimGoesStale, IInv, TypeOK
  <2>2. RowsEvolve
    BY <2>1 DEF RowsEvolve
  <2> QED
    BY <1>0, <1>3, <2>1, <2>2, RowStepKeepsInv DEF ClaimGoesStale
<1>4. CASE UNCHANGED vars
  <2>1. RowsEvolve
    BY <1>4 DEF RowsEvolve, vars
  <2> QED
    BY <1>0, <1>4, <2>1, RowStepKeepsInv DEF vars
<1> QED
  BY <1>0, <1>1, <1>2, <1>3, <1>4, RecoverInv, ClaimInv, SendInv, MarkInv, RaiseInv, LoseInv
     DEF Next, Step

\* The inductive invariant of the outbox holds in every reachable state.
THEOREM Invariance == Spec => []IInv
BY InvInit, InvStep, PTL DEF Spec

\* The table and the broker's copies have the types declared for them.
THEOREM TypeCorrect == Spec => []TypeOK
<1>1. Spec => []IInv
  BY Invariance
<1>2. IInv => TypeOK
  BY DEF IInv
<1> QED
  BY <1>1, <1>2, PTL

\* No event is lost: what the table calls published, the broker has.
THEOREM NothingIsLost == Spec => []PublishedWasSent
<1>1. IInv => PublishedWasSent
  BY DEF IInv
<1> QED
  BY <1>1, Invariance, PTL

\* Claims are exclusive: one publisher at most holds the claim that a row records.
THEOREM ClaimsAreExclusive == Spec => []OneOwner
<1>1. IInv => OneOwner
  BY DEF IInv
<1> QED
  BY <1>1, Invariance, PTL

-------------------------------------------------------------------------------
(* Fencing.                                                                *)

\* A row that a step leaves alone, or leaves in a claim, is not at issue.
LEMMA FencedUnlessFreed ==
    ASSUME \A e \in Events : row[e].status = "processing" => row'[e].status = "processing"
    PROVE  FencedStep
  BY DEF FencedStep

\* The two updates free the row of the item whose claim the publisher holds.
LEMMA MarksAreFenced ==
    ASSUME IInv, NEW p \in Publishers, At(p, "mark") \/ At(p, "fail"),
           NEW new, row' = row \/ (OwnsClaim(p) /\ row' = [row EXCEPT ![publisher[p].item] = new])
    PROVE  FencedStep
<1>1. CASE row' = row
  BY <1>1, FencedUnlessFreed
<1>2. CASE OwnsClaim(p) /\ row' = [row EXCEPT ![publisher[p].item] = new]
  <2>1. \A e \in Events : e # publisher[p].item => row'[e] = row[e]
    BY <1>2 DEF IInv, TypeOK
  <2>2. row[publisher[p].item].token = publisher[p].held[publisher[p].item]
    BY <1>2 DEF OwnsClaim
  <2> QED
    BY <2>1, <2>2 DEF FencedStep, At
<1> QED
  BY <1>1, <1>2

\* Every step respects the claims that have not gone stale.
LEMMA FencedEveryStep == IInv /\ [Next]_vars => FencedStep
<1> SUFFICES ASSUME IInv, [Next]_vars PROVE FencedStep
  OBVIOUS
<1>1. ASSUME NEW p \in Publishers, Recover(p) PROVE FencedStep
  BY <1>1 DEF Recover, FencedStep, StaleClaims
<1>2. ASSUME NEW p \in Publishers, Claim(p) PROVE FencedStep
  <2>1. PICK tok \in [Batch -> Tokens] : ClaimsBatch(p, tok)
    BY <1>2, ClaimWithTokens
  <2> QED
    BY <2>1, FencedUnlessFreed DEF ClaimsBatch
<1>3. ASSUME NEW p \in Publishers, MarkPublished(p) PROVE FencedStep
  BY <1>3, MarksAreFenced DEF MarkPublished
<1>4. ASSUME NEW p \in Publishers, MarkPublishedRaises(p) PROVE FencedStep
  BY <1>4, MarksAreFenced DEF MarkPublishedRaises
<1>5. ASSUME NEW p \in Publishers, MarkFailed(p) PROVE FencedStep
  BY <1>5, MarksAreFenced DEF MarkFailed
<1>6. ASSUME NEW e \in Events, Create(e) PROVE FencedStep
  BY <1>6, FencedUnlessFreed DEF Create, IInv, TypeOK
<1>7. ASSUME NEW e \in Events, ClaimGoesStale(e) PROVE FencedStep
  BY <1>7, FencedUnlessFreed DEF ClaimGoesStale, IInv, TypeOK
<1>8. CASE row' = row
  BY <1>8, FencedUnlessFreed
<1> QED
  BY <1>1, <1>2, <1>3, <1>4, <1>5, <1>6, <1>7, <1>8
     DEF Next, Step, vars, ClaimNothing, SendOk, SendFails, SendUnclear, LoseBatch

\* A publisher that lost its claim never touches the row of the new owner.
THEOREM PublishersAreFenced == Spec => Fenced
  BY FencedEveryStep, Invariance, PTL DEF Spec, Fenced

-------------------------------------------------------------------------------
(* Duplicates.  Each event has a budget of one copy, plus one for each     *)
(* fault: spent by a row that no publisher but its holder will send again, *)
(* by a publisher about to send, and by each copy the broker has.          *)

Count(b) == IF b THEN 1 ELSE 0

\* A publisher that may still send an event, or send it and take that for a failure.
Unsent(p, e) == publisher[p].held[e] # NoToken /\ ~(publisher[p].pc = "mark" /\ publisher[p].item = e)
Carriers(e) == {p \in Publishers : Unsent(p, e)}

\* A row that will not be claimed again unless a fault happens first.
InUse(e) == /\ row[e].status = "processing" /\ ~row[e].stale
            /\ \E p \in Publishers : publisher[p].held[e] = row[e].token
Spent(e) == row[e].status = "published" \/ InUse(e)

BudgetKept == \A e \in Events :
    /\ IsFiniteSet(Carriers(e))
    /\ Cardinality(Carriers(e)) + Count(~Spent(e)) + sent[e] <= 1 + faults

\* What a step of a publisher takes from the budget of an event it pays with a fault.
Paid(p, e) ==
    Count(Unsent(p, e))' + Count(~Spent(e))' + sent'[e] + faults
        <= Count(Unsent(p, e)) + Count(~Spent(e)) + sent[e] + faults'

\* Two sets that agree but for one element differ in size by what that element counts.
LEMMA OneElement ==
    ASSUME NEW S, NEW T, NEW x, IsFiniteSet(S), S \ {x} = T \ {x}
    PROVE  /\ IsFiniteSet(T) /\ Cardinality(S) \in Nat /\ Cardinality(T) \in Nat
           /\ Cardinality(T) + Count(x \in S) = Cardinality(S) + Count(x \in T)
<1>1. /\ IsFiniteSet(S \ {x}) /\ Cardinality(S) \in Nat /\ Cardinality(S \ {x}) \in Nat
      /\ Cardinality(S \ {x}) = IF x \in S THEN Cardinality(S) - 1 ELSE Cardinality(S)
  BY FS_RemoveElement, FS_CardinalityType
<1>2. T = T \ {x} \/ T = (T \ {x}) \cup {x}
  OBVIOUS
<1>3. /\ IsFiniteSet((T \ {x}) \cup {x})
      /\ Cardinality((T \ {x}) \cup {x}) = Cardinality(T \ {x}) + 1
  BY <1>1, FS_AddElement
<1>4. IsFiniteSet(T)
  BY <1>1, <1>2, <1>3
<1>5. /\ Cardinality(T) \in Nat
      /\ Cardinality(T \ {x}) = IF x \in T THEN Cardinality(T) - 1 ELSE Cardinality(T)
  BY <1>4, FS_RemoveElement, FS_CardinalityType
<1> QED
  BY <1>1, <1>4, <1>5 DEF Count

\* A step that pays for what it takes keeps every budget.
LEMMA PaidStep ==
    ASSUME IInv, TypeOK', BudgetKept, NEW p \in Publishers,
           \A q \in Publishers : q # p => publisher'[q] = publisher[q],
           \A e \in Events : Paid(p, e)
    PROVE  BudgetKept'
<1> SUFFICES ASSUME NEW e \in Events
             PROVE  /\ IsFiniteSet(Carriers(e)')
                    /\ Cardinality(Carriers(e)') + Count(~Spent(e))' + sent'[e] <= 1 + faults'
  BY DEF BudgetKept
<1>1. IsFiniteSet(Carriers(e)) /\ Carriers(e) \ {p} = Carriers(e)' \ {p}
  BY DEF BudgetKept, Carriers, Unsent
<1>2. /\ IsFiniteSet(Carriers(e)')
      /\ Cardinality(Carriers(e)) \in Nat /\ Cardinality(Carriers(e)') \in Nat
      /\ Cardinality(Carriers(e)') + Count(p \in Carriers(e)) = Cardinality(Carriers(e)) + Count(p \in Carriers(e)')
  BY <1>1, OneElement
<1>3. (p \in Carriers(e) <=> Unsent(p, e)) /\ (p \in Carriers(e)' <=> Unsent(p, e)')
  BY DEF Carriers
<1>4. sent[e] \in Nat /\ sent'[e] \in Nat /\ faults \in Nat /\ faults' \in Nat
  BY DEF IInv, TypeOK
<1>5. Cardinality(Carriers(e)) + Count(~Spent(e)) + sent[e] <= 1 + faults
  BY DEF BudgetKept
<1> QED
  BY <1>2, <1>3, <1>4, <1>5 DEF Paid, Count

\* A row no step touches stays spent while whoever holds its claim keeps it.
LEMMA SpentStays ==
    ASSUME NEW p \in Publishers, NEW e \in Events, Spent(e), row'[e] = row[e],
           \A q \in Publishers : q # p => publisher'[q] = publisher[q],
           publisher'[p].held[e] = publisher[p].held[e] \/ publisher[p].held[e] # row[e].token
    PROVE  Spent(e)'
  BY DEF Spent, InUse

\* A publisher that polls changes nobody's budget: what it recovers was not spent.
LEMMA PollPaid ==
    ASSUME IInv, NEW p \in Publishers, Recover(p) \/ ClaimNothing(p), NEW e \in Events
    PROVE  Paid(p, e)
<1>1. /\ publisher[p].pc \notin {"mark"} /\ publisher'[p].pc \notin {"mark"}
      /\ publisher'[p].held = publisher[p].held
      /\ \A q \in Publishers : q # p => publisher'[q] = publisher[q]
      /\ faults' = faults /\ sent' = sent
  BY GoToType DEF Recover, ClaimNothing, At, IInv, Points
<1>2. Spent(e) => row'[e] = row[e]
  BY DEF Recover, ClaimNothing, StaleClaims, Spent, InUse
<1>3. Spent(e) => Spent(e)'
  BY <1>1, <1>2, SpentStays
<1>4. Unsent(p, e)' <=> Unsent(p, e)
  BY <1>1 DEF Unsent
<1>5. sent[e] \in Nat /\ faults \in Nat
  BY DEF IInv, TypeOK
<1> QED
  BY <1>1, <1>3, <1>4, <1>5 DEF Paid, Count

\* A claim spends the rows it takes, on the copies it is going to send.
LEMMA ClaimPaid ==
    ASSUME IInv, NEW p \in Publishers, Claim(p), NEW e \in Events
    PROVE  Paid(p, e)
<1>1. PICK tok \in [Batch -> Tokens] : ClaimsBatch(p, tok)
  BY ClaimWithTokens
<1>2. /\ \A q \in Publishers : q # p => publisher'[q] = publisher[q]
      /\ \A f \in Events : publisher'[p].held[f] = IF f \in Batch THEN tok[f] ELSE NoToken
      /\ publisher[p].pc = "claim" /\ publisher'[p].pc = "send"
      /\ faults' = faults /\ sent' = sent
  BY <1>1, ClaimType DEF Claim, IInv, At
<1>3. row' = [f \in Events |-> IF f \in Batch
                 THEN [status |-> "processing", token |-> tok[f], stale |-> FALSE] ELSE row[f]]
  BY <1>1 DEF ClaimsBatch
<1>4. sent[e] \in Nat /\ faults \in Nat
  BY DEF IInv, TypeOK
<1>5. CASE e \in Batch
  <2>1. ~Spent(e)
    BY <1>5 DEF Batch, Claimable, Spent, InUse
  <2>2. Spent(e)'
    BY <1>2, <1>3, <1>5 DEF Spent, InUse
  <2> QED
    BY <1>2, <1>4, <2>1, <2>2 DEF Paid, Count
<1>6. CASE e \notin Batch
  <2>1. row'[e] = row[e] /\ publisher'[p].held[e] = NoToken
    BY <1>2, <1>3, <1>6
  <2>2. ~Unsent(p, e)'
    BY <2>1 DEF Unsent
  <2>3. ~Unsent(p, e) => publisher[p].held[e] = NoToken
    BY <1>2 DEF Unsent
  <2>4. Spent(e) /\ ~Unsent(p, e) => Spent(e)'
    BY <1>2, <2>1, <2>3, SpentStays
  <2> QED
    BY <1>2, <1>4, <2>2, <2>4 DEF Paid, Count
<1> QED
  BY <1>5, <1>6

\* A send moves the budget from the publisher to the broker, or is paid by a fault.
LEMMA SendPaid ==
    ASSUME IInv, NEW p \in Publishers, SendOk(p) \/ SendFails(p) \/ SendUnclear(p), NEW e \in Events
    PROVE  Paid(p, e)
<1>1. /\ publisher[p].pc = "send" /\ row' = row
      /\ publisher'[p].item = publisher[p].item /\ publisher'[p].held = publisher[p].held
      /\ \A q \in Publishers : q # p => publisher'[q] = publisher[q]
  BY GoToType DEF SendOk, SendFails, SendUnclear, IInv, Points, At
<1>2. publisher[p].item \in Events /\ publisher[p].held[publisher[p].item] # NoToken
  BY <1>1 DEF IInv, LocalsMatchPoint
<1>3. \/ publisher'[p].pc = "mark" /\ faults' = faults /\ sent' = [sent EXCEPT ![publisher[p].item] = @ + 1]
      \/ publisher'[p].pc = "fail" /\ faults' = faults /\ sent' = sent
      \/ publisher'[p].pc = "fail" /\ faults' = faults + 1
            /\ sent' = [sent EXCEPT ![publisher[p].item] = @ + 1]
  BY GoToType DEF SendOk, SendFails, SendUnclear, IInv, Points, Fault
<1>4. sent \in [Events -> Nat] /\ faults \in Nat
  BY DEF IInv, TypeOK
<1>5. Spent(e) => Spent(e)'
  BY <1>1, SpentStays
<1>6. /\ Unsent(p, e)' => Unsent(p, e)
      /\ publisher'[p].pc = "mark" /\ e = publisher[p].item => Unsent(p, e) /\ ~Unsent(p, e)'
  BY <1>1, <1>2 DEF Unsent
<1> QED
  BY <1>2, <1>3, <1>4, <1>5, <1>6 DEF Paid, Count

\* Going on with the batch drops the token of the item and no other.
LEMMA AdvanceDrops ==
    ASSUME TypeOK, NEW p \in Publishers, publisher[p].item \in Events, Advance(p), NEW e \in Events
    PROVE  publisher'[p].held[e] = IF e = publisher[p].item THEN NoToken ELSE publisher[p].held[e]
<1> DEFINE rest == Held(p) \ {publisher[p].item}
           held == [publisher[p].held EXCEPT ![publisher[p].item] = NoToken]
<1>1. publisher \in [Publishers -> Local] /\ publisher[p].held \in Claims
  BY DEF TypeOK, Local, Claims
<1>2. publisher' = [publisher EXCEPT ![p] =
                       IF rest = {} THEN Polling ELSE [pc |-> "send", item |-> Oldest(rest), held |-> held]]
  BY DEF Advance
<1>3. publisher'[p].held[e] = IF rest = {} THEN NoToken ELSE held[e]
  BY <1>1, <1>2, PollingType
<1>4. rest = {} => e = publisher[p].item \/ publisher[p].held[e] = NoToken
  BY DEF Held
<1> QED
  BY <1>1, <1>3, <1>4 DEF Claims

\* A mark gives back what its publisher did not send, and spends for good what it published.
LEMMA MarkPaid ==
    ASSUME IInv, NEW p \in Publishers, MarkPublished(p) \/ MarkFailed(p), NEW e \in Events
    PROVE  Paid(p, e)
<1> DEFINE i == publisher[p].item
<1>1. /\ i \in Events /\ publisher[p].held[i] # NoToken /\ publisher[p].pc \in {"mark", "fail"}
      /\ sent' = sent /\ faults' = faults /\ Advance(p)
  BY DEF MarkPublished, MarkFailed, IInv, LocalsMatchPoint, At
<1>2. /\ \A q \in Publishers : q # p => publisher'[q] = publisher[q]
      /\ publisher'[p].pc # "mark"
      /\ publisher'[p].held[e] = IF e = i THEN NoToken ELSE publisher[p].held[e]
  BY <1>1, AdvanceType, AdvanceDrops DEF IInv
<1>3. row \in [Events -> Row] /\ sent[e] \in Nat /\ faults \in Nat
  BY DEF IInv, TypeOK, Row
<1>4. CASE e # i
  <2>1. row'[e] = row[e] /\ publisher'[p].held[e] = publisher[p].held[e]
    BY <1>1, <1>2, <1>3, <1>4 DEF MarkPublished, MarkFailed
  <2>2. (Spent(e) => Spent(e)') /\ (Unsent(p, e)' => Unsent(p, e))
    BY <1>2, <1>4, <2>1, SpentStays DEF Unsent
  <2> QED
    BY <1>1, <1>3, <2>2 DEF Paid, Count
<1>5. CASE e = i
  <2>1. ~Unsent(p, e)' /\ (publisher[p].pc = "fail" => Unsent(p, e))
    BY <1>1, <1>2, <1>5 DEF Unsent
  <2>2. publisher[p].pc = "mark" => MarkPublished(p)
    BY DEF MarkFailed, At
  <2>3. CASE OwnsClaim(p)
    <3>1. MarkPublished(p) => row'[e].status = "published"
      BY <1>1, <1>3, <1>5, <2>3, ConstantRows DEF MarkPublished
    <3>2. MarkPublished(p) => Spent(e)'
      BY <3>1 DEF Spent
    <3> QED
      BY <1>1, <1>3, <2>1, <2>2, <3>2 DEF Paid, Count
  <2>4. CASE ~OwnsClaim(p)
    <3>1. row' = row
      BY <2>4 DEF MarkPublished, MarkFailed
    <3>2. Spent(e) => Spent(e)'
      <4>1. CASE row[e].status = "processing"
        BY <1>2, <1>5, <2>4, <3>1, <4>1, SpentStays DEF OwnsClaim
      <4>2. CASE row[e].status # "processing"
        BY <3>1, <4>2 DEF Spent, InUse
      <4> QED
        BY <4>1, <4>2
    <3> QED
      BY <1>1, <1>3, <2>1, <3>2 DEF Paid, Count
  <2> QED
    BY <2>3, <2>4
<1> QED
  BY <1>4, <1>5

\* A mark that raises, and a process that dies, pay with a fault for what is sent again.
LEMMA FaultPaid ==
    ASSUME IInv, NEW p \in Publishers, MarkPublishedRaises(p) \/ LoseBatch(p), NEW e \in Events
    PROVE  Paid(p, e)
<1>1. faults' = faults + 1 /\ sent' = sent /\ sent[e] \in Nat /\ faults \in Nat
  BY DEF MarkPublishedRaises, LoseBatch, Fault, IInv, TypeOK
<1>2. CASE MarkPublishedRaises(p)
  <2>1. /\ publisher'[p].held = publisher[p].held
        /\ \A q \in Publishers : q # p => publisher'[q] = publisher[q]
    BY <1>2, GoToType DEF MarkPublishedRaises, IInv, Points
  <2>2. row \in [Events -> Row] /\ publisher[p].item \in Events
    BY <1>2 DEF MarkPublishedRaises, IInv, TypeOK, Row, LocalsMatchPoint, At
  <2>3. row'[e] = row[e] \/ row'[e].status = "published"
    BY <1>2, <2>2, ConstantRows DEF MarkPublishedRaises
  <2>4. Spent(e) => Spent(e)'
    BY <2>1, <2>3, SpentStays DEF Spent
  <2> QED
    BY <1>1, <2>4 DEF Paid, Count
<1>3. CASE LoseBatch(p)
  <2>1. publisher'[p] = Polling /\ \A q \in Publishers : q # p => publisher'[q] = publisher[q]
    BY <1>3 DEF LoseBatch, IInv, TypeOK
  <2>2. ~Unsent(p, e)'
    BY <2>1, PollingType DEF Unsent
  <2> QED
    BY <1>1, <2>2 DEF Paid, Count
<1> QED
  BY <1>2, <1>3

\* A submission, and a claim that goes stale, keep every budget: a claim in use pays.
LEMMA RowStepBudget ==
    ASSUME IInv, BudgetKept, NEW f \in Events, Create(f) \/ ClaimGoesStale(f)
    PROVE  BudgetKept'
<1>1. publisher' = publisher /\ sent' = sent /\ row \in [Events -> Row] /\ faults \in Nat
  BY DEF Create, ClaimGoesStale, IInv, TypeOK, Row
<1> SUFFICES ASSUME NEW e \in Events
             PROVE  /\ IsFiniteSet(Carriers(e)')
                    /\ Cardinality(Carriers(e)') + Count(~Spent(e))' + sent'[e] <= 1 + faults'
  BY DEF BudgetKept
<1>2. /\ IsFiniteSet(Carriers(e)) /\ Carriers(e)' = Carriers(e)
      /\ Cardinality(Carriers(e)) + Count(~Spent(e)) + sent[e] <= 1 + faults
  BY <1>1 DEF BudgetKept, Carriers, Unsent
<1>3. /\ sent[e] \in Nat /\ Cardinality(Carriers(e)) \in Nat
      /\ faults' = faults \/ faults' = faults + 1
  BY <1>2, FS_CardinalityType DEF IInv, TypeOK, Create, ClaimGoesStale, Fault
<1>4. Spent(e) => Spent(e)' \/ faults' = faults + 1
  <2>1. CASE e # f \/ row'[e] = row[e]
    <3>1. row'[e] = row[e]
      BY <1>1, <2>1 DEF Create, ClaimGoesStale
    <3> QED
      BY <1>1, <3>1 DEF Spent, InUse
  <2>2. CASE e = f /\ Create(f)
    BY <2>2 DEF Create, Spent, InUse
  <2>3. CASE e = f /\ ClaimGoesStale(f)
    BY <2>3 DEF ClaimGoesStale, Spent, InUse, Fault
  <2> QED
    BY <2>1, <2>2, <2>3
<1> QED
  BY <1>1, <1>2, <1>3, <1>4 DEF Count

\* Before the first submission every budget is whole.
LEMMA BudgetInit == Init => BudgetKept
<1> SUFFICES ASSUME Init, NEW e \in Events
             PROVE  /\ IsFiniteSet(Carriers(e))
                    /\ Cardinality(Carriers(e)) + Count(~Spent(e)) + sent[e] <= 1 + faults
  BY DEF BudgetKept
<1>1. Carriers(e) = {}
  BY PollingType DEF Init, Carriers, Unsent
<1>2. IsFiniteSet(Carriers(e)) /\ Cardinality(Carriers(e)) = 0
  BY <1>1, FS_EmptySet
<1> QED
  BY <1>2 DEF Init, Count

\* Every step keeps every budget.
LEMMA BudgetStep == IInv /\ BudgetKept /\ [Next]_vars => BudgetKept'
<1> SUFFICES ASSUME IInv, BudgetKept, [Next]_vars PROVE BudgetKept'
  OBVIOUS
<1>1. TypeOK'
  BY TypeStep DEF IInv
<1>2. ASSUME NEW p \in Publishers, Step(p) \/ SendUnclear(p) \/ MarkPublishedRaises(p) \/ LoseBatch(p)
      PROVE  BudgetKept'
  <2>1. \A e \in Events : Paid(p, e)
    BY <1>2, PollPaid, ClaimPaid, SendPaid, MarkPaid, FaultPaid DEF Step
  <2>2. publisher' = [publisher EXCEPT ![p] = publisher'[p]]
    BY <1>2 DEF Step, Recover, ClaimNothing, Claim, SendOk, SendFails, SendUnclear, MarkPublished,
                MarkFailed, MarkPublishedRaises, LoseBatch, GoTo, Advance, IInv, TypeOK
  <2>3. \A q \in Publishers : q # p => publisher'[q] = publisher[q]
    BY <2>2 DEF IInv, TypeOK
  <2> QED
    BY <1>1, <2>1, <2>3, PaidStep
<1>3. ASSUME NEW e \in Events, Create(e) \/ ClaimGoesStale(e) PROVE BudgetKept'
  BY <1>3, RowStepBudget
<1>4. CASE UNCHANGED vars
  BY <1>4 DEF vars, BudgetKept, Carriers, Unsent, Spent, InUse
<1> QED
  BY <1>2, <1>3, <1>4 DEF Next

\* Without a crash, a lost answer or an overrun claim every event is appended once, and
\* each of those costs no more than one further copy.
THEOREM DuplicatesArePaidFor == Spec => []DuplicatesNeedFaults
<1>1. IInv /\ BudgetKept => DuplicatesNeedFaults
  <2> SUFFICES ASSUME IInv, BudgetKept, NEW e \in Events PROVE sent[e] <= 1 + faults
    BY DEF DuplicatesNeedFaults
  <2>1. /\ sent[e] \in Nat /\ faults \in Nat /\ Cardinality(Carriers(e)) \in Nat
        /\ Cardinality(Carriers(e)) + Count(~Spent(e)) + sent[e] <= 1 + faults
    BY FS_CardinalityType DEF IInv, TypeOK, BudgetKept
  <2> QED
    BY <2>1 DEF Count
<1>2. IInv /\ BudgetKept /\ [Next]_vars => (IInv /\ BudgetKept)'
  BY InvStep, BudgetStep
<1>3. Init => IInv /\ BudgetKept
  BY InvInit, BudgetInit
<1> QED
  BY <1>1, <1>2, <1>3, PTL DEF Spec

-------------------------------------------------------------------------------
(* Refinement.                                                             *)

\* Claims, releases and recoveries are invisible: the row stays open.
Open == {"pending", "processing"}
LEMMA SameAbsState ==
    ASSUME \A e \in Events : \/ row'[e].status = row[e].status
                             \/ row'[e].status \in Open /\ row[e].status \in Open
    PROVE  AbsState' = AbsState
  BY DEF AbsState, Open

\* A row that changes alone changes the abstract state at its event alone.
LEMMA OneEventMoves ==
    ASSUME IInv, NEW e \in Events, NEW new \in {Pending, Published}, row' = [row EXCEPT ![e] = new]
    PROVE  AbsState' = [AbsState EXCEPT ![e] = IF new = Published THEN "done" ELSE "open"]
<1>1. row'[e] = new /\ \A f \in Events : f # e => row'[f] = row[f]
  BY DEF IInv, TypeOK
<1> QED
  BY <1>1, ConstantRows DEF AbsState

\* An update of an item that the broker has is the end of its item, or nothing.
LEMMA PublishingFinishes ==
    ASSUME IInv, NEW p \in Publishers, At(p, "mark"), sent' = sent,
           \/ row' = row
           \/ OwnsClaim(p) /\ row' = [row EXCEPT ![publisher[p].item] = Published]
    PROVE  [Queue!Keeps]_<<AbsState, sent>>
<1>1. publisher[p].item \in Events /\ sent[publisher[p].item] > 0
  BY DEF IInv, LocalsMatchPoint, At
<1>2. CASE row' = row
  BY <1>2, SameAbsState
<1>3. CASE OwnsClaim(p) /\ row' = [row EXCEPT ![publisher[p].item] = Published]
  <2>1. AbsState' = [AbsState EXCEPT ![publisher[p].item] = "done"]
    BY <1>1, <1>3, OneEventMoves
  <2>2. AbsState[publisher[p].item] = "open"
    BY <1>1, <1>3 DEF AbsState, OwnsClaim
  <2> QED
    BY <1>1, <2>1, <2>2 DEF Queue!Keeps, Queue!Finish, Queue!Moves
<1> QED
  BY <1>2, <1>3

\* Each step of the publishers is one of the queue, or invisible.
LEMMA QueueStep == IInv /\ [Next]_vars => [Queue!Keeps]_<<AbsState, sent>>
<1> SUFFICES ASSUME IInv, [Next]_vars PROVE [Queue!Keeps]_<<AbsState, sent>>
  OBVIOUS
<1>1. ASSUME NEW p \in Publishers, Recover(p) PROVE AbsState' = AbsState /\ sent' = sent
  BY <1>1, SameAbsState, ConstantRows DEF Recover, StaleClaims, Open
<1>2. ASSUME NEW p \in Publishers, Claim(p) PROVE AbsState' = AbsState /\ sent' = sent
  <2>1. PICK tok \in [Batch -> Tokens] : ClaimsBatch(p, tok)
    BY <1>2, ClaimWithTokens
  <2> QED
    BY <1>2, <2>1, SameAbsState DEF ClaimsBatch, Claim, Batch, Claimable, Open
<1>3. ASSUME NEW p \in Publishers, SendOk(p) \/ SendUnclear(p) PROVE Queue!Keeps
  <2>1. publisher[p].item \in Events /\ row[publisher[p].item].status # "absent"
    BY <1>3 DEF SendOk, SendUnclear, IInv, LocalsMatchPoint, At
  <2>2. AbsState[publisher[p].item] # "absent"
    BY <2>1 DEF AbsState
  <2>3. AbsState' = AbsState
    BY <1>3, SameAbsState DEF SendOk, SendUnclear
  <2> QED
    BY <1>3, <2>1, <2>2, <2>3 DEF SendOk, SendUnclear, Queue!Keeps, Queue!Arrive
<1>4. ASSUME NEW p \in Publishers, MarkPublished(p) \/ MarkPublishedRaises(p)
      PROVE  [Queue!Keeps]_<<AbsState, sent>>
  BY <1>4, PublishingFinishes DEF MarkPublished, MarkPublishedRaises
<1>5. ASSUME NEW p \in Publishers, MarkFailed(p) PROVE AbsState' = AbsState /\ sent' = sent
  <2>1. \A e \in Events : row'[e] = row[e] \/ (row[e].status = "processing" /\ row'[e] = Pending)
    BY <1>5 DEF MarkFailed, OwnsClaim, IInv, TypeOK
  <2> QED
    BY <1>5, <2>1, SameAbsState, ConstantRows DEF MarkFailed, Open
<1>6. ASSUME NEW e \in Events, Create(e) PROVE Queue!Keeps
  <2>1. AbsState' = [AbsState EXCEPT ![e] = "open"]
    BY <1>6, OneEventMoves, ConstantRows DEF Create
  <2>2. AbsState[e] = "absent"
    BY <1>6 DEF Create, AbsState
  <2> QED
    BY <1>6, <2>1, <2>2 DEF Create, Queue!Keeps, Queue!Accept, Queue!Moves
<1>7. ASSUME NEW e \in Events, ClaimGoesStale(e) PROVE AbsState' = AbsState /\ sent' = sent
  <2>1. \A f \in Events : row'[f].status = row[f].status
    BY <1>7 DEF ClaimGoesStale, IInv, TypeOK
  <2> QED
    BY <1>7, <2>1, SameAbsState DEF ClaimGoesStale
<1>8. ASSUME row' = row, sent' = sent PROVE AbsState' = AbsState /\ sent' = sent
  BY <1>8, SameAbsState
<1> QED
  BY <1>1, <1>2, <1>3, <1>4, <1>5, <1>6, <1>7, <1>8
     DEF Next, Step, vars, ClaimNothing, SendFails, LoseBatch

\* Before the first submission the queue is empty.
LEMMA QueueInit == Init => Queue!Init
  BY ConstantRows DEF Init, Queue!Init, AbsState

\* The publishers implement a queue that delivers at least once and loses nothing.
THEOREM PublishersDeliverAtLeastOnce == Spec => ImplementsAtLeastOnce
<1>1. IInv /\ IInv' /\ [Next]_vars => [Queue!Keeps]_<<AbsState, sent>>
  BY QueueStep
<1> QED
  BY <1>1, QueueInit, Invariance, PTL DEF Spec, ImplementsAtLeastOnce, Queue!LosslessSpec
===============================================================================
