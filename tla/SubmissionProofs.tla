--------------------------- MODULE SubmissionProofs ---------------------------
(***************************************************************************)
(* Theorems about submissions for every number of gateways, keys, payloads *)
(* and faults.                                                             *)
(***************************************************************************)
EXTENDS Submission, FiniteSetTheorems, TLAPS

\* How a step changes one submission, with the headers it was sent with.
Changes(n, new) ==
    /\ new \in Job /\ job' = [job EXCEPT ![n] = new]
    /\ new.key = job[n].key /\ new.payload = job[n].payload

\* What changing a submission that commits nothing has to respect.
Fits(n, new) ==
    /\ new.answer # "none" \/ n \in requests => new.pc \in {"cleanup", "done"}
    /\ new.answer = "accepted" => new.pc = "done"
    /\ new.pc = "commit" => Rows(n) = {} /\ Writers(n) = {}
    /\ new.pc = "discard" => job[n].key \in LongKeys \/ new.found \in Rows(n)
    /\ new.answer = "accepted" => new.found \in Rows(n) /\ SamePayload(n, new.found)
    /\ new.answer = "refused" => \/ job[n].key \in LongKeys
                                 \/ \E r \in Rows(n) : ~SamePayload(n, r)

-------------------------------------------------------------------------------
(* Type correctness.                                                       *)

\* A submission that is changed alone leaves the others as they are.
LEMMA ChangesType ==
    ASSUME TypeOK, NEW n \in Submissions, NEW new, Changes(n, new)
    PROVE  /\ job' \in [Submissions -> Job] /\ job'[n] = new
           /\ \A m \in Submissions : m # n => job'[m] = job[m]
           /\ \A m \in Submissions : job'[m].key = job[m].key /\ job'[m].payload = job[m].payload
<1>1. job \in [Submissions -> Job]
  BY DEF TypeOK
<1> QED
  BY <1>1 DEF Changes

\* The rows of a submission are committed requests, which are submissions.
LEMMA RowsType == ASSUME TypeOK, NEW n \in Submissions PROVE Rows(n) \subseteq Submissions
  BY DEF TypeOK, Rows

\* The ways the code moves a submission are such changes.
LEMMA Movements ==
    ASSUME TypeOK, NEW n \in Submissions
    PROVE  /\ \A point \in Points : GoTo(n, point) => Changes(n, [job[n] EXCEPT !.pc = point])
           /\ \A a \in Verdicts : Raises(n, a) =>
                Changes(n, [job[n] EXCEPT !.pc = IF Media(n) THEN "cleanup" ELSE "done", !.answer = a])
           /\ \A r \in Submissions : job' = [job EXCEPT ![n].pc = "discard", ![n].found = r] =>
                Changes(n, [job[n] EXCEPT !.pc = "discard", !.found = r])
           /\ \A r \in Submissions :
                job' = [job EXCEPT ![n].pc = "done", ![n].found = r, ![n].answer = "accepted"] =>
                Changes(n, [job[n] EXCEPT !.pc = "done", !.found = r, !.answer = "accepted"])
           /\ job' = [job EXCEPT ![n].pc = "done", ![n].answer = "error"] =>
                Changes(n, [job[n] EXCEPT !.pc = "done", !.answer = "error"])
<1>1. job \in [Submissions -> Job] /\ job[n] \in Job
  BY DEF TypeOK
<1>2. \A point \in Points : GoTo(n, point) => Changes(n, [job[n] EXCEPT !.pc = point])
  BY <1>1 DEF GoTo, Changes, Job
<1>3. \A a \in Verdicts : Raises(n, a) =>
        Changes(n, [job[n] EXCEPT !.pc = IF Media(n) THEN "cleanup" ELSE "done", !.answer = a])
  BY <1>1 DEF Raises, Changes, Job, Points
<1>4. \A r \in Submissions : job' = [job EXCEPT ![n].pc = "discard", ![n].found = r] =>
        Changes(n, [job[n] EXCEPT !.pc = "discard", !.found = r])
  BY <1>1 DEF Changes, Job, Points
<1>5. \A r \in Submissions :
        job' = [job EXCEPT ![n].pc = "done", ![n].found = r, ![n].answer = "accepted"] =>
        Changes(n, [job[n] EXCEPT !.pc = "done", !.found = r, !.answer = "accepted"])
  BY <1>1 DEF Changes, Job, Points, Verdicts
<1>6. job' = [job EXCEPT ![n].pc = "done", ![n].answer = "error"] =>
        Changes(n, [job[n] EXCEPT !.pc = "done", !.answer = "error"])
  BY <1>1 DEF Changes, Job, Points, Verdicts
<1> QED
  BY <1>2, <1>3, <1>4, <1>5, <1>6

-------------------------------------------------------------------------------
(* The inductive invariant, by kinds of step.                              *)

\* A step that commits nothing preserves the invariant if it fits.
LEMMA QuietKeeps ==
    ASSUME IInv, NEW n \in Submissions, NEW new, Changes(n, new), Fits(n, new),
           requests' = requests, objects' \in SUBSET Submissions, faults' \in Nat
    PROVE  IInv'
<1>0. TypeOK /\ LocalsMatchPoint /\ KeyNamesOneRequest /\ AnswersAgree /\ RefusedForAReason
  BY DEF IInv
<1>1. /\ job' \in [Submissions -> Job] /\ job'[n] = new
      /\ \A m \in Submissions : m # n => job'[m] = job[m]
      /\ \A m \in Submissions : job'[m].key = job[m].key /\ job'[m].payload = job[m].payload
  BY <1>0, ChangesType
<1>2. requests \subseteq Submissions
  BY <1>0 DEF TypeOK
<1>3. TypeOK'
  BY <1>0, <1>1 DEF TypeOK
<1>4. \A m \in Submissions : Rows(m)' = Rows(m)
  BY <1>1, <1>2 DEF Rows, HasKey
<1>5. \A m, r \in Submissions : SamePayload(m, r)' <=> SamePayload(m, r)
  BY <1>1 DEF SamePayload
<1>6. KeyNamesOneRequest'
  BY <1>0, <1>1, <1>2 DEF KeyNamesOneRequest, HasKey
<1>7. AnswersAgree'
  <2> SUFFICES ASSUME NEW m \in Submissions, job'[m].answer = "accepted"
               PROVE  /\ job'[m].found \in requests
                      /\ job'[job'[m].found].key = job'[m].key
                      /\ job'[job'[m].found].payload = job'[m].payload
                      /\ job'[m].key = NoKey => job'[m].found = m
    BY DEF AnswersAgree, HasKey
  <2>1. CASE m = n
    <3>1. new.found \in Rows(n) /\ job[n].payload = job[new.found].payload
      BY <1>1, <2>1 DEF Fits, SamePayload
    <3>2. new.found \in Submissions
      BY <3>1, <1>2 DEF Rows
    <3> QED
      BY <1>1, <2>1, <3>1, <3>2 DEF Rows, HasKey
  <2>2. CASE m # n
    <3>1. /\ job[m].found \in requests /\ job[job[m].found].key = job[m].key
          /\ job[job[m].found].payload = job[m].payload
          /\ job[m].key = NoKey => job[m].found = m
      BY <1>0, <1>1, <2>2 DEF AnswersAgree, HasKey
    <3> QED
      BY <1>1, <1>2, <2>2, <3>1
  <2> QED
    BY <2>1, <2>2
<1>8. RefusedForAReason'
  <2> SUFFICES ASSUME NEW m \in Submissions, job'[m].answer = "refused"
               PROVE  job'[m].key \in LongKeys \/ \E r \in Rows(m)' : ~SamePayload(m, r)'
    BY DEF RefusedForAReason
  <2>1. job[m].key \in LongKeys \/ \E r \in Rows(m) : ~SamePayload(m, r)
    BY <1>0, <1>1 DEF Fits, RefusedForAReason
  <2> QED
    BY <1>1, <1>4, <1>5, <2>1, RowsType, <1>0
<1>9. LocalsMatchPoint'
  <2> SUFFICES ASSUME NEW m \in Submissions
               PROVE  /\ job'[m].answer # "none" \/ m \in requests => job'[m].pc \in {"cleanup", "done"}
                      /\ job'[m].answer = "accepted" => job'[m].pc = "done"
                      /\ job'[m].pc = "commit" => Rows(m)' = {} /\ Writers(m)' = {}
                      /\ job'[m].pc = "discard" => job'[m].key \in LongKeys \/ job'[m].found \in Rows(m)'
    BY DEF LocalsMatchPoint
  <2>1. \A o \in Submissions : At(o, "commit")' => (At(o, "commit") \/ o = n)
    BY <1>1 DEF At
  <2>2. job'[m].pc = "commit" => Writers(m)' = {}
    <3> SUFFICES ASSUME job'[m].pc = "commit", NEW o \in Submissions \ {m},
                        job'[o].pc = "commit", job[m].key # NoKey, job[o].key = job[m].key
                 PROVE  FALSE
      BY <1>1 DEF Writers, At, HasKey
    <3>1. CASE m = n
      <4>1. Writers(n) = {} /\ At(o, "commit")
        BY <1>1, <3>1 DEF Fits, At
      <4> QED
        BY <3>1, <4>1 DEF Writers, HasKey
    <3>2. CASE o = n
      <4>1. Writers(n) = {} /\ At(m, "commit")
        BY <1>1, <3>2 DEF Fits, At
      <4> QED
        BY <3>2, <4>1 DEF Writers, HasKey
    <3>3. CASE m # n /\ o # n
      <4>1. Writers(m) = {} /\ At(o, "commit")
        BY <1>0, <1>1, <3>3 DEF LocalsMatchPoint, At
      <4> QED
        BY <4>1 DEF Writers, HasKey
    <3> QED
      BY <3>1, <3>2, <3>3
  <2>3. CASE m = n
    BY <1>1, <1>4, <2>2, <2>3 DEF Fits
  <2>4. CASE m # n
    BY <1>0, <1>1, <1>4, <2>2, <2>4 DEF LocalsMatchPoint
  <2> QED
    BY <2>3, <2>4
<1> QED
  BY <1>3, <1>6, <1>7, <1>8, <1>9 DEF IInv

\* A commit preserves the invariant: its writer was alone with the key.
LEMMA CommitKeeps ==
    ASSUME IInv, NEW n \in Submissions, At(n, "commit"), NEW new, Changes(n, new),
           \/ new.pc = "done" /\ new.answer = "accepted" /\ new.found = n
           \/ new.pc \in {"cleanup", "done"} /\ new.answer = "error",
           requests' = requests \cup {n}, objects' = objects, faults' \in Nat
    PROVE  IInv'
<1>0. TypeOK /\ LocalsMatchPoint /\ KeyNamesOneRequest /\ AnswersAgree /\ RefusedForAReason
  BY DEF IInv
<1>1. /\ job' \in [Submissions -> Job] /\ job'[n] = new
      /\ \A m \in Submissions : m # n => job'[m] = job[m]
      /\ \A m \in Submissions : job'[m].key = job[m].key /\ job'[m].payload = job[m].payload
  BY <1>0, ChangesType
<1>2. requests \subseteq Submissions
  BY <1>0 DEF TypeOK
<1>3. TypeOK'
  BY <1>0, <1>1 DEF TypeOK
<1>a. Rows(n) = {} /\ Writers(n) = {}
  BY <1>0 DEF LocalsMatchPoint, At
<1>4. \A m \in Submissions :
        Rows(m)' = Rows(m) \cup (IF job[m].key # NoKey /\ job[n].key = job[m].key THEN {n} ELSE {})
  BY <1>1, <1>2 DEF Rows, HasKey
<1>5. \A m, r \in Submissions : SamePayload(m, r)' <=> SamePayload(m, r)
  BY <1>1 DEF SamePayload
<1>6. KeyNamesOneRequest'
  <2> SUFFICES ASSUME NEW r \in requests \cup {n}, NEW s \in requests \cup {n},
                      job[r].key # NoKey, job[r].key = job[s].key
               PROVE  r = s
    BY <1>1, <1>2 DEF KeyNamesOneRequest, HasKey
  <2>1. CASE r \in requests /\ s \in requests
    BY <1>0, <2>1 DEF KeyNamesOneRequest, HasKey
  <2>2. CASE r = n /\ s \in requests
    BY <1>a, <2>2 DEF Rows, HasKey
  <2>3. CASE s = n /\ r \in requests
    BY <1>a, <2>3 DEF Rows, HasKey
  <2> QED
    BY <2>1, <2>2, <2>3
<1>7. AnswersAgree'
  <2> SUFFICES ASSUME NEW m \in Submissions, job'[m].answer = "accepted"
               PROVE  /\ job'[m].found \in requests'
                      /\ job'[job'[m].found].key = job'[m].key
                      /\ job'[job'[m].found].payload = job'[m].payload
                      /\ job'[m].key = NoKey => job'[m].found = m
    BY DEF AnswersAgree, HasKey
  <2>1. CASE m = n
    BY <1>1, <2>1
  <2>2. CASE m # n
    <3>1. /\ job[m].found \in requests /\ job[job[m].found].key = job[m].key
          /\ job[job[m].found].payload = job[m].payload
          /\ job[m].key = NoKey => job[m].found = m
      BY <1>0, <1>1, <2>2 DEF AnswersAgree, HasKey
    <3> QED
      BY <1>1, <1>2, <2>2, <3>1
  <2> QED
    BY <2>1, <2>2
<1>8. RefusedForAReason'
  <2> SUFFICES ASSUME NEW m \in Submissions, job'[m].answer = "refused"
               PROVE  job'[m].key \in LongKeys \/ \E r \in Rows(m)' : ~SamePayload(m, r)'
    BY DEF RefusedForAReason
  <2>1. job[m].answer = "refused"
    BY <1>1
  <2>2. job[m].key \in LongKeys \/ \E r \in Rows(m) : ~SamePayload(m, r)
    BY <1>0, <2>1 DEF RefusedForAReason
  <2> QED
    BY <1>1, <1>4, <1>5, <2>2, RowsType, <1>0
<1>9. LocalsMatchPoint'
  <2> SUFFICES ASSUME NEW m \in Submissions
               PROVE  /\ job'[m].answer # "none" \/ m \in requests' => job'[m].pc \in {"cleanup", "done"}
                      /\ job'[m].answer = "accepted" => job'[m].pc = "done"
                      /\ job'[m].pc = "commit" => Rows(m)' = {} /\ Writers(m)' = {}
                      /\ job'[m].pc = "discard" => job'[m].key \in LongKeys \/ job'[m].found \in Rows(m)'
    BY DEF LocalsMatchPoint
  <2>1. CASE m = n
    BY <1>1, <2>1
  <2>2. CASE m # n
    <3>1. job'[m] = job[m]
      BY <1>1, <2>2
    <3>2. ASSUME job[m].pc = "commit" PROVE Rows(m)' = {} /\ Writers(m)' = {}
      <4>1. Rows(m) = {} /\ Writers(m) = {}
        BY <1>0, <3>2 DEF LocalsMatchPoint
      <4>2. ~ (job[m].key # NoKey /\ job[n].key = job[m].key)
        BY <1>a, <2>2, <3>2 DEF Writers, At, HasKey
      <4>3. Writers(m)' \subseteq Writers(m)
        BY <1>1 DEF Writers, At, HasKey
      <4> QED
        BY <1>4, <4>1, <4>2, <4>3
    <3> QED
      BY <1>0, <1>1, <1>4, <2>2, <3>1, <3>2 DEF LocalsMatchPoint
  <2> QED
    BY <2>1, <2>2
<1> QED
  BY <1>3, <1>6, <1>7, <1>8, <1>9 DEF IInv

-------------------------------------------------------------------------------
(* The inductive invariant, action by action.                              *)

\* A submission that is still being handled has no committed request.
LEMMA UnderWay == ASSUME IInv, NEW n \in Submissions, job[n].pc \notin {"cleanup", "done"}
                  PROVE  n \notin requests /\ job[n].answer = "none"
<1>1. job[n].answer # "none" \/ n \in requests => job[n].pc \in {"cleanup", "done"}
  BY DEF IInv, LocalsMatchPoint
<1> QED
  BY <1>1

\* Moving on to a point that asks for nothing, with the same answer.
LEMMA MoveFits ==
    ASSUME IInv, NEW n \in Submissions, job[n].pc \notin {"cleanup", "done"},
           NEW point \in {"check", "insert"}
    PROVE  Fits(n, [job[n] EXCEPT !.pc = point])
<1>1. job[n] \in Job
  BY DEF IInv, TypeOK
<1> QED
  BY <1>1, UnderWay DEF Fits, Job

\* An error or a justified refusal.
LEMMA RaiseFits ==
    ASSUME IInv, NEW n \in Submissions, job[n].pc \notin {"cleanup", "done"},
           NEW point \in {"cleanup", "done"}, NEW a \in {"error", "refused"},
           a = "refused" => job[n].key \in LongKeys \/ \E r \in Rows(n) : ~SamePayload(n, r)
    PROVE  Fits(n, [job[n] EXCEPT !.pc = point, !.answer = a])
<1>1. job[n] \in Job
  BY DEF IInv, TypeOK
<1> QED
  BY <1>1 DEF Fits, Job

\* An exception ends the handling of a submission, for a reason or as an error.
LEMMA RaisesInv ==
    ASSUME IInv, NEW n \in Submissions, job[n].pc \notin {"cleanup", "done"},
           NEW a \in {"error", "refused"}, Raises(n, a),
           a = "refused" => job[n].key \in LongKeys \/ \E r \in Rows(n) : ~SamePayload(n, r),
           requests' = requests, objects' \in SUBSET Submissions, faults' \in Nat
    PROVE  IInv'
<1> DEFINE point == IF Media(n) THEN "cleanup" ELSE "done"
           new == [job[n] EXCEPT !.pc = point, !.answer = a]
<1>1. Changes(n, new)
  BY Movements DEF IInv, Verdicts
<1>2. Fits(n, new)
  BY RaiseFits
<1> QED
  BY <1>1, <1>2, QuietKeeps

\* create_request ends with the request it found or with a conflict.
LEMMA ConcludesInv ==
    ASSUME IInv, NEW n \in Submissions, job[n].pc \notin {"cleanup", "done"},
           NEW r \in Rows(n), Concludes(n, r),
           requests' = requests, objects' \in SUBSET Submissions, faults' \in Nat
    PROVE  IInv'
<1>1. job[n] \in Job /\ r \in Submissions
  BY RowsType DEF IInv, TypeOK
<1>2. CASE SamePayload(n, r)
  <2> DEFINE new == [job[n] EXCEPT !.pc = "done", !.found = r, !.answer = "accepted"]
  <2>1. Changes(n, new)
    BY <1>1, <1>2, Movements DEF Concludes, IInv
  <2>2. Fits(n, new)
    BY <1>1, <1>2 DEF Fits, Job
  <2> QED
    BY <2>1, <2>2, QuietKeeps
<1>3. CASE ~SamePayload(n, r)
  BY <1>3, RaisesInv DEF Concludes
<1> QED
  BY <1>2, <1>3

\* A lookup or a lost race finds the request of the key.
LEMMA FindsInv ==
    ASSUME IInv, NEW n \in Submissions, job[n].pc \notin {"cleanup", "done"},
           NEW r \in Rows(n), Finds(n, r),
           requests' = requests, objects' = objects, faults' = faults
    PROVE  IInv'
<1>1. job[n] \in Job /\ r \in Submissions /\ objects \in SUBSET Submissions /\ faults \in Nat
  BY RowsType DEF IInv, TypeOK
<1>2. CASE Media(n)
  <2> DEFINE new == [job[n] EXCEPT !.pc = "discard", !.found = r]
  <2>1. Changes(n, new)
    BY <1>1, <1>2, Movements DEF Finds, IInv
  <2>2. Fits(n, new)
    BY <1>1, UnderWay DEF Fits, Job
  <2> QED
    BY <1>1, <2>1, <2>2, QuietKeeps
<1>3. CASE ~Media(n)
  BY <1>1, <1>3, ConcludesInv DEF Finds
<1> QED
  BY <1>2, <1>3

\* A deletion keeps objects and faults in their types.
LEMMA DeletesType == ASSUME IInv, NEW n \in Submissions, Deletes(n)
                     PROVE  objects' \in SUBSET Submissions /\ faults' \in Nat
  BY DEF Deletes, Fault, IInv, TypeOK

\* A submission that arrives has neither request nor answer yet.
LEMMA ReceiveInv == ASSUME IInv, NEW n \in Submissions, Receive(n) PROVE IInv'
<1>0. /\ job \in [Submissions -> Job] /\ requests \subseteq Submissions
      /\ requests' = requests /\ objects' = objects /\ faults' = faults
  BY DEF IInv, TypeOK, Receive
<1>1. PICK k \in Keys \cup {NoKey}, p \in Payloads :
        job' = [job EXCEPT ![n].pc = IF p \in Uploads THEN "upload" ELSE "check",
                           ![n].key = k, ![n].payload = p]
  BY DEF Receive
<1>2. /\ job' \in [Submissions -> Job] /\ job'[n].pc \in {"upload", "check"}
      /\ job'[n].answer = job[n].answer
      /\ \A m \in Submissions : m # n => job'[m] = job[m]
  <2> DEFINE point == IF p \in Uploads THEN "upload" ELSE "check"
             new == [job[n] EXCEPT !.pc = point, !.key = k, !.payload = p]
  <2>1. job[n] \in Job /\ point \in {"upload", "check"}
    BY <1>0
  <2>2. new \in Job /\ new.pc = point /\ new.answer = job[n].answer
    BY <2>1 DEF Job, Points
  <2>3. job' = [job EXCEPT ![n] = new]
    BY <1>0, <1>1, <2>1 DEF Job
  <2> HIDE DEF point, new
  <2> QED
    BY <1>0, <2>1, <2>2, <2>3
<1>3. n \notin requests /\ job[n].answer = "none"
  BY UnderWay DEF Receive, At
<1>4. \A m \in Submissions : m # n => Rows(m)' = Rows(m) /\ Writers(m)' = Writers(m)
  BY <1>0, <1>2, <1>3 DEF Rows, Writers, HasKey, At, Receive
<1>5. TypeOK'
  BY <1>0, <1>2 DEF IInv, TypeOK
<1>6. LocalsMatchPoint'
  BY <1>0, <1>2, <1>3, <1>4 DEF IInv, LocalsMatchPoint
<1>7. KeyNamesOneRequest'
  BY <1>0, <1>2, <1>3 DEF IInv, KeyNamesOneRequest, HasKey
<1>8. AnswersAgree'
  BY <1>0, <1>2, <1>3 DEF IInv, AnswersAgree, HasKey
<1>9. RefusedForAReason'
  <2> SUFFICES ASSUME NEW m \in Submissions, job'[m].answer = "refused"
               PROVE  job'[m].key \in LongKeys \/ \E r \in Rows(m)' : ~SamePayload(m, r)'
    BY DEF RefusedForAReason
  <2>1. m # n /\ job[m].answer = "refused"
    BY <1>2, <1>3
  <2>2. job[m].key \in LongKeys \/ \E r \in Rows(m) : ~SamePayload(m, r)
    BY <2>1 DEF IInv, RefusedForAReason
  <2> QED
    BY <1>2, <1>3, <1>4, <2>1, <2>2, <1>0 DEF Rows, SamePayload
<1> QED
  BY <1>5, <1>6, <1>7, <1>8, <1>9 DEF IInv

\* The steps of a submission that nothing goes wrong with.
LEMMA ProgressInv ==
    ASSUME IInv, NEW n \in Submissions, UploadOk(n) \/ LookupMisses(n) \/ Insert(n)
    PROVE  IInv'
<1>0. job[n] \in Job /\ requests \subseteq Submissions /\ objects \subseteq Submissions /\ faults \in Nat
  BY DEF IInv, TypeOK
<1>1. CASE UploadOk(n) \/ LookupMisses(n)
  <2>1. PICK point \in {"check", "insert"} : GoTo(n, point)
    BY <1>1 DEF UploadOk, LookupMisses
  <2>2. job[n].pc \notin {"cleanup", "done"}
    BY <1>1 DEF UploadOk, LookupMisses, At
  <2>3. Changes(n, [job[n] EXCEPT !.pc = point]) /\ Fits(n, [job[n] EXCEPT !.pc = point])
    BY <2>1, <2>2, MoveFits, Movements DEF IInv, Points
  <2> QED
    BY <1>0, <1>1, <2>3, QuietKeeps DEF UploadOk, LookupMisses
<1>2. CASE Insert(n)
  <2>1. Changes(n, [job[n] EXCEPT !.pc = "commit"])
    BY <1>2, Movements DEF Insert, IInv, Points
  <2>2. Fits(n, [job[n] EXCEPT !.pc = "commit"])
    BY <1>0, <1>2, UnderWay DEF Insert, At, Fits, Job
  <2> QED
    BY <1>0, <1>2, <2>1, <2>2, QuietKeeps DEF Insert
<1> QED
  BY <1>1, <1>2

\* What ends a submission with an error before anything is committed.
LEMMA ErrorInv == ASSUME IInv, NEW n \in Submissions, UploadFails(n) \/ Crash(n) PROVE IInv'
<1>0. requests \subseteq Submissions /\ objects \subseteq Submissions /\ faults \in Nat
  BY DEF IInv, TypeOK
<1>1. job' = [job EXCEPT ![n].pc = "done", ![n].answer = "error"] /\ requests' = requests
  BY DEF UploadFails, Crash
<1>2. objects' \in SUBSET Submissions /\ faults' \in Nat
  BY <1>0 DEF UploadFails, Crash, Fault
<1> DEFINE new == [job[n] EXCEPT !.pc = "done", !.answer = "error"]
<1>3. Changes(n, new)
  BY <1>1, Movements DEF IInv
<1>4. Fits(n, new)
  <2>1. job[n] \in Job
    BY DEF IInv, TypeOK
  <2> QED
    BY <2>1 DEF Fits, Job
<1> QED
  BY <1>1, <1>2, <1>3, <1>4, QuietKeeps

\* Throwing an upload away, before or after create_request has ended.
LEMMA DeletionInv ==
    ASSUME IInv, NEW n \in Submissions, RejectKey(n) \/ Discard(n) \/ Cleanup(n) PROVE IInv'
<1>0. /\ job[n] \in Job /\ requests' = requests /\ objects \in SUBSET Submissions /\ faults \in Nat
  BY DEF IInv, TypeOK, RejectKey, Discard, Cleanup
<1>1. CASE RejectKey(n)
  <2>0. job[n].pc \notin {"cleanup", "done"} /\ job[n].key \in LongKeys
    BY <1>1 DEF RejectKey, At
  <2>1. CASE Media(n)
    <3>1. Changes(n, [job[n] EXCEPT !.pc = "discard"])
      BY <1>1, <2>1, Movements DEF RejectKey, IInv, Points
    <3>2. Fits(n, [job[n] EXCEPT !.pc = "discard"])
      BY <1>0, <2>0, UnderWay DEF Fits, Job
    <3> QED
      BY <1>0, <1>1, <3>1, <3>2, QuietKeeps DEF RejectKey
  <2>2. CASE ~Media(n)
    <3>1. Raises(n, "refused") /\ objects' = objects /\ faults' = faults
      BY <1>1, <2>2 DEF RejectKey
    <3> QED
      BY <1>0, <2>0, <3>1, RaisesInv
  <2> QED
    BY <2>1, <2>2
<1>2. CASE Discard(n)
  <2>0. job[n].pc \notin {"cleanup", "done"} /\ objects' \in SUBSET Submissions /\ faults' \in Nat
    BY <1>2, DeletesType DEF Discard, At
  <2>1. CASE job[n].key \in LongKeys
    <3>1. Raises(n, "refused")
      BY <1>2, <2>1 DEF Discard
    <3> QED
      BY <1>0, <2>0, <2>1, <3>1, RaisesInv
  <2>2. CASE job[n].key \notin LongKeys
    <3>1. Concludes(n, job[n].found) /\ job[n].found \in Rows(n)
      BY <1>2, <2>2 DEF Discard, IInv, LocalsMatchPoint, At
    <3> QED
      BY <1>0, <2>0, <3>1, ConcludesInv
  <2> QED
    BY <2>1, <2>2
<1>3. CASE Cleanup(n)
  <2>1. objects' \in SUBSET Submissions /\ faults' \in Nat
    BY <1>3, DeletesType DEF Cleanup
  <2>2. Changes(n, [job[n] EXCEPT !.pc = "done"])
    BY <1>3, Movements DEF Cleanup, IInv, Points
  <2>3. job[n].answer # "accepted"
    BY <1>3 DEF Cleanup, At, IInv, LocalsMatchPoint
  <2>4. job[n].answer = "refused" => job[n].key \in LongKeys \/ \E r \in Rows(n) : ~SamePayload(n, r)
    BY DEF IInv, RefusedForAReason
  <2>5. Fits(n, [job[n] EXCEPT !.pc = "done"])
    BY <1>0, <2>3, <2>4 DEF Fits, Job
  <2> QED
    BY <1>0, <2>1, <2>2, <2>5, QuietKeeps
<1> QED
  BY <1>1, <1>2, <1>3

\* A commit, whether or not the gateway learns of it.
LEMMA CommitInv == ASSUME IInv, NEW n \in Submissions, Commit(n) \/ CommitUnclear(n) PROVE IInv'
<1>0. job[n] \in Job /\ faults \in Nat
  BY DEF IInv, TypeOK
<1>1. CASE Commit(n)
  <2> DEFINE new == [job[n] EXCEPT !.pc = "done", !.found = n, !.answer = "accepted"]
  <2>1. Changes(n, new)
    BY <1>1, Movements DEF Commit, IInv
  <2>2. new.pc = "done" /\ new.answer = "accepted" /\ new.found = n
    BY <1>0 DEF Job
  <2> QED
    BY <1>0, <1>1, <2>1, <2>2, CommitKeeps DEF Commit
<1>2. CASE CommitUnclear(n)
  <2> DEFINE new == [job[n] EXCEPT !.pc = IF Media(n) THEN "cleanup" ELSE "done", !.answer = "error"]
  <2>1. Changes(n, new)
    BY <1>2, Movements DEF CommitUnclear, IInv, Verdicts
  <2>2. new.pc \in {"cleanup", "done"} /\ new.answer = "error"
    BY <1>0 DEF Job
  <2>3. faults' \in Nat
    BY <1>0, <1>2 DEF CommitUnclear, Fault
  <2> QED
    BY <1>2, <2>1, <2>2, <2>3, CommitKeeps DEF CommitUnclear
<1> QED
  BY <1>1, <1>2

\* Before the first submission there is nothing to check.
LEMMA InvInit == Init => IInv
<1> SUFFICES ASSUME Init PROVE IInv
  OBVIOUS
<1>1. Blank \in Job /\ Blank.pc = "new" /\ Blank.answer = "none"
  BY DEF Blank, Job, Points, Verdicts
<1>2. job \in [Submissions -> Job] /\ \A n \in Submissions : job[n].pc = "new" /\ job[n].answer = "none"
  BY <1>1 DEF Init
<1>3. TypeOK
  BY <1>2 DEF Init, TypeOK
<1>4. LocalsMatchPoint /\ KeyNamesOneRequest /\ AnswersAgree /\ RefusedForAReason
  BY <1>2 DEF Init, LocalsMatchPoint, KeyNamesOneRequest, AnswersAgree, RefusedForAReason
<1> QED
  BY <1>3, <1>4 DEF IInv

\* Every step preserves the invariant.
LEMMA InvStep == IInv /\ [Next]_vars => IInv'
<1> SUFFICES ASSUME IInv, [Next]_vars PROVE IInv'
  OBVIOUS
<1>0. objects \in SUBSET Submissions /\ faults \in Nat
  BY DEF IInv, TypeOK
<1>1. ASSUME NEW n \in Submissions, LookupFinds(n) \/ InsertLoses(n) PROVE IInv'
  <2>1. PICK r \in Rows(n) : Finds(n, r)
    BY <1>1 DEF LookupFinds, InsertLoses
  <2> QED
    BY <1>1, <2>1, FindsInv DEF LookupFinds, InsertLoses, At
<1>2. ASSUME NEW n \in Submissions, DatabaseFails(n) PROVE IInv'
  BY <1>0, <1>2, RaisesInv DEF DatabaseFails, At
<1>3. CASE UNCHANGED vars
  BY <1>3 DEF vars, IInv, TypeOK, LocalsMatchPoint, KeyNamesOneRequest, AnswersAgree, RefusedForAReason,
     Rows, Writers, HasKey, At, SamePayload
<1> QED
  BY <1>1, <1>2, <1>3, ReceiveInv, ProgressInv, ErrorInv, DeletionInv, CommitInv DEF Next, Step

\* The inductive invariant of submissions holds in every reachable state.
THEOREM Invariance == Spec => []IInv
  BY InvInit, InvStep, PTL DEF Spec

\* Submissions, rows and objects have the types declared for them.
THEOREM TypeCorrect == Spec => []TypeOK
<1>1. IInv => TypeOK
  BY DEF IInv
<1> QED
  BY <1>1, Invariance, PTL

\* An idempotency key names one request, however many submissions race for it.
THEOREM KeysNameOneRequest == Spec => []KeyNamesOneRequest
<1>1. IInv => KeyNamesOneRequest
  BY DEF IInv
<1> QED
  BY <1>1, Invariance, PTL

\* Every client that is told "created" gets a committed request with its content.
THEOREM AnswersAreTruthful == Spec => []AnswersAgree
<1>1. IInv => AnswersAgree
  BY DEF IInv
<1> QED
  BY <1>1, Invariance, PTL

\* No submission is refused for a conflict that does not exist.
THEOREM RefusalsAreJustified == Spec => []RefusedForAReason
<1>1. IInv => RefusedForAReason
  BY DEF IInv
<1> QED
  BY <1>1, Invariance, PTL

-------------------------------------------------------------------------------
(* Objects.  Storage and database agree but for the faults: each fault     *)
(* leaves one object too many or takes one too many.                       *)

\* An upload is in storage while its request may still be written, and only then or later.
ObjectFits(n) ==
    /\ n \in objects => Media(n) /\ job[n].pc \notin {"new", "upload"}
    /\ job[n].pc = "upload" => Media(n)
    /\ job[n].pc \in {"check", "insert", "commit"} /\ Media(n) => n \in objects

\* The objects nobody refers to, and the requests whose object is gone or about to go.
Strays == {n \in objects : At(n, "done") /\ n \notin requests}
Lost == {r \in requests : Media(r) /\ (r \notin objects \/ At(r, "cleanup"))}

ObjectInv == /\ \A n \in Submissions : ObjectFits(n)
             /\ Cardinality(Strays) <= faults
             /\ Cardinality(Lost) <= faults

\* What a step of one submission does, as far as objects go.
Handled(n) ==
    /\ \A m \in Submissions \ {n} : /\ job'[m] = job[m]
                                    /\ m \in objects' <=> m \in objects
                                    /\ m \in requests' <=> m \in requests
    /\ faults' \in {faults, faults + 1}
    /\ ObjectFits(n)'
    /\ n \in Strays' => n \in Strays \/ faults' = faults + 1
    /\ n \in Lost' => n \in Lost \/ faults' = faults + 1

\* A finite set that gains at most one element gains at most one in size.
LEMMA OneMore ==
    ASSUME NEW S, NEW T, NEW x, IsFiniteSet(S), T \subseteq S \cup {x}
    PROVE  /\ Cardinality(S) \in Nat /\ Cardinality(T) \in Nat
           /\ Cardinality(T) <= Cardinality(S) + 1
           /\ T \subseteq S => Cardinality(T) <= Cardinality(S)
<1>1. /\ IsFiniteSet(S \cup {x})
      /\ Cardinality(S \cup {x}) = IF x \in S THEN Cardinality(S) ELSE Cardinality(S) + 1
  BY FS_AddElement
<1>2. /\ IsFiniteSet(T) /\ Cardinality(T) <= Cardinality(S \cup {x})
      /\ T \subseteq S => Cardinality(T) <= Cardinality(S)
  BY <1>1, FS_Subset
<1>3. Cardinality(S) \in Nat /\ Cardinality(T) \in Nat
  BY <1>2, FS_CardinalityType
<1> QED
  BY <1>1, <1>2, <1>3

\* Objects and requests are numbered by submissions, of which there are finitely many.
LEMMA Finitely == ASSUME TypeOK PROVE IsFiniteSet(Strays) /\ IsFiniteSet(Lost)
<1>1. IsFiniteSet(Submissions)
  BY SubmissionAssumption, FS_Interval DEF Submissions
<1>2. Strays \subseteq Submissions /\ Lost \subseteq Submissions
  BY DEF TypeOK, Strays, Lost
<1> QED
  BY <1>1, <1>2, FS_Subset

\* Such a step keeps storage and database in agreement but for the faults.
LEMMA HandledStep ==
    ASSUME IInv, TypeOK', ObjectInv, NEW n \in Submissions, Handled(n)
    PROVE  ObjectInv'
<1>0. faults \in Nat /\ objects' \subseteq Submissions /\ requests' \subseteq Submissions
  BY DEF IInv, TypeOK
<1>1. \A m \in Submissions : ObjectFits(m)'
  BY DEF Handled, ObjectInv, ObjectFits, Media
<1>2. IsFiniteSet(Strays) /\ IsFiniteSet(Lost)
  BY Finitely DEF IInv
<1>3. Strays' \subseteq Strays \cup {n} /\ (faults' = faults => Strays' \subseteq Strays)
  BY <1>0 DEF Handled, Strays, At
<1>4. Lost' \subseteq Lost \cup {n} /\ (faults' = faults => Lost' \subseteq Lost)
  BY <1>0 DEF Handled, Lost, At, Media
<1>f. faults' \in {faults, faults + 1} /\ Cardinality(Strays) <= faults /\ Cardinality(Lost) <= faults
  BY DEF Handled, ObjectInv
<1>5. Cardinality(Strays') <= faults'
  <2>1. /\ Cardinality(Strays) \in Nat /\ Cardinality(Strays') \in Nat
        /\ Cardinality(Strays') <= Cardinality(Strays) + 1
        /\ Strays' \subseteq Strays => Cardinality(Strays') <= Cardinality(Strays)
    <3> DEFINE S == Strays  T == Strays'
    <3>1. IsFiniteSet(S) /\ T \subseteq S \cup {n}
      BY <1>2, <1>3
    <3> HIDE DEF S, T
    <3>2. /\ Cardinality(S) \in Nat /\ Cardinality(T) \in Nat
          /\ Cardinality(T) <= Cardinality(S) + 1
          /\ T \subseteq S => Cardinality(T) <= Cardinality(S)
      BY <3>1, OneMore
    <3> QED
      BY <3>2 DEF S, T
  <2> QED
    BY <1>0, <1>3, <1>f, <2>1
<1>6. Cardinality(Lost') <= faults'
  <2>1. /\ Cardinality(Lost) \in Nat /\ Cardinality(Lost') \in Nat
        /\ Cardinality(Lost') <= Cardinality(Lost) + 1
        /\ Lost' \subseteq Lost => Cardinality(Lost') <= Cardinality(Lost)
    <3> DEFINE S == Lost  T == Lost'
    <3>1. IsFiniteSet(S) /\ T \subseteq S \cup {n}
      BY <1>2, <1>4
    <3> HIDE DEF S, T
    <3>2. /\ Cardinality(S) \in Nat /\ Cardinality(T) \in Nat
          /\ Cardinality(T) <= Cardinality(S) + 1
          /\ T \subseteq S => Cardinality(T) <= Cardinality(S)
      BY <3>1, OneMore
    <3> QED
      BY <3>2 DEF S, T
  <2> QED
    BY <1>0, <1>4, <1>f, <2>1
<1> QED
  BY <1>1, <1>5, <1>6 DEF ObjectInv

\* Where the ways the code moves a submission leave it.
LEMMA NextPoint ==
    ASSUME TypeOK, NEW n \in Submissions,
           \/ \E point \in Points : GoTo(n, point)
           \/ \E a \in Verdicts : Raises(n, a)
           \/ \E r \in Submissions : Concludes(n, r) \/ Finds(n, r)
           \/ \E a \in Verdicts : job' = [job EXCEPT ![n].pc = "done", ![n].answer = a]
           \/ job' = [job EXCEPT ![n].pc = "done", ![n].found = n, ![n].answer = "accepted"]
    PROVE  /\ \A m \in Submissions \ {n} : job'[m] = job[m]
           /\ job'[n].payload = job[n].payload
           /\ \A point \in Points : GoTo(n, point) => job'[n].pc = point
           /\ \A a \in Verdicts : Raises(n, a) => job'[n].pc = IF Media(n) THEN "cleanup" ELSE "done"
           /\ \A r \in Submissions : Concludes(n, r) =>
                job'[n].pc \in (IF Media(n) THEN {"cleanup", "done"} ELSE {"done"})
           /\ \A r \in Submissions : Finds(n, r) => job'[n].pc = IF Media(n) THEN "discard" ELSE "done"
<1>1. job \in [Submissions -> Job] /\ job[n] \in Job
  BY DEF TypeOK
<1>2. ASSUME NEW point \in Points, GoTo(n, point)
      PROVE  /\ \A m \in Submissions \ {n} : job'[m] = job[m]
             /\ job'[n].payload = job[n].payload /\ job'[n].pc = point
  BY <1>1, <1>2 DEF GoTo, Job
<1>3. ASSUME NEW a \in Verdicts, Raises(n, a)
      PROVE  /\ \A m \in Submissions \ {n} : job'[m] = job[m]
             /\ job'[n].payload = job[n].payload
             /\ job'[n].pc = IF Media(n) THEN "cleanup" ELSE "done"
  BY <1>1, <1>3 DEF Raises, Job
<1>4. ASSUME NEW r \in Submissions, Concludes(n, r)
      PROVE  /\ \A m \in Submissions \ {n} : job'[m] = job[m]
             /\ job'[n].payload = job[n].payload
             /\ job'[n].pc \in (IF Media(n) THEN {"cleanup", "done"} ELSE {"done"})
  <2>1. CASE SamePayload(n, r)
    <3>1. job' = [job EXCEPT ![n].pc = "done", ![n].found = r, ![n].answer = "accepted"]
      BY <1>4, <2>1 DEF Concludes
    <3>2. /\ \A m \in Submissions \ {n} : job'[m] = job[m]
          /\ job'[n].payload = job[n].payload /\ job'[n].pc = "done"
      BY <1>1, <3>1 DEF Job
    <3> QED
      BY <3>2
  <2>2. CASE ~SamePayload(n, r)
    BY <1>3, <1>4, <2>2 DEF Concludes, Verdicts
  <2> QED
    BY <2>1, <2>2
<1>5. ASSUME NEW r \in Submissions, Finds(n, r)
      PROVE  /\ \A m \in Submissions \ {n} : job'[m] = job[m]
             /\ job'[n].payload = job[n].payload
             /\ job'[n].pc = IF Media(n) THEN "discard" ELSE "done"
  <2>1. CASE Media(n)
    BY <1>1, <1>5, <2>1 DEF Finds, Job
  <2>2. CASE ~Media(n)
    BY <1>4, <1>5, <2>2 DEF Finds
  <2> QED
    BY <2>1, <2>2
<1>6. ASSUME \/ \E a \in Verdicts : job' = [job EXCEPT ![n].pc = "done", ![n].answer = a]
             \/ job' = [job EXCEPT ![n].pc = "done", ![n].found = n, ![n].answer = "accepted"]
      PROVE  /\ \A m \in Submissions \ {n} : job'[m] = job[m]
             /\ job'[n].payload = job[n].payload
  BY <1>1, <1>6 DEF Job
<1> QED
  BY <1>2, <1>3, <1>4, <1>5, <1>6

\* A submission that arrives has no object yet, and one that is uploaded has.
LEMMA ArrivalHandled ==
    ASSUME IInv, ObjectInv, NEW n \in Submissions, Receive(n) \/ UploadOk(n) \/ UploadFails(n)
    PROVE  Handled(n)
<1>0. /\ job \in [Submissions -> Job] /\ requests' = requests
      /\ faults' \in {faults, faults + 1}
      /\ n \notin objects /\ job[n].pc \in {"new", "upload"}
      /\ NoPayload \notin Uploads
  BY SubmissionAssumption
     DEF IInv, TypeOK, Receive, UploadOk, UploadFails, Fault, ObjectInv, ObjectFits, At
<1>1. n \notin requests
  BY <1>0, UnderWay
<1>2. CASE Receive(n)
  <2>1. PICK k \in Keys \cup {NoKey}, p \in Payloads :
          job' = [job EXCEPT ![n].pc = IF p \in Uploads THEN "upload" ELSE "check",
                             ![n].key = k, ![n].payload = p]
    BY <1>2 DEF Receive
  <2>2. /\ job'[n].pc = IF p \in Uploads THEN "upload" ELSE "check"
        /\ job'[n].payload = p
        /\ \A m \in Submissions \ {n} : job'[m] = job[m]
    BY <1>0, <2>1 DEF Job
  <2>3. objects' = objects
    BY <1>2 DEF Receive
  <2> QED
    BY <1>0, <1>1, <2>2, <2>3 DEF Handled, ObjectFits, Media, Strays, Lost
<1>3. CASE UploadOk(n)
  <2>1. /\ job'[n].pc = "check" /\ job'[n].payload = job[n].payload
        /\ \A m \in Submissions \ {n} : job'[m] = job[m]
    BY <1>3, NextPoint DEF UploadOk, IInv, Points
  <2>2. objects' = objects \cup {n} /\ job[n].pc = "upload"
    BY <1>3 DEF UploadOk, At
  <2>3. Media(n)
    BY <2>2 DEF ObjectInv, ObjectFits
  <2> QED
    BY <1>0, <1>1, <2>1, <2>2, <2>3 DEF Handled, ObjectFits, Media, Strays, Lost, At
<1>4. CASE UploadFails(n)
  <2>1. /\ job'[n].pc = "done" /\ job'[n].payload = job[n].payload
        /\ \A m \in Submissions \ {n} : job'[m] = job[m]
    BY <1>0, <1>4 DEF UploadFails, Job
  <2>2. objects' = objects \/ (objects' = objects \cup {n} /\ faults' = faults + 1)
    BY <1>4 DEF UploadFails, Fault
  <2>3. Media(n)
    BY <1>4 DEF ObjectInv, ObjectFits, UploadFails, At
  <2> QED
    BY <1>0, <1>1, <2>1, <2>2, <2>3 DEF Handled, ObjectFits, Media, Strays, Lost
<1> QED
  BY <1>2, <1>3, <1>4

\* A submission that goes on, ends without an upload or is committed costs no object.
LEMMA QuietHandled ==
    ASSUME IInv, ObjectInv, NEW n \in Submissions,
           \/ RejectKey(n) \/ LookupFinds(n) \/ LookupMisses(n) \/ Insert(n) \/ InsertLoses(n)
           \/ Commit(n) \/ DatabaseFails(n) \/ CommitUnclear(n) \/ Crash(n)
    PROVE  Handled(n)
<1>0. TypeOK /\ objects' = objects
  BY DEF IInv, RejectKey, LookupFinds, LookupMisses, Insert, InsertLoses, Commit,
         DatabaseFails, CommitUnclear, Crash
<1>u. ASSUME job[n].pc \in {"check", "insert", "commit"}
      PROVE  n \notin requests
  BY <1>u DEF IInv, LocalsMatchPoint
<1>1. \A r \in Rows(n) : r \in Submissions
  BY <1>0, RowsType
<1>2. ASSUME requests' = requests, faults' = faults, job[n].pc \in {"check", "insert", "commit"},
             job'[n].payload = job[n].payload, \A m \in Submissions \ {n} : job'[m] = job[m],
             job'[n].pc \in {"insert", "commit", "discard", "cleanup", "done"},
             job'[n].pc = "done" => ~Media(n)
      PROVE  Handled(n)
  <2>0. n \notin requests
    BY <1>u, <1>2
  <2>1. ObjectFits(n)'
    BY <1>0, <1>2 DEF ObjectInv, ObjectFits, Media
  <2>2. n \notin Strays'
    BY <1>0, <1>2 DEF ObjectInv, ObjectFits, Strays, At
  <2>3. n \notin Lost'
    BY <1>2, <2>0 DEF Lost
  <2> QED
    BY <1>0, <1>2, <2>1, <2>2, <2>3 DEF Handled
<1>3. CASE RejectKey(n)
  BY <1>0, <1>2, <1>3, NextPoint DEF RejectKey, Points, Verdicts, At
<1>4. CASE LookupFinds(n) \/ InsertLoses(n)
  <2>1. PICK r \in Submissions : Finds(n, r)
    BY <1>1, <1>4 DEF LookupFinds, InsertLoses
  <2>2. /\ \A m \in Submissions \ {n} : job'[m] = job[m]
        /\ job'[n].payload = job[n].payload
        /\ job'[n].pc = IF Media(n) THEN "discard" ELSE "done"
    BY <1>0, <2>1, NextPoint
  <2> QED
    BY <1>2, <1>4, <2>2 DEF LookupFinds, InsertLoses, At
<1>5. CASE LookupMisses(n) \/ Insert(n)
  BY <1>0, <1>2, <1>5, NextPoint DEF LookupMisses, Insert, Points, At
<1>6. CASE DatabaseFails(n)
  BY <1>0, <1>2, <1>6, NextPoint DEF DatabaseFails, Verdicts, At
<1>7. CASE Commit(n)
  <2>1. job \in [Submissions -> Job]
    BY <1>0 DEF TypeOK
  <2>2. /\ \A m \in Submissions \ {n} : job'[m] = job[m]
        /\ job'[n].payload = job[n].payload /\ job'[n].pc = "done"
        /\ requests' = requests \cup {n} /\ faults' = faults
    BY <1>7, <2>1 DEF Commit, Job
  <2>3. Media(n) => n \in objects
    BY <1>7 DEF Commit, At, ObjectInv, ObjectFits
  <2> QED
    BY <1>0, <2>2, <2>3 DEF Handled, ObjectInv, ObjectFits, Media, Strays, Lost, At
<1>8. CASE CommitUnclear(n) \/ Crash(n)
  <2>1. /\ \A m \in Submissions \ {n} : job'[m] = job[m]
        /\ job'[n].payload = job[n].payload /\ job'[n].pc \in {"cleanup", "done"}
    <3>1. CASE CommitUnclear(n)
      BY <1>0, <3>1, NextPoint DEF CommitUnclear, Verdicts
    <3>2. CASE Crash(n)
      BY <1>0, <3>2 DEF Crash, TypeOK, Job
    <3> QED
      BY <1>8, <3>1, <3>2
  <2>2. /\ \A m \in Submissions \ {n} : m \in requests' <=> m \in requests
        /\ faults' = faults + 1
    BY <1>8 DEF CommitUnclear, Crash, Fault
  <2>3. ObjectFits(n)'
    <3>1. n \in objects' => Media(n)' /\ job'[n].pc \notin {"new", "upload"}
      BY <1>0, <2>1 DEF ObjectInv, ObjectFits, Media
    <3> QED
      BY <2>1, <3>1 DEF ObjectFits
  <2> QED
    BY <1>0, <2>1, <2>2, <2>3 DEF Handled
<1> QED
  BY <1>3, <1>4, <1>5, <1>6, <1>7, <1>8

\* A deletion removes the object of a submission without a request, or that of one already
\* counted as lost; if it fails, a fault pays for the stray.
LEMMA DeletionHandled ==
    ASSUME IInv, ObjectInv, NEW n \in Submissions, Discard(n) \/ Cleanup(n)
    PROVE  Handled(n)
<1>0. TypeOK /\ requests' = requests /\ job[n].pc \in {"discard", "cleanup"}
  BY DEF IInv, Discard, Cleanup, At
<1>1. \A r \in Rows(n) : r \in Submissions
  BY <1>0, RowsType
<1>2. /\ \A m \in Submissions \ {n} : job'[m] = job[m]
      /\ job'[n].payload = job[n].payload /\ job'[n].pc \in {"cleanup", "done"}
      /\ Cleanup(n) => job'[n].pc = "done"
  <2>1. CASE Cleanup(n)
    BY <1>0, <2>1, NextPoint DEF Cleanup, Points
  <2>2. CASE Discard(n)
    <3>1. CASE job[n].key \in LongKeys
      BY <1>0, <2>2, <3>1, NextPoint DEF Discard, Verdicts, Cleanup, At
    <3>2. CASE job[n].key \notin LongKeys
      <4>1. job[n].found \in Submissions /\ Concludes(n, job[n].found) /\ ~Cleanup(n)
        BY <1>1, <2>2, <3>2 DEF Discard, IInv, LocalsMatchPoint, At, Cleanup
      <4> QED
        BY <1>0, <4>1, NextPoint
    <3> QED
      BY <3>1, <3>2
  <2> QED
    BY <2>1, <2>2
<1>3. /\ \A m \in Submissions \ {n} : m \in objects' <=> m \in objects
      /\ \/ n \notin objects' /\ faults' = faults
         \/ objects' = objects /\ faults' = faults + 1
  BY DEF Discard, Cleanup, Deletes, Fault
<1>4. ObjectFits(n)'
  BY <1>2, <1>3 DEF ObjectInv, ObjectFits, Media
<1>5. n \in Strays' => faults' = faults + 1
  BY <1>3 DEF Strays
<1>6. n \in Lost' => n \in Lost
  <2>1. n \in requests => job[n].pc = "cleanup"
    BY <1>0, UnderWay
  <2> QED
    BY <1>0, <1>2, <2>1 DEF Lost, Media, At
<1> QED
  BY <1>0, <1>2, <1>3, <1>4, <1>5, <1>6 DEF Handled

\* Storage and database start empty.
LEMMA ObjectInit == Init => ObjectInv
<1> SUFFICES ASSUME Init PROVE ObjectInv
  OBVIOUS
<1>1. Strays = {} /\ Lost = {} /\ faults = 0
  BY DEF Init, Strays, Lost
<1>2. Cardinality({}) = 0
  BY FS_EmptySet
<1>3. \A n \in Submissions : ObjectFits(n)
  BY DEF Init, ObjectFits, Blank
<1> QED
  BY <1>1, <1>2, <1>3 DEF ObjectInv

\* Every step keeps storage and database in agreement but for the faults.
LEMMA ObjectStep == IInv /\ ObjectInv /\ [Next]_vars => ObjectInv'
<1> SUFFICES ASSUME IInv, ObjectInv, [Next]_vars PROVE ObjectInv'
  OBVIOUS
<1>1. TypeOK'
  BY InvStep DEF IInv
<1>2. ASSUME NEW n \in Submissions,
             Receive(n) \/ Step(n) \/ DatabaseFails(n) \/ CommitUnclear(n) \/ Crash(n)
      PROVE  Handled(n)
  BY <1>2, ArrivalHandled, QuietHandled, DeletionHandled DEF Step
<1>3. CASE UNCHANGED vars
  BY <1>3 DEF vars, ObjectInv, ObjectFits, Strays, Lost, Media, At
<1> QED
  BY <1>1, <1>2, <1>3, HandledStep DEF Next

\* Storage and database agree but for the faults in every reachable state.
LEMMA ObjectsHold == Spec => [](IInv /\ ObjectInv)
<1>1. Init => IInv /\ ObjectInv
  BY InvInit, ObjectInit
<1>2. IInv /\ ObjectInv /\ [Next]_vars => (IInv /\ ObjectInv)'
  BY InvStep, ObjectStep
<1> QED
  BY <1>1, <1>2, PTL DEF Spec

\* No object is left behind but by a crash or a deletion that failed.
THEOREM StraysArePaidFor == Spec => []StraysNeedFaults
<1>1. ObjectInv => StraysNeedFaults
  BY DEF ObjectInv, Strays, StraysNeedFaults
<1> QED
  BY <1>1, ObjectsHold, PTL

\* No committed request loses its object but to a commit the gateway did not learn of.
THEOREM LossesArePaidFor == Spec => []LossNeedsFault
<1>1. IInv /\ ObjectInv => LossNeedsFault
  <2> SUFFICES ASSUME IInv, ObjectInv
               PROVE  Cardinality({r \in requests : Media(r) /\ r \notin objects}) <= faults
    BY DEF LossNeedsFault
  <2> DEFINE missing == {r \in requests : Media(r) /\ r \notin objects}
  <2>1. missing \subseteq Lost /\ IsFiniteSet(Lost) /\ faults \in Nat
    BY Finitely DEF Lost, IInv, TypeOK
  <2>2. /\ Cardinality(Lost) \in Nat /\ Cardinality(missing) \in Nat
        /\ Cardinality(missing) <= Cardinality(Lost) /\ Cardinality(Lost) <= faults
    BY <2>1, FS_Subset, FS_CardinalityType DEF ObjectInv
  <2> QED
    BY <2>1, <2>2
<1> QED
  BY <1>1, ObjectsHold, PTL
===============================================================================
