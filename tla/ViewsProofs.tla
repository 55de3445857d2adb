------------------------------ MODULE ViewsProofs ------------------------------
(***************************************************************************)
(* Theorems about the pages of the log and about the tab that shows them,  *)
(* the page of a request and the simulator, for any number of requests,    *)
(* fetches in flight and polls, and whatever size the pages have.          *)
(***************************************************************************)
EXTENDS Views, StatusPagesProofs, SequenceTheorems

\* What was read of the log is still true of it.
DataHolds(data) ==
    /\ data.total <= count
    /\ ~data.loaded => data.items = {} /\ ~data.torn
    /\ data.items # {} /\ ~data.torn => data.total > 0
    /\ \A row \in data.items : /\ row.id \in Submitted
                               /\ row.status \in Final => row.status = status[row.id]

\* What is known of fetches in flight, in the order in which they were sent.
CallsHold == \A i \in DOMAIN logs.calls :
    LET call == logs.calls[i] IN
    /\ DataHolds(call.data)
    /\ call.stage = "served" <=> call.data.loaded
    /\ call.stage \in {"counted", "served"} /\ Untroubled({"overlap"})
         => logs.data.total <= call.data.total

\* The last fetch sent is the one for what is selected.
LastIsSelected ==
    ~logs.error /\ Untroubled({"crossed"}) =>
        IF logs.calls = <<>> THEN ~logs.data.loaded \/ logs.data.param = logs.param
        ELSE logs.calls[Len(logs.calls)].data.param = logs.param

LogInv ==
    /\ LogTypeOK
    /\ IsOpen("closed") => logs = Closed
    /\ DataHolds(logs.data) /\ CallsHold
    /\ logs.data.torn => "torn" \in logs.mishaps
    /\ Untroubled({"overlap"}) => Len(logs.calls) <= 1
    /\ LastIsSelected /\ SpinnerMeansWaiting /\ PageInRange

\* The tab shows one page.
OnePage == ~IsOpen("closed") => ~detail.open /\ sim = NewSim

\* A final status that was clicked is all that the page of the request can read.
ClickedHolds ==
    /\ ~detail.open => clicked = "none"
    /\ clicked \in Final =>
         /\ status[detail.request] = clicked
         /\ detail.query.stage \in {"read", "served"} => detail.query.answer.status = clicked
         /\ detail.loaded => detail.shown.status = clicked

-------------------------------------------------------------------------------
(* Pages of a table and sequences of fetches.                              *)

Pages(total) == (total + SizeOf["submissions"] - 1) \div SizeOf["submissions"]

\* Rounding up: more rows never make fewer pages, and a row makes one.
LEMMA PagesGrow ==
    ASSUME NEW s \in Nat, NEW t \in Nat, s <= t
    PROVE  /\ Pages(s) \in Nat /\ Pages(t) \in Nat /\ Pages(s) <= Pages(t)
           /\ t > 0 => Pages(t) > 0
<1> DEFINE S == SizeOf["submissions"]
<1>1. S \in Nat \ {0}
  BY LogPagesAssumption DEF LogNames
<1> HIDE DEF S
<1>2. ASSUME NEW x \in Nat, NEW y \in Nat, x <= y
      PROVE  /\ x \div S \in Nat /\ y \div S \in Nat /\ x \div S <= y \div S
             /\ y >= S => y \div S > 0
  BY <1>1, <1>2
<1>3. /\ s + S - 1 \in Nat /\ t + S - 1 \in Nat /\ s + S - 1 <= t + S - 1
      /\ t > 0 => t + S - 1 >= S
  BY <1>1
<1> QED
  BY <1>2, <1>3 DEF Pages, S

\* A sequence without one of its elements.
LEMMA OneLess ==
    ASSUME NEW S, NEW s \in Seq(S), NEW i \in 1 .. Len(s)
    PROVE  LET w == SubSeq(s, 1, i - 1) \o SubSeq(s, i + 1, Len(s)) IN
           /\ w \in Seq(S) /\ Len(w) = Len(s) - 1
           /\ \A j \in 1 .. (Len(s) - 1) : w[j] = IF j < i THEN s[j] ELSE s[j + 1]
<1> DEFINE a == SubSeq(s, 1, i - 1)  b == SubSeq(s, i + 1, Len(s))
<1>0. Len(s) \in Nat /\ \A j \in 1 .. Len(s) : s[j] \in S
  BY LenProperties, ElementOfSeq
<1>1. a \in Seq(S) /\ Len(a) = i - 1 /\ \A j \in 1 .. (i - 1) : a[j] = s[j]
  <2>1. /\ i - 1 \in Int /\ 1 \in Int /\ \A j \in 1 .. (i - 1) : s[j] \in S
        /\ (IF 1 <= i - 1 THEN (i - 1) - 1 + 1 ELSE 0) = i - 1
        /\ (i - 1) - 1 + 1 = i - 1 /\ \A j \in 1 .. (i - 1) : 1 + j - 1 = j
    BY <1>0
  <2> QED
    BY <2>1, SubSeqProperties
<1>2. b \in Seq(S) /\ Len(b) = Len(s) - i /\ \A j \in 1 .. (Len(s) - i) : b[j] = s[j + i]
  <2>1. /\ i + 1 \in Int /\ Len(s) \in Int /\ \A j \in (i + 1) .. Len(s) : s[j] \in S
        /\ (IF i + 1 <= Len(s) THEN Len(s) - (i + 1) + 1 ELSE 0) = Len(s) - i
        /\ Len(s) - (i + 1) + 1 = Len(s) - i
        /\ \A j \in 1 .. (Len(s) - i) : (i + 1) + j - 1 = j + i
    BY <1>0
  <2> DEFINE m == i + 1  n == Len(s)
  <2>2. m \in Int /\ n \in Int /\ \A j \in m .. n : s[j] \in S
    BY <2>1
  <2> HIDE DEF m, n
  <2>3. /\ SubSeq(s, m, n) \in Seq(S)
        /\ Len(SubSeq(s, m, n)) = IF m <= n THEN n - m + 1 ELSE 0
        /\ \A j \in 1 .. n - m + 1 : SubSeq(s, m, n)[j] = s[m + j - 1]
    BY <2>2, SubSeqProperties
  <2> USE DEF m, n
  <2>4. b \in Seq(S) /\ Len(b) = Len(s) - i
    BY <2>1, <2>3
  <2>5. ASSUME NEW j \in 1 .. (Len(s) - i) PROVE b[j] = s[j + i]
    BY <2>1, <2>3
  <2> QED
    BY <2>4, <2>5
<1> HIDE DEF a, b
<1>3. /\ a \o b \in Seq(S) /\ Len(a \o b) = (i - 1) + (Len(s) - i)
      /\ \A j \in 1 .. (i - 1) + (Len(s) - i) :
           (a \o b)[j] = IF j <= i - 1 THEN a[j] ELSE b[j - (i - 1)]
  <2>1. /\ a \o b \in Seq(S)
        /\ Len(a \o b) = Len(a) + Len(b)
        /\ \A j \in 1 .. Len(a) + Len(b) : (a \o b)[j] = IF j <= Len(a) THEN a[j] ELSE b[j - Len(a)]
    BY <1>1, <1>2, ConcatProperties
  <2> QED
    BY <1>1, <1>2, <2>1, Zenon
<1>4. ASSUME NEW j \in 1 .. (Len(s) - 1)
      PROVE  (a \o b)[j] = IF j < i THEN s[j] ELSE s[j + 1]
  <2>1. (a \o b)[j] = IF j <= i - 1 THEN a[j] ELSE b[j - (i - 1)]
    BY <1>0, <1>3
  <2>2. CASE j < i
    BY <1>0, <1>1, <2>1, <2>2
  <2>3. CASE ~(j < i)
    <3>1. j - (i - 1) \in 1 .. (Len(s) - i) /\ (j - (i - 1)) + i = j + 1 /\ ~(j <= i - 1)
      BY <1>0, <2>3
    <3>2. b[j - (i - 1)] = s[(j - (i - 1)) + i]
      BY <1>2, <3>1
    <3> QED
      BY <2>1, <2>3, <3>1, <3>2
  <2> QED
    BY <2>2, <2>3
<1>5. Len(a \o b) = Len(s) - 1
  BY <1>0, <1>3
<1> QED
  BY <1>3, <1>4, <1>5 DEF a, b

\* What is left of the fetches when one of them is over.
LEMMA WithoutOne ==
    ASSUME NEW S, logs.calls \in Seq(S), NEW i \in DOMAIN logs.calls
    PROVE  /\ Without(i) \in Seq(S)
           /\ Len(Without(i)) = Len(logs.calls) - 1
           /\ \A j \in DOMAIN Without(i) :
                \E k \in DOMAIN logs.calls : Without(i)[j] = logs.calls[k]
           /\ i < Len(logs.calls)
                => Without(i)[Len(Without(i))] = logs.calls[Len(logs.calls)]
<1>1. /\ Len(logs.calls) \in Nat /\ i \in 1 .. Len(logs.calls)
      /\ DOMAIN logs.calls = 1 .. Len(logs.calls)
  BY LenProperties
<1>2. /\ Without(i) \in Seq(S) /\ Len(Without(i)) = Len(logs.calls) - 1
      /\ \A j \in 1 .. (Len(logs.calls) - 1) :
           Without(i)[j] = IF j < i THEN logs.calls[j] ELSE logs.calls[j + 1]
  BY <1>1, OneLess DEF Without
<1>3. DOMAIN Without(i) = 1 .. (Len(logs.calls) - 1)
  BY <1>2, LenProperties
<1>4. \A j \in DOMAIN Without(i) : \E k \in DOMAIN logs.calls : Without(i)[j] = logs.calls[k]
  <2> SUFFICES ASSUME NEW j \in DOMAIN Without(i)
               PROVE  \E k \in DOMAIN logs.calls : Without(i)[j] = logs.calls[k]
    OBVIOUS
  <2>1. j \in DOMAIN logs.calls /\ j + 1 \in DOMAIN logs.calls
    BY <1>1, <1>3
  <2> QED
    BY <1>2, <1>3, <2>1
<1>5. i < Len(logs.calls) => Without(i)[Len(logs.calls) - 1] = logs.calls[Len(logs.calls)]
  <2> SUFFICES ASSUME i < Len(logs.calls)
               PROVE  Without(i)[Len(logs.calls) - 1] = logs.calls[Len(logs.calls)]
    OBVIOUS
  <2> DEFINE j == Len(logs.calls) - 1
  <2>1. j \in 1 .. (Len(logs.calls) - 1) /\ ~(j < i) /\ j + 1 = Len(logs.calls)
    BY <1>1
  <2> HIDE DEF j
  <2>2. Without(i)[j] = logs.calls[Len(logs.calls)]
    BY <1>2, <2>1
  <2> QED
    BY <2>2 DEF j
<1> QED
  BY <1>2, <1>4, <1>5

-------------------------------------------------------------------------------
(* Steps of a page of the log.                                             *)

\* What was read stays true while requests arrive and are decided.
LEMMA DataStays ==
    ASSUME ServerTypeOK, ServerNext \/ UNCHANGED server, NEW data \in LogData, DataHolds(data)
    PROVE  DataHolds(data)'
<1>1. ServerTypeOK' /\ Settled
  BY ServerStep
<1>2. count \in Nat /\ count' \in Nat /\ count <= count'
  <2>1. count' \in {count, count + 1}
    BY DEF ServerNext, Submit, Decide, server
  <2> QED
    BY <1>1, <2>1, LogAssumption DEF ServerTypeOK
<1>3. data.total \in Nat /\ data.items \subseteq Row
  BY DEF LogData
<1>4. \A row \in data.items : /\ row.id \in 1 .. count' /\ row.id \in Requests
                              /\ row.status \in Final => row.status = status[row.id]
  BY <1>2, <1>3 DEF DataHolds, Submitted, Row, Requests
<1>5. \A row \in data.items : row.status \in Final => row.status = status'[row.id]
  BY <1>1, <1>4 DEF Settled
<1> QED
  BY <1>2, <1>3, <1>4, <1>5 DEF DataHolds, Submitted

LEMMA NoDataHolds ==
    ASSUME count \in Nat, NEW param \in Nat
    PROVE  /\ [NoData EXCEPT !.param = param] \in LogData
           /\ DataHolds([NoData EXCEPT !.param = param])
           /\ NoData \in LogData /\ DataHolds(NoData)
<1> DEFINE d == [NoData EXCEPT !.param = param]
<1>1. /\ NoData.loaded = FALSE /\ NoData.total = 0 /\ NoData.items = {} /\ NoData.torn = FALSE
      /\ d.loaded = FALSE /\ d.total = 0 /\ d.items = {} /\ d.torn = FALSE
  BY DEF NoData
<1>2. NoData \in LogData
  BY DEF NoData, LogData
<1>3. d \in LogData
  BY <1>2, Zenon DEF LogData
<1> HIDE DEF d
<1>4. DataHolds(NoData) /\ DataHolds(d)
  BY <1>1 DEF DataHolds
<1> QED
  BY <1>2, <1>3, <1>4 DEF d

LEMMA CallForHolds ==
    ASSUME count \in Nat, NEW page, NEW param \in Nat
    PROVE  /\ CallFor(page, param) \in LogCall /\ DataHolds(CallFor(page, param).data)
           /\ CallFor(page, param).stage \in {"connecting", "sent"}
           /\ ~CallFor(page, param).data.loaded
           /\ CallFor(page, param).data.param = param
<1> DEFINE d == [NoData EXCEPT !.param = param]
<1>2. d \in LogData /\ DataHolds(d) /\ ~d.loaded /\ d.param = param
  BY NoDataHolds DEF NoData
<1>3. CallFor(page, param) = [stage |-> IF page = "overview" THEN "connecting" ELSE "sent", data |-> d]
  BY DEF CallFor
<1> HIDE DEF d
<1> QED
  BY <1>2, <1>3 DEF LogCall

\* A page that is closed.
LEMMA ClosedLog == ServerTypeOK /\ logs = Closed => LogInv
<1> SUFFICES ASSUME ServerTypeOK, logs = Closed PROVE LogInv
  OBVIOUS
<1>0. count \in Nat /\ 0 \in Nat
  BY LogAssumption DEF ServerTypeOK
<1>1. NoData \in LogData /\ DataHolds(NoData) /\ ~NoData.loaded /\ ~NoData.torn
  BY <1>0, NoDataHolds DEF NoData
<1>2. /\ <<>> \in Seq(LogCall) /\ NoRequest \in Sought \cup {NoRequest} /\ FALSE \in BOOLEAN
      /\ {} \in SUBSET {"overlap", "crossed", "torn"} /\ "all" \in {"all"} \cup Outcomes
      /\ "closed" \in LogNames \cup {"closed"} /\ 0 \in Nat
  OBVIOUS
<1>3. Closed \in LogState
  BY <1>1, <1>2, Zenon DEF Closed, LogState
<1>4. /\ logs.page = "closed" /\ logs.data = NoData /\ logs.calls = <<>> /\ ~logs.loading
      /\ logs.mishaps = {}
  BY DEF Closed
<1>5. /\ CallsHold /\ LastIsSelected /\ SpinnerMeansWaiting /\ PageInRange
      /\ Len(logs.calls) <= 1
  BY <1>1, <1>4 DEF CallsHold, LastIsSelected, SpinnerMeansWaiting, PageInRange, IsOpen
<1> QED
  BY <1>1, <1>3, <1>4, <1>5 DEF LogInv, LogTypeOK

LEMMA CloseStep ==
    ASSUME LogInv, UNCHANGED server, logs' = Closed
    PROVE  LogInv'
<1>1. (ServerTypeOK /\ logs = Closed)'
  BY DEF LogInv, LogTypeOK, server, ServerTypeOK
<1> QED
  BY <1>1, ClosedLog, PTL

\* A fetch is sent: what is selected is what the last fetch is for.
LEMMA FetchStep ==
    ASSUME LogInv, UNCHANGED server, NEW param \in Nat, logs' = Fetching(param),
           ~IsOpen("closed"),
           IsOpen("submissions") /\ Untroubled({"overlap", "torn"}) /\ logs.calls = <<>>
             => param \in 1 .. (IF TotalPages > 1 THEN TotalPages ELSE 1)
    PROVE  LogInv'
<1> DEFINE c == CallFor(logs.page, param)
           seq == Append(logs.calls, c)
           added == {m \in {"overlap"} : logs.calls # <<>>}
<1>1. logs \in LogState /\ ServerTypeOK /\ logs.calls \in Seq(LogCall) /\ logs.data \in LogData
  BY DEF LogInv, LogTypeOK, LogState
<1>2. /\ c \in LogCall /\ DataHolds(c.data) /\ c.stage \in {"connecting", "sent"}
      /\ ~c.data.loaded /\ c.data.param = param
  BY <1>1, CallForHolds, LogAssumption DEF ServerTypeOK
<1>3. logs' = [logs EXCEPT !.param = param, !.loading = TRUE, !.error = FALSE, !.calls = seq,
                           !.mishaps = logs.mishaps \cup added]
  BY DEF Fetching
<1> HIDE DEF c
<1>4. /\ seq \in Seq(LogCall) /\ seq # <<>> /\ Len(seq) = Len(logs.calls) + 1
      /\ \A i \in 1 .. Len(logs.calls) : seq[i] = logs.calls[i]
      /\ seq[Len(logs.calls) + 1] = c
  BY <1>1, <1>2, AppendProperties
<1>5. Len(logs.calls) \in Nat /\ DOMAIN logs.calls = 1 .. Len(logs.calls)
  BY <1>1, LenProperties
<1>6. DOMAIN seq = 1 .. (Len(logs.calls) + 1)
  BY <1>4, LenProperties
<1>7. Len(logs.calls) = 0 <=> logs.calls = <<>>
  BY <1>1, EmptySeq
<1>8. added \subseteq {"overlap"} /\ ("overlap" \in added <=> logs.calls # <<>>)
  OBVIOUS
<1> HIDE DEF seq, added
<1>9. logs.mishaps \cup added \in SUBSET {"overlap", "crossed", "torn"}
  BY <1>1, <1>8 DEF LogState
<1>10. logs' \in LogState
  BY <1>1, <1>3, <1>4, <1>9, Zenon DEF LogState
<1>11. /\ logs'.page = logs.page /\ logs'.param = param /\ logs'.loading /\ ~logs'.error
       /\ logs'.data = logs.data /\ logs'.calls = seq /\ logs'.mishaps = logs.mishaps \cup added
  BY <1>1, <1>3 DEF LogState
<1>12. ServerTypeOK' /\ DataHolds(logs.data)' /\ UNCHANGED <<count, status>>
  BY <1>11 DEF LogInv, LogTypeOK, ServerTypeOK, server, DataHolds, Submitted
<1>13. CallsHold'
  <2> SUFFICES ASSUME NEW i \in DOMAIN seq
               PROVE  /\ DataHolds(seq[i].data)
                      /\ seq[i].stage = "served" <=> seq[i].data.loaded
                      /\ seq[i].stage \in {"counted", "served"} /\ Untroubled({"overlap"})'
                           => logs.data.total <= seq[i].data.total
    BY <1>11, <1>12 DEF CallsHold, DataHolds, Submitted
  <2>1. CASE i \in DOMAIN logs.calls
    BY <1>4, <1>5, <1>11, <2>1 DEF LogInv, CallsHold, Untroubled
  <2>2. CASE i = Len(logs.calls) + 1
    BY <1>2, <1>4, <2>2
  <2> QED
    BY <1>5, <1>6, <2>1, <2>2
<1>14. Untroubled({"overlap"})' => logs.calls = <<>> /\ Untroubled({"overlap"})
  BY <1>8, <1>11 DEF Untroubled
<1>15. LastIsSelected'
  BY <1>2, <1>4, <1>11 DEF LastIsSelected
<1>16. SpinnerMeansWaiting'
  BY <1>4, <1>11 DEF SpinnerMeansWaiting
<1>17. PageInRange'
  BY <1>8, <1>11 DEF PageInRange, Untroubled, IsOpen, TotalPages
<1> QED
  BY <1>4, <1>5, <1>7, <1>8, <1>10, <1>11, <1>12, <1>13, <1>14, <1>15, <1>16, <1>17
     DEF LogInv, LogTypeOK, IsOpen

\* The API or the connection moves one fetch on.
LEMMA CallStep ==
    ASSUME LogInv, UNCHANGED server, NEW i \in DOMAIN logs.calls, NEW c \in LogCall,
           logs' = [logs EXCEPT !.calls = [logs.calls EXCEPT ![i] = c]],
           DataHolds(c.data), c.stage = "served" <=> c.data.loaded,
           c.stage \in {"counted", "served"} /\ Untroubled({"overlap"})
             => logs.data.total <= c.data.total,
           c.data.param = logs.calls[i].data.param
    PROVE  LogInv'
<1> DEFINE seq == [logs.calls EXCEPT ![i] = c]
<1>1. logs \in LogState /\ ServerTypeOK /\ logs.calls \in Seq(LogCall) /\ logs.data \in LogData
  BY DEF LogInv, LogTypeOK, LogState
<1>2. Len(logs.calls) \in Nat /\ DOMAIN logs.calls = 1 .. Len(logs.calls)
  BY <1>1, LenProperties
<1>3. /\ seq \in Seq(LogCall) /\ Len(seq) = Len(logs.calls)
      /\ \A j \in 1 .. Len(logs.calls) : seq[j] = IF j = i THEN c ELSE logs.calls[j]
  BY <1>1, <1>2, ExceptSeq
<1>4. DOMAIN seq = DOMAIN logs.calls
  BY <1>2, <1>3, LenProperties
<1>5. seq # <<>> /\ logs.calls # <<>>
  BY <1>2, <1>4
<1> HIDE DEF seq
<1>6. logs' \in LogState
  <2>1. logs' = [logs EXCEPT !.calls = seq]
    BY DEF seq
  <2> QED
    BY <1>1, <1>3, <2>1, Zenon DEF LogState
<1>7. /\ logs'.page = logs.page /\ logs'.param = logs.param /\ logs'.loading = logs.loading
      /\ logs'.error = logs.error /\ logs'.data = logs.data /\ logs'.calls = seq
      /\ logs'.mishaps = logs.mishaps
  BY <1>1 DEF LogState, seq
<1>8. ServerTypeOK' /\ DataHolds(logs.data)' /\ UNCHANGED <<count, status>>
  BY <1>7 DEF LogInv, LogTypeOK, ServerTypeOK, server, DataHolds, Submitted
<1>9. CallsHold'
  <2> SUFFICES ASSUME NEW j \in DOMAIN seq
               PROVE  /\ DataHolds(seq[j].data)
                      /\ seq[j].stage = "served" <=> seq[j].data.loaded
                      /\ seq[j].stage \in {"counted", "served"} /\ Untroubled({"overlap"})
                           => logs.data.total <= seq[j].data.total
    BY <1>7, <1>8 DEF CallsHold, DataHolds, Submitted, Untroubled
  <2>1. CASE j = i
    BY <1>2, <1>3, <2>1
  <2>2. CASE j # i
    BY <1>2, <1>3, <1>4, <2>2 DEF LogInv, CallsHold
  <2> QED
    BY <2>1, <2>2
<1>10. LastIsSelected'
  <2>1. seq[Len(seq)].data.param = logs.calls[Len(logs.calls)].data.param
    BY <1>2, <1>3, <1>5
  <2> QED
    BY <1>5, <1>7, <2>1 DEF LogInv, LastIsSelected, Untroubled
<1>11. SpinnerMeansWaiting' /\ PageInRange'
  BY <1>5, <1>7 DEF LogInv, SpinnerMeansWaiting, PageInRange, Untroubled, IsOpen, TotalPages
<1> QED
  BY <1>3, <1>6, <1>7, <1>8, <1>9, <1>10, <1>11, <1>5 DEF LogInv, LogTypeOK, IsOpen, Untroubled, Closed

\* A fetch is over, answered or not: the others go on.
LEMMA EndStep ==
    ASSUME LogInv, \E i \in 1 .. MaxCalls : TakeAnswer(i) \/ FetchFails(i)
    PROVE  LogInv'
<1> PICK i \in 1 .. MaxCalls : TakeAnswer(i) \/ FetchFails(i)
  OBVIOUS
<1> DEFINE rest == Without(i)  n == Len(logs.calls)
<1>1. logs \in LogState /\ ServerTypeOK /\ logs.calls \in Seq(LogCall) /\ logs.data \in LogData
  BY DEF LogInv, LogTypeOK, LogState
<1>2. i \in DOMAIN logs.calls /\ UNCHANGED server
  BY DEF TakeAnswer, FetchFails, InFlight
<1>3. n \in Nat /\ DOMAIN logs.calls = 1 .. n /\ i \in 1 .. n
  BY <1>1, <1>2, LenProperties
<1>4. /\ rest \in Seq(LogCall) /\ Len(rest) = n - 1
      /\ \A j \in DOMAIN rest : \E k \in DOMAIN logs.calls : rest[j] = logs.calls[k]
      /\ i < n => rest[Len(rest)] = logs.calls[n]
  BY <1>1, <1>2, WithoutOne
<1>5. rest = <<>> <=> n = 1
  <2>1. Len(<<>>) = 0 /\ \A q \in Seq(LogCall) : q # <<>> => Len(q) \in Nat \ {0}
    BY EmptySeq
  <2> HIDE DEF rest, n
  <2> QED
    BY <1>3, <1>4, <2>1
<1>6. logs.calls # <<>>
  BY <1>3
<1>7. logs.calls[i] \in LogCall /\ logs.calls[i].data \in LogData
  <2>1. logs.calls[i] \in LogCall
    BY <1>1, <1>3, ElementOfSeq
  <2> QED
    BY <2>1 DEF LogCall
<1> DEFINE added == {m \in {"crossed"} : i > 1} \cup {m \in {"torn"} : logs.calls[i].data.torn}
<1>8. /\ added \subseteq {"crossed", "torn"} /\ ("crossed" \in added <=> i > 1)
      /\ "torn" \in added <=> logs.calls[i].data.torn
  OBVIOUS
<1>t. TakeAnswer(i) => logs' = [logs EXCEPT !.data = logs.calls[i].data, !.loading = FALSE,
                                            !.calls = rest, !.mishaps = logs.mishaps \cup added]
  BY DEF TakeAnswer
<1>f. FetchFails(i) => logs' = [logs EXCEPT !.error = TRUE, !.loading = FALSE, !.calls = rest]
  BY DEF FetchFails
<1>d. DataHolds(logs.calls[i].data)
  BY <1>2 DEF LogInv, CallsHold
<1>s. TakeAnswer(i) => logs.calls[i].stage = "served"
  BY DEF TakeAnswer, InFlight
<1> HIDE DEF rest, added
<1>9. /\ logs'.page = logs.page /\ logs'.param = logs.param /\ ~logs'.loading /\ logs'.calls = rest
      /\ \/ /\ TakeAnswer(i)
            /\ logs'.data = logs.calls[i].data /\ logs'.mishaps = logs.mishaps \cup added
            /\ logs'.error = logs.error
         \/ logs'.data = logs.data /\ logs'.mishaps = logs.mishaps /\ logs'.error
  BY <1>1, <1>t, <1>f DEF LogState
<1>10. logs' \in LogState
  <2>1. CASE TakeAnswer(i)
    <3>1. logs.mishaps \cup added \in SUBSET {"overlap", "crossed", "torn"}
      BY <1>1, <1>8 DEF LogState
    <3> QED
      BY <1>1, <1>4, <1>7, <1>t, <2>1, <3>1, Zenon DEF LogState
  <2>2. CASE FetchFails(i)
    BY <1>1, <1>4, <1>f, <2>2, Zenon DEF LogState
  <2> QED
    BY <2>1, <2>2
<1>11. ServerTypeOK' /\ UNCHANGED <<count, status>> /\ DataHolds(logs.data)'
  <2>1. DataHolds(logs'.data)
    BY <1>9, <1>d DEF LogInv
  <2> QED
    BY <1>2, <2>1 DEF LogInv, LogTypeOK, ServerTypeOK, server, DataHolds, Submitted
<1>12. Untroubled({"overlap"})' => n = 1 /\ rest = <<>> /\ Untroubled({"overlap"}) /\ i = 1
  <2>1. Untroubled({"overlap"})' => Untroubled({"overlap"})
    BY <1>9 DEF Untroubled
  <2>2. Untroubled({"overlap"}) => n = 1
    <3>1. Untroubled({"overlap"}) => n <= 1
      BY DEF LogInv
    <3> HIDE DEF n
    <3> QED
      BY <1>3, <3>1
  <2> HIDE DEF n
  <2> QED
    BY <1>3, <1>5, <2>1, <2>2
<1>13. CallsHold'
  <2> SUFFICES ASSUME NEW j \in DOMAIN rest
               PROVE  /\ DataHolds(rest[j].data)
                      /\ rest[j].stage = "served" <=> rest[j].data.loaded
                      /\ ~Untroubled({"overlap"})'
    BY <1>9, <1>11 DEF CallsHold, DataHolds, Submitted
  <2>1. rest # <<>>
    OBVIOUS
  <2> QED
    BY <1>4, <1>12, <2>1 DEF LogInv, CallsHold
<1>14. LastIsSelected'
  <2> SUFFICES ASSUME ~logs'.error, Untroubled({"crossed"})'
               PROVE  IF rest = <<>> THEN ~logs'.data.loaded \/ logs'.data.param = logs.param
                      ELSE rest[Len(rest)].data.param = logs.param
    BY <1>9 DEF LastIsSelected
  <2>1. /\ TakeAnswer(i) /\ logs'.data = logs.calls[i].data /\ ~logs.error
        /\ Untroubled({"crossed"}) /\ i = 1
    BY <1>3, <1>8, <1>9 DEF Untroubled
  <2>2. logs.calls[n].data.param = logs.param
    BY <1>6, <2>1 DEF LogInv, LastIsSelected
  <2>3. CASE rest = <<>>
    BY <1>5, <2>1, <2>2, <2>3
  <2>4. CASE rest # <<>>
    BY <1>3, <1>4, <1>5, <2>1, <2>2, <2>4
  <2> QED
    BY <2>3, <2>4
<1>15. SpinnerMeansWaiting'
  BY <1>9, <1>12 DEF SpinnerMeansWaiting
<1>16. PageInRange'
  <2> SUFFICES ASSUME logs.page = "submissions", Untroubled({"overlap", "torn"})'
               PROVE  logs.param \in 1 .. (IF TotalPages' > 1 THEN TotalPages' ELSE 1)
    BY <1>9 DEF PageInRange, IsOpen
  <2>1. Untroubled({"overlap", "torn"}) /\ Untroubled({"overlap"}) /\ n = 1 /\ i = 1
    BY <1>9, <1>12 DEF Untroubled
  <2>2. logs.param \in 1 .. (IF TotalPages > 1 THEN TotalPages ELSE 1)
    BY <2>1 DEF LogInv, PageInRange, IsOpen
  <2>3. CASE logs'.data = logs.data
    BY <2>2, <2>3 DEF TotalPages
  <2>4. CASE TakeAnswer(i) /\ logs'.data = logs.calls[i].data
    <3>1. logs.data.total <= logs'.data.total /\ logs.data.total \in Nat /\ logs'.data.total \in Nat
      BY <1>1, <1>2, <1>7, <1>s, <2>1, <2>4 DEF LogInv, CallsHold, LogData
    <3>2. /\ Pages(logs.data.total) \in Nat /\ Pages(logs'.data.total) \in Nat
          /\ Pages(logs.data.total) <= Pages(logs'.data.total)
      BY <3>1, PagesGrow
    <3>3. /\ TotalPages = IF logs.data.loaded THEN Pages(logs.data.total) ELSE 1
          /\ TotalPages' = IF logs'.data.loaded THEN Pages(logs'.data.total) ELSE 1
      BY DEF TotalPages, Pages
    <3>4. CASE logs'.data.loaded
      BY <2>2, <3>2, <3>3, <3>4
    <3>5. CASE ~logs'.data.loaded
      BY <1>2, <1>s, <2>4, <3>5 DEF LogInv, CallsHold
    <3> QED
      BY <3>4, <3>5
  <2> QED
    BY <1>9, <2>3, <2>4
<1>17. logs'.data.torn => "torn" \in logs'.mishaps
  BY <1>8, <1>9 DEF LogInv
<1>18. logs'.page # "closed"
  BY <1>6, <1>9 DEF LogInv, IsOpen, Closed
<1> QED
  BY <1>4, <1>9, <1>10, <1>11, <1>12, <1>13, <1>14, <1>15, <1>16, <1>17, <1>18
     DEF LogInv, LogTypeOK, IsOpen

\* A page opens with its first fetch.
LEMMA OpenStep ==
    ASSUME LogInv, NEW page \in LogNames, OpenLog(page)
    PROVE  LogInv'
<1> DEFINE param == FirstParam[page]  c == CallFor(page, param)  seq == <<c>>
<1>1. ServerTypeOK /\ UNCHANGED server /\ param \in Nat /\ (page = "submissions" => param = 1)
  BY LogPagesAssumption DEF LogInv, LogTypeOK, OpenLog
<1>2. /\ c \in LogCall /\ DataHolds(c.data) /\ c.stage \in {"connecting", "sent"}
      /\ ~c.data.loaded /\ c.data.param = param
  BY <1>1, CallForHolds, LogAssumption DEF ServerTypeOK
<1>3. NoData \in LogData /\ DataHolds(NoData) /\ ~NoData.loaded /\ ~NoData.torn
  BY <1>1, NoDataHolds, LogAssumption DEF ServerTypeOK, NoData
<1>4. logs' = [Closed EXCEPT !.page = page, !.param = param, !.loading = TRUE, !.calls = seq]
  BY DEF OpenLog
<1> HIDE DEF c, param
<1>5. seq \in Seq(LogCall) /\ Len(seq) = 1 /\ seq[1] = c /\ DOMAIN seq = 1 .. 1
  BY <1>2
<1>e. seq # <<>>
  BY <1>5, EmptySeq
<1> HIDE DEF seq
<1>6. /\ logs'.page = page /\ logs'.param = param /\ logs'.loading /\ ~logs'.error
      /\ logs'.data = NoData /\ logs'.calls = seq /\ logs'.mishaps = {}
      /\ logs'.search = NoRequest /\ logs'.filter = "all"
  BY <1>4 DEF Closed
<1>7. logs' \in LogState
  <2>1. logs' = [page |-> page, param |-> param, loading |-> TRUE, error |-> FALSE, data |-> NoData,
                 calls |-> seq, search |-> NoRequest, filter |-> "all", mishaps |-> {}]
    BY <1>4 DEF Closed
  <2>2. /\ NoRequest \in Sought \cup {NoRequest} /\ FALSE \in BOOLEAN /\ TRUE \in BOOLEAN
        /\ {} \in SUBSET {"overlap", "crossed", "torn"} /\ "all" \in {"all"} \cup Outcomes
        /\ page \in LogNames \cup {"closed"}
    OBVIOUS
  <2> QED
    BY <1>1, <1>3, <1>5, <2>1, <2>2, Zenon DEF LogState
<1>8. ServerTypeOK' /\ UNCHANGED <<count, status>>
  BY <1>1 DEF ServerTypeOK, server
<1>9. CallsHold' /\ DataHolds(logs.data)'
  BY <1>2, <1>3, <1>5, <1>6, <1>8 DEF CallsHold, DataHolds, Submitted
<1>10. /\ LastIsSelected' /\ SpinnerMeansWaiting' /\ seq # <<>>
  BY <1>2, <1>5, <1>e, <1>6 DEF LastIsSelected, SpinnerMeansWaiting
<1>11. PageInRange'
  BY <1>1, <1>3, <1>6 DEF PageInRange, IsOpen, TotalPages
<1>12. logs'.page # "closed"
  BY <1>6 DEF LogNames
<1>13. /\ LogTypeOK' /\ (IsOpen("closed") => logs = Closed)'
       /\ (logs.data.torn => "torn" \in logs.mishaps)'
       /\ (Untroubled({"overlap"}) => Len(logs.calls) <= 1)'
  <2>1. Len(logs'.calls) <= 1
    <3>1. Len(logs'.calls) = 1
      BY <1>5, <1>6, Zenon
    <3> QED
      BY <3>1
  <2>2. ~logs'.data.torn /\ ~IsOpen("closed")'
    BY <1>3, <1>6, <1>12 DEF IsOpen
  <2> QED
    BY <1>7, <1>8, <2>1, <2>2 DEF LogTypeOK
<1> QED
  BY <1>9, <1>10, <1>11, <1>13 DEF LogInv

\* The filters select among rows, which are not touched.
LEMMA FilterStep ==
    ASSUME LogInv, SetFilters \/ ClearFilters
    PROVE  LogInv'
<1>1. PICK r \in Sought \cup {NoRequest}, s \in {"all"} \cup Outcomes :
        logs' = [logs EXCEPT !.search = r, !.filter = s]
  BY DEF SetFilters, ClearFilters
<1>2. logs \in LogState /\ ServerTypeOK /\ UNCHANGED server /\ ~IsOpen("closed")
  BY DEF LogInv, LogTypeOK, SetFilters, ClearFilters, IsOpen
<1>3. logs' \in LogState
  BY <1>1, <1>2, Zenon DEF LogState
<1>4. /\ logs'.page = logs.page /\ logs'.param = logs.param /\ logs'.loading = logs.loading
      /\ logs'.error = logs.error /\ logs'.data = logs.data /\ logs'.calls = logs.calls
      /\ logs'.mishaps = logs.mishaps
  BY <1>1, <1>2 DEF LogState
<1>5. ServerTypeOK' /\ UNCHANGED <<count, status>>
  BY <1>2 DEF ServerTypeOK, server
<1>6. CallsHold' /\ DataHolds(logs.data)'
  BY <1>4, <1>5 DEF LogInv, CallsHold, DataHolds, Submitted, Untroubled
<1>7. LastIsSelected' /\ SpinnerMeansWaiting' /\ PageInRange'
  BY <1>4 DEF LogInv, LastIsSelected, SpinnerMeansWaiting, PageInRange, Untroubled, IsOpen,
              TotalPages
<1> QED
  BY <1>2, <1>3, <1>4, <1>5, <1>6, <1>7 DEF LogInv, LogTypeOK, IsOpen, Untroubled

\* Requests arrive and are decided while the page looks.
LEMMA LogServerStep ==
    ASSUME LogInv, ServerNext \/ UNCHANGED server, UNCHANGED logs
    PROVE  LogInv'
<1>1. ServerTypeOK /\ logs.data \in LogData /\ logs.calls \in Seq(LogCall)
  BY DEF LogInv, LogTypeOK, LogState
<1>2. ServerTypeOK'
  BY <1>1, ServerStep
<1>3. DataHolds(logs.data)'
  <2>1. \A d \in LogData : DataHolds(d) => DataHolds(d)'
    BY <1>1, DataStays
  <2> QED
    BY <1>1, <2>1 DEF LogInv, DataHolds
<1>4. CallsHold'
  <2> SUFFICES ASSUME NEW i \in DOMAIN logs.calls
               PROVE  DataHolds(logs.calls[i].data)'
    BY DEF LogInv, CallsHold, Untroubled
  <2>1. DOMAIN logs.calls = 1 .. Len(logs.calls)
    BY <1>1, LenProperties
  <2>2. logs.calls[i] \in LogCall
    BY <1>1, <2>1, ElementOfSeq
  <2>3. logs.calls[i].data \in LogData /\ DataHolds(logs.calls[i].data)
    BY <2>2 DEF LogCall, LogInv, CallsHold
  <2>4. \A d \in LogData : DataHolds(d) => DataHolds(d)'
    BY <1>1, DataStays
  <2> QED
    BY <2>3, <2>4 DEF DataHolds
<1>5. /\ LastIsSelected' /\ SpinnerMeansWaiting' /\ PageInRange'
      /\ (IsOpen("closed") => logs = Closed)'
      /\ (logs.data.torn => "torn" \in logs.mishaps)'
      /\ (Untroubled({"overlap"}) => Len(logs.calls) <= 1)'
  BY DEF LogInv, LastIsSelected, SpinnerMeansWaiting, PageInRange, Untroubled, IsOpen,
         TotalPages, Closed, NoData
<1> QED
  BY <1>2, <1>3, <1>4, <1>5 DEF LogInv, LogTypeOK

\* The connection is there, the API counts, the API reads.
LEMMA ApiStep ==
    ASSUME LogInv, NEW i \in 1 .. MaxCalls, Connected(i) \/ CountRows(i) \/ ReadRows(i)
    PROVE  LogInv'
<1> DEFINE old == logs.calls[i]
<1>1. /\ logs \in LogState /\ ServerTypeOK /\ UNCHANGED server /\ logs.data \in LogData
      /\ logs.calls \in Seq(LogCall) /\ i \in DOMAIN logs.calls
  BY DEF LogInv, LogTypeOK, LogState, Connected, CountRows, ReadRows, InFlight
<1>2. DOMAIN logs.calls = 1 .. Len(logs.calls)
  BY <1>1, LenProperties
<1>3. old \in LogCall
  BY <1>1, <1>2, ElementOfSeq
<1>4. /\ old.data \in LogData /\ DataHolds(old.data)
      /\ old.stage = "served" <=> old.data.loaded
      /\ old.stage \in {"counted", "served"} /\ Untroubled({"overlap"})
           => logs.data.total <= old.data.total
  BY <1>1, <1>3 DEF LogCall, LogInv, CallsHold
<1>5. /\ count \in Nat /\ logs.data.total <= count /\ logs.data.total \in Nat
  BY <1>1, LogAssumption DEF ServerTypeOK, LogInv, DataHolds, LogData
<1> HIDE DEF old
<1>6. CASE Connected(i)
  <2> DEFINE c == [old EXCEPT !.stage = "sent"]
  <2>1. logs' = [logs EXCEPT !.calls = [logs.calls EXCEPT ![i] = c]] /\ old.stage = "connecting"
    BY <1>1, <1>6 DEF Connected, InFlight, old
  <2>2. c \in LogCall /\ c.stage = "sent" /\ c.data = old.data
    BY <1>3 DEF LogCall
  <2> HIDE DEF c
  <2>3. /\ DataHolds(c.data)
        /\ c.stage = "served" <=> c.data.loaded
        /\ c.data.param = logs.calls[i].data.param
    BY <1>4, <2>1, <2>2 DEF old
  <2> QED
    BY <1>1, <2>1, <2>2, <2>3, CallStep
<1>7. CASE CountRows(i)
  <2> DEFINE d == [old.data EXCEPT !.total = count]
             c == [old EXCEPT !.stage = "counted", !.data = d]
  <2>1. logs' = [logs EXCEPT !.calls = [logs.calls EXCEPT ![i] = c]] /\ old.stage = "sent"
    BY <1>1, <1>7 DEF CountRows, InFlight, old
  <2>2. /\ d \in LogData /\ d.total = count /\ d.items = old.data.items /\ d.torn = old.data.torn
        /\ d.loaded = old.data.loaded /\ d.param = old.data.param
    <3>1. d \in LogData
      BY <1>4, <1>5, Zenon DEF LogData
    <3> QED
      BY <1>4, <3>1 DEF LogData
  <2> HIDE DEF d
  <2>3. c \in LogCall /\ c.stage = "counted" /\ c.data = d
    BY <1>3, <2>2 DEF LogCall
  <2> HIDE DEF c
  <2>4. DataHolds(d)
    <3>1. old.data.items = {} /\ ~old.data.torn /\ ~old.data.loaded
      BY <1>4, <2>1 DEF DataHolds
    <3> QED
      BY <1>5, <2>2, <3>1 DEF DataHolds
  <2>5. /\ DataHolds(c.data)
        /\ c.stage = "served" <=> c.data.loaded
        /\ logs.data.total <= c.data.total /\ c.data.param = logs.calls[i].data.param
    BY <1>4, <1>5, <2>1, <2>2, <2>3, <2>4 DEF old
  <2> QED
    BY <1>1, <2>1, <2>3, <2>5, CallStep
<1>8. CASE ReadRows(i)
  <2> DEFINE rows == Rows(Page(PageNumber(i), SizeOf[logs.page]))
             torn == old.data.total # count
             d == [old.data EXCEPT !.loaded = TRUE, !.items = rows, !.torn = torn]
             c == [stage |-> "served", data |-> d]
  <2>1. logs' = [logs EXCEPT !.calls = [logs.calls EXCEPT ![i] = c]] /\ old.stage = "counted"
    BY <1>1, <1>8 DEF ReadRows, InFlight, old
  <2>2. /\ rows \subseteq Row
        /\ \A row \in rows : /\ row.id \in Submitted
                             /\ row.status \in Final => row.status = status[row.id]
    <3>1. Submitted \subseteq Requests
      BY <1>1, LogAssumption DEF Submitted, Requests, ServerTypeOK
    <3> QED
      BY <3>1 DEF Rows, Page, Row, Final
  <2>3. torn \in BOOLEAN /\ (rows # {} => count > 0)
    <3>1. \A row \in rows : row.id \in 1 .. count
      BY <2>2 DEF Submitted
    <3> HIDE DEF rows
    <3> QED
      BY <1>5, <3>1
  <2> HIDE DEF rows
  <2>4. /\ d \in LogData /\ d.total = old.data.total /\ d.items = rows /\ d.torn = torn
        /\ d.loaded = TRUE /\ d.param = old.data.param
    <3> HIDE DEF torn
    <3>1. d \in LogData
      BY <1>4, <2>2, <2>3, Zenon DEF LogData
    <3> QED
      BY <1>4, <3>1 DEF LogData
  <2> HIDE DEF d
  <2>5. c \in LogCall /\ c.stage = "served" /\ c.data = d
    BY <1>3, <2>4 DEF LogCall
  <2> HIDE DEF c
  <2>6. DataHolds(d)
    <3>1. old.data.total <= count /\ (rows # {} /\ ~torn => old.data.total > 0)
      BY <1>4, <2>3 DEF DataHolds
    <3> HIDE DEF torn
    <3> QED
      BY <2>2, <2>4, <3>1 DEF DataHolds
  <2>7. /\ DataHolds(c.data)
        /\ c.stage = "served" <=> c.data.loaded
        /\ Untroubled({"overlap"}) => logs.data.total <= c.data.total
        /\ c.data.param = logs.calls[i].data.param
    BY <1>4, <2>1, <2>4, <2>5, <2>6 DEF old
  <2> QED
    BY <1>1, <2>1, <2>5, <2>7, CallStep
<1> QED
  BY <1>6, <1>7, <1>8

-------------------------------------------------------------------------------
(* Clicks of the submissions' page.                                        *)

\* "Next" and "previous" lead to a page that exists, if the count is one of the rows shown.
LEMMA TurnStep ==
    ASSUME LogInv, NextPage \/ PreviousPage
    PROVE  LogInv'
<1>1. /\ logs \in LogState /\ ServerTypeOK /\ UNCHANGED server /\ logs.data \in LogData
      /\ IsOpen("submissions") /\ ~IsOpen("closed") /\ logs.param \in Nat
      /\ View = "table"
  BY DEF LogInv, LogTypeOK, LogState, NextPage, PreviousPage, Fetch, IsOpen
<1>2. /\ logs.data.total \in Nat /\ Pages(logs.data.total) \in Nat
      /\ logs.data.total > 0 => Pages(logs.data.total) > 0
  BY <1>1, PagesGrow DEF LogData
<1>3. TotalPages = (IF logs.data.loaded THEN Pages(logs.data.total) ELSE 1) /\ TotalPages \in Nat
  BY <1>2 DEF TotalPages, Pages
<1>4. Untroubled({"overlap", "torn"}) => TotalPages > 0
  <2> SUFFICES ASSUME Untroubled({"overlap", "torn"}) PROVE TotalPages > 0
    OBVIOUS
  <2>1. logs.data.items # {}
    BY <1>1 DEF View, TableView, Shown, IsOpen
  <2>2. ~logs.data.torn
    BY DEF LogInv, Untroubled
  <2>3. logs.data.total > 0
    BY <2>1, <2>2 DEF LogInv, DataHolds
  <2> QED
    BY <1>2, <1>3, <2>3
<1>5. Untroubled({"overlap", "torn"})
        => logs.param \in 1 .. TotalPages
  <2>1. Untroubled({"overlap", "torn"}) => logs.param \in 1 .. (IF TotalPages > 1 THEN TotalPages ELSE 1)
    BY <1>1 DEF LogInv, PageInRange
  <2> QED
    BY <1>1, <1>3, <1>4, <2>1
<1>6. CASE NextPage
  <2> DEFINE param == IF logs.param < TotalPages THEN logs.param + 1 ELSE TotalPages
  <2>1. logs' = Fetching(param)
    BY <1>6 DEF NextPage, Fetch
  <2>2. param \in Nat
    BY <1>1, <1>3
  <2>3. Untroubled({"overlap", "torn"}) => param \in 1 .. (IF TotalPages > 1 THEN TotalPages ELSE 1)
    BY <1>1, <1>3, <1>4, <1>5
  <2> HIDE DEF param
  <2> QED
    BY <1>1, <2>1, <2>2, <2>3, FetchStep
<1>7. CASE PreviousPage
  <2> DEFINE param == IF logs.param > 1 THEN logs.param - 1 ELSE 1
  <2>1. logs' = Fetching(param)
    BY <1>7 DEF PreviousPage, Fetch
  <2>2. param \in Nat
    BY <1>1
  <2>3. Untroubled({"overlap", "torn"}) => param \in 1 .. (IF TotalPages > 1 THEN TotalPages ELSE 1)
    BY <1>1, <1>3, <1>4, <1>5
  <2> HIDE DEF param
  <2> QED
    BY <1>1, <2>1, <2>2, <2>3, FetchStep
<1> QED
  BY <1>6, <1>7

\* Another range, or the same again.
LEMMA AgainStep ==
    ASSUME LogInv, Retry \/ Refresh \/ \E days \in Ranges : SelectRange(days)
    PROVE  LogInv'
<1>1. PICK param \in Nat : /\ logs' = Fetching(param)
                           /\ IsOpen("submissions") => param = logs.param
  <2>1. logs.param \in Nat /\ Ranges \subseteq Nat
    BY LogPagesAssumption DEF LogInv, LogTypeOK, LogState
  <2>2. CASE Retry \/ Refresh
    BY <2>1, <2>2 DEF Retry, Refresh, Fetch
  <2>3. CASE \E days \in Ranges : SelectRange(days)
    BY <2>1, <2>3 DEF SelectRange, Fetch, IsOpen
  <2> QED
    BY <2>2, <2>3
<1>2. UNCHANGED server /\ ~IsOpen("closed")
  BY DEF Retry, Refresh, SelectRange, Fetch, IsOpen, View, LogNames
<1>3. IsOpen("submissions") /\ Untroubled({"overlap", "torn"}) /\ logs.calls = <<>>
        => param \in 1 .. (IF TotalPages > 1 THEN TotalPages ELSE 1)
  BY <1>1 DEF LogInv, PageInRange
<1> QED
  BY <1>1, <1>2, <1>3, FetchStep

LEMMA LogStart == LogInit => LogInv
<1>1. ServerInit => ServerTypeOK
  BY LogAssumption DEF ServerInit, ServerTypeOK, Unfinished
<1> QED
  BY <1>1, ClosedLog DEF LogInit

LEMMA LogStep == LogInv /\ [LogNext]_logVars => LogInv'
<1> SUFFICES ASSUME LogInv, [LogNext]_logVars PROVE LogInv'
  OBVIOUS
<1>1. CASE \E page \in LogNames : OpenLog(page)
  BY <1>1, OpenStep
<1>2. CASE CloseLog \/ \E i \in 1 .. MaxCalls : FetchDenied(i)
  BY <1>2, CloseStep DEF CloseLog, FetchDenied
<1>3. CASE Retry \/ Refresh \/ \E days \in Ranges : SelectRange(days)
  BY <1>3, AgainStep
<1>4. CASE NextPage \/ PreviousPage
  BY <1>4, TurnStep
<1>5. CASE SetFilters \/ ClearFilters
  BY <1>5, FilterStep
<1>6. CASE \E i \in 1 .. MaxCalls : Connected(i) \/ CountRows(i) \/ ReadRows(i)
  BY <1>6, ApiStep
<1>7. CASE \E i \in 1 .. MaxCalls : TakeAnswer(i) \/ FetchFails(i)
  BY <1>7, EndStep
<1>8. CASE ServerNext /\ UNCHANGED logs
  BY <1>8, LogServerStep
<1>9. CASE UNCHANGED logVars
  BY <1>9, LogServerStep DEF logVars, server
<1> QED
  BY <1>1, <1>2, <1>3, <1>4, <1>5, <1>6, <1>7, <1>8, <1>9 DEF LogNext, LogUser, LogCalls

-------------------------------------------------------------------------------
(* The tab.                                                                *)

ViewsInv == LogInv /\ StatusInv /\ OnePage /\ ClickedHolds

\* A row leads to the page of a request that exists: for the table it is leaving, for the
\* page of the request being opened by its address.
LEMMA RowOpens ==
    ASSUME ViewsInv, OpenRow
    PROVE  /\ CloseLog /\ UNCHANGED <<server, sim>>
           /\ \E row \in logs.data.items :
                /\ row.id \in Requests /\ OpenDetail(row.id) /\ clicked' = row.status
                /\ row.status \in Final => row.status = status[row.id]
<1>1. PICK row \in Shown :
        /\ detail' = FetchDetail([ClosedDetail EXCEPT !.open = TRUE, !.request = row.id])
        /\ clicked' = row.status
  BY DEF OpenRow
<1>2. /\ ~IsOpen("closed") /\ logs' = Closed /\ UNCHANGED <<server, sim>>
  BY DEF OpenRow, View, IsOpen
<1>3. ~detail.open /\ sim = NewSim
  BY <1>2 DEF ViewsInv, OnePage
<1>4. /\ row \in logs.data.items /\ row.id \in Submitted
      /\ row.status \in Final => row.status = status[row.id]
  BY DEF Shown, ViewsInv, LogInv, DataHolds
<1>5. row.id \in Requests
  BY <1>4 DEF ViewsInv, LogInv, LogTypeOK, LogState, LogData, Row
<1> QED
  BY <1>1, <1>2, <1>3, <1>4, <1>5 DEF CloseLog, OpenDetail

\* In the tab the pages of the log behave as they do alone, for the server of this module.
LEMMA LogAlone == ViewsInv /\ [ViewsNext]_viewVars => [LogNext]_logVars
<1> SUFFICES ASSUME ViewsInv, [ViewsNext]_viewVars PROVE [LogNext]_logVars
  OBVIOUS
<1>1. CASE OpenRow
  BY <1>1, RowOpens DEF LogNext, LogUser
<1>2. CASE InLog(NothingOpen /\ \E page \in LogNames : OpenLog(page)) \/ InLog(LogUser) \/ InLog(LogCalls)
  BY <1>2 DEF InLog, LogNext
<1>3. CASE \/ InStatus(IsOpen("closed") /\ ((\E r \in Requests : OpenDetail(r)) \/ RunSimulation))
           \/ InStatus(DetailUser \/ LeaveSim) \/ InStatus(DetailRuns) \/ InStatus(SimRuns)
  <2>1. UNCHANGED logs
    BY <1>3 DEF InStatus
  <2>2. CASE SimCreated
    BY <2>1, <2>2 DEF LogNext, ServerNext, Submit, SimCreated
  <2>3. CASE ~SimCreated
    <3>1. UNCHANGED server
      BY <1>3, <2>3 DEF InStatus, OpenDetail, RunSimulation, DetailUser, LeaveSim, RetryDetail,
             CloseDetail, DetailRuns, AnswerDetail, TakeDetail, PollDetail, DetailFails,
             DetailDenied, SimRuns, SimAsks, AnswerSim, SimPauses, SimShows, SimFails, SimFallsBack
    <3> QED
      BY <2>1, <3>1 DEF logVars, server
  <2> QED
    BY <2>2, <2>3
<1>4. CASE ServerNext /\ UNCHANGED <<logs, detail, sim, clicked>>
  BY <1>4 DEF LogNext
<1>5. CASE UNCHANGED viewVars
  BY <1>5 DEF viewVars, logVars
<1> QED
  BY <1>1, <1>2, <1>3, <1>4, <1>5 DEF ViewsNext

\* And so do the page of a request and the simulator.
LEMMA StatusAlone == ViewsInv /\ [ViewsNext]_viewVars => [StatusNext]_statusVars
<1> SUFFICES ASSUME ViewsInv, [ViewsNext]_viewVars PROVE [StatusNext]_statusVars
  OBVIOUS
<1>1. CASE OpenRow
  BY <1>1, RowOpens DEF StatusNext
<1>2. CASE InLog(NothingOpen /\ \E page \in LogNames : OpenLog(page)) \/ InLog(LogUser) \/ InLog(LogCalls)
  <2>1. UNCHANGED <<detail, sim>>
    BY <1>2 DEF InLog
  <2>2. UNCHANGED server
    BY <1>2 DEF InLog, OpenLog, LogUser, LogCalls, CloseLog, Retry, Refresh, NextPage, PreviousPage,
                SetFilters, ClearFilters, SelectRange, Fetch, Connected, CountRows, ReadRows,
                TakeAnswer, FetchFails, FetchDenied
  <2> QED
    BY <2>1, <2>2 DEF statusVars, server
<1>3. CASE \/ InStatus(IsOpen("closed") /\ ((\E r \in Requests : OpenDetail(r)) \/ RunSimulation))
           \/ InStatus(DetailUser \/ LeaveSim) \/ InStatus(DetailRuns) \/ InStatus(SimRuns)
  BY <1>3 DEF InStatus, StatusNext
<1>4. CASE ServerNext /\ UNCHANGED <<logs, detail, sim, clicked>>
  BY <1>4 DEF StatusNext
<1>5. CASE UNCHANGED viewVars
  BY <1>5 DEF viewVars, statusVars
<1> QED
  BY <1>1, <1>2, <1>3, <1>4, <1>5 DEF ViewsNext

\* Only the page that is open moves.
LEMMA OnlyOpenMoves ==
    ASSUME ViewsInv
    PROVE  /\ LogUser \/ LogCalls => ~IsOpen("closed")
           /\ DetailUser \/ LeaveSim \/ DetailRuns \/ SimRuns => IsOpen("closed")
<1>1. ASSUME LogUser \/ LogCalls, IsOpen("closed") PROVE FALSE
  <2>1. logs = Closed /\ logs.calls = <<>> /\ View = "closed"
    BY <1>1 DEF ViewsInv, LogInv, Closed, View, IsOpen
  <2>2. CASE LogUser
    BY <1>1, <2>1, <2>2 DEF LogUser, CloseLog, Retry, Refresh, NextPage, PreviousPage, SetFilters,
       ClearFilters, SelectRange, IsOpen
  <2>3. CASE LogCalls
    <3>1. PICK i : i \in DOMAIN logs.calls
      BY <2>3 DEF LogCalls, Connected, CountRows, ReadRows, TakeAnswer, FetchFails, FetchDenied,
                  InFlight
    <3> QED
      BY <2>1, <3>1
  <2> QED
    BY <1>1, <2>2, <2>3
<1>2. ASSUME DetailUser \/ LeaveSim \/ DetailRuns \/ SimRuns, ~IsOpen("closed") PROVE FALSE
  <2>1. ~detail.open /\ sim = NewSim
    BY <1>2 DEF ViewsInv, OnePage
  <2>2. ~detail.timer /\ ~detail.error /\ detail.query = NoQuery
    BY <2>1 DEF ViewsInv, StatusInv, DetailHolds
  <2>3. NoQuery.stage = "idle" /\ sim.at = "idle" /\ sim.query = NoQuery
    BY <2>1 DEF NoQuery, NewSim
  <2>4. ~DetailUser
    BY <2>1, <2>2 DEF DetailUser, RetryDetail, CloseDetail, DetailView
  <2>5. ~DetailRuns
    BY <2>1, <2>2, <2>3 DEF DetailRuns, AnswerDetail, TakeDetail, PollDetail, DetailFails,
                            DetailDenied, AtApi
  <2>6. ~SimRuns
    BY <2>3 DEF SimRuns, SimCreated, SimAsks, AnswerSim, SimPauses, SimShows, SimFails,
                SimFallsBack, AtApi
  <2> QED
    BY <1>2, <2>1, <2>4, <2>5, <2>6 DEF LeaveSim
<1> QED
  BY <1>1, <1>2

LEMMA OnePageStep == ViewsInv /\ [ViewsNext]_viewVars => OnePage'
<1> SUFFICES ASSUME ViewsInv, [ViewsNext]_viewVars PROVE OnePage'
  OBVIOUS
<1>1. CASE OpenRow
  BY <1>1 DEF OpenRow, OnePage, IsOpen, Closed
<1>2. CASE InLog(NothingOpen /\ \E page \in LogNames : OpenLog(page))
  BY <1>2 DEF InLog, NothingOpen, OnePage
<1>3. CASE InLog(LogUser) \/ InLog(LogCalls)
  BY <1>3, OnlyOpenMoves DEF InLog, ViewsInv, OnePage
<1>4. CASE \/ InStatus(IsOpen("closed") /\ ((\E r \in Requests : OpenDetail(r)) \/ RunSimulation))
           \/ InStatus(DetailUser \/ LeaveSim) \/ InStatus(DetailRuns) \/ InStatus(SimRuns)
  <2>1. IsOpen("closed") /\ UNCHANGED logs
    BY <1>4, OnlyOpenMoves DEF InStatus
  <2> QED
    BY <2>1 DEF OnePage, IsOpen
<1>5. CASE UNCHANGED <<logs, detail, sim>>
  BY <1>5 DEF ViewsInv, OnePage, IsOpen
<1> QED
  BY <1>1, <1>2, <1>3, <1>4, <1>5 DEF ViewsNext, viewVars

\* What the page of a request does to what it has read of it.
LEMMA DetailReads ==
    ASSUME ViewsInv, DetailUser \/ DetailRuns, clicked \in Final, detail'.open
    PROVE  /\ detail'.request = detail.request
           /\ detail'.query.stage \in {"read", "served"} => detail'.query.answer.status = clicked
           /\ detail'.loaded => detail'.shown.status = clicked
<1>1. /\ detail \in DetailState /\ detail.query \in Query /\ detail.query.answer \in Answer
      /\ status[detail.request] = clicked
      /\ detail.query.stage \in {"read", "served"} => detail.query.answer.status = clicked
      /\ detail.loaded => detail.shown.status = clicked
  BY DEF ViewsInv, StatusInv, StatusTypeOK, DetailState, Query, ClickedHolds
<1>2. NewQuery.stage = "sent" /\ NoQuery.stage = "idle"
  BY DEF NewQuery, NoQuery
<1>3. CASE RetryDetail
  <2>1. detail' = [detail EXCEPT !.loading = TRUE, !.error = FALSE, !.query = NewQuery]
    BY <1>3 DEF RetryDetail, FetchDetail
  <2> QED
    BY <1>1, <1>2, <2>1 DEF DetailState
<1>4. CASE CloseDetail \/ DetailDenied
  BY <1>4 DEF CloseDetail, DetailDenied, ClosedDetail
<1>5. CASE AnswerDetail
  <2> DEFINE q == Advanced(detail.query, detail.request)
  <2>1. AtApi(detail.query) /\ detail' = [detail EXCEPT !.query = q]
    BY <1>5 DEF AnswerDetail
  <2>2. q.answer.status = clicked
    <3>1. CASE detail.query.stage = "sent"
      <4>1. q = [detail.query EXCEPT !.stage = "read", !.answer.status = status[detail.request]]
        BY <3>1 DEF Advanced
      <4> QED
        BY <1>1, <4>1 DEF Query, Answer
    <3>2. CASE detail.query.stage = "read"
      <4>1. q = [detail.query EXCEPT !.stage = "served", !.answer.verdict = VerdictOf(detail.request)]
        BY <3>2 DEF Advanced
      <4> QED
        BY <1>1, <3>2, <4>1 DEF Query, Answer
    <3> QED
      BY <2>1, <3>1, <3>2 DEF AtApi
  <2> HIDE DEF q
  <2>3. /\ detail'.request = detail.request /\ detail'.query = q
        /\ detail'.loaded = detail.loaded /\ detail'.shown = detail.shown
    BY <1>1, <2>1 DEF DetailState
  <2> QED
    BY <1>1, <2>2, <2>3
<1>6. CASE TakeDetail
  <2>1. /\ detail.query.stage = "served" /\ detail'.request = detail.request
        /\ detail'.query = NoQuery /\ detail'.shown = detail.query.answer
    BY <1>1, <1>6 DEF TakeDetail, DetailState
  <2> QED
    BY <1>1, <1>2, <2>1
<1>7. CASE PollDetail
  <2>1. /\ detail'.request = detail.request /\ detail'.query = NewQuery
        /\ detail'.loaded = detail.loaded /\ detail'.shown = detail.shown
    BY <1>1, <1>7 DEF PollDetail, DetailState
  <2> QED
    BY <1>1, <1>2, <2>1
<1>8. CASE DetailFails
  <2>1. /\ detail'.request = detail.request /\ detail'.query = NoQuery
        /\ detail'.loaded = detail.loaded /\ detail'.shown = detail.shown
    BY <1>1, <1>8 DEF DetailFails, DetailState
  <2> QED
    BY <1>1, <1>2, <2>1
<1> QED
  BY <1>3, <1>4, <1>5, <1>6, <1>7, <1>8 DEF DetailUser, DetailRuns

LEMMA ClickedStep == ViewsInv /\ [ViewsNext]_viewVars => ClickedHolds'
<1> SUFFICES ASSUME ViewsInv, [ViewsNext]_viewVars PROVE ClickedHolds'
  OBVIOUS
<1>1. ServerTypeOK /\ "none" \notin Final
  BY DEF ViewsInv, LogInv, LogTypeOK, Final
<1>2. clicked \in Final => detail.open /\ detail.request \in Requests
  BY <1>1 DEF ViewsInv, ClickedHolds, StatusInv, DetailHolds
<1>3. ASSUME ServerNext \/ UNCHANGED server, UNCHANGED <<detail, clicked>>
      PROVE  ClickedHolds'
  <2>1. Settled
    BY <1>1, <1>3, ServerStep
  <2> QED
    BY <1>2, <1>3, <2>1 DEF Settled, ViewsInv, ClickedHolds
<1>4. CASE OpenRow
  <2>1. PICK row \in logs.data.items :
          /\ row.id \in Requests /\ OpenDetail(row.id) /\ clicked' = row.status
          /\ row.status \in Final => row.status = status[row.id]
    BY <1>4, RowOpens
  <2>2. detail' = FetchDetail([ClosedDetail EXCEPT !.open = TRUE, !.request = row.id])
    BY <2>1 DEF OpenDetail
  <2>3. /\ detail'.open /\ detail'.request = row.id /\ ~detail'.loaded
        /\ detail'.query.stage = "sent"
    BY <2>2 DEF FetchDetail, ClosedDetail, NewQuery, NoQuery
  <2>4. status' = status
    BY <2>1 DEF OpenDetail, server
  <2> QED
    BY <2>1, <2>3, <2>4 DEF ClickedHolds
<1>5. CASE InLog(NothingOpen /\ \E page \in LogNames : OpenLog(page)) \/ InLog(LogUser) \/ InLog(LogCalls)
  <2>1. UNCHANGED <<detail, clicked>>
    BY <1>5 DEF InLog
  <2>2. UNCHANGED server
    BY <1>5 DEF InLog, OpenLog, LogUser, LogCalls, CloseLog, Retry, Refresh, NextPage, PreviousPage,
                SetFilters, ClearFilters, SelectRange, Fetch, Connected, CountRows, ReadRows,
                TakeAnswer, FetchFails, FetchDenied
  <2> QED
    BY <1>3, <2>1, <2>2
<1>6. CASE InStatus(IsOpen("closed") /\ ((\E r \in Requests : OpenDetail(r)) \/ RunSimulation))
  <2>1. CASE RunSimulation
    <3>1. UNCHANGED detail /\ UNCHANGED server
      BY <2>1 DEF RunSimulation
    <3>2. ~detail.open /\ clicked = "none"
      BY <2>1 DEF RunSimulation, ViewsInv, ClickedHolds
    <3>3. clicked' = "none"
      BY <1>6, <3>1, <3>2 DEF InStatus
    <3> QED
      BY <1>1, <3>3 DEF ClickedHolds
  <2>2. CASE \E r \in Requests : OpenDetail(r)
    <3>1. clicked = "none"
      BY <2>2 DEF OpenDetail, ViewsInv, ClickedHolds
    <3>2. clicked' = "none"
      BY <1>6, <3>1 DEF InStatus
    <3> QED
      BY <1>1, <3>2 DEF ClickedHolds
  <2> QED
    BY <1>6, <2>1, <2>2 DEF InStatus
<1>7. CASE InStatus(DetailUser \/ LeaveSim) \/ InStatus(DetailRuns) \/ InStatus(SimRuns)
  <2>1. clicked' = IF detail'.open THEN clicked ELSE "none"
    BY <1>7 DEF InStatus
  <2>2. CASE ~detail'.open
    BY <1>1, <2>1, <2>2 DEF ClickedHolds
  <2>3. CASE detail'.open /\ (DetailUser \/ DetailRuns)
    <3>1. clicked' = clicked
      BY <2>1, <2>3
    <3>2. status' = status
      BY <2>3 DEF DetailUser, DetailRuns, RetryDetail, CloseDetail, AnswerDetail, TakeDetail,
                  PollDetail, DetailFails, DetailDenied, server
    <3> QED
      BY <2>3, <3>1, <3>2, DetailReads DEF ClickedHolds, ViewsInv
  <2>4. CASE detail'.open /\ (LeaveSim \/ SimRuns)
    <3>1. UNCHANGED detail /\ clicked' = clicked
      BY <2>1, <2>4 DEF LeaveSim, SimRuns, SimCreated, SimAsks, AnswerSim, SimPauses, SimShows,
                        SimFails, SimFallsBack
    <3>2. status' = status
      BY <2>4 DEF LeaveSim, SimRuns, SimCreated, SimAsks, AnswerSim, SimPauses, SimShows, SimFails,
                  SimFallsBack, server
    <3> QED
      BY <3>1, <3>2 DEF ClickedHolds, ViewsInv
  <2> QED
    BY <1>7, <2>2, <2>3, <2>4 DEF InStatus
<1>8. CASE ServerNext /\ UNCHANGED <<logs, detail, sim, clicked>>
  BY <1>3, <1>8
<1>9. CASE UNCHANGED viewVars
  BY <1>3, <1>9 DEF viewVars, server
<1> QED
  BY <1>4, <1>5, <1>6, <1>7, <1>8, <1>9 DEF ViewsNext

LEMMA ViewsStart == ViewsInit => LogInit /\ StatusInit /\ ViewsInv
<1> SUFFICES ASSUME ViewsInit PROVE LogInit /\ StatusInit /\ ViewsInv
  OBVIOUS
<1>1. LogInit /\ StatusInit /\ clicked = "none" /\ sim = NewSim /\ logs = Closed
  BY DEF ViewsInit, LogInit, StatusInit
<1>2. LogInv /\ StatusInv
  BY <1>1, LogStart, StatusStart
<1>3. OnePage /\ ClickedHolds
  BY <1>1 DEF OnePage, IsOpen, Closed, ClickedHolds, Final
<1> QED
  BY <1>1, <1>2, <1>3 DEF ViewsInv

LEMMA ViewsStep == ViewsInv /\ [ViewsNext]_viewVars => ViewsInv'
<1> SUFFICES ASSUME ViewsInv, [ViewsNext]_viewVars PROVE ViewsInv'
  OBVIOUS
<1>1. LogInv' /\ StatusInv'
  <2>1. [LogNext]_logVars /\ [StatusNext]_statusVars
    BY LogAlone, StatusAlone
  <2> QED
    BY <2>1, LogStep, StatusStep DEF ViewsInv
<1> QED
  BY <1>1, OnePageStep, ClickedStep DEF ViewsInv

-------------------------------------------------------------------------------
(* The theorems.                                                           *)

\* Each page's invariant, one page at a time, and what is known of the row that was clicked.
THEOREM ViewsInvariance == ViewsSpec => []ViewsInv
  BY ViewsStart, ViewsStep, PTL DEF ViewsSpec

\* Shown together in one tab, the pages of the log and the two pages that wait for a
\* request do what their own modules say: what holds of every step of theirs alone,
\* holds in the tab.
THEOREM PagesKeepTheirModules ==
    ViewsSpec => /\ LogInit /\ [][LogNext]_logVars
                 /\ StatusInit /\ [][StatusNext]_statusVars
  BY ViewsInvariance, ViewsStart, LogAlone, StatusAlone, PTL DEF ViewsSpec

\* The pages keep their types, whatever arrives in whatever order.
THEOREM ViewsTypes == ViewsSpec => [](LogTypeOK /\ StatusTypeOK)
<1>1. ViewsInv => LogTypeOK /\ StatusTypeOK
  BY DEF ViewsInv, LogInv, StatusInv
<1> QED
  BY <1>1, ViewsInvariance, PTL

\* At rest and without a failure, a page shows the range or page number that is selected,
\* unless an answer was overtaken by an older one.
THEOREM SelectionIsShown == ViewsSpec => []ShownIsSelected
<1>1. ViewsInv => ShownIsSelected
  BY DEF ViewsInv, LogInv, LastIsSelected, ShownIsSelected
<1> QED
  BY <1>1, ViewsInvariance, PTL

\* A page that spins waits for a fetch; one that waits for its only fetch spins.
THEOREM SpinnerIsHonest == ViewsSpec => []SpinnerMeansWaiting
<1>1. ViewsInv => SpinnerMeansWaiting
  BY DEF ViewsInv, LogInv
<1> QED
  BY <1>1, ViewsInvariance, PTL

\* However many rows a page has, the table of submissions stays on a page that exists, as
\* long as no count is older than the rows beside it and no answer is overtaken.
THEOREM PagesExist == ViewsSpec => []PageInRange
<1>1. ViewsInv => PageInRange
  BY DEF ViewsInv, LogInv
<1> QED
  BY <1>1, ViewsInvariance, PTL

\* The page of a request never takes back the final status its row showed.
THEOREM RowsAgreeWithDetail == ViewsSpec => []RowAndDetailAgree
<1>1. ViewsInv => RowAndDetailAgree
  BY DEF ViewsInv, ClickedHolds, RowAndDetailAgree
<1> QED
  BY <1>1, ViewsInvariance, PTL
===============================================================================
