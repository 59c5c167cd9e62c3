---------------------------- MODULE PagesProofs ----------------------------
(***************************************************************************)
(* The two paged readings, of a wallet's activity and of the open markets, *)
(* and the calls they are made of, whatever the server answers and however *)
(* the pages move under them.                                              *)
(***************************************************************************)
EXTENDS ActivityPages, MarketPages, LoopProofs, FiniteSetTheorems

\* The number of retries is a natural number.
LEMMA RetriesType == Retries \in Nat
  BY HttpAssumption DEF Retries

\* The bounds of a reading are numbers, and positive where they must be.
LEMMA PageBounds ==
  /\ MaxPage \in Nat /\ MaxPage > 0 /\ MaxRecords \in Nat /\ MaxRecords > 0
  /\ MaxInitial \in Nat /\ MaxInserts \in Nat
  BY PagesAssumption

\* What an answer looks like: only the body of a 200 may fail to decode.
LEMMA AnswerShape ==
  ASSUME NEW a \in Answers
  PROVE  a.kind = "response" =>
           /\ a.status \in Statuses
           /\ a.status # 200 => a.json
  BY DEF Answers, Statuses

-----------------------------------------------------------------------------
\* A call that has not started has nothing behind it.
LEMMA FreshCall ==
  ASSUME attempt = 0, place = "send", answers = <<>>, delays = <<>>
  PROVE  GetInv
  BY RetriesType DEF GetInv, Counted

\* A request leaves the answers alone.
LEMMA SendKeeps == GetInv /\ Send => GetInv'
<1> SUFFICES ASSUME GetInv, Send PROVE GetInv'
  OBVIOUS
<1>1. Counted'
  BY RetriesType DEF GetInv, Counted, Send
<1> QED
  BY <1>1 DEF GetInv, Send

\* A sleep leaves the answers alone.
LEMMA SleepKeeps == GetInv /\ Sleep => GetInv'
<1> SUFFICES ASSUME GetInv, Sleep PROVE GetInv'
  OBVIOUS
<1> DEFINE d == Delay(attempt - 1)
           Delays == {Delay(k) : k \in 0..Retries}
<1>1. attempt \in 1..Retries /\ Len(delays) = attempt - 1 /\ Len(answers) = attempt
  BY DEF GetInv, Counted, Sleep
<1>2. d \in Delays
  BY <1>1, RetriesType
<1>3. delays \in Seq(Delays) /\ delays' = Append(delays, d)
  BY DEF GetInv, Sleep
<1> HIDE DEF d, Delays
<1>4. delays' \in Seq(Delays) /\ Len(delays') = Len(delays) + 1
  BY <1>2, <1>3
<1>5. Counted'
  BY <1>1, <1>4, RetriesType DEF Counted, Sleep
<1>6. delays' \in Seq({Delay(k) : k \in 0..Retries})'
  BY <1>4 DEF Delays, Delay
<1> QED
  BY <1>5, <1>6 DEF GetInv, Sleep

\* An answer settles the call, or the call goes on with one more behind it.
LEMMA AnswerKeeps ==
  ASSUME GetInv, NEW a \in Answers, Answer(a)
  PROVE  GetInv'
<1>1. /\ place = "wait" /\ attempt \in 1..(Retries + 1)
      /\ Len(answers) = attempt - 1 /\ Len(delays) = attempt - 1
      /\ answers \in Seq(Answers)
  BY DEF GetInv, Counted, Answer
<1>2. answers' = Append(answers, a) /\ attempt' = attempt /\ delays' = delays
  BY DEF Answer
<1>3. /\ answers' \in Seq(Answers) /\ Len(answers') = attempt
      /\ answers'[attempt] = a
      /\ \A i \in DOMAIN answers' : i < attempt => answers'[i] = answers[i] /\ i \in DOMAIN answers
  BY <1>1, <1>2, RetriesType
<1>4. \A i \in DOMAIN answers : Transient(answers[i])
  BY <1>1 DEF GetInv
<1>5. \A i \in DOMAIN answers' : i < attempt => Transient(answers'[i])
  BY <1>3, <1>4
<1>6. (delays \in Seq({Delay(k) : k \in 0..Retries}))'
  BY <1>2 DEF GetInv, Delay
<1>7. CASE ~Transient(a)
  <2>1. place' = "done" /\ result' = Verdict(a)
    BY <1>7 DEF Answer, Finish
  <2>2. Counted'
    BY <2>1, <1>1, <1>2, <1>3 DEF Counted
  <2>3. result' = Settled(answers'[attempt'])
    BY <2>1, <1>2, <1>3, <1>7 DEF Settled
  <2>4. ~Transient(answers'[attempt'])
    BY <1>2, <1>3, <1>7
  <2> QED
    BY <2>1, <2>2, <2>3, <2>4, <1>2, <1>3, <1>5, <1>6 DEF GetInv, Settled
<1>8. CASE Transient(a) /\ LastAttempt
  <2>1. place' = "done" /\ result' = Exhausted(Status(a))
    BY <1>8 DEF Answer, Finish, Status
  <2>2. attempt = Retries + 1
    BY <1>1, <1>8, RetriesType DEF LastAttempt
  <2>3. Counted'
    BY <2>1, <1>1, <1>2, <1>3 DEF Counted
  <2>4. result' = Settled(answers'[attempt'])
    BY <2>1, <1>2, <1>3, <1>8 DEF Settled
  <2> QED
    BY <2>1, <2>2, <2>3, <2>4, <1>2, <1>3, <1>5, <1>6 DEF GetInv, Settled
<1>9. CASE Transient(a) /\ ~LastAttempt
  <2>1. place' = "sleep"
    BY <1>9 DEF Answer
  <2>2. attempt \in 1..Retries
    BY <1>1, <1>9, RetriesType DEF LastAttempt
  <2>3. Counted'
    BY <2>1, <2>2, <1>1, <1>2, <1>3 DEF Counted
  <2>4. \A i \in DOMAIN answers' : Transient(answers'[i])
    BY <1>3, <1>5, <1>9, <1>1
  <2> QED
    BY <2>1, <2>3, <2>4, <1>2, <1>3, <1>6 DEF GetInv
<1> QED
  BY <1>7, <1>8, <1>9

\* Every step of a call keeps its invariant.
LEMMA CallKeeps == GetInv /\ NextGet => GetInv'
  BY SendKeeps, SleepKeeps, AnswerKeeps DEF NextGet

\* Nothing of the call moves, or a new one begins.
LEMMA CallStays == GetInv /\ UNCHANGED getVars => GetInv'
  BY DEF GetInv, getVars, Counted, Settled, Status, Transient, Exhausted, Verdict, Delay

\* The next call begins with nothing behind it.
LEMMA CallBegins == NewGet => GetInv'
  BY RetriesType DEF NewGet, GetInv, Counted

-----------------------------------------------------------------------------
\* What the invariant of a call says of its attempts.
LEMMA AttemptsBounded == GetInv => BoundedRetries
<1> SUFFICES ASSUME GetInv PROVE BoundedRetries
  OBVIOUS
<1>1. \A i \in DOMAIN answers :
        answers[i].kind = "response" /\ answers[i].status \in 200..499 \ {429} =>
          i = Len(answers) /\ place = "done"
  <2> SUFFICES ASSUME NEW i \in DOMAIN answers,
                      answers[i].kind = "response", answers[i].status \in 200..499 \ {429}
               PROVE  i = Len(answers) /\ place = "done"
    OBVIOUS
  <2>1. ~Transient(answers[i])
    BY DEF Transient, RetryStatuses
  <2>2. place = "done" /\ ~(i < attempt)
    BY <2>1 DEF GetInv
  <2> QED
    BY <2>2, RetriesType DEF GetInv, Counted
<1>2. attempt <= Retries + 1 /\ (attempt > 0 => Len(delays) \in {attempt - 1, attempt})
  BY RetriesType DEF GetInv, Counted
<1> QED
  BY <1>1, <1>2 DEF BoundedRetries

\* What the invariant of a call says of its outcome.
LEMMA OutcomeFollows == GetInv => OutcomeExplained
<1> SUFFICES ASSUME GetInv, place = "done" PROVE OutcomeExplained
  BY DEF OutcomeExplained
<1> DEFINE a == answers[Len(answers)]
           responded == a.kind = "response"
<1>1. Len(answers) = attempt /\ attempt \in 1..(Retries + 1)
  BY DEF GetInv, Counted
<1>2. a \in Answers
  BY <1>1, RetriesType DEF GetInv
<1>3. result = Settled(a) /\ (Transient(a) => attempt = Retries + 1)
  BY <1>1 DEF GetInv
<1>4. responded => a.status \in Statuses /\ (a.status # 200 => a.json)
  BY <1>2, AnswerShape
<1> HIDE DEF a
<1>5. CASE Transient(a)
  <2>1. result = Exhausted(Status(a)) /\ attempt = Retries + 1
    BY <1>3, <1>5 DEF Settled
  <2>2. responded => a.status # 200 /\ a.status # 404
    BY <1>5 DEF Transient, RetryStatuses
  <2>3. (result = "RateLimitError") <=> (responded /\ a.status = 429)
    BY <2>1 DEF Exhausted, Status
  <2>4. result \in {"RateLimitError", "HttpError"}
    BY <2>1 DEF Exhausted
  <2> QED
    BY <2>1, <2>2, <2>3, <2>4, <1>1 DEF OutcomeExplained, a
<1>6. CASE ~Transient(a)
  <2>1. responded /\ a.status \notin RetryStatuses
    BY <1>6 DEF Transient
  <2>2. result = Verdict(a)
    BY <1>3, <1>6 DEF Settled
  <2>3. a.status \in {200, 301, 404, 501}
    BY <1>4, <2>1 DEF Statuses, RetryStatuses
  <2>4. (result = "NotFoundError") <=> (a.status = 404)
    BY <2>2, <2>3 DEF Verdict
  <2>5. (result = "value") <=> (a.status = 200 /\ a.json)
    BY <2>2, <2>3 DEF Verdict
  <2>6. result # "RateLimitError"
    BY <2>2 DEF Verdict
  <2> QED
    BY <2>1, <2>3, <2>4, <2>5, <2>6 DEF OutcomeExplained, a
<1> QED
  BY <1>5, <1>6

-----------------------------------------------------------------------------
\* An identifier put into a list of identifiers.
LEMMA IdInserted ==
  ASSUME NEW s \in Seq(Nat), NEW at \in 1..(Len(s) + 1), NEW x \in Nat
  PROVE  /\ InsertAt(s, at, x) \in Seq(Nat)
         /\ Len(InsertAt(s, at, x)) = Len(s) + 1
         /\ \A i \in 1..(Len(s) + 1) : InsertAt(s, at, x)[i] =
              IF i < at THEN s[i] ELSE IF i = at THEN x ELSE s[i - 1]
<1> DEFINE R == Nat
<1>1. s \in Seq(R) /\ x \in R
  OBVIOUS
<1> HIDE DEF R
<1>2. /\ InsertAt(s, at, x) \in Seq(R)
      /\ Len(InsertAt(s, at, x)) = Len(s) + 1
      /\ \A i \in 1..(Len(s) + 1) : InsertAt(s, at, x)[i] =
           IF i < at THEN s[i] ELSE IF i = at THEN x ELSE s[i - 1]
  BY <1>1, InsertAtShape
<1> QED
  BY <1>2 DEF R

\* A page is that part of the feed.
LEMMA PageShape ==
  ASSUME feed \in Seq(Nat), offset \in Nat, offset <= Len(feed), Limit \in Nat
  PROVE  /\ Page \in Seq(Nat)
         /\ Len(Page) = Few(Limit, Len(feed) - offset)
         /\ \A i \in 1..Len(Page) : Page[i] = feed[offset + i]
<1> DEFINE m == Few(offset + Limit, Len(feed))
<1>1. /\ m \in offset..Len(feed) /\ m - offset = Few(Limit, Len(feed) - offset)
  BY DEF Few
<1> HIDE DEF m
<1>2. Page = SubSeq(feed, offset + 1, m)
  BY DEF Page, m
<1>3. Page \in Seq(Nat) /\ Len(Page) = m - offset
  BY <1>1, <1>2
<1>4. \A i \in 1..(m - offset) : Page[i] = feed[offset + i]
  BY <1>1, <1>2
<1> QED
  BY <1>1, <1>3, <1>4

\* A sequence without repetitions has as many elements as places.
LEMMA DistinctCount ==
  ASSUME NEW s \in Seq(Nat), \A i, j \in DOMAIN s : s[i] = s[j] => i = j
  PROVE  IsFiniteSet(Range(s)) /\ Cardinality(Range(s)) = Len(s)
<1>1. s \in Bijection(1..Len(s), Range(s))
  BY DEF Bijection, Injection, Surjection, IsInjective, Range
<1>2. IsFiniteSet(1..Len(s)) /\ Cardinality(1..Len(s)) = Len(s)
  <2> DEFINE n == Len(s)
  <2>1. n \in Nat
    OBVIOUS
  <2> HIDE DEF n
  <2>2. IsFiniteSet(1..n) /\ Cardinality(1..n) = IF 1 > n THEN 0 ELSE n - 1 + 1
    BY <2>1, FS_Interval
  <2> QED
    BY <2>1, <2>2 DEF n
<1>3. ExistsBijection(1..Len(s), Range(s))
  BY <1>1 DEF ExistsBijection
<1> QED
  BY <1>2, <1>3, FS_Bijection

\* What stands above A in a sequence still does, if what is inserted belongs there.
LEMMA InsertionJoins ==
  ASSUME NEW s \in Seq(Nat), NEW at \in 1..(Len(s) + 1), NEW x \in Nat, NEW A, NEW B,
         x \notin A, A # {} => x \in B,
         \A i, j \in DOMAIN s : i < j /\ s[j] \in A => s[i] \in B
  PROVE  \A i, j \in DOMAIN InsertAt(s, at, x) :
           i < j /\ InsertAt(s, at, x)[j] \in A => InsertAt(s, at, x)[i] \in B
<1> DEFINE t == InsertAt(s, at, x)
<1>1. /\ DOMAIN t = 1..(Len(s) + 1) /\ DOMAIN s = 1..Len(s) /\ Len(s) \in Nat
      /\ \A i \in 1..(Len(s) + 1) : t[i] = IF i < at THEN s[i] ELSE IF i = at THEN x ELSE s[i - 1]
  <2>1. /\ InsertAt(s, at, x) \in Seq(Nat) /\ Len(InsertAt(s, at, x)) = Len(s) + 1
        /\ \A i \in 1..(Len(s) + 1) : InsertAt(s, at, x)[i] =
             IF i < at THEN s[i] ELSE IF i = at THEN x ELSE s[i - 1]
    BY IdInserted
  <2>2. /\ t \in Seq(Nat) /\ Len(t) = Len(s) + 1
        /\ \A i \in 1..(Len(s) + 1) : t[i] = IF i < at THEN s[i] ELSE IF i = at THEN x ELSE s[i - 1]
    BY <2>1
  <2> HIDE DEF t
  <2>3. DOMAIN t = 1..(Len(s) + 1) /\ DOMAIN s = 1..Len(s) /\ Len(s) \in Nat
    BY <2>2
  <2> QED
    BY <2>2, <2>3
<1> HIDE DEF t
<1> SUFFICES ASSUME NEW i \in DOMAIN t, NEW j \in DOMAIN t, i < j, t[j] \in A
             PROVE  t[i] \in B
  BY DEF t
<1>2. j # at
  BY <1>1
<1> DEFINE Old(k) == IF k < at THEN k ELSE k - 1
<1>3. Old(j) \in DOMAIN s /\ t[j] = s[Old(j)]
  BY <1>1, <1>2
<1>4. CASE i = at
  BY <1>1, <1>4
<1>5. CASE i # at
  <2>1. Old(i) \in DOMAIN s /\ t[i] = s[Old(i)] /\ Old(i) < Old(j)
    BY <1>1, <1>2, <1>5
  <2> QED
    BY <1>3, <2>1
<1> QED
  BY <1>4, <1>5

-----------------------------------------------------------------------------
\* A reading starts with nothing read.
LEMMA ReadingStarts == InitGet /\ InitActivity => PagesInv
<1> SUFFICES ASSUME InitGet, InitActivity PROVE PagesInv
  OBVIOUS
<1>1. ~InHand /\ Read = {} /\ Passed = 0
  BY DEF InitGet, InitActivity, InHand, Read, Passed
<1>2. initial \in Nat /\ feed \in Seq(Nat) /\ Len(feed) = initial /\ \A i \in 1..initial : feed[i] = i
  BY PageBounds DEF InitActivity
<1>3. Range(feed) = 1..initial
  BY <1>2 DEF Range
<1>4. PagesTypeOK
  <2>1. misread \in BOOLEAN
    BY DEF InitActivity
  <2>2. odd \subseteq 1..initial /\ DOMAIN feed = 1..initial
    BY <1>2 DEF InitActivity
  <2> QED
    BY <1>1, <1>2, <1>3, <2>1, <2>2 DEF PagesTypeOK, InitActivity
<1>5. GetInv
  BY FreshCall DEF InitGet
<1>6. PagesJoin /\ RepeatsAreNews /\ NothingLost
  BY PageBounds, FS_EmptySet DEF InitActivity, PagesJoin, RepeatsAreNews, NothingLost
<1> QED
  BY <1>1, <1>2, <1>4, <1>5, <1>6, PageBounds DEF PagesInv, InitActivity

\* A page shows the part of the feed that follows the offset.
LEMMA RequestKeeps == PagesInv /\ RequestPage => PagesInv'
<1> SUFFICES ASSUME PagesInv, RequestPage PROVE PagesInv'
  OBVIOUS
<1>1. /\ offset' = offset /\ seen' = seen /\ yielded' = yielded /\ outcome' = outcome
      /\ feed' = feed /\ initial' = initial /\ odd' = odd /\ inserted' = inserted
      /\ outcome = "reading"
  BY DEF RequestPage, feedVars
<1>2. GetInv'
  BY CallKeeps DEF PagesInv, RequestPage
<1>3. ~InHand /\ Read = seen /\ Passed = offset
  BY DEF RequestPage, NextGet, Send, Answer, Sleep, InHand, Read, Passed, PagesInv, PagesTypeOK
<1>4. (PagesJoin /\ RepeatsAreNews /\ NothingLost)'
  BY <1>1 DEF PagesInv, PagesJoin, RepeatsAreNews, NothingLost
<1>5. misread' \in BOOLEAN
  BY DEF RequestPage, PagesInv, PagesTypeOK
<1>6. CASE ~InHand'
  <2>1. Read' = seen /\ Passed' = offset
    BY <1>1, <1>6 DEF Read, Passed, PagesInv, PagesTypeOK
  <2>2. rows' \in Seq(Nat)
    <3>1. Page \in Seq(Nat)
      BY PageShape, PageBounds, <1>1, <1>3 DEF PagesInv, PagesTypeOK, Limit, Few
    <3>2. rows' = Page \/ rows' = <<>> \/ rows' = rows
      BY DEF RequestPage, Bodies
    <3>3. rows \in Seq(Nat) /\ <<>> \in Seq(Nat)
      BY DEF PagesInv, PagesTypeOK
    <3> QED
      BY <3>1, <3>2, <3>3
  <2>3. PagesTypeOK'
    BY <1>1, <1>3, <1>5, <2>1, <2>2 DEF PagesInv, PagesTypeOK
  <2> QED
    BY <1>1, <1>2, <1>3, <1>4, <1>6, <2>1, <2>3 DEF PagesInv
<1>7. CASE InHand' /\ rows' = Page
  <2>1. rows' = Page
    BY <1>7
  <2>2. /\ feed \in Seq(Nat) /\ offset \in Nat /\ offset <= Len(feed) /\ Len(feed) \in Nat
        /\ Limit \in Nat /\ Limit > 0
    BY <1>1, <1>3, PageBounds DEF PagesInv, PagesTypeOK, Limit, Few
  <2>3. /\ Page \in Seq(Nat) /\ Len(Page) = Few(Limit, Len(feed) - offset)
        /\ \A i \in 1..Len(Page) : Page[i] = feed[offset + i]
    BY <2>2, PageShape
  <2>4. Len(Page) \in Nat /\ Len(Page) <= Limit /\ offset + Len(Page) <= Len(feed)
    BY <2>2, <2>3 DEF Few
  <2>5. DOMAIN Page = 1..Len(Page) /\ DOMAIN feed = 1..Len(feed)
    BY <2>2, <2>3
  <2>6. Read' = seen \union Range(Page) /\ Passed' = offset + Len(Page)
    BY <1>1, <1>7, <2>1 DEF Read, Passed
  <2>7. Limit' = Limit
    BY <1>1 DEF Limit, Few
  <2>8. \A i \in offset + 1..offset + Len(Page) : feed[i] \in Range(Page)
    <3> SUFFICES ASSUME NEW i \in offset + 1..offset + Len(Page) PROVE feed[i] \in Range(Page)
      OBVIOUS
    <3>1. i - offset \in 1..Len(Page) /\ offset + (i - offset) = i
      BY <2>2, <2>4
    <3>2. Page[i - offset] = feed[i]
      BY <2>3, <3>1
    <3> QED
      BY <2>5, <3>1, <3>2 DEF Range
  <2>9. Range(Page) \subseteq {feed[i] : i \in offset + 1..offset + Len(Page)}
    <3> SUFFICES ASSUME NEW k \in 1..Len(Page)
                 PROVE  Page[k] \in {feed[i] : i \in offset + 1..offset + Len(Page)}
      BY <2>5 DEF Range
    <3>1. offset + k \in offset + 1..offset + Len(Page)
      BY <2>2, <2>4
    <3> QED
      BY <2>3, <3>1
  <2>10. \A i \in 1..offset : feed[i] \in seen \union inserted
    BY <1>1, <1>3 DEF PagesInv
  <2>11. \A i \in 1..(offset + Len(Page)) : feed[i] \in seen \union Range(Page) \union inserted
    <3> SUFFICES ASSUME NEW i \in 1..(offset + Len(Page))
                 PROVE  feed[i] \in seen \union Range(Page) \union inserted
      OBVIOUS
    <3>1. i \in 1..offset \/ i \in offset + 1..offset + Len(Page)
      BY <2>2, <2>4
    <3> QED
      BY <2>8, <2>10, <3>1
  <2>12. ASSUME NEW i \in DOMAIN feed, NEW j \in DOMAIN feed, i < j, feed[j] \in seen \union Range(Page)
         PROVE  feed[i] \in seen \union Range(Page) \union inserted
    <3>1. CASE feed[j] \in seen
      BY <1>1, <1>3, <2>12, <3>1 DEF PagesInv
    <3>2. CASE feed[j] \in Range(Page)
      <4>1. PICK k \in offset + 1..offset + Len(Page) : feed[j] = feed[k]
        BY <2>9, <3>2
      <4>2. k \in DOMAIN feed
        BY <2>2, <2>4, <2>5
      <4>3. j = k
        BY <4>1, <4>2 DEF PagesInv, PagesTypeOK
      <4>4. i \in 1..(offset + Len(Page))
        BY <2>2, <2>4, <2>5, <2>12, <4>3
      <4> QED
        BY <2>11, <4>4
    <3> QED
      BY <2>12, <3>1, <3>2
  <2>13. ASSUME NEW i \in DOMAIN Page, NEW j \in DOMAIN Page, Page[i] = Page[j] PROVE i = j
    <3>1. offset + i \in DOMAIN feed /\ offset + j \in DOMAIN feed
      BY <2>2, <2>4, <2>5
    <3>2. feed[offset + i] = feed[offset + j]
      BY <2>3, <2>5, <2>13
    <3>3. offset + i = offset + j
      BY <3>1, <3>2 DEF PagesInv, PagesTypeOK
    <3> QED
      BY <3>3, <2>2, <2>4, <2>5
  <2>14. ASSUME Len(Page) < Limit PROVE 1..initial \subseteq seen \union Range(Page)
    <3>1. offset + Len(Page) = Len(feed)
      BY <2>2, <2>3, <2>14 DEF Few
    <3> SUFFICES ASSUME NEW x \in 1..initial PROVE x \in seen \union Range(Page)
      OBVIOUS
    <3>2. x \in Range(feed) /\ x \notin inserted
      BY DEF PagesInv, PagesTypeOK
    <3>3. PICK i \in 1..Len(feed) : feed[i] = x
      BY <2>5, <3>2 DEF Range
    <3> QED
      BY <2>11, <3>1, <3>2, <3>3
  <2>15. Range(Page) \subseteq 1..Len(feed)
    <3>1. \A i \in offset + 1..offset + Len(Page) : i \in DOMAIN feed
      BY <2>2, <2>4, <2>5
    <3>2. {feed[i] : i \in offset + 1..offset + Len(Page)} \subseteq Range(feed)
      BY <3>1 DEF Range
    <3> QED
      BY <2>9, <3>2 DEF PagesInv, PagesTypeOK
  <2>16. PagesTypeOK'
    BY <1>1, <1>3, <1>5, <2>1, <2>3, <2>6, <2>15 DEF PagesInv, PagesTypeOK
  <2>17. (outcome = "reading" =>
            /\ yielded < MaxRecords /\ Passed <= Len(feed)
            /\ \A i \in 1..Passed : feed[i] \in Read \union inserted
            /\ \A i, j \in DOMAIN feed :
                 i < j /\ feed[j] \in Read => feed[i] \in Read \union inserted)'
    BY <1>1, <2>4, <2>6, <2>11, <2>12 DEF PagesInv
  <2>18. (/\ Len(rows) <= Limit
          /\ \A i, j \in DOMAIN rows : rows[i] = rows[j] => i = j
          /\ Len(rows) < Limit /\ ~misread => 1..initial \subseteq Read)'
    BY <1>1, <2>1, <2>4, <2>6, <2>7, <2>13, <2>14
  <2> QED
    BY <1>1, <1>2, <1>4, <2>16, <2>17, <2>18 DEF PagesInv
<1>8. CASE InHand' /\ rows' = <<>> /\ rows' # Page
  <2>1. misread'
    BY <1>8 DEF RequestPage, InHand
  <2>2. Read' = seen /\ Passed' = offset
    BY <1>1, <1>8 DEF Read, Passed, Range, PagesInv, PagesTypeOK
  <2>3. PagesTypeOK'
    BY <1>1, <1>3, <1>5, <1>8, <2>2 DEF PagesInv, PagesTypeOK
  <2>4. Limit' = Limit /\ Limit \in Nat
    BY <1>1, PageBounds DEF Limit, Few, PagesInv, PagesTypeOK
  <2>5. (/\ Len(rows) <= Limit
         /\ \A i, j \in DOMAIN rows : rows[i] = rows[j] => i = j
         /\ Len(rows) < Limit /\ ~misread => 1..initial \subseteq Read)'
    BY <1>8, <2>1, <2>4
  <2> QED
    BY <1>1, <1>2, <1>3, <1>4, <2>2, <2>3, <2>5 DEF PagesInv
<1> QED
  BY <1>6, <1>7, <1>8 DEF RequestPage, Bodies, InHand

\* All the sets of a reading are finite.
LEMMA FiniteSeen ==
  ASSUME PagesInv
  PROVE  IsFiniteSet(seen) /\ IsFiniteSet(inserted) /\ IsFiniteSet(Read)
<1> DEFINE n == Len(feed)
<1>1. n \in Nat /\ seen \subseteq 1..n /\ Read \subseteq 1..n
  BY DEF PagesInv, PagesTypeOK, Read
<1>2. inserted \subseteq 1..n
  BY DEF PagesInv, PagesTypeOK
<1> HIDE DEF n
<1>3. IsFiniteSet(1..n)
  BY <1>1, FS_Interval
<1> QED
  BY <1>1, <1>2, <1>3, FS_Subset

\* A failed call ends the reading and changes nothing else.
LEMMA RaiseKeeps == PagesInv /\ Raise => PagesInv'
<1> SUFFICES ASSUME PagesInv, Raise PROVE PagesInv'
  OBVIOUS
<1>1. /\ offset' = offset /\ seen' = seen /\ yielded' = yielded /\ outcome' = "failed"
      /\ feed' = feed /\ initial' = initial /\ odd' = odd /\ inserted' = inserted
      /\ rows' = rows /\ misread' = misread /\ UNCHANGED getVars
  BY DEF Raise, feedVars, Failure
<1>2. ~InHand /\ ~InHand' /\ Read = seen /\ Read' = seen
  BY <1>1 DEF Raise, InHand, Read
<1>3. PagesTypeOK'
  BY <1>1, <1>2 DEF PagesInv, PagesTypeOK
<1>4. GetInv'
  BY <1>1, CallStays DEF PagesInv
<1>5. (PagesJoin /\ RepeatsAreNews /\ NothingLost)'
  BY <1>1 DEF PagesInv, PagesJoin, RepeatsAreNews, NothingLost
<1> QED
  BY <1>1, <1>2, <1>3, <1>4, <1>5 DEF PagesInv

\* What is published during a reading is news, or is below all that was read.
LEMMA PublishKeeps == PagesInv /\ Publish => PagesInv'
<1> SUFFICES ASSUME PagesInv, Publish PROVE PagesInv'
  OBVIOUS
<1> DEFINE new == Len(feed) + 1
<1>1. /\ UNCHANGED getVars /\ UNCHANGED pageVars /\ initial' = initial /\ odd' = odd
      /\ outcome = "reading"
      /\ inserted' = IF seen = {} /\ rows = <<>> THEN inserted ELSE inserted \union {new}
  BY DEF Publish
<1>2. PICK at \in 1..new : feed' = InsertAt(feed, at, new)
  BY DEF Publish
<1>3. /\ feed \in Seq(Nat) /\ Len(feed) \in Nat /\ new \in Nat /\ initial \in Nat
      /\ initial <= Len(feed) /\ Range(feed) = 1..Len(feed) /\ DOMAIN feed = 1..Len(feed)
  BY DEF PagesInv, PagesTypeOK
<1>4. /\ feed' \in Seq(Nat) /\ Len(feed') = new /\ DOMAIN feed' = 1..new
      /\ \A i \in 1..new : feed'[i] = IF i < at THEN feed[i] ELSE IF i = at THEN new ELSE feed[i - 1]
  <2>1. at \in 1..(Len(feed) + 1)
    BY <1>2
  <2>2. /\ InsertAt(feed, at, new) \in Seq(Nat) /\ Len(InsertAt(feed, at, new)) = Len(feed) + 1
        /\ \A i \in 1..(Len(feed) + 1) : InsertAt(feed, at, new)[i] =
             IF i < at THEN feed[i] ELSE IF i = at THEN new ELSE feed[i - 1]
    BY <1>3, <2>1, IdInserted
  <2>3. feed' \in Seq(Nat) /\ Len(feed') = new
    BY <1>2, <2>2
  <2> QED
    BY <1>2, <2>2, <2>3
<1>5. InHand' = InHand /\ Read' = Read /\ Passed' = Passed /\ Limit' = Limit
  BY <1>1 DEF getVars, pageVars, InHand, Read, Passed, Limit, Few
<1> HIDE DEF new
<1>6. new = Len(feed) + 1 /\ inserted \subseteq inserted'
  BY <1>1 DEF new
<1>7. \A i \in DOMAIN feed : feed[i] \in 1..Len(feed)
  BY <1>3 DEF Range
<1>8. Range(feed') = 1..Len(feed')
  <2>1. ASSUME NEW i \in 1..new PROVE feed'[i] \in 1..new
    <3>1. CASE i = at
      BY <1>3, <1>4, <1>6, <3>1
    <3>2. CASE i # at
      <4> DEFINE k == IF i < at THEN i ELSE i - 1
      <4>1. k \in DOMAIN feed /\ feed'[i] = feed[k]
        BY <1>3, <1>4, <1>6, <3>2
      <4> HIDE DEF k
      <4>2. feed[k] \in 1..Len(feed)
        BY <1>7, <4>1
      <4> QED
        BY <1>3, <1>6, <4>1, <4>2
    <3> QED
      BY <3>1, <3>2
  <2>2. ASSUME NEW x \in 1..new PROVE \E i \in 1..new : feed'[i] = x
    <3>1. CASE x = new
      BY <1>2, <1>4, <3>1
    <3>2. CASE x # new
      <4>1. x \in Range(feed)
        BY <1>3, <1>6, <3>2
      <4>2. PICK k \in 1..Len(feed) : feed[k] = x
        BY <1>3, <4>1 DEF Range
      <4>3. CASE k < at
        <5>1. k \in 1..new
          BY <1>3, <1>6, <4>2
        <5> QED
          BY <1>4, <4>2, <4>3, <5>1
      <4>4. CASE k >= at
        <5>1. k + 1 \in 1..new /\ ~(k + 1 < at) /\ k + 1 # at /\ (k + 1) - 1 = k
          BY <1>3, <1>6, <4>2, <4>4
        <5> QED
          BY <1>4, <4>2, <5>1
      <4> QED
        BY <4>3, <4>4, <1>3, <1>6
    <3> QED
      BY <3>1, <3>2
  <2>3. Range(feed') = {feed'[i] : i \in 1..new}
    BY <1>4 DEF Range
  <2>4. {feed'[i] : i \in 1..new} = 1..new
    BY <2>1, <2>2
  <2> QED
    BY <1>4, <2>3, <2>4
<1>9. ASSUME NEW i \in DOMAIN feed', NEW j \in DOMAIN feed', feed'[i] = feed'[j] PROVE i = j
  <2> DEFINE Old(k) == IF k < at THEN k ELSE k - 1
  <2>1. i # at => Old(i) \in DOMAIN feed /\ feed'[i] = feed[Old(i)]
    BY <1>3, <1>4, <1>6
  <2>2. j # at => Old(j) \in DOMAIN feed /\ feed'[j] = feed[Old(j)]
    BY <1>3, <1>4, <1>6
  <2>3. CASE i = at \/ j = at
    BY <1>3, <1>4, <1>6, <1>7, <1>9, <2>1, <2>2, <2>3
  <2>4. CASE i # at /\ j # at
    <3>1. Old(i) = Old(j)
      BY <1>9, <2>1, <2>2, <2>4 DEF PagesInv, PagesTypeOK
    <3> QED
      BY <1>4, <1>6, <1>3, <2>4, <3>1
  <2> QED
    BY <2>3, <2>4
<1>10. PagesTypeOK'
  <2>1. inserted' \subseteq (initial' + 1)..Len(feed')
    <3>1. inserted' \subseteq inserted \union {new}
      BY <1>1
    <3>2. inserted \subseteq (initial + 1)..Len(feed)
      BY DEF PagesInv, PagesTypeOK
    <3>3. new \in (initial + 1)..new /\ \A x \in (initial + 1)..Len(feed) : x \in (initial + 1)..new
      BY <1>3, <1>6
    <3>4. initial' = initial /\ Len(feed') = new
      BY <1>1, <1>4
    <3> QED
      BY <3>1, <3>2, <3>3, <3>4
  <2>2. Read' \subseteq 1..Len(feed') /\ initial' <= Len(feed')
    BY <1>1, <1>3, <1>4, <1>5, <1>6 DEF PagesInv, PagesTypeOK
  <2> QED
    BY <1>1, <1>4, <1>8, <1>9, <2>1, <2>2 DEF PagesInv, PagesTypeOK, pageVars
<1>11. new \notin Read /\ new \notin seen
  BY <1>3, <1>6 DEF PagesInv, PagesTypeOK, Read
<1>12. Read # {} \/ Passed > 0 => new \in inserted'
  <2>1. CASE seen = {} /\ rows = <<>>
    <3>1. Read = {}
      BY <2>1 DEF Read, Range
    <3>2. Passed = 0
      BY <2>1 DEF Passed, PagesInv, PagesTypeOK
    <3> QED
      BY <3>1, <3>2
  <2>2. CASE ~(seen = {} /\ rows = <<>>)
    BY <1>1, <2>2
  <2> QED
    BY <2>1, <2>2
<1>13. Passed \in Nat /\ Passed <= Len(feed)
  <2>1. Passed <= Len(feed)
    BY <1>1 DEF PagesInv
  <2>2. Passed \in Nat
    BY DEF PagesInv, PagesTypeOK, Passed
  <2> QED
    BY <2>1, <2>2
<1>14. ASSUME NEW i \in 1..Passed PROVE feed'[i] \in Read \union inserted'
  <2>1. \A k \in 1..Passed : feed[k] \in Read \union inserted
    BY <1>1 DEF PagesInv
  <2>2. CASE i = at
    BY <1>3, <1>4, <1>6, <1>12, <1>13, <2>2
  <2>3. CASE i < at
    BY <1>3, <1>4, <1>6, <1>13, <2>1, <2>3
  <2>4. CASE i > at
    <3>1. i - 1 \in 1..Passed /\ i \in 1..new /\ feed'[i] = feed[i - 1]
      BY <1>3, <1>4, <1>6, <1>13, <2>4
    <3> QED
      BY <1>6, <2>1, <3>1
  <2> QED
    BY <2>2, <2>3, <2>4, <1>13, <1>3, <1>6
<1>15. \A i, j \in DOMAIN feed' : i < j /\ feed'[j] \in Read => feed'[i] \in Read \union inserted'
  <2>1. \A i, j \in DOMAIN feed : i < j /\ feed[j] \in Read => feed[i] \in Read \union inserted'
    BY <1>1, <1>6 DEF PagesInv
  <2>2. Read # {} => new \in Read \union inserted'
    BY <1>12
  <2>3. at \in 1..(Len(feed) + 1)
    BY <1>6
  <2> QED
    BY <1>2, <1>3, <1>11, <2>1, <2>2, <2>3, InsertionJoins
<1>16. PagesJoin'
  <2> DEFINE B == seen \union inserted' \union odd
  <2>1. \A i, j \in DOMAIN feed : i < j /\ feed[j] \in seen => feed[i] \in B
    BY <1>6 DEF PagesInv, PagesJoin
  <2>2. seen # {} => new \in B
    BY <1>1
  <2>3. at \in 1..(Len(feed) + 1)
    BY <1>6
  <2> HIDE DEF B
  <2>4. \A i, j \in DOMAIN feed' : i < j /\ feed'[j] \in seen => feed'[i] \in B
    BY <1>2, <1>3, <1>11, <2>1, <2>2, <2>3, InsertionJoins
  <2> QED
    BY <1>1, <2>4 DEF B, PagesInv, PagesJoin, pageVars
<1>17. RepeatsAreNews'
  <2>1. IsFiniteSet(inserted)
    BY FiniteSeen
  <2>2. IsFiniteSet(seen)
    BY FiniteSeen
  <2>3. /\ Cardinality(inserted) \in Nat /\ Cardinality(seen) \in Nat
        /\ Cardinality(inserted \union {new}) \in {Cardinality(inserted), Cardinality(inserted) + 1}
    BY <2>1, <2>2, FS_AddElement, FS_CardinalityType
  <2>4. Cardinality(inserted') \in Nat /\ Cardinality(inserted') >= Cardinality(inserted)
    BY <1>1, <2>3
  <2> QED
    BY <1>1, <2>3, <2>4 DEF PagesInv, PagesTypeOK, RepeatsAreNews, pageVars
<1>18. NothingLost'
  BY <1>1 DEF NothingLost, pageVars
<1>19. GetInv'
  BY <1>1, CallStays DEF PagesInv
<1>20. (outcome = "reading" =>
          /\ yielded < MaxRecords /\ Passed <= Len(feed)
          /\ \A i \in 1..Passed : feed[i] \in Read \union inserted
          /\ \A i, j \in DOMAIN feed :
               i < j /\ feed[j] \in Read => feed[i] \in Read \union inserted)'
  <2>1. yielded < MaxRecords /\ yielded' = yielded
    BY <1>1 DEF PagesInv, pageVars
  <2>2. Passed' <= Len(feed')
    BY <1>3, <1>4, <1>5, <1>6, <1>13
  <2> QED
    BY <1>5, <1>14, <1>15, <2>1, <2>2
<1>21. (InHand =>
          /\ Len(rows) <= Limit
          /\ \A i, j \in DOMAIN rows : rows[i] = rows[j] => i = j
          /\ Len(rows) < Limit /\ ~misread => 1..initial \subseteq Read)'
  BY <1>1, <1>5 DEF PagesInv, pageVars
<1>22. (offset = yielded /\ (seen = {} => yielded = 0))'
  BY <1>1 DEF PagesInv, pageVars
<1> QED
  BY <1>10, <1>16, <1>17, <1>18, <1>19, <1>20, <1>21, <1>22 DEF PagesInv

-----------------------------------------------------------------------------
\* The places of the feed that were passed hold different activities.
LEMMA PassedCount ==
  ASSUME PagesInv, outcome = "reading", NEW S, IsFiniteSet(S),
         \A i \in 1..Passed : feed[i] \in S
  PROVE  Passed \in Nat /\ Passed <= Cardinality(S)
<1> DEFINE p == Passed
           s == [i \in 1..p |-> feed[i]]
<1>1. p \in Nat /\ p <= Len(feed) /\ feed \in Seq(Nat) /\ Len(feed) \in Nat
  BY DEF PagesInv, PagesTypeOK, Passed
<1>2. \A i, j \in 1..p : feed[i] = feed[j] => i = j
  BY <1>1 DEF PagesInv, PagesTypeOK
<1> HIDE DEF p
<1>3. s \in Injection(1..p, S)
  BY <1>2 DEF p, Injection, IsInjective
<1>4. Cardinality(1..p) <= Cardinality(S) /\ Cardinality(1..p) = IF 1 > p THEN 0 ELSE p - 1 + 1
  BY <1>1, <1>3, FS_Injection, FS_Interval
<1> QED
  BY <1>1, <1>4 DEF p

\* A page is taken: its objects are read, and the offset moves past them.
LEMMA TakeKeeps == PagesInv /\ TakePage => PagesInv'
<1> SUFFICES ASSUME PagesInv, TakePage PROVE PagesInv'
  OBVIOUS
<1> DEFINE R == Range(rows)
           lost == R \intersect odd
<1>1. /\ seen' = seen \union Objects /\ yielded' = yielded + Count /\ offset' = offset + Count
      /\ outcome' = Outcome(yielded') /\ rows' = rows /\ misread' = misread
      /\ feed' = feed /\ initial' = initial /\ odd' = odd /\ inserted' = inserted
  BY DEF TakePage, NextOffset, feedVars
<1>2. InHand /\ outcome = "reading" /\ Read = seen \union R
  BY DEF TakePage, Returned, InHand, Read
<1>3. ~InHand' /\ Read' = seen' /\ Passed' = offset + Count /\ Passed = offset + Len(rows)
  <2>1. ~InHand'
    BY DEF TakePage, NewGet, InHand
  <2>2. offset \in Nat
    BY DEF PagesInv, PagesTypeOK
  <2>3. IsFiniteSet(Objects)
    BY <1>2, FiniteSeen, FS_Subset DEF Objects
  <2>4. Count \in Nat
    BY <2>3, FS_CardinalityType DEF Count
  <2> QED
    BY <1>1, <1>2, <2>1, <2>2, <2>4 DEF Read, Passed
<1>4. GetInv'
  BY CallBegins DEF TakePage
<1>5. /\ rows \in Seq(Nat) /\ Len(rows) \in Nat /\ offset \in Nat /\ yielded \in Nat
      /\ offset = yielded /\ yielded < MaxRecords /\ Len(rows) <= Limit
      /\ MaxRecords \in Nat /\ Limit \in Nat /\ Limit <= MaxRecords - yielded
  BY <1>2, PageBounds DEF PagesInv, PagesTypeOK, Limit, Few
<1>6. IsFiniteSet(R) /\ Cardinality(R) = Len(rows)
  BY <1>2, <1>5, DistinctCount DEF PagesInv
<1>7. /\ IsFiniteSet(lost) /\ IsFiniteSet(Objects)
      /\ Cardinality(lost) \in Nat /\ Count \in Nat /\ Count = Len(rows) - Cardinality(lost)
  <2>1. Objects = R \ odd
    BY DEF Objects
  <2> HIDE DEF R
  <2>2. IsFiniteSet(R \ odd) /\ Cardinality(R \ odd) = Cardinality(R) - Cardinality(R \intersect odd)
    BY <1>6, FS_Difference
  <2>3. IsFiniteSet(R \intersect odd)
    BY <1>6, FS_Intersection
  <2> QED
    BY <1>6, <2>1, <2>2, <2>3, FS_CardinalityType DEF Count
<1>8. Count <= Len(rows)
  BY <1>5, <1>7
<1>9. Read \subseteq seen' \union lost /\ seen' \subseteq Read /\ lost \subseteq odd
  BY <1>1, <1>2 DEF Objects
<1>10. Count >= Limit => lost = {} /\ Count = Len(rows)
  <2>1. Count >= Limit => Cardinality(lost) = 0 /\ Count = Len(rows)
    BY <1>5, <1>7
  <2> QED
    BY <1>7, <2>1, FS_EmptySet
<1> HIDE DEF R, lost
<1>11. PagesTypeOK'
  <2>1. Read' \subseteq 1..Len(feed')
    BY <1>1, <1>3, <1>9 DEF PagesInv, PagesTypeOK
  <2>2. outcome' \in {"reading", "exhausted", "full", "failed"}
    BY <1>1 DEF Outcome
  <2>3. yielded' \in Nat /\ offset' \in Nat
    BY <1>1, <1>5, <1>7
  <2> QED
    BY <1>1, <2>1, <2>2, <2>3 DEF PagesInv, PagesTypeOK
<1>12. (offset = yielded)' /\ (seen = {} => yielded = 0)'
  <2>1. offset' = yielded'
    BY <1>1, <1>5
  <2>2. seen' = {} => Objects = {} /\ yielded = 0
    BY <1>1 DEF PagesInv
  <2>3. Objects = {} => Count = 0
    BY FS_EmptySet DEF Count
  <2> QED
    BY <1>1, <2>1, <2>2, <2>3
<1>13. outcome' = "reading" => Count >= Limit /\ yielded' < MaxRecords
  <2>1. outcome' = "reading" => ~(yielded' >= MaxRecords) /\ ~(Count < Limit)
    BY <1>1 DEF Outcome
  <2> QED
    BY <1>1, <1>5, <1>7, <2>1
<1>14. (outcome = "reading" =>
          /\ yielded < MaxRecords /\ Passed <= Len(feed)
          /\ \A i \in 1..Passed : feed[i] \in Read \union inserted
          /\ \A i, j \in DOMAIN feed :
               i < j /\ feed[j] \in Read => feed[i] \in Read \union inserted)'
  <2> SUFFICES ASSUME outcome' = "reading"
               PROVE  (/\ yielded < MaxRecords /\ Passed <= Len(feed)
                       /\ \A i \in 1..Passed : feed[i] \in Read \union inserted
                       /\ \A i, j \in DOMAIN feed :
                            i < j /\ feed[j] \in Read => feed[i] \in Read \union inserted)'
    OBVIOUS
  <2>1. lost = {} /\ Passed' = Passed /\ yielded' < MaxRecords
    BY <1>3, <1>10, <1>13
  <2>2. Read' = Read
    BY <1>3, <1>9, <2>1
  <2> QED
    BY <1>1, <1>2, <2>1, <2>2 DEF PagesInv
<1>15. PagesJoin'
  <2>1. \A i, j \in DOMAIN feed : i < j /\ feed[j] \in seen' => feed[i] \in seen' \union inserted \union odd
    BY <1>2, <1>9 DEF PagesInv
  <2>2. yielded' <= MaxRecords
    BY <1>1, <1>5, <1>7, <1>8
  <2> QED
    BY <1>1, <2>1, <2>2 DEF PagesJoin
<1>16. RepeatsAreNews'
  <2> DEFINE A == seen'
             B == A \union inserted
             S == B \union lost
  <2>1. \A i \in 1..Passed : feed[i] \in S
    BY <1>2, <1>9 DEF PagesInv
  <2>2. IsFiniteSet(A) /\ IsFiniteSet(inserted)
    BY <1>1, <1>7, FiniteSeen, FS_Union
  <2> HIDE DEF A
  <2>3. /\ IsFiniteSet(B)
        /\ Cardinality(B) = Cardinality(A) + Cardinality(inserted) - Cardinality(A \intersect inserted)
        /\ Cardinality(A) \in Nat /\ Cardinality(inserted) \in Nat
        /\ IsFiniteSet(A \intersect inserted)
    BY <2>2, FS_Union, FS_CardinalityType, FS_Intersection
  <2>4. Cardinality(A \intersect inserted) \in Nat
    BY <2>3, FS_CardinalityType
  <2> HIDE DEF B
  <2>5. /\ IsFiniteSet(S)
        /\ Cardinality(S) = Cardinality(B) + Cardinality(lost) - Cardinality(B \intersect lost)
        /\ IsFiniteSet(B \intersect lost)
    BY <1>7, <2>3, FS_Union, FS_Intersection
  <2>6. Cardinality(B \intersect lost) \in Nat
    BY <2>5, FS_CardinalityType
  <2> HIDE DEF S
  <2>7. Passed \in Nat /\ Passed <= Cardinality(S)
    BY <1>2, <2>1, <2>5, PassedCount
  <2>8. yielded' = Passed - Cardinality(lost)
    BY <1>1, <1>3, <1>5, <1>7
  <2>9. yielded' - Cardinality(A) <= Cardinality(inserted)
    BY <1>7, <2>3, <2>4, <2>5, <2>6, <2>7, <2>8
  <2> QED
    BY <1>1, <2>9 DEF A, RepeatsAreNews
<1>17. NothingLost'
  <2> SUFFICES ASSUME outcome' = "exhausted", odd = {}, ~misread PROVE 1..initial \subseteq seen'
    BY <1>1 DEF NothingLost
  <2>1. Count < Limit
    BY <1>1 DEF Outcome
  <2>2. lost = {}
    BY <1>9
  <2>3. Cardinality(lost) = 0
    BY <2>2, FS_EmptySet
  <2>4. Len(rows) < Limit
    BY <1>5, <1>7, <2>1, <2>3
  <2>5. 1..initial \subseteq Read
    BY <1>2, <2>4 DEF PagesInv
  <2> QED
    BY <1>9, <2>2, <2>5
<1> QED
  BY <1>3, <1>4, <1>11, <1>12, <1>14, <1>15, <1>16, <1>17 DEF PagesInv

\* Without a step, nothing changes.
LEMMA PagesStay == PagesInv /\ UNCHANGED <<getVars, activityVars>> => PagesInv'
<1> SUFFICES ASSUME PagesInv, UNCHANGED <<getVars, activityVars>> PROVE PagesInv'
  OBVIOUS
<1>1. GetInv'
  BY CallStays DEF PagesInv
<1>2. PagesTypeOK'
  BY DEF PagesInv, PagesTypeOK, Read, InHand, getVars, activityVars, pageVars, feedVars
<1>3. (PagesJoin /\ RepeatsAreNews /\ NothingLost)'
  BY DEF PagesInv, PagesJoin, RepeatsAreNews, NothingLost, activityVars, pageVars, feedVars
<1>4. Read' = Read /\ Passed' = Passed /\ InHand' = InHand /\ Limit' = Limit
  BY DEF Read, Passed, InHand, Limit, Few, getVars, activityVars, pageVars, feedVars
<1> QED
  BY <1>1, <1>2, <1>3, <1>4 DEF PagesInv, activityVars, pageVars, feedVars

-----------------------------------------------------------------------------
(***************************************************************************)
(* The invariant of a reading of activity (iter_activity over get_json).   *)
(***************************************************************************)
THEOREM PagesInvariant == SpecActivity => []PagesInv
<1>1. InitGet /\ InitActivity => PagesInv
  BY ReadingStarts
<1>2. PagesInv /\ [NextActivity]_<<getVars, activityVars>> => PagesInv'
  BY RequestKeeps, TakeKeeps, RaiseKeeps, PublishKeeps, PagesStay DEF NextActivity
<1> QED
  BY <1>1, <1>2, PTL DEF SpecActivity

(***************************************************************************)
(* Consecutive pages leave no gap but odd rows, whatever is published      *)
(* between them, and never more is yielded than asked for (iter_activity). *)
(***************************************************************************)
THEOREM PagesAlwaysJoin == SpecActivity => []PagesJoin
<1>1. PagesInv => PagesJoin
  BY DEF PagesInv
<1> QED
  BY <1>1, PagesInvariant, PTL

(***************************************************************************)
(* As many activities at most are yielded twice as were published after    *)
(* the first page (iter_activity).                                         *)
(***************************************************************************)
THEOREM RepeatsAreAlwaysNews == SpecActivity => []RepeatsAreNews
<1>1. PagesInv => RepeatsAreNews
  BY DEF PagesInv
<1> QED
  BY <1>1, PagesInvariant, PTL

(***************************************************************************)
(* A reading that ends by itself has all that was there at its start, if   *)
(* every body was a list and every row an object; one whose page failed    *)
(* does not pass for it (iter_activity).                                   *)
(***************************************************************************)
THEOREM NothingIsLost == SpecActivity => []NothingLost
<1>1. PagesInv => NothingLost
  BY DEF PagesInv
<1> QED
  BY <1>1, PagesInvariant, PTL

(***************************************************************************)
(* No call makes more than max_retries + 1 requests, nor one after an      *)
(* answer that settles it (get_json).                                      *)
(***************************************************************************)
THEOREM RetriesAreBounded == SpecActivity => []BoundedRetries
<1>1. PagesInv => BoundedRetries
  BY AttemptsBounded DEF PagesInv
<1> QED
  BY <1>1, PagesInvariant, PTL

(***************************************************************************)
(* What a call returns or raises is what its answers call for (get_json).  *)
(***************************************************************************)
THEOREM OutcomesAreExplained == SpecActivity => []OutcomeExplained
<1>1. PagesInv => OutcomeExplained
  BY OutcomeFollows DEF PagesInv
<1> QED
  BY <1>1, PagesInvariant, PTL

-----------------------------------------------------------------------------
(***************************************************************************)
(* The markets.                                                            *)
(***************************************************************************)
\* The bounds of a reading of the markets are numbers, and positive where they must be.
LEMMA MarketBounds ==
  /\ PageSize \in Nat /\ PageSize > 0 /\ MaxMarkets \in Nat /\ MaxMarkets > 0
  /\ MaxListed \in Nat /\ MaxMoves \in Nat
  BY MarketPagesAssumption

\* A removal moves what is below its place up by one.
LEMMA RemoveAtShape ==
  ASSUME NEW R, NEW s \in Seq(R), NEW at \in 1..Len(s)
  PROVE  /\ RemoveAt(s, at) \in Seq(R)
         /\ Len(RemoveAt(s, at)) = Len(s) - 1
         /\ \A i \in 1..(Len(s) - 1) : RemoveAt(s, at)[i] = IF i < at THEN s[i] ELSE s[i + 1]
<1> DEFINE above == SubSeq(s, 1, at - 1)
           below == SubSeq(s, at + 1, Len(s))
<1>1. /\ above \in Seq(R) /\ Len(above) = at - 1
      /\ \A i \in 1..(at - 1) : above[i] = s[i]
  OBVIOUS
<1>2. /\ below \in Seq(R) /\ Len(below) = Len(s) - at
      /\ \A i \in 1..(Len(s) - at) : below[i] = s[at + i]
  OBVIOUS
<1>3. RemoveAt(s, at) = above \o below
  BY DEF RemoveAt
<1>a. at \in Nat /\ Len(s) \in Nat /\ 1 <= at /\ at <= Len(s)
  OBVIOUS
<1> HIDE DEF above, below
<1>4. /\ above \o below \in Seq(R) /\ Len(above \o below) = Len(above) + Len(below)
      /\ \A i \in 1..(Len(above) + Len(below)) :
           (above \o below)[i] = IF i <= Len(above) THEN above[i] ELSE below[i - Len(above)]
  BY <1>1, <1>2, ConcatProperties
<1>5. Len(above) = at - 1 /\ Len(above) + Len(below) = Len(s) - 1
  BY <1>1, <1>2
<1>6. ASSUME NEW i \in 1..(Len(s) - 1)
      PROVE  (above \o below)[i] = IF i < at THEN s[i] ELSE s[i + 1]
  <2>1. CASE i < at
    <3>1. (above \o below)[i] = above[i] /\ i \in 1..(at - 1)
      BY <1>a, <1>4, <1>5, <2>1
    <3> QED
      BY <1>1, <2>1, <3>1
  <2>2. CASE i >= at
    <3>1. (above \o below)[i] = below[i - (at - 1)] /\ i - (at - 1) \in 1..(Len(s) - at)
      BY <1>4, <1>5, <2>2
    <3>2. below[i - (at - 1)] = s[at + (i - (at - 1))] /\ at + (i - (at - 1)) = i + 1
      BY <1>2, <3>1
    <3> QED
      BY <1>a, <2>2, <3>1, <3>2
  <2>3. i < at \/ i >= at
    BY <1>a
  <2> QED
    BY <2>1, <2>2, <2>3
<1> QED
  BY <1>3, <1>4, <1>5, <1>6

\* The rows up to a place are among the rows, and all of them at the end.
LEMMA AboveBelow ==
  ASSUME NEW R, NEW s \in Seq(R), NEW p \in Nat
  PROVE  /\ Above(s, p) \subseteq Range(s) /\ Below(s, p) \subseteq Range(s)
         /\ Range(s) \subseteq R
         /\ Len(s) <= p => Above(s, p) = Range(s)
  BY DEF Above, Below, Range, Least

\* A row that leaves lets at most one row pass a place.
LEMMA RemovalPasses ==
  ASSUME NEW R, NEW s \in Seq(R), NEW at \in 1..Len(s), NEW p \in Nat
  PROVE  /\ Above(RemoveAt(s, at), p) \subseteq Above(s, p) \union {s[p + 1]}
         /\ Below(RemoveAt(s, at), p) \subseteq Below(s, p)
         /\ Range(RemoveAt(s, at)) \subseteq Range(s)
<1> DEFINE t == RemoveAt(s, at)
<1>1. /\ t \in Seq(R) /\ Len(t) = Len(s) - 1
      /\ \A i \in 1..(Len(s) - 1) : t[i] = IF i < at THEN s[i] ELSE s[i + 1]
  BY RemoveAtShape
<1>2. Len(s) \in Nat
  OBVIOUS
<1> HIDE DEF t
<1> DEFINE n == Len(s)
<1>n. n \in Nat /\ Len(t) = n - 1 /\ at \in 1..n
  BY <1>1, <1>2
<1> HIDE DEF n
<1>3. ASSUME NEW i \in 1..(n - 1), i <= p PROVE t[i] \in Above(s, p) \union {s[p + 1]}
  <2>1. CASE i < at
    <3>1. i \in 1..Least(p, n) /\ t[i] = s[i]
      BY <1>1, <1>3, <1>n, <2>1 DEF n, Least
    <3> QED
      BY <3>1 DEF Above, n
  <2>2. CASE i >= at /\ i < p
    <3>1. i + 1 \in 1..Least(p, n) /\ t[i] = s[i + 1]
      BY <1>1, <1>3, <1>n, <2>2 DEF n, Least
    <3> QED
      BY <3>1 DEF Above, n
  <2>3. CASE i >= at /\ i = p
    BY <1>1, <1>n, <2>3 DEF n
  <2> QED
    BY <1>3, <1>n, <2>1, <2>2, <2>3
<1>4. ASSUME NEW i \in (p + 1)..(n - 1) PROVE t[i] \in Below(s, p)
  <2>1. i \in 1..(n - 1) /\ i \in (p + 1)..n /\ i + 1 \in (p + 1)..n
    BY <1>n
  <2>2. t[i] = s[i] \/ t[i] = s[i + 1]
    BY <1>1, <2>1 DEF n
  <2> QED
    BY <2>1, <2>2 DEF Below, n
<1>5. ASSUME NEW i \in 1..(n - 1) PROVE t[i] \in Range(s)
  <2>1. i \in 1..n /\ i + 1 \in 1..n
    BY <1>n
  <2>2. t[i] = s[i] \/ t[i] = s[i + 1]
    BY <1>1 DEF n
  <2> QED
    BY <2>1, <2>2 DEF Range, n
<1>6. Above(t, p) \subseteq Above(s, p) \union {s[p + 1]}
  <2> SUFFICES ASSUME NEW i \in 1..Least(p, Len(t)) PROVE t[i] \in Above(s, p) \union {s[p + 1]}
    BY DEF Above
  <2>1. i \in 1..(n - 1) /\ i <= p
    BY <1>n DEF Least
  <2> QED
    BY <1>3, <2>1
<1>7. Below(t, p) \subseteq Below(s, p)
  <2> SUFFICES ASSUME NEW i \in (p + 1)..Len(t) PROVE t[i] \in Below(s, p)
    BY DEF Below
  <2> QED
    BY <1>4, <1>n
<1>8. Range(t) \subseteq Range(s)
  <2> SUFFICES ASSUME NEW i \in DOMAIN t PROVE t[i] \in Range(s)
    BY DEF Range
  <2>1. i \in 1..(n - 1)
    BY <1>1, <1>n
  <2> QED
    BY <1>5, <2>1
<1> QED
  BY <1>6, <1>7, <1>8 DEF t

\* A row that comes makes at most one row fall back behind a place.
LEMMA InsertionPasses ==
  ASSUME NEW R, NEW s \in Seq(R), NEW at \in 1..(Len(s) + 1), NEW x \in R, NEW p \in Nat
  PROVE  /\ Above(InsertAt(s, at, x), p) \subseteq Above(s, p) \union {x}
         /\ Below(InsertAt(s, at, x), p) \subseteq Below(s, p) \union {x, s[p]}
         /\ Range(InsertAt(s, at, x)) = Range(s) \union {x}
<1> DEFINE t == InsertAt(s, at, x)
<1>1. /\ t \in Seq(R) /\ Len(t) = Len(s) + 1
      /\ \A i \in 1..(Len(s) + 1) : t[i] = IF i < at THEN s[i] ELSE IF i = at THEN x ELSE s[i - 1]
  <2>1. /\ InsertAt(s, at, x) \in Seq(R) /\ Len(InsertAt(s, at, x)) = Len(s) + 1
        /\ \A i \in 1..(Len(s) + 1) : InsertAt(s, at, x)[i] =
             IF i < at THEN s[i] ELSE IF i = at THEN x ELSE s[i - 1]
    BY InsertAtShape
  <2> QED
    BY <2>1
<1> HIDE DEF t
<1> DEFINE n == Len(s)
<1>n. n \in Nat /\ Len(t) = n + 1 /\ at \in 1..(n + 1)
  BY <1>1
<1>s. \A i \in 1..(n + 1) : t[i] = IF i < at THEN s[i] ELSE IF i = at THEN x ELSE s[i - 1]
  BY <1>1
<1> HIDE DEF n
<1>2. Above(t, p) \subseteq Above(s, p) \union {x}
  <2> SUFFICES ASSUME NEW i \in 1..Least(p, Len(t)) PROVE t[i] \in Above(s, p) \union {x}
    BY DEF Above
  <2>1. i \in 1..(n + 1) /\ i <= p
    BY <1>n DEF Least
  <2>2. CASE i < at
    <3>1. i \in 1..Least(p, n) /\ t[i] = s[i]
      BY <1>s, <1>n, <2>1, <2>2 DEF Least
    <3> QED
      BY <3>1 DEF Above, n
  <2>3. CASE i = at
    BY <1>s, <2>1, <2>3, <1>n
  <2>4. CASE i > at
    <3>1. i - 1 \in 1..Least(p, n) /\ t[i] = s[i - 1]
      BY <1>s, <1>n, <2>1, <2>4 DEF Least
    <3> QED
      BY <3>1 DEF Above, n
  <2> QED
    BY <1>n, <2>1, <2>2, <2>3, <2>4
<1>3. Below(t, p) \subseteq Below(s, p) \union {x, s[p]}
  <2> SUFFICES ASSUME NEW i \in (p + 1)..Len(t) PROVE t[i] \in Below(s, p) \union {x, s[p]}
    BY DEF Below
  <2>1. i \in 1..(n + 1) /\ p + 1 <= i /\ i \in Nat
    BY <1>n
  <2>2. CASE i < at
    <3>1. i \in (p + 1)..n /\ t[i] = s[i]
      BY <1>s, <1>n, <2>1, <2>2
    <3> QED
      BY <3>1 DEF Below, n
  <2>3. CASE i = at
    BY <1>s, <2>1, <2>3, <1>n
  <2>4. CASE i > at
    <3>1. t[i] = s[i - 1] /\ (i - 1 = p \/ i - 1 \in (p + 1)..n)
      BY <1>s, <1>n, <2>1, <2>4
    <3> QED
      BY <3>1 DEF Below, n
  <2> QED
    BY <1>n, <2>1, <2>2, <2>3, <2>4
<1>4. Range(t) = Range(s) \union {x}
  <2>0. DOMAIN t = 1..(n + 1) /\ DOMAIN s = 1..n
    BY <1>1, <1>n DEF n
  <2>1. ASSUME NEW i \in 1..(n + 1) PROVE t[i] \in Range(s) \union {x}
    <3>1. (i < at => i \in 1..n) /\ (i > at => i - 1 \in 1..n)
      BY <1>n
    <3>2. CASE i < at
      BY <1>s, <2>0, <3>1, <3>2 DEF Range
    <3>3. CASE i = at
      BY <1>s, <3>3
    <3>4. CASE i > at
      <4>1. t[i] = s[i - 1]
        BY <1>s, <1>n, <3>4
      <4> QED
        BY <2>0, <3>1, <3>4, <4>1 DEF Range
    <3> QED
      BY <1>n, <3>2, <3>3, <3>4
  <2>2. ASSUME NEW i \in 1..n PROVE s[i] \in Range(t)
    <3>1. CASE i < at
      <4>1. i \in 1..(n + 1) /\ t[i] = s[i]
        BY <1>s, <1>n, <3>1
      <4> QED
        BY <2>0, <4>1 DEF Range
    <3>2. CASE i >= at
      <4>1. i + 1 \in 1..(n + 1) /\ ~(i + 1 < at) /\ i + 1 # at /\ (i + 1) - 1 = i
        BY <1>n, <3>2
      <4>2. t[i + 1] = s[i]
        BY <1>s, <4>1
      <4> QED
        BY <2>0, <4>1, <4>2 DEF Range
    <3> QED
      BY <1>n, <3>1, <3>2
  <2>3. x \in Range(t)
    <3>1. t[at] = x
      BY <1>s, <1>n
    <3> QED
      BY <1>n, <2>0, <3>1 DEF Range
  <2> QED
    BY <2>0, <2>1, <2>2, <2>3 DEF Range
<1> QED
  BY <1>2, <1>3, <1>4 DEF t

\* A removal takes one row away, and repeats none.
LEMMA RemovalKeeps ==
  ASSUME NEW R, NEW s \in Seq(R), NEW at \in 1..Len(s), Distinct(s)
  PROVE  Distinct(RemoveAt(s, at)) /\ Range(RemoveAt(s, at)) = Range(s) \ {s[at]}
<1> DEFINE t == RemoveAt(s, at)
           n == Len(s)
<1>1. /\ t \in Seq(R) /\ Len(t) = n - 1
      /\ \A i \in 1..(n - 1) : t[i] = IF i < at THEN s[i] ELSE s[i + 1]
  <2>1. /\ RemoveAt(s, at) \in Seq(R) /\ Len(RemoveAt(s, at)) = Len(s) - 1
        /\ \A i \in 1..(Len(s) - 1) : RemoveAt(s, at)[i] = IF i < at THEN s[i] ELSE s[i + 1]
    BY RemoveAtShape
  <2> QED
    BY <2>1
<1>2. n \in Nat /\ at \in 1..n /\ \A i, j \in 1..n : s[i] = s[j] => i = j
  BY DEF Distinct
<1> HIDE DEF t
<1>3. DOMAIN s = 1..n /\ DOMAIN t = 1..(n - 1)
  BY <1>1
<1> HIDE DEF n
<1> DEFINE Old(i) == IF i < at THEN i ELSE i + 1
<1>4. \A i \in 1..(n - 1) : Old(i) \in 1..n /\ Old(i) # at /\ t[i] = s[Old(i)]
  BY <1>1, <1>2
<1>5. \A i, j \in 1..(n - 1) : Old(i) = Old(j) => i = j
  BY <1>2
<1>6. \A k \in 1..n : k # at => \E i \in 1..(n - 1) : Old(i) = k
  <2> SUFFICES ASSUME NEW k \in 1..n, k # at PROVE \E i \in 1..(n - 1) : Old(i) = k
    OBVIOUS
  <2>1. CASE k < at
    <3>1. k \in 1..(n - 1) /\ Old(k) = k
      BY <1>2, <2>1
    <3> QED
      BY <3>1
  <2>2. CASE k > at
    <3>1. k - 1 \in 1..(n - 1) /\ Old(k - 1) = k
      BY <1>2, <2>2
    <3> QED
      BY <3>1
  <2> QED
    BY <1>2, <2>1, <2>2
<1> HIDE DEF Old
<1>7. Distinct(t)
  <2> SUFFICES ASSUME NEW i \in 1..(n - 1), NEW j \in 1..(n - 1), t[i] = t[j] PROVE i = j
    BY <1>1 DEF Distinct
  <2>1. s[Old(i)] = s[Old(j)] /\ Old(i) \in 1..n /\ Old(j) \in 1..n
    BY <1>4
  <2>2. Old(i) = Old(j)
    BY <1>2, <2>1
  <2> QED
    BY <1>5, <2>2
<1>8. Range(t) = Range(s) \ {s[at]}
  <2>1. ASSUME NEW i \in 1..(n - 1) PROVE t[i] \in Range(s) \ {s[at]}
    <3>1. Old(i) \in 1..n /\ Old(i) # at /\ t[i] = s[Old(i)]
      BY <1>4
    <3>2. s[Old(i)] # s[at]
      BY <1>2, <3>1
    <3> QED
      BY <1>3, <3>1, <3>2 DEF Range
  <2>2. ASSUME NEW k \in 1..n, s[k] # s[at] PROVE s[k] \in Range(t)
    <3>1. PICK i \in 1..(n - 1) : Old(i) = k
      BY <1>6, <2>2
    <3>2. t[i] = s[k]
      BY <1>4, <3>1
    <3> QED
      BY <1>3, <3>2 DEF Range
  <2> QED
    BY <1>3, <2>1, <2>2 DEF Range
<1> QED
  BY <1>7, <1>8 DEF t

\* A new row repeats none.
LEMMA InsertionKeeps ==
  ASSUME NEW R, NEW s \in Seq(R), NEW at \in 1..(Len(s) + 1), NEW x \in R,
         Distinct(s), x \notin Range(s)
  PROVE  Distinct(InsertAt(s, at, x))
<1> DEFINE t == InsertAt(s, at, x)
           n == Len(s)
<1>1. /\ t \in Seq(R) /\ Len(t) = n + 1
      /\ \A i \in 1..(n + 1) : t[i] = IF i < at THEN s[i] ELSE IF i = at THEN x ELSE s[i - 1]
  <2>1. /\ InsertAt(s, at, x) \in Seq(R) /\ Len(InsertAt(s, at, x)) = Len(s) + 1
        /\ \A i \in 1..(Len(s) + 1) : InsertAt(s, at, x)[i] =
             IF i < at THEN s[i] ELSE IF i = at THEN x ELSE s[i - 1]
    BY InsertAtShape
  <2> QED
    BY <2>1
<1>2. /\ n \in Nat /\ at \in 1..(n + 1) /\ \A i, j \in 1..n : s[i] = s[j] => i = j
      /\ \A i \in 1..n : s[i] # x
  BY DEF Distinct, Range
<1> HIDE DEF t, n
<1> DEFINE Old(i) == IF i < at THEN i ELSE i - 1
<1>4. \A i \in 1..(n + 1) : i # at => Old(i) \in 1..n /\ t[i] = s[Old(i)]
  BY <1>1, <1>2
<1>5. \A i, j \in 1..(n + 1) : i # at /\ j # at /\ Old(i) = Old(j) => i = j
  BY <1>2
<1>6. t[at] = x
  BY <1>1, <1>2
<1> HIDE DEF Old
<1>7. ASSUME NEW i \in 1..(n + 1), NEW j \in 1..(n + 1), t[i] = t[j] PROVE i = j
  <2>1. CASE i # at /\ j # at
    <3>1. Old(i) = Old(j)
      BY <1>2, <1>4, <1>7, <2>1
    <3> QED
      BY <1>5, <2>1, <3>1
  <2>2. CASE i = at \/ j = at
    BY <1>2, <1>4, <1>6, <1>7, <2>2
  <2> QED
    BY <2>1, <2>2
<1>8. Distinct(t)
  BY <1>1, <1>7 DEF Distinct
<1> QED
  BY <1>8 DEF t

-----------------------------------------------------------------------------
\* One row more, one member more at most.
LEMMA OneRowMore ==
  ASSUME NEW O, NEW F, NEW A, NEW B, NEW y, NEW n \in Nat,
         IsFiniteSet(B), A \subseteq B \union {y}
  PROVE  /\ Cardinality((O \intersect B) \ F) <= n => Cardinality((O \intersect A) \ F) <= n + 1
         /\ Cardinality(A \intersect F) <= Cardinality(B \intersect F) + 1
         /\ Cardinality(A \intersect F) \in Nat /\ Cardinality(B \intersect F) \in Nat
<1>1. ASSUME NEW S, NEW T, IsFiniteSet(S), T \subseteq S \union {y}
      PROVE  Cardinality(T) <= Cardinality(S) + 1 /\ Cardinality(S) \in Nat /\ Cardinality(T) \in Nat
  <2>1. IsFiniteSet(S \union {y}) /\ Cardinality(S) \in Nat /\ Cardinality(S \union {y}) \in Nat
        /\ Cardinality(S \union {y}) <= Cardinality(S) + 1
    <3>1. IsFiniteSet(S)
      BY <1>1
    <3>2. /\ IsFiniteSet(S \union {y})
          /\ Cardinality(S \union {y}) = IF y \in S THEN Cardinality(S) ELSE Cardinality(S) + 1
      BY <3>1, FS_AddElement
    <3>3. Cardinality(S) \in Nat /\ Cardinality(S \union {y}) \in Nat
      BY <3>1, <3>2, FS_CardinalityType
    <3> QED
      BY <3>2, <3>3
  <2>2. IsFiniteSet(T) /\ Cardinality(T) <= Cardinality(S \union {y})
    BY <1>1, <2>1, FS_Subset
  <2>3. Cardinality(T) \in Nat
    BY <2>2, FS_CardinalityType
  <2> QED
    BY <2>1, <2>2, <2>3
<1>2. IsFiniteSet((O \intersect B) \ F) /\ IsFiniteSet(B \intersect F)
  BY FS_Subset
<1>3. (O \intersect A) \ F \subseteq ((O \intersect B) \ F) \union {y}
  OBVIOUS
<1>4. A \intersect F \subseteq (B \intersect F) \union {y}
  OBVIOUS
<1>5. /\ Cardinality((O \intersect A) \ F) <= Cardinality((O \intersect B) \ F) + 1
      /\ Cardinality((O \intersect A) \ F) \in Nat /\ Cardinality((O \intersect B) \ F) \in Nat
  BY <1>1, <1>2, <1>3
<1>6. /\ Cardinality(A \intersect F) <= Cardinality(B \intersect F) + 1
      /\ Cardinality(A \intersect F) \in Nat /\ Cardinality(B \intersect F) \in Nat
  BY <1>1, <1>2, <1>4
<1> QED
  BY <1>5, <1>6

\* The rows of the API, and those that left or came, are finitely many.
LEMMA MarketsFinite ==
  ASSUME MarketsTypeOK
  PROVE  /\ IsFiniteSet(Range(catalogue)) /\ IsFiniteSet(gone) /\ IsFiniteSet(come) /\ IsFiniteSet(Ids)
         /\ Cardinality(gone) \in Nat /\ Cardinality(come) \in Nat /\ listed \in Nat
         /\ Range(catalogue) \subseteq Ids /\ come \subseteq Nat
<1>1. MaxListed + MaxMoves \in Nat
  BY MarketBounds
<1>2. IsFiniteSet(Ids)
  BY <1>1, FS_Interval DEF Ids, Junk
<1>3. Range(catalogue) \subseteq Ids /\ gone \subseteq Ids
  BY DEF MarketsTypeOK, Range
<1>5. IsFiniteSet(Range(catalogue)) /\ IsFiniteSet(gone)
  BY <1>2, <1>3, FS_Subset
<1>6. IsFiniteSet(come) /\ come = (listed + 1)..(listed + Cardinality(come)) /\ listed \in Nat
  BY MarketBounds DEF MarketsTypeOK
<1>7. Cardinality(come) \in Nat /\ Cardinality(gone) \in Nat
  BY <1>5, <1>6, FS_CardinalityType
<1>8. come \subseteq Nat
  <2> DEFINE n == Cardinality(come)
  <2>1. n \in Nat /\ come = (listed + 1)..(listed + n)
    BY <1>6, <1>7
  <2> HIDE DEF n
  <2> QED
    BY <1>6, <2>1
<1> QED
  BY <1>2, <1>3, <1>5, <1>6, <1>7, <1>8

\* Two sequences joined have the elements of both.
LEMMA JoinedRange ==
  ASSUME NEW R, NEW s \in Seq(R), NEW t \in Seq(R)
  PROVE  /\ s \o t \in Seq(R) /\ Len(s \o t) = Len(s) + Len(t)
         /\ Range(s \o t) = Range(s) \union Range(t)
<1> DEFINE n == Len(s)
           m == Len(t)
           f == s \o t
<1>1. /\ f \in Seq(R) /\ Len(f) = Len(s) + Len(t)
      /\ \A i \in 1..(Len(s) + Len(t)) : f[i] = IF i <= Len(s) THEN s[i] ELSE t[i - Len(s)]
  BY ConcatProperties
<1> HIDE DEF f
<1>2. n \in Nat /\ m \in Nat /\ DOMAIN s = 1..n /\ DOMAIN t = 1..m /\ DOMAIN f = 1..(n + m)
  BY <1>1
<1>3. \A i \in 1..(n + m) : f[i] = IF i <= n THEN s[i] ELSE t[i - n]
  BY <1>1
<1> HIDE DEF n, m
<1>4. ASSUME NEW i \in 1..(n + m) PROVE f[i] \in Range(s) \union Range(t)
  <2>1. CASE i <= n
    BY <1>2, <1>3, <2>1 DEF Range
  <2>2. CASE i > n
    <3>1. i - n \in 1..m /\ f[i] = t[i - n]
      BY <1>2, <1>3, <2>2
    <3> QED
      BY <1>2, <3>1 DEF Range
  <2> QED
    BY <1>2, <2>1, <2>2
<1>5. ASSUME NEW i \in 1..n PROVE s[i] \in Range(f)
  <2>1. i \in 1..(n + m) /\ f[i] = s[i]
    BY <1>2, <1>3
  <2> QED
    BY <1>2, <2>1 DEF Range
<1>6. ASSUME NEW i \in 1..m PROVE t[i] \in Range(f)
  <2>1. n + i \in 1..(n + m) /\ ~(n + i <= n) /\ (n + i) - n = i
    BY <1>2
  <2>2. f[n + i] = t[i]
    BY <1>3, <2>1
  <2> QED
    BY <1>2, <2>1, <2>2 DEF Range
<1>7. Range(f) = Range(s) \union Range(t)
  BY <1>2, <1>4, <1>5, <1>6 DEF Range
<1> QED
  BY <1>1, <1>7 DEF f

\* What is found is of the rows there were, or came.
LEMMA FoundType ==
  ASSUME MarketsTypeOK
  PROVE  /\ Parsed \in Seq(Ids) /\ Found \in Seq(Ids)
         /\ Len(Found) = Len(markets) + Len(Parsed)
         /\ Range(Found) = Range(markets) \union Range(Parsed)
         /\ IsFiniteSet(Range(markets)) /\ IsFiniteSet(Range(Found)) /\ IsFiniteSet(Range(Parsed))
         /\ Repeats(markets) \in Int /\ Repeats(Found) \in Int
<1>1. markets \in Seq(Ids) /\ batch \in Seq(Ids)
  BY DEF MarketsTypeOK
<1>2. Parsed \in Seq(Ids)
  BY <1>1, SelectType DEF Parsed
<1>3. /\ Found \in Seq(Ids) /\ Len(Found) = Len(markets) + Len(Parsed)
      /\ Range(Found) = Range(markets) \union Range(Parsed)
  BY <1>1, <1>2, JoinedRange DEF Found
<1>4. Range(markets) \subseteq Ids /\ Range(Found) \subseteq Ids /\ Range(Parsed) \subseteq Ids
  BY <1>1, <1>2, <1>3 DEF Range
<1>5. IsFiniteSet(Range(markets)) /\ IsFiniteSet(Range(Found)) /\ IsFiniteSet(Range(Parsed))
  BY <1>4, MarketsFinite, FS_Subset
<1>6. Repeats(markets) \in Int /\ Repeats(Found) \in Int
  <2>1. Cardinality(Range(markets)) \in Nat /\ Cardinality(Range(Found)) \in Nat
    BY <1>5, FS_CardinalityType
  <2> QED
    BY <1>1, <1>3, <2>1 DEF Repeats
<1> QED
  BY <1>2, <1>3, <1>5, <1>6

\* A market that closes makes at most one of those after it be missed.
LEMMA CloseKeeps == MarketsInv /\ Close => MarketsInv'
<1> SUFFICES ASSUME MarketsInv, Close PROVE MarketsInv'
  OBVIOUS
<1>1. /\ reading = "more" /\ Moves < MaxMoves
      /\ UNCHANGED getVars /\ batch' = batch /\ from' = from /\ markets' = markets
      /\ reading' = reading /\ listed' = listed /\ kind' = kind /\ come' = come /\ garbled' = garbled
  BY DEF Close, readerVars
<1>2. PICK at \in DOMAIN catalogue : /\ gone' = gone \union {catalogue[at]}
                                    /\ catalogue' = RemoveAt(catalogue, at)
  BY DEF Close
<1>3. Open' = Open /\ Parsed' = Parsed /\ Found' = Found /\ BatchInHand' = BatchInHand /\ AllObjects' = AllObjects
  BY <1>1 DEF Open, Parsed, Found, BatchInHand, AllObjects, getVars
<1>4. /\ MarketsTypeOK /\ catalogue \in Seq(Ids) /\ at \in 1..Len(catalogue) /\ Distinct(catalogue)
      /\ Range(catalogue) = (1..listed \union come) \ gone /\ from \in Nat /\ batch \in Seq(Ids)
  BY <1>2 DEF MarketsInv, MarketsTypeOK, Distinct
<1>5. /\ IsFiniteSet(Range(catalogue)) /\ IsFiniteSet(gone) /\ IsFiniteSet(come)
      /\ Cardinality(gone) \in Nat /\ Cardinality(come) \in Nat /\ Range(catalogue) \subseteq Ids
  BY <1>4, MarketsFinite
<1>6. catalogue[at] \in Range(catalogue) /\ catalogue[at] \notin gone /\ catalogue[at] \in Ids
  BY <1>4, <1>5 DEF Range
<1>7. Cardinality(gone') = Cardinality(gone) + 1
  BY <1>2, <1>5, <1>6, FS_AddElement
<1>8. MarketsTypeOK'
  <2>1. catalogue' \in Seq(Ids) /\ Distinct(catalogue') /\ Range(catalogue') = Range(catalogue) \ {catalogue[at]}
    BY <1>2, <1>4, RemovalKeeps, RemoveAtShape
  <2>2. gone' \subseteq Ids /\ Range(catalogue') = (1..listed' \union come') \ gone'
    BY <1>1, <1>2, <1>4, <1>6, <2>1 DEF MarketsTypeOK
  <2>3. Moves' <= MaxMoves
    BY <1>1, <1>5, <1>7, MarketBounds DEF Moves
  <2>4. \A i, j \in DOMAIN catalogue' : catalogue'[i] = catalogue'[j] => i = j
    BY <2>1 DEF Distinct
  <2>5. (gone \union Range(markets) \union (Range(batch) \ {Junk}) \subseteq 1..listed \union come)'
    BY <1>1, <1>2, <1>4, <1>6 DEF MarketsTypeOK
  <2> QED
    BY <1>1, <1>3, <1>4, <2>1, <2>2, <2>3, <2>4, <2>5 DEF MarketsTypeOK
<1>9. ASSUME NEW p \in Nat
      PROVE  /\ Above(catalogue', p) \subseteq Above(catalogue, p) \union {catalogue[p + 1]}
             /\ Below(catalogue', p) \subseteq Below(catalogue, p)
             /\ Range(catalogue') \subseteq Range(catalogue)
             /\ IsFiniteSet(Above(catalogue, p)) /\ IsFiniteSet(Below(catalogue, p))
  <2>1. Above(catalogue, p) \subseteq Range(catalogue) /\ Below(catalogue, p) \subseteq Range(catalogue)
    BY <1>4, AboveBelow
  <2>2. IsFiniteSet(Above(catalogue, p)) /\ IsFiniteSet(Below(catalogue, p))
    BY <1>5, <2>1, FS_Subset
  <2> QED
    BY <1>2, <1>4, <2>2, RemovalPasses
<1>10. ASSUME NEW F, NEW O, NEW p \in Nat
       PROVE  /\ Cardinality((O \intersect Above(catalogue, p)) \ F) <= Cardinality(gone) =>
                    Cardinality((O \intersect Above(catalogue', p)) \ F) <= Cardinality(gone')
              /\ Cardinality((O \intersect Range(catalogue)) \ F) <= Cardinality(gone) =>
                    Cardinality((O \intersect Range(catalogue')) \ F) <= Cardinality(gone')
              /\ Cardinality(Below(catalogue', p) \intersect F) <= Cardinality(Below(catalogue, p) \intersect F)
              /\ Cardinality(Below(catalogue', p) \intersect F) \in Nat
              /\ Cardinality(Below(catalogue, p) \intersect F) \in Nat
  <2>1. Cardinality((O \intersect Above(catalogue, p)) \ F) <= Cardinality(gone) =>
          Cardinality((O \intersect Above(catalogue', p)) \ F) <= Cardinality(gone) + 1
    BY <1>5, <1>9, OneRowMore
  <2>2. Cardinality((O \intersect Range(catalogue)) \ F) <= Cardinality(gone) =>
          Cardinality((O \intersect Range(catalogue')) \ F) <= Cardinality(gone) + 1
    <3>1. Range(catalogue') \subseteq Range(catalogue) \union {0}
      BY <1>9
    <3> QED
      BY <1>5, <3>1, OneRowMore
  <2>3. IsFiniteSet(Below(catalogue, p) \intersect F)
    BY <1>9, FS_Intersection
  <2>4. Below(catalogue', p) \intersect F \subseteq Below(catalogue, p) \intersect F
    BY <1>9
  <2>5. /\ Cardinality(Below(catalogue', p) \intersect F) <= Cardinality(Below(catalogue, p) \intersect F)
        /\ IsFiniteSet(Below(catalogue', p) \intersect F)
    BY <2>3, <2>4, FS_Subset
  <2>6. Cardinality(Below(catalogue', p) \intersect F) \in Nat /\ Cardinality(Below(catalogue, p) \intersect F) \in Nat
    BY <2>3, <2>5, FS_CardinalityType
  <2> QED
    BY <1>7, <2>1, <2>2, <2>5, <2>6
<1>11. from + Len(batch) \in Nat
  BY <1>4
<1>12. (FewMissed(Above(catalogue, from), markets) /\ Repeats(markets) <= Cardinality(come))'
  BY <1>1, <1>3, <1>4, <1>10 DEF MarketsInv, FewMissed, Missed, Repeats
<1>13. Repeats(markets) \in Int /\ Repeats(Found) \in Int
  BY <1>4, FoundType
<1>14. FewAgain(Below(catalogue, from), markets)'
  <2> DEFINE a == Cardinality(Below(catalogue, from) \intersect Range(markets))
             b == Cardinality(Below(catalogue', from) \intersect Range(markets))
  <2>1. Repeats(markets) + a <= Cardinality(come)
    BY <1>1 DEF MarketsInv, FewAgain
  <2>2. a \in Nat /\ b \in Nat /\ b <= a
    BY <1>4, <1>10
  <2>3. FewAgain(Below(catalogue, from), markets)' <=> Repeats(markets) + b <= Cardinality(come)
    BY <1>1 DEF FewAgain, Repeats
  <2> HIDE DEF a, b
  <2> QED
    BY <1>5, <1>13, <2>1, <2>2, <2>3
<1>15. ASSUME BatchInHand
       PROVE  (/\ Len(batch) <= PageSize
               /\ FewMissed(Above(catalogue, from + Len(batch)), Found)
               /\ Repeats(Found) <= Cardinality(come)
               /\ Len(batch) = PageSize => FewAgain(Below(catalogue, from + Len(batch)), Found)
               /\ Len(batch) < PageSize /\ AllObjects => FewMissed(Range(catalogue), Found))'
  <2> DEFINE p == from + Len(batch)
  <2>0. p \in Nat /\ p' = p
    BY <1>1, <1>11
  <2>1. /\ Len(batch) <= PageSize /\ FewMissed(Above(catalogue, p), Found)
        /\ Repeats(Found) <= Cardinality(come)
        /\ Len(batch) = PageSize => FewAgain(Below(catalogue, p), Found)
        /\ Len(batch) < PageSize /\ AllObjects => FewMissed(Range(catalogue), Found)
    BY <1>15 DEF MarketsInv
  <2> HIDE DEF p
  <2>2. FewMissed(Above(catalogue, p), Found)'
    BY <1>1, <1>3, <1>10, <2>0, <2>1 DEF FewMissed, Missed
  <2>3. (Repeats(Found) <= Cardinality(come))'
    BY <1>1, <1>3, <2>1 DEF Repeats
  <2>4. (Len(batch) = PageSize => FewAgain(Below(catalogue, p), Found))'
    <3> SUFFICES ASSUME Len(batch) = PageSize PROVE FewAgain(Below(catalogue, p), Found)'
      BY <1>1
    <3> DEFINE a == Cardinality(Below(catalogue, p) \intersect Range(Found))
               b == Cardinality(Below(catalogue', p) \intersect Range(Found))
    <3>1. Repeats(Found) + a <= Cardinality(come)
      BY <2>1 DEF FewAgain
    <3>2. a \in Nat /\ b \in Nat /\ b <= a
      BY <1>10, <2>0
    <3>3. FewAgain(Below(catalogue, p), Found)' <=> Repeats(Found) + b <= Cardinality(come)
      BY <1>1, <1>3, <2>0 DEF FewAgain, Repeats
    <3> HIDE DEF a, b
    <3> QED
      BY <1>5, <1>13, <3>1, <3>2, <3>3
  <2>5. (Len(batch) < PageSize /\ AllObjects => FewMissed(Range(catalogue), Found))'
    BY <1>1, <1>3, <1>10, <2>0, <2>1 DEF FewMissed, Missed
  <2> QED
    BY <1>1, <2>1, <2>2, <2>3, <2>4, <2>5 DEF p
<1>16. GetInv'
  BY <1>1, CallStays DEF MarketsInv
<1> QED
  BY <1>1, <1>3, <1>8, <1>12, <1>14, <1>15, <1>16 DEF MarketsInv

\* The page's markets are rows of the page, and there all along or new.
LEMMA FoundAmong ==
  ASSUME MarketsTypeOK
  PROVE  /\ Range(Parsed) \subseteq Range(batch) /\ Range(Parsed) \subseteq Open
         /\ Range(Found) \subseteq 1..listed \union come /\ Range(Found) \subseteq Open
         /\ Range(markets) \subseteq Range(Found)
<1>1. batch \in Seq(Range(batch))
  BY DEF MarketsTypeOK, Range
<1>2. Parsed \in Seq(Range(batch) \intersect Open)
  BY <1>1, SelectType DEF Parsed
<1>3. Range(Parsed) \subseteq Range(batch) /\ Range(Parsed) \subseteq Open
  BY <1>2 DEF Range
<1>4. Range(Found) = Range(markets) \union Range(Parsed)
  BY FoundType
<1>5. Junk \notin Open
  BY DEF MarketsTypeOK, Open
<1> QED
  BY <1>3, <1>4, <1>5 DEF MarketsTypeOK

\* A market that is listed makes at most one that was found come again.
LEMMA ListKeeps == MarketsInv /\ List => MarketsInv'
<1> SUFFICES ASSUME MarketsInv, List PROVE MarketsInv'
  OBVIOUS
<1> DEFINE new == listed + Cardinality(come) + 1
<1>1. /\ reading = "more" /\ Moves < MaxMoves
      /\ UNCHANGED getVars /\ batch' = batch /\ from' = from /\ markets' = markets
      /\ reading' = reading /\ listed' = listed /\ kind' = kind /\ gone' = gone
      /\ come' = come \union {new} /\ garbled' = garbled
  BY DEF List, readerVars
<1>2. PICK at \in 1..(Len(catalogue) + 1) : catalogue' = InsertAt(catalogue, at, new)
  BY DEF List
<1>3. Open' = Open /\ Parsed' = Parsed /\ Found' = Found /\ BatchInHand' = BatchInHand /\ AllObjects' = AllObjects
  BY <1>1 DEF Open, Parsed, Found, BatchInHand, AllObjects, getVars
<1>4. /\ MarketsTypeOK /\ catalogue \in Seq(Ids) /\ Distinct(catalogue)
      /\ Range(catalogue) = (1..listed \union come) \ gone /\ from \in Nat /\ batch \in Seq(Ids)
      /\ come = (listed + 1)..(listed + Cardinality(come)) /\ listed \in 0..MaxListed
  BY DEF MarketsInv, MarketsTypeOK, Distinct
<1>5. /\ IsFiniteSet(Range(catalogue)) /\ IsFiniteSet(gone) /\ IsFiniteSet(come) /\ listed \in Nat
      /\ Cardinality(gone) \in Nat /\ Cardinality(come) \in Nat /\ Range(catalogue) \subseteq Ids
  BY <1>4, MarketsFinite
<1>6. /\ new \in Ids /\ new \notin come /\ new \notin 1..listed
      /\ come \union {new} = (listed + 1)..(listed + (Cardinality(come) + 1))
  <2> DEFINE n == Cardinality(come)
             g == Cardinality(gone)
  <2>1. n \in Nat /\ g \in Nat /\ come = (listed + 1)..(listed + n) /\ new = listed + n + 1 /\ g + n < MaxMoves
    BY <1>1, <1>4, <1>5 DEF Moves
  <2> HIDE DEF n, g, new
  <2>2. new \in Nat /\ new <= MaxListed + MaxMoves /\ new >= 1
    BY <1>4, <2>1, MarketBounds
  <2>3. new \in Ids
    BY <2>2, MarketBounds DEF Ids, Junk
  <2>4. come \union {new} = (listed + 1)..(listed + (n + 1))
    BY <1>5, <2>1
  <2>5. new \notin come /\ new \notin 1..listed
    BY <1>5, <2>1
  <2> QED
    BY <2>3, <2>4, <2>5 DEF n
<1> HIDE DEF new
<1>7. Cardinality(come') = Cardinality(come) + 1 /\ IsFiniteSet(come')
  BY <1>1, <1>5, <1>6, FS_AddElement
<1>r. Range(catalogue') = Range(catalogue) \union {new}
  BY <1>2, <1>4, <1>6, InsertionPasses
<1>8. MarketsTypeOK'
  <2>1. catalogue' \in Seq(Ids) /\ Distinct(catalogue')
    <3>1. new \notin Range(catalogue)
      BY <1>4, <1>6
    <3>2. Distinct(InsertAt(catalogue, at, new))
      BY <1>4, <1>6, <3>1, InsertionKeeps
    <3>3. InsertAt(catalogue, at, new) \in Seq(Ids)
      BY <1>4, <1>6, InsertAtShape
    <3> QED
      BY <1>2, <3>2, <3>3
  <2>2. Range(catalogue') = (1..listed' \union come') \ gone'
    <3>1. gone \subseteq 1..listed \union come
      BY DEF MarketsInv, MarketsTypeOK
    <3> QED
      BY <1>1, <1>4, <1>6, <1>r, <3>1
  <2>3. Moves' <= MaxMoves
    BY <1>1, <1>5, <1>7, MarketBounds DEF Moves
  <2>4. \A i, j \in DOMAIN catalogue' : catalogue'[i] = catalogue'[j] => i = j
    BY <2>1 DEF Distinct
  <2>5. come' = (listed' + 1)..(listed' + Cardinality(come'))
    BY <1>1, <1>6, <1>7
  <2>6. (gone \union Range(markets) \union (Range(batch) \ {Junk}) \subseteq 1..listed \union come)'
    BY <1>1, <1>4 DEF MarketsTypeOK
  <2> QED
    BY <1>1, <1>3, <1>4, <1>7, <2>1, <2>2, <2>3, <2>4, <2>5, <2>6 DEF MarketsTypeOK
<1>9. ASSUME NEW p \in Nat
      PROVE  /\ Above(catalogue', p) \subseteq Above(catalogue, p) \union {new}
             /\ Below(catalogue', p) \subseteq Below(catalogue, p) \union {new, catalogue[p]}
             /\ IsFiniteSet(Above(catalogue, p)) /\ IsFiniteSet(Below(catalogue, p))
  <2>1. Above(catalogue, p) \subseteq Range(catalogue) /\ Below(catalogue, p) \subseteq Range(catalogue)
    BY <1>4, AboveBelow
  <2>2. IsFiniteSet(Above(catalogue, p)) /\ IsFiniteSet(Below(catalogue, p))
    BY <1>5, <2>1, FS_Subset
  <2> QED
    BY <1>2, <1>4, <1>6, <2>2, InsertionPasses
<1>10. ASSUME NEW F, NEW O, NEW A, NEW B, A \subseteq B \union {new}, IsFiniteSet(B),
              Cardinality((O \intersect B) \ (F \union come)) <= Cardinality(gone)
       PROVE  Cardinality((O \intersect A) \ (F \union come')) <= Cardinality(gone')
  <2>1. (O \intersect A) \ (F \union come') \subseteq (O \intersect B) \ (F \union come)
    BY <1>1, <1>10
  <2>2. IsFiniteSet((O \intersect B) \ (F \union come))
    BY <1>10, FS_Subset
  <2>3. /\ Cardinality((O \intersect A) \ (F \union come')) <= Cardinality((O \intersect B) \ (F \union come))
        /\ IsFiniteSet((O \intersect A) \ (F \union come'))
    BY <2>1, <2>2, FS_Subset
  <2>4. /\ Cardinality((O \intersect A) \ (F \union come')) \in Nat
        /\ Cardinality((O \intersect B) \ (F \union come)) \in Nat
    BY <2>2, <2>3, FS_CardinalityType
  <2> QED
    BY <1>1, <1>5, <1>10, <2>3, <2>4
<1>11. ASSUME NEW F, NEW p \in Nat, F \subseteq 1..listed \union come
       PROVE  /\ Cardinality(Below(catalogue', p) \intersect F) <= Cardinality(Below(catalogue, p) \intersect F) + 1
              /\ Cardinality(Below(catalogue', p) \intersect F) \in Nat
              /\ Cardinality(Below(catalogue, p) \intersect F) \in Nat
  <2> DEFINE A == Below(catalogue', p) \intersect F
             B == Below(catalogue, p)
  <2>1. A \subseteq B \union {catalogue[p]} /\ IsFiniteSet(B)
    BY <1>6, <1>9, <1>11
  <2>2. A \intersect F = Below(catalogue', p) \intersect F
    OBVIOUS
  <2> HIDE DEF A, B
  <2>3. /\ Cardinality(A \intersect F) <= Cardinality(B \intersect F) + 1
        /\ Cardinality(A \intersect F) \in Nat /\ Cardinality(B \intersect F) \in Nat
    <3>1. 0 \in Nat
      OBVIOUS
    <3> QED
      BY <2>1, <3>1, OneRowMore
  <2> QED
    BY <2>2, <2>3 DEF B
<1>12. from + Len(batch) \in Nat
  BY <1>4
<1>13. /\ Repeats(markets) \in Int /\ Repeats(Found) \in Int
       /\ Range(markets) \subseteq 1..listed \union come /\ Range(Found) \subseteq 1..listed \union come
  BY <1>4, FoundType, FoundAmong
<1>14. FewMissed(Above(catalogue, from), markets)'
  BY <1>1, <1>3, <1>4, <1>9, <1>10 DEF MarketsInv, FewMissed, Missed
<1>15. (Repeats(markets) <= Cardinality(come))'
  <2>1. Repeats(markets) <= Cardinality(come) /\ Repeats(markets)' = Repeats(markets)
    BY <1>1 DEF MarketsInv, Repeats
  <2> QED
    BY <1>5, <1>7, <1>13, <2>1
<1>16. FewAgain(Below(catalogue, from), markets)'
  <2> DEFINE a == Cardinality(Below(catalogue, from) \intersect Range(markets))
             b == Cardinality(Below(catalogue', from) \intersect Range(markets))
  <2>1. Repeats(markets) + a <= Cardinality(come)
    BY <1>1 DEF MarketsInv, FewAgain
  <2>2. a \in Nat /\ b \in Nat /\ b <= a + 1
    BY <1>4, <1>11, <1>13
  <2>3. FewAgain(Below(catalogue, from), markets)' <=> Repeats(markets) + b <= Cardinality(come')
    BY <1>1 DEF FewAgain, Repeats
  <2> HIDE DEF a, b
  <2> QED
    BY <1>5, <1>7, <1>13, <2>1, <2>2, <2>3
<1>17. ASSUME BatchInHand
       PROVE  (/\ Len(batch) <= PageSize
               /\ FewMissed(Above(catalogue, from + Len(batch)), Found)
               /\ Repeats(Found) <= Cardinality(come)
               /\ Len(batch) = PageSize => FewAgain(Below(catalogue, from + Len(batch)), Found)
               /\ Len(batch) < PageSize /\ AllObjects => FewMissed(Range(catalogue), Found))'
  <2> DEFINE p == from + Len(batch)
  <2>0. p \in Nat /\ p' = p
    BY <1>1, <1>12
  <2>1. /\ Len(batch) <= PageSize /\ FewMissed(Above(catalogue, p), Found)
        /\ Repeats(Found) <= Cardinality(come)
        /\ Len(batch) = PageSize => FewAgain(Below(catalogue, p), Found)
        /\ Len(batch) < PageSize /\ AllObjects => FewMissed(Range(catalogue), Found)
    BY <1>17 DEF MarketsInv
  <2> HIDE DEF p
  <2>2. FewMissed(Above(catalogue, p), Found)'
    BY <1>1, <1>3, <1>9, <1>10, <2>0, <2>1 DEF FewMissed, Missed
  <2>3. (Repeats(Found) <= Cardinality(come))'
    <3>1. Repeats(Found)' = Repeats(Found)
      BY <1>3 DEF Repeats
    <3> QED
      BY <1>5, <1>7, <1>13, <2>1, <3>1
  <2>4. (Len(batch) = PageSize => FewAgain(Below(catalogue, p), Found))'
    <3> SUFFICES ASSUME Len(batch) = PageSize PROVE FewAgain(Below(catalogue, p), Found)'
      BY <1>1
    <3> DEFINE a == Cardinality(Below(catalogue, p) \intersect Range(Found))
               b == Cardinality(Below(catalogue', p) \intersect Range(Found))
    <3>1. Repeats(Found) + a <= Cardinality(come)
      BY <2>1 DEF FewAgain
    <3>2. a \in Nat /\ b \in Nat /\ b <= a + 1
      BY <1>11, <1>13, <2>0
    <3>3. FewAgain(Below(catalogue, p), Found)' <=> Repeats(Found) + b <= Cardinality(come')
      BY <1>1, <1>3, <2>0 DEF FewAgain, Repeats
    <3> HIDE DEF a, b
    <3> QED
      BY <1>5, <1>7, <1>13, <3>1, <3>2, <3>3
  <2>5. (Len(batch) < PageSize /\ AllObjects => FewMissed(Range(catalogue), Found))'
    BY <1>1, <1>3, <1>5, <1>r, <1>10, <2>0, <2>1 DEF FewMissed, Missed
  <2> QED
    BY <1>1, <2>1, <2>2, <2>3, <2>4, <2>5 DEF p
<1>18. GetInv'
  BY <1>1, CallStays DEF MarketsInv
<1> QED
  BY <1>1, <1>3, <1>8, <1>14, <1>15, <1>16, <1>17, <1>18 DEF MarketsInv

\* A reading of the markets starts with nothing read.
LEMMA MarketsStart == InitGet /\ InitMarkets => MarketsInv
<1> SUFFICES ASSUME InitGet, InitMarkets PROVE MarketsInv
  OBVIOUS
<1>1. /\ listed \in 0..MaxListed /\ listed \in Nat /\ batch = <<>> /\ from = 0 /\ markets = <<>>
      /\ gone = {} /\ come = {} /\ reading = "more" /\ catalogue = [i \in 1..listed |-> i]
      /\ place = "send" /\ garbled = FALSE
  BY MarketBounds DEF InitMarkets, InitGet
<1>2. 1..listed \subseteq Ids
  BY <1>1, MarketBounds DEF Ids, Junk
<1>3. kind \in [Ids -> Kinds] /\ kind[Junk] = "malformed"
  <2>1. Junk \in Ids
    BY MarketBounds DEF Ids, Junk
  <2> QED
    BY <2>1 DEF InitMarkets, Kinds
<1>4. /\ catalogue \in Seq(Ids) /\ Len(catalogue) = listed /\ Range(catalogue) = 1..listed
      /\ \A i, j \in DOMAIN catalogue : catalogue[i] = catalogue[j] => i = j
  BY <1>1, <1>2 DEF Range
<1>5. Range(markets) = {} /\ Range(batch) = {} /\ Len(markets) = 0
  BY <1>1 DEF Range
<1>6. Cardinality({}) = 0 /\ IsFiniteSet({})
  BY FS_EmptySet
<1>7. MarketsTypeOK
  <2>1. come = (listed + 1)..(listed + 0)
    BY <1>1
  <2>2. Cardinality(come) = 0 /\ Cardinality(gone) = 0 /\ Moves <= MaxMoves
    BY <1>1, <1>6, MarketBounds DEF Moves
  <2> QED
    <3>1. garbled \in BOOLEAN /\ reading \in {"more", "end", "full", "failed"}
      BY <1>1
    <3>2. /\ come = (listed + 1)..(listed + Cardinality(come)) /\ Moves <= MaxMoves
          /\ IsFiniteSet(come) /\ gone \subseteq Ids
      BY <1>1, <1>6, <2>1, <2>2
    <3>3. /\ Range(catalogue) = (1..listed \union come) \ gone
          /\ gone \union Range(markets) \union (Range(batch) \ {Junk}) \subseteq 1..listed \union come
          /\ Range(markets) \subseteq Open
      BY <1>1, <1>4, <1>5
    <3>4. batch \in Seq(Ids) /\ markets \in Seq(Ids) /\ from \in Nat
      BY <1>1
    <3> QED
      BY <1>1, <1>3, <1>4, <3>1, <3>2, <3>3, <3>4 DEF MarketsTypeOK
<1>8. Above(catalogue, from) = {}
  BY <1>1, <1>4 DEF Above, Least
<1>9. FewMissed(Above(catalogue, from), markets)
  <2>1. Missed(Above(catalogue, from), markets) = {}
    BY <1>8 DEF Missed
  <2>2. Cardinality(Missed(Above(catalogue, from), markets)) = 0 /\ Cardinality(gone) = 0
    BY <1>1, <1>6, <2>1
  <2> QED
    BY <2>2 DEF FewMissed
<1>10. Repeats(markets) = 0
  BY <1>5, <1>6 DEF Repeats
<1>11. FewAgain(Below(catalogue, from), markets)
  <2>1. Below(catalogue, from) \intersect Range(markets) = {}
    BY <1>5
  <2>2. Cardinality(Below(catalogue, from) \intersect Range(markets)) = 0 /\ Cardinality(come) = 0
    BY <1>1, <1>6, <2>1
  <2> QED
    BY <1>10, <2>2 DEF FewAgain
<1>12. GetInv
  BY FreshCall DEF InitGet
<1>13. ~BatchInHand
  BY <1>1 DEF BatchInHand
<1> QED
  BY <1>1, <1>5, <1>6, <1>7, <1>9, <1>10, <1>11, <1>12, <1>13, MarketBounds DEF MarketsInv

\* The rows of a page, as they follow the offset: those that are objects, once each.
PageOf(s, p, size) == SubSeq(s, p + 1, Least(p + size, Len(s)))

\* A page has no row twice, and only rows of its place.
LEMMA PageOfShape ==
  ASSUME NEW R, NEW s \in Seq(R), NEW p \in Nat, NEW size \in Nat, Distinct(s)
  PROVE  /\ PageOf(s, p, size) \in Seq(R) /\ Distinct(PageOf(s, p, size))
         /\ Len(PageOf(s, p, size)) <= size
         /\ Range(PageOf(s, p, size)) \subseteq Below(s, p) \ Below(s, p + size)
         /\ \A k \in 0..Len(PageOf(s, p, size)) :
              Above(s, p + k) \subseteq Above(s, p) \union Range(PageOf(s, p, size))
         /\ Len(PageOf(s, p, size)) < size =>
              Range(s) \subseteq Above(s, p) \union Range(PageOf(s, p, size))
<1> DEFINE n == Len(s)
           m == Least(p + size, n)
           t == PageOf(s, p, size)
<1>1. n \in Nat /\ m \in Nat /\ m <= n /\ m <= p + size /\ (m < p + size => m = n)
  BY DEF Least
<1>2. t = SubSeq(s, p + 1, m)
  BY DEF PageOf
<1>3. DOMAIN s = 1..n /\ \A i, j \in 1..n : s[i] = s[j] => i = j
  BY DEF Distinct
<1>4. /\ t \in Seq(R) /\ Len(t) = IF p < m THEN m - p ELSE 0
      /\ \A i \in 1..Len(t) : t[i] = s[p + i]
  <2> HIDE DEF m, t
  <2>1. CASE p < m
    <3>1. p + 1 \in 1..(n + 1) /\ m \in p..n /\ p + 1 <= m
      BY <1>1, <2>1
    <3>2. ASSUME NEW i \in (p + 1)..m PROVE s[i] \in R
      <4>1. i \in 1..n
        BY <1>1
      <4> QED
        BY <4>1
    <3>3. t \in Seq(R) /\ Len(t) = m - p
      BY <1>1, <1>2, <2>1, <3>2
    <3>4. \A i \in 1..(m - p) : t[i] = s[p + i]
      BY <1>1, <1>2, <2>1
    <3> QED
      BY <2>1, <3>3, <3>4
  <2>2. CASE ~(p < m)
    <3>1. t = << >>
      BY <1>1, <1>2, <2>2
    <3> QED
      BY <2>2, <3>1
  <2> QED
    BY <2>1, <2>2
<1> HIDE DEF m, t
<1>5. DOMAIN t = 1..Len(t) /\ Len(t) \in Nat /\ Len(t) <= size
  BY <1>1, <1>4
<1>6. \A i \in 1..Len(t) : p + i \in 1..n /\ p + i \in (p + 1)..n /\ p + i <= p + size
  BY <1>1, <1>4
<1> HIDE DEF n
<1>7. Distinct(t)
  <2> SUFFICES ASSUME NEW i \in 1..Len(t), NEW j \in 1..Len(t), t[i] = t[j] PROVE i = j
    BY DEF Distinct
  <2>1. s[p + i] = s[p + j] /\ p + i \in 1..n /\ p + j \in 1..n
    BY <1>4, <1>6
  <2>2. p + i = p + j
    BY <1>3, <2>1
  <2> QED
    BY <2>2
<1>8. Range(t) \subseteq Below(s, p) \ Below(s, p + size)
  <2> SUFFICES ASSUME NEW i \in 1..Len(t) PROVE t[i] \in Below(s, p) \ Below(s, p + size)
    BY <1>5 DEF Range
  <2>1. t[i] = s[p + i] /\ p + i \in (p + 1)..n /\ p + i \in 1..n /\ p + i <= p + size
    BY <1>4, <1>6
  <2>2. t[i] \in Below(s, p)
    BY <2>1 DEF Below, n
  <2>3. ASSUME NEW j \in (p + size + 1)..n PROVE s[j] # t[i]
    <3>1. j \in 1..n /\ j # p + i
      BY <1>1, <2>1
    <3> QED
      BY <1>3, <2>1, <3>1
  <2> QED
    BY <2>2, <2>3 DEF Below, n
<1>9. ASSUME NEW i \in 1..n, p < i, i <= m PROVE s[i] \in Range(t)
  <2>1. i - p \in 1..Len(t) /\ p + (i - p) = i
    BY <1>1, <1>4, <1>9
  <2>2. t[i - p] = s[i]
    BY <1>4, <2>1
  <2> QED
    BY <1>5, <2>1, <2>2 DEF Range
<1>10. ASSUME NEW i \in 1..n, i <= p PROVE s[i] \in Above(s, p)
  <2>1. i \in 1..Least(p, n)
    BY <1>1, <1>10 DEF Least
  <2> QED
    BY <2>1 DEF Above, n
<1>11. ASSUME NEW k \in 0..Len(t), NEW x \in Above(s, p + k) PROVE x \in Above(s, p) \union Range(t)
  <2>1. PICK i \in 1..Least(p + k, n) : x = s[i]
    BY DEF Above, n
  <2>2. i \in 1..n /\ i <= p + k
    BY <1>1, <1>5 DEF Least
  <2>3. p < i => i <= m
    BY <1>1, <1>4, <1>5, <2>2
  <2> QED
    BY <1>1, <1>9, <1>10, <2>1, <2>2, <2>3
<1>12. ASSUME Len(t) < size, NEW x \in Range(s) PROVE x \in Above(s, p) \union Range(t)
  <2>1. PICK i \in 1..n : x = s[i]
    BY <1>3 DEF Range
  <2>2. p < i => m = n
    BY <1>1, <1>4, <1>12
  <2>3. p < i => i <= m
    BY <1>1, <2>2
  <2> QED
    BY <1>1, <1>9, <1>10, <2>1, <2>3
<1> QED
  BY <1>4, <1>5, <1>7, <1>8, <1>11, <1>12 DEF t

\* Rows once each are as many as there are places.
LEMMA IdsCount ==
  ASSUME NEW s \in Seq(Ids), Distinct(s)
  PROVE  IsFiniteSet(Range(s)) /\ Cardinality(Range(s)) = Len(s)
<1> DEFINE R == Nat
<1>1. Ids \subseteq R
  BY DEF Ids, Junk
<1> HIDE DEF R
<1>2. s \in Seq(R)
  BY <1>1
<1>3. s \in Seq(Nat)
  BY <1>2 DEF R
<1>4. \A i, j \in DOMAIN s : s[i] = s[j] => i = j
  BY DEF Distinct
<1> QED
  BY <1>3, <1>4, DistinctCount

\* Rows once each, put after others, repeat as many as both have.
LEMMA JoinedRepeats ==
  ASSUME MarketsTypeOK, NEW s \in Seq(Ids), NEW t \in Seq(Ids), Distinct(t)
  PROVE  /\ Repeats(s \o t) = Repeats(s) + Cardinality(Range(s) \intersect Range(t))
         /\ Cardinality(Range(s) \intersect Range(t)) \in Nat
<1> DEFINE S == Range(s)
           T == Range(t)
<1>1. Len(s \o t) = Len(s) + Len(t) /\ Range(s \o t) = S \union T
  BY JoinedRange
<1>2. IsFiniteSet(S) /\ IsFiniteSet(T) /\ Cardinality(T) = Len(t)
  <2>1. S \subseteq Ids
    BY DEF Range
  <2> QED
    BY <2>1, IdsCount, MarketsFinite, FS_Subset
<1>3. Repeats(s \o t) = Len(s \o t) - Cardinality(Range(s \o t)) /\ Repeats(s) = Len(s) - Cardinality(S)
  BY DEF Repeats
<1>4. Len(s) \in Nat /\ Len(t) \in Nat
  OBVIOUS
<1> HIDE DEF S, T
<1>5. /\ Cardinality(S \union T) = Cardinality(S) + Cardinality(T) - Cardinality(S \intersect T)
      /\ IsFiniteSet(S \intersect T)
  BY <1>2, FS_Union, FS_Intersection
<1>6. Cardinality(S) \in Nat /\ Cardinality(T) \in Nat /\ Cardinality(S \intersect T) \in Nat
  BY <1>2, <1>5, FS_CardinalityType
<1> QED
  BY <1>1, <1>2, <1>3, <1>4, <1>5, <1>6 DEF S, T

\* What a page in hand adds to a reading of the markets.
LEMMA RequestMarketsKeeps == MarketsInv /\ RequestMarkets => MarketsInv'
<1> SUFFICES ASSUME MarketsInv, RequestMarkets PROVE MarketsInv'
  OBVIOUS
<1>1. /\ reading = "more" /\ garbled' = (garbled \/ (result' = "value" /\ batch' # Batch))
      /\ IF result' = "value" THEN batch' \in Pages ELSE batch' = batch
      /\ from' = from /\ markets' = markets /\ reading' = reading /\ catalogue' = catalogue
      /\ listed' = listed /\ kind' = kind /\ gone' = gone /\ come' = come
  BY DEF RequestMarkets, apiVars
<1>2. GetInv'
  BY CallKeeps DEF MarketsInv, RequestMarkets
<1>3. /\ MarketsTypeOK /\ catalogue \in Seq(Ids) /\ Distinct(catalogue) /\ from \in Nat
      /\ markets \in Seq(Ids) /\ batch \in Seq(Ids)
      /\ Range(catalogue) = (1..listed \union come) \ gone /\ PageSize \in Nat
  BY MarketBounds DEF MarketsInv, MarketsTypeOK, Distinct
<1>4. /\ Cardinality(gone) \in Nat /\ Cardinality(come) \in Nat
      /\ IsFiniteSet(Range(catalogue)) /\ IsFiniteSet(Range(markets)) /\ Repeats(markets) \in Int
  BY <1>3, MarketsFinite, FoundType
<1> DEFINE page == PageOf(catalogue, from, PageSize)
           N == {i \in Ids : kind[i] # "other"}
<1>5. /\ page \in Seq(Ids) /\ Distinct(page) /\ Len(page) <= PageSize
      /\ Range(page) \subseteq Below(catalogue, from) \ Below(catalogue, from + PageSize)
      /\ \A k \in 0..Len(page) : Above(catalogue, from + k) \subseteq Above(catalogue, from) \union Range(page)
      /\ Len(page) < PageSize => Range(catalogue) \subseteq Above(catalogue, from) \union Range(page)
  BY <1>3, PageOfShape
<1>6. Batch = Select(page, N)
  BY DEF Batch, PageOf
<1>7. /\ Batch \in Seq(Ids) /\ Distinct(Batch) /\ Range(Batch) = Range(page) \intersect N
      /\ Len(Batch) <= Len(page)
  <2> HIDE DEF page, N
  <2> QED
    BY <1>5, <1>6, SelectRange
<1>8. Open \subseteq N /\ Open' = Open /\ AllObjects' = AllObjects
  BY <1>1 DEF Open, AllObjects
<1>9. Above(catalogue, from) \subseteq Range(catalogue) /\ Below(catalogue, from) \subseteq Range(catalogue)
      /\ Range(catalogue) \subseteq Ids
  BY <1>3, AboveBelow
<1> HIDE DEF page
<1>10. MarketsTypeOK'
  <2>1. batch' \in Seq(Ids) /\ (Range(batch') \ {Junk} \subseteq Range(catalogue) \/ batch' = batch)
    <3>1. Range(Batch) \subseteq Range(catalogue)
      BY <1>5, <1>7, <1>9
    <3>2. Range(<<Junk>>) = {Junk} /\ Range(<<>>) = {}
      BY DEF Range
    <3>3. Junk \in Ids
      BY MarketBounds DEF Ids, Junk
    <3>4. <<Junk>> \in Seq(Ids) /\ <<>> \in Seq(Ids) /\ batch \in Seq(Ids) /\ Batch \in Seq(Ids)
      BY <1>3, <1>7, <3>3
    <3>5. batch' = Batch \/ batch' = <<Junk>> \/ batch' = <<>> \/ batch' = batch
      BY <1>1 DEF Pages
    <3>6. CASE batch' = Batch
      BY <3>1, <3>4, <3>6
    <3>7. CASE batch' = <<Junk>>
      BY <3>2, <3>4, <3>7
    <3>8. CASE batch' = <<>>
      BY <3>2, <3>4, <3>8
    <3>9. CASE batch' = batch
      BY <3>4, <3>9
    <3> QED
      BY <3>5, <3>6, <3>7, <3>8, <3>9
  <2>3. garbled' \in BOOLEAN
    BY <1>1
  <2>2. (gone \union Range(markets) \union (Range(batch) \ {Junk}) \subseteq 1..listed \union come)'
    BY <1>1, <1>3, <2>1 DEF MarketsTypeOK
  <2> QED
    BY <1>1, <1>3, <1>8, <2>1, <2>2, <2>3 DEF MarketsTypeOK, Moves
<1>11. /\ FewMissed(Above(catalogue, from), markets) /\ Repeats(markets) <= Cardinality(come)
       /\ Len(markets) < MaxMarkets /\ FewAgain(Below(catalogue, from), markets)
  BY <1>1 DEF MarketsInv
<1>12. (/\ FewMissed(Above(catalogue, from), markets) /\ Repeats(markets) <= Cardinality(come)
        /\ Len(markets) < MaxMarkets /\ FewAgain(Below(catalogue, from), markets))'
  BY <1>1, <1>8, <1>11 DEF FewMissed, Missed, FewAgain, Repeats
<1> DEFINE Y == Range(markets)
           P == Range(page) \intersect Open
           B == Below(catalogue, from)
           C == Below(catalogue, from + PageSize)
<1>13. ASSUME BatchInHand', batch' = Batch
       PROVE  (/\ Len(batch) <= PageSize
               /\ FewMissed(Above(catalogue, from + Len(batch)), Found)
               /\ Repeats(Found) <= Cardinality(come)
               /\ Len(batch) = PageSize => FewAgain(Below(catalogue, from + Len(batch)), Found)
               /\ Len(batch) < PageSize /\ AllObjects => FewMissed(Range(catalogue), Found))'
  <2>1. /\ batch' = Batch /\ Len(Batch) \in 0..Len(page) /\ Len(page) \in Nat
        /\ garbled' = garbled
    <3>1. garbled \in BOOLEAN
      BY <1>3 DEF MarketsTypeOK
    <3> QED
      BY <1>1, <1>5, <1>7, <1>13, <3>1 DEF BatchInHand
  <2>2. Parsed' = Select(Batch, Open)
    BY <1>8, <2>1 DEF Parsed
  <2>3. /\ Parsed' \in Seq(Ids) /\ Distinct(Parsed') /\ Range(Parsed') = P
    BY <1>7, <1>8, <2>2, SelectRange
  <2>4. Found' = markets \o Parsed'
    BY <1>1 DEF Found
  <2>5. Range(Found') = Y \union P
    BY <1>3, <2>3, <2>4, JoinedRange
  <2>6. Repeats(Found') = Repeats(markets) + Cardinality(Y \intersect P) /\ Cardinality(Y \intersect P) \in Nat
    BY <1>3, <2>3, <2>4, JoinedRepeats
  <2>7. /\ IsFiniteSet(Y) /\ P \subseteq B \ C
    BY <1>4, <1>5
  <2> HIDE DEF Y, B, C
  <2>8. /\ IsFiniteSet(Y \intersect P) /\ IsFiniteSet(C \intersect Y) /\ IsFiniteSet(B \intersect Y)
    BY <2>7, FS_Subset
  <2>9. /\ Cardinality(Y \intersect P) \in Nat /\ Cardinality(C \intersect Y) \in Nat
        /\ Cardinality(B \intersect Y) \in Nat
    BY <2>8, FS_CardinalityType
  <2>10. Repeats(markets) + Cardinality(B \intersect Y) <= Cardinality(come)
    BY <1>11 DEF FewAgain, B, Y
  <2>11. (Repeats(Found) <= Cardinality(come))'
    <3>1. Cardinality(Y \intersect P) <= Cardinality(B \intersect Y)
      BY <2>7, <2>8, FS_Subset
    <3>2. Repeats(Found)' = Repeats(Found')
      BY DEF Repeats
    <3> HIDE DEF P
    <3> QED
      BY <1>1, <1>4, <2>6, <2>9, <2>10, <3>1, <3>2
  <2>12. ASSUME NEW A, A \subseteq Above(catalogue, from) \union Range(page)
         PROVE  garbled \/ Cardinality((Open \intersect A) \ (Range(Found') \union come)) <= Cardinality(gone)
    <3> DEFINE M == (Open \intersect Above(catalogue, from)) \ (Y \union come)
               L == (Open \intersect A) \ (Range(Found') \union come)
    <3>1. L \subseteq M
      BY <2>5, <2>12
    <3>2. garbled \/ Cardinality(M) <= Cardinality(gone)
      BY <1>11 DEF FewMissed, Missed, Y
    <3>3. IsFiniteSet(M)
      BY <1>4, <1>9, FS_Subset
    <3> HIDE DEF L, M
    <3>4. Cardinality(L) <= Cardinality(M) /\ IsFiniteSet(L)
      BY <3>1, <3>3, FS_Subset
    <3>5. Cardinality(L) \in Nat /\ Cardinality(M) \in Nat
      BY <3>3, <3>4, FS_CardinalityType
    <3>6. garbled \/ Cardinality(L) <= Cardinality(gone)
      BY <1>4, <3>2, <3>4, <3>5
    <3> QED
      BY <3>6 DEF L
  <2>13. FewMissed(Above(catalogue, from + Len(batch)), Found)'
    <3>1. Above(catalogue, from + Len(Batch)) \subseteq Above(catalogue, from) \union Range(page)
      BY <1>5, <2>1
    <3> QED
      BY <1>1, <1>8, <2>1, <2>12, <3>1 DEF FewMissed, Missed
  <2>14. (Len(batch) = PageSize => FewAgain(Below(catalogue, from + Len(batch)), Found))'
    <3> SUFFICES ASSUME Len(Batch) = PageSize
                 PROVE  Repeats(Found') + Cardinality(C \intersect (Y \union P)) <= Cardinality(come)
      <4>1. Len(Batch) = PageSize => (FewAgain(Below(catalogue, from + Len(batch)), Found)' <=>
              Repeats(Found') + Cardinality(C \intersect (Y \union P)) <= Cardinality(come))
        BY <1>1, <2>1, <2>5 DEF FewAgain, Repeats, C
      <4> QED
        BY <2>1, <4>1
    <3>1. C \intersect (Y \union P) = C \intersect Y
      BY <2>7
    <3>2. C \subseteq B
      BY <1>3 DEF B, C, Below
    <3>3. /\ (Y \intersect P) \intersect (C \intersect Y) = {}
          /\ (Y \intersect P) \union (C \intersect Y) \subseteq B \intersect Y
      BY <2>7, <3>2
    <3> HIDE DEF P
    <3> DEFINE U == (Y \intersect P) \union (C \intersect Y)
    <3>4. /\ IsFiniteSet(U)
          /\ Cardinality(U) = Cardinality(Y \intersect P) + Cardinality(C \intersect Y) - Cardinality({})
      BY <2>8, <3>3, FS_Union
    <3>5. Cardinality(U) <= Cardinality(B \intersect Y) /\ Cardinality({}) = 0
      BY <2>8, <3>3, FS_Subset, FS_EmptySet
    <3> HIDE DEF U
    <3>6. Cardinality(Y \intersect P) + Cardinality(C \intersect Y) <= Cardinality(B \intersect Y)
      BY <2>9, <3>4, <3>5
    <3> DEFINE a == Cardinality(C \intersect (Y \union P))
               b == Cardinality(Y \intersect P)
               c == Cardinality(B \intersect Y)
               d == Cardinality(C \intersect Y)
    <3>7. a = d /\ b + d <= c /\ d \in Nat /\ b \in Nat /\ c \in Nat
      <4>1. a = d
        BY <3>1
      <4> HIDE DEF a
      <4> QED
        BY <2>9, <3>6, <4>1
    <3>8. Repeats(Found') = Repeats(markets) + b /\ Repeats(markets) + c <= Cardinality(come)
      BY <2>6, <2>10
    <3> HIDE DEF a, b, c, d
    <3>9. Repeats(Found') + a <= Cardinality(come)
      BY <1>4, <3>7, <3>8
    <3> QED
      BY <3>9 DEF a
  <2>15. (Len(batch) < PageSize /\ AllObjects => FewMissed(Range(catalogue), Found))'
    <3> SUFFICES ASSUME Len(Batch) < PageSize, AllObjects
                 PROVE  FewMissed(Range(catalogue), Found)'
      BY <1>8, <2>1
    <3>1. N = Ids
      BY DEF AllObjects
    <3>2. Range(Batch) = Range(page)
      BY <1>5, <1>7, <3>1 DEF Range
    <3>3. Len(Batch) = Len(page)
      BY <1>5, <1>7, <3>2, IdsCount
    <3>4. Range(catalogue) \subseteq Above(catalogue, from) \union Range(page)
      BY <1>5, <3>3
    <3> QED
      BY <1>1, <1>8, <2>1, <2>12, <3>4 DEF FewMissed, Missed
  <2>16. Len(batch') <= PageSize
    BY <1>3, <1>5, <2>1
  <2> QED
    BY <2>11, <2>13, <2>14, <2>15, <2>16
<1>14. ASSUME BatchInHand', batch' # Batch
       PROVE  (/\ Len(batch) <= PageSize
               /\ FewMissed(Above(catalogue, from + Len(batch)), Found)
               /\ Repeats(Found) <= Cardinality(come)
               /\ Len(batch) = PageSize => FewAgain(Below(catalogue, from + Len(batch)), Found)
               /\ Len(batch) < PageSize /\ AllObjects => FewMissed(Range(catalogue), Found))'
  <2>1. garbled' /\ (batch' = <<Junk>> \/ batch' = <<>>)
    BY <1>1, <1>14 DEF BatchInHand, Pages
  <2>2. Len(batch') \in {0, 1} /\ Len(batch') <= PageSize /\ Range(batch') \subseteq {Junk}
    <3>1. Range(<<Junk>>) = {Junk} /\ Range(<<>>) = {} /\ Len(<<Junk>>) = 1 /\ Len(<<>>) = 0
      BY DEF Range
    <3>2. CASE batch' = <<Junk>>
      BY <3>1, <3>2, MarketBounds
    <3>3. CASE batch' = <<>>
      BY <3>1, <3>3, MarketBounds
    <3> QED
      BY <2>1, <3>2, <3>3
  <2>3. Found' = markets
    <3>1. batch' \in Seq(Range(batch'))
      <4>1. batch' \in Seq(Ids)
        BY <1>10 DEF MarketsTypeOK
      <4> QED
        BY <4>1 DEF Range
    <3>2. Parsed' \in Seq(Range(batch') \intersect Open)
      BY <1>8, <3>1, SelectType DEF Parsed
    <3>3. Junk \notin Open
      BY <1>3 DEF MarketsTypeOK, Open
    <3>4. Parsed' \in Seq({})
      BY <2>2, <3>2, <3>3
    <3>5. Parsed' = <<>>
      BY <3>4
    <3> QED
      BY <1>1, <1>3, <3>5 DEF Found
  <2>4. FewAgain(Below(catalogue, from + Len(batch')), markets)
    <3> DEFINE p == from + Len(batch')
               a == Cardinality(Below(catalogue, from) \intersect Range(markets))
               b == Cardinality(Below(catalogue, p) \intersect Range(markets))
    <3>1. p \in Nat /\ p >= from
      BY <1>3, <2>2
    <3> HIDE DEF p
    <3>2. Below(catalogue, p) \subseteq Below(catalogue, from)
      BY <1>3, <3>1 DEF Below
    <3>3. IsFiniteSet(Below(catalogue, from) \intersect Range(markets))
      BY <1>4, FS_Subset
    <3>4. b <= a /\ IsFiniteSet(Below(catalogue, p) \intersect Range(markets))
      BY <3>2, <3>3, FS_Subset
    <3>5. a \in Nat /\ b \in Nat
      BY <3>3, <3>4, FS_CardinalityType
    <3>6. Repeats(markets) + a <= Cardinality(come)
      BY <1>11 DEF FewAgain
    <3> HIDE DEF a, b
    <3>7. Repeats(markets) + b <= Cardinality(come)
      BY <1>4, <3>4, <3>5, <3>6
    <3> QED
      BY <3>7 DEF FewAgain, b, p
  <2>5. (Repeats(Found) <= Cardinality(come))'
    BY <1>1, <1>11, <2>3 DEF Repeats
  <2>6. FewAgain(Below(catalogue, from + Len(batch)), Found)'
    BY <1>1, <2>3, <2>4 DEF FewAgain, Repeats
  <2> QED
    BY <1>1, <2>1, <2>2, <2>5, <2>6 DEF FewMissed
<1> QED
  BY <1>1, <1>2, <1>10, <1>12, <1>13, <1>14 DEF MarketsInv

\* A page is taken: its markets are yielded, and the offset moves past its rows.
LEMMA TakeMarketsKeeps == MarketsInv /\ TakeMarkets => MarketsInv'
<1> SUFFICES ASSUME MarketsInv, TakeMarkets PROVE MarketsInv'
  OBVIOUS
<1> DEFINE n == Len(markets)
           total == Len(markets) + Len(Parsed)
           few == Least(Len(Parsed), MaxMarkets - Len(markets))
           taken == SubSeq(Parsed, 1, few)
<1>1. /\ reading = "more" /\ BatchInHand /\ markets' = markets \o taken
      /\ reading' = Reading(total) /\ from' = from + Len(batch)
      /\ batch' = batch /\ catalogue' = catalogue /\ listed' = listed /\ kind' = kind
      /\ gone' = gone /\ come' = come /\ garbled' = garbled
  BY DEF TakeMarkets, BatchInHand, NextFrom, apiVars
<1>2. GetInv' /\ ~BatchInHand'
  BY CallBegins DEF TakeMarkets, NewGet, BatchInHand
<1>3. /\ MarketsTypeOK /\ from \in Nat /\ markets \in Seq(Ids) /\ batch \in Seq(Ids)
      /\ n \in Nat /\ n < MaxMarkets /\ PageSize \in Nat /\ MaxMarkets \in Nat
  BY <1>1, MarketBounds DEF MarketsInv, MarketsTypeOK
<1>4. /\ Parsed \in Seq(Ids) /\ Len(Parsed) \in Nat /\ Len(Found) = total
      /\ Range(Parsed) \subseteq Range(batch) /\ Range(Parsed) \subseteq Open
      /\ Range(Parsed) \subseteq 1..listed \union come
  BY <1>3, FoundType, FoundAmong
<1>5. /\ few \in Nat /\ few <= Len(Parsed) /\ n + few <= MaxMarkets
      /\ total < MaxMarkets => few = Len(Parsed)
  BY <1>3, <1>4 DEF Least
<1> HIDE DEF n, few
<1>6. taken \in Seq(Ids) /\ Len(taken) = few /\ Range(taken) \subseteq Range(Parsed)
  <2>1. taken \in Seq(Ids) /\ Len(taken) = few /\ \A i \in 1..few : taken[i] = Parsed[i]
    BY <1>4, <1>5
  <2>2. \A i \in 1..few : i \in 1..Len(Parsed)
    BY <1>4, <1>5
  <2> QED
    BY <1>4, <2>1, <2>2 DEF Range
<1>7. few = Len(Parsed) => taken = Parsed
  BY <1>4
<1> HIDE DEF taken
<1>8. /\ markets' \in Seq(Ids) /\ Len(markets') = n + few
      /\ Range(markets') = Range(markets) \union Range(taken)
  BY <1>1, <1>3, <1>6, JoinedRange DEF n
<1>9. Open' = Open /\ AllObjects' = AllObjects
  BY <1>1 DEF Open, AllObjects
<1>10. from' \in Nat
  BY <1>1, <1>3
<1>11. reading' \in {"more", "end", "full"}
  BY <1>1 DEF Reading
<1>12. MarketsTypeOK'
  <2>1. (gone \union Range(markets) \union (Range(batch) \ {Junk}) \subseteq 1..listed \union come)'
    BY <1>1, <1>3, <1>4, <1>6, <1>8 DEF MarketsTypeOK
  <2>2. Range(markets') \subseteq Open'
    BY <1>3, <1>4, <1>6, <1>8, <1>9 DEF MarketsTypeOK
  <2> QED
    BY <1>1, <1>3, <1>8, <1>10, <1>11, <2>1, <2>2 DEF MarketsTypeOK, Moves
<1>13. Len(markets') <= MaxMarkets
  BY <1>5, <1>8
<1>14. CASE total >= MaxMarkets
  <2>1. reading' = "full"
    BY <1>1, <1>14 DEF Reading
  <2> QED
    BY <1>2, <1>12, <1>13, <2>1 DEF MarketsInv
<1>15. CASE ~(total >= MaxMarkets)
  <2>1. total < MaxMarkets
    BY <1>3, <1>4, <1>15 DEF n
  <2>2. markets' = Found
    BY <1>1, <1>5, <1>7, <2>1 DEF Found
  <2>3. Len(markets') < MaxMarkets
    BY <1>4, <2>1, <2>2
  <2>4. reading' = IF Len(batch) < PageSize THEN "end" ELSE "more"
    BY <1>1, <1>15 DEF Reading
  <2>5. /\ Len(batch) <= PageSize
        /\ FewMissed(Above(catalogue, from + Len(batch)), Found)
        /\ Repeats(Found) <= Cardinality(come)
        /\ Len(batch) = PageSize => FewAgain(Below(catalogue, from + Len(batch)), Found)
        /\ Len(batch) < PageSize /\ AllObjects => FewMissed(Range(catalogue), Found)
    BY <1>1 DEF MarketsInv
  <2>6. (FewMissed(Above(catalogue, from), markets) /\ Repeats(markets) <= Cardinality(come))'
    BY <1>1, <1>9, <2>2, <2>5 DEF FewMissed, Missed, Repeats
  <2>7. (reading = "more" => FewAgain(Below(catalogue, from), markets))'
    <3> SUFFICES ASSUME reading' = "more" PROVE FewAgain(Below(catalogue, from), markets)'
      OBVIOUS
    <3>1. ~(Len(batch) < PageSize)
      BY <2>4
    <3>2. Len(batch) = PageSize
      BY <1>3, <2>5, <3>1
    <3> QED
      BY <1>1, <2>2, <2>5, <3>2 DEF FewAgain, Repeats
  <2>8. (reading = "end" /\ AllObjects => FewMissed(Range(catalogue), markets))'
    <3> SUFFICES ASSUME reading' = "end", AllObjects PROVE FewMissed(Range(catalogue), markets)'
      BY <1>9
    <3>1. Len(batch) < PageSize
      BY <2>4
    <3> QED
      BY <1>1, <1>9, <2>2, <2>5, <3>1 DEF FewMissed, Missed
  <2> QED
    BY <1>2, <1>12, <1>13, <2>3, <2>6, <2>7, <2>8 DEF MarketsInv
<1> QED
  BY <1>14, <1>15

\* A reading that fails has what it had.
LEMMA RaiseMarketsKeeps == MarketsInv /\ RaiseMarkets => MarketsInv'
<1> SUFFICES ASSUME MarketsInv, RaiseMarkets PROVE MarketsInv'
  OBVIOUS
<1>1. /\ reading = "more" /\ reading' = "failed" /\ UNCHANGED getVars
      /\ from' = from /\ markets' = markets /\ batch' = batch /\ catalogue' = catalogue
      /\ listed' = listed /\ kind' = kind /\ gone' = gone /\ come' = come /\ garbled' = garbled
  BY DEF RaiseMarkets, apiVars
<1>2. GetInv' /\ ~BatchInHand'
  BY <1>1, CallStays DEF MarketsInv, BatchInHand
<1>3. Open' = Open
  BY <1>1 DEF Open
<1>4. MarketsTypeOK'
  BY <1>1, <1>3 DEF MarketsInv, MarketsTypeOK, Moves
<1>5. (FewMissed(Above(catalogue, from), markets) /\ Repeats(markets) <= Cardinality(come))'
  BY <1>1, <1>3 DEF MarketsInv, FewMissed, Missed, Repeats
<1> QED
  BY <1>1, <1>2, <1>4, <1>5 DEF MarketsInv

\* Without a step, nothing of the reading changes.
LEMMA MarketsStay == MarketsInv /\ UNCHANGED <<getVars, marketVars>> => MarketsInv'
<1> SUFFICES ASSUME MarketsInv, UNCHANGED <<getVars, marketVars>> PROVE MarketsInv'
  OBVIOUS
<1>1. /\ reading' = reading /\ UNCHANGED getVars
      /\ from' = from /\ markets' = markets /\ batch' = batch /\ catalogue' = catalogue
      /\ listed' = listed /\ kind' = kind /\ gone' = gone /\ come' = come /\ garbled' = garbled
  BY DEF marketVars, readerVars, apiVars
<1>2. GetInv' /\ BatchInHand' = BatchInHand
  BY <1>1, CallStays DEF MarketsInv, BatchInHand, getVars
<1>3. Open' = Open /\ AllObjects' = AllObjects /\ Found' = Found
  BY <1>1 DEF Open, AllObjects, Found, Parsed
<1>4. MarketsTypeOK'
  BY <1>1, <1>3 DEF MarketsInv, MarketsTypeOK, Moves
<1> QED
  BY <1>1, <1>2, <1>3, <1>4 DEF MarketsInv, FewMissed, Missed, FewAgain, Repeats

\* What the invariant says of what was passed over, and yielded twice.
LEMMA MarketsJoined == MarketsInv => MarketsJoin
<1> SUFFICES ASSUME MarketsInv, reading # "full"
             PROVE  /\ ~garbled =>
                         Cardinality({m \in PassedOver : kind[m] = "market"}) <= Cardinality(gone)
                    /\ Len(markets) - Cardinality(Yielded) <= Cardinality(come)
  BY DEF MarketsJoin
<1>1. catalogue \in Seq(Ids) /\ from \in Nat
  BY DEF MarketsInv, MarketsTypeOK
<1>2. Above(catalogue, from) \subseteq Ids
  BY <1>1, AboveBelow
<1>3. {m \in PassedOver : kind[m] = "market"} = Missed(Above(catalogue, from), markets)
  BY <1>2 DEF PassedOver, Yielded, Missed, Open
<1> QED
  BY <1>3 DEF MarketsInv, FewMissed, Repeats, Yielded

\* What the invariant says of a reading that ended by itself.
LEMMA MarketsAll == MarketsInv => MarketsComplete
<1> SUFFICES ASSUME MarketsInv PROVE MarketsComplete
  OBVIOUS
<1>1. Len(markets) <= MaxMarkets /\ \A m \in Yielded : kind[m] = "market"
  BY DEF MarketsInv, MarketsTypeOK, Yielded, Open
<1>2. ASSUME reading = "end", ~garbled, AllObjects
      PROVE  Cardinality({m \in 1..listed : kind[m] = "market"} \ (Yielded \union gone)) <= Cardinality(gone)
  <2> DEFINE L == {m \in 1..listed : kind[m] = "market"} \ (Yielded \union gone)
             M == Missed(Range(catalogue), markets)
  <2>1. MarketsTypeOK /\ Cardinality(M) <= Cardinality(gone)
    BY <1>2 DEF MarketsInv, FewMissed
  <2>2. IsFiniteSet(Range(catalogue)) /\ Cardinality(gone) \in Nat /\ Cardinality(come) \in Nat
        /\ Range(catalogue) \subseteq Ids /\ listed \in Nat
    BY <2>1, MarketsFinite
  <2>3. L \subseteq M
    <3>1. Range(catalogue) = (1..listed \union come) \ gone /\ come = (listed + 1)..(listed + Cardinality(come))
      BY <2>1 DEF MarketsTypeOK
    <3> DEFINE k == Cardinality(come)
    <3>2. k \in Nat /\ come = (listed + 1)..(listed + k)
      BY <2>2, <3>1
    <3> HIDE DEF k
    <3>3. \A m \in 1..listed : m \notin come
      BY <2>2, <3>2
    <3> QED
      BY <2>2, <3>1, <3>3 DEF Missed, Open, Yielded
  <2>4. IsFiniteSet(M)
    BY <2>2, FS_Subset DEF Missed
  <2> HIDE DEF L, M
  <2>5. Cardinality(L) <= Cardinality(M) /\ IsFiniteSet(L)
    BY <2>3, <2>4, FS_Subset
  <2>6. Cardinality(L) \in Nat /\ Cardinality(M) \in Nat
    BY <2>4, <2>5, FS_CardinalityType
  <2>7. Cardinality(L) <= Cardinality(gone)
    BY <2>1, <2>2, <2>5, <2>6
  <2> QED
    BY <2>7 DEF L
<1> QED
  BY <1>1, <1>2 DEF MarketsComplete, AllObjects

(***************************************************************************)
(* The invariant of a reading of the markets (iter_markets over get_json). *)
(***************************************************************************)
THEOREM MarketsInvariant == SpecMarkets => []MarketsInv
<1>1. InitGet /\ InitMarkets => MarketsInv
  BY MarketsStart
<1>2. MarketsInv /\ [NextMarkets]_<<getVars, marketVars>> => MarketsInv'
  BY RequestMarketsKeeps, TakeMarketsKeeps, RaiseMarketsKeeps, CloseKeeps, ListKeeps, MarketsStay
     DEF NextMarkets
<1> QED
  BY <1>1, <1>2, PTL DEF SpecMarkets

(***************************************************************************)
(* No more markets are passed over than left the list under the reader,    *)
(* if every body was a list, and no more yielded twice than came into it   *)
(* (iter_markets).                                                         *)
(***************************************************************************)
THEOREM MarketsAlwaysJoin == SpecMarkets => []MarketsJoin
<1> QED
  BY MarketsJoined, MarketsInvariant, PTL

(***************************************************************************)
(* A reading of the markets that ends by itself lacks no more of those     *)
(* that stayed than left meanwhile, if every body was a list and every     *)
(* row an object; it never yields what is no market, nor more than asked   *)
(* for (iter_markets).                                                     *)
(***************************************************************************)
THEOREM MarketsAlwaysComplete == SpecMarkets => []MarketsComplete
<1> QED
  BY MarketsAll, MarketsInvariant, PTL
=============================================================================
