------------------------------ MODULE HttpGet ------------------------------
(***************************************************************************)
(* One HttpClient.get_json: a GET that is retried while its failures are   *)
(* transient.  Every request of the Polymarket clients goes through it.    *)
(* `answers` is what the server answered, kept for the properties; the     *)
(* code keeps the last transient failure only.                             *)
(***************************************************************************)
EXTENDS Integers, Sequences, SequencesExt

CONSTANTS
  MaxRetries,      \* max_retries as given, any integer
  BackoffBase, BackoffCap     \* in ticks

ASSUME HttpAssumption ==
  MaxRetries \in Int /\ BackoffBase \in Nat /\ BackoffCap \in Nat

Statuses == {200, 301, 404, 429, 500, 501}

\* A negative max_retries is taken as 0.
Retries == IF MaxRetries < 0 THEN 0 ELSE MaxRetries

RetryStatuses == {429, 500, 502, 503, 504}

(***************************************************************************)
(* An answer: no response, or a status with a body that may not be JSON;   *)
(* only the body of a 200 is ever decoded.                                 *)
(***************************************************************************)
Answers == {[kind |-> "timeout"], [kind |-> "transport"],
            [kind |-> "response", status |-> 200, json |-> FALSE]}
             \union {[kind |-> "response", status |-> s, json |-> TRUE] : s \in Statuses}

VARIABLES
  attempt,     \* requests made
  place,       \* "send", "wait" (for the answer), "sleep", "done"
  last,        \* the last transient failure: a status, or 0 for none at all
  result,      \* what get_json returns or raises
  answers,     \* history: the answers received
  delays       \* history: the sleeps before the next request, less their jitter

getVars == <<attempt, place, last, result, answers, delays>>

InitGet ==
  /\ attempt = 0 /\ place = "send" /\ last = 0 /\ result = "none"
  /\ answers = <<>> /\ delays = <<>>

\* The next call starts from nothing.
NewGet ==
  /\ attempt' = 0 /\ place' = "send" /\ last' = 0 /\ result' = "none"
  /\ answers' = <<>> /\ delays' = <<>>

Send ==
  /\ place = "send"
  /\ place' = "wait"
  /\ attempt' = attempt + 1
  /\ UNCHANGED <<last, result, answers, delays>>

Transient(a) == a.kind = "response" => a.status \in RetryStatuses

\* What a definitive answer makes of the call.
Verdict(a) ==
  IF a.status = 404 THEN "NotFoundError"
  ELSE IF a.status \in 200..299 /\ a.json THEN "value"
  ELSE "HttpError"

\* Mutant: throttling at any attempt makes the failure a RateLimitError.
Exhausted_EverThrottled(status) ==
  IF \E i \in DOMAIN answers : answers[i].kind = "response" /\ answers[i].status = 429
    THEN "RateLimitError" ELSE "HttpError"

Exhausted(status) == IF status = 429 THEN "RateLimitError" ELSE "HttpError"

Finish(outcome) == place' = "done" /\ result' = outcome

\* Mutant: one retry more than allowed.
LastAttempt_OffByOne == attempt > Retries + 1

LastAttempt == attempt > Retries

Answer(a) ==
  /\ place = "wait"
  /\ answers' = Append(answers, a)
  /\ IF ~Transient(a)
       THEN Finish(Verdict(a)) /\ UNCHANGED last
       ELSE /\ last' = IF a.kind = "response" THEN a.status ELSE 0
            /\ IF LastAttempt THEN Finish(Exhausted(last'))
               ELSE place' = "sleep" /\ UNCHANGED result
  /\ UNCHANGED <<attempt, delays>>

Delay(k) ==
  IF BackoffBase * 2^k < BackoffCap THEN BackoffBase * 2^k ELSE BackoffCap

Sleep ==
  /\ place = "sleep"
  /\ place' = "send"
  /\ delays' = Append(delays, Delay(attempt - 1))
  /\ UNCHANGED <<attempt, last, result, answers>>

NextGet == Send \/ (\E a \in Answers : Answer(a)) \/ Sleep

-----------------------------------------------------------------------------
(***************************************************************************)
(* No retry storm: a settled answer ends the call, at most max_retries + 1 *)
(* requests are made, and every one but the first is paid for with a sleep.*)
(***************************************************************************)
BoundedRetries ==
  /\ attempt <= Retries + 1
  /\ \A i \in DOMAIN answers :
       answers[i].kind = "response" /\ answers[i].status \in 200..499 \ {429} =>
         i = Len(answers) /\ place = "done"
  /\ attempt > 0 => Len(delays) \in {attempt - 1, attempt}

(***************************************************************************)
(* The outcome by the history of answers alone (the contract in the        *)
(* docstring of get_json): a value only from a response, NotFoundError     *)
(* only from a 404, RateLimitError exactly when throttling outlives the    *)
(* retries.                                                                *)
(***************************************************************************)
OutcomeExplained ==
  place = "done" =>
    LET a == answers[Len(answers)]
        responded == a.kind = "response"
    IN  /\ result = "value" <=> responded /\ a.status = 200 /\ a.json
        /\ result = "NotFoundError" <=> responded /\ a.status = 404
        /\ result = "RateLimitError" <=> responded /\ a.status = 429
        /\ result = "RateLimitError" => Len(answers) = Retries + 1

-----------------------------------------------------------------------------
\* What the transient failure of the last attempt ends the call with.
Status(a) == IF a.kind = "response" THEN a.status ELSE 0

Settled(a) == IF Transient(a) THEN Exhausted(Status(a)) ELSE Verdict(a)

\* Where a call is tells how many requests, answers and sleeps it has behind it.
Counted ==
  \/ place = "send" /\ attempt \in 0..Retries
       /\ Len(answers) = attempt /\ Len(delays) = attempt
  \/ place = "wait" /\ attempt \in 1..(Retries + 1)
       /\ Len(answers) = attempt - 1 /\ Len(delays) = attempt - 1
  \/ place = "sleep" /\ attempt \in 1..Retries
       /\ Len(answers) = attempt /\ Len(delays) = attempt - 1
  \/ place = "done" /\ attempt \in 1..(Retries + 1)
       /\ Len(answers) = attempt /\ Len(delays) = attempt - 1

(***************************************************************************)
(* The inductive invariant of a call: it goes on as long as all answers    *)
(* are transient, and the last one settles it.                             *)
(***************************************************************************)
GetInv ==
  /\ answers \in Seq(Answers)
  /\ delays \in Seq({Delay(k) : k \in 0..Retries})
  /\ Counted
  /\ \A i \in DOMAIN answers : place # "done" \/ i < attempt => Transient(answers[i])
  /\ place = "done" =>
       /\ result = Settled(answers[attempt])
       /\ Transient(answers[attempt]) => attempt = Retries + 1
=============================================================================
