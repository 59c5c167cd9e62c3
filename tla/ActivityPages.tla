--------------------------- MODULE ActivityPages ---------------------------
(***************************************************************************)
(* DataClient.iter_activity: the activity of a wallet, newest first, read  *)
(* in pages by offset, each page by one get_json.  Activities go on        *)
(* being published meanwhile, and the feed sorts them by timestamp, so     *)
(* that a late one may appear below others.  A row that is no object is    *)
(* dropped before the rows of a page are counted, and a body that is no    *)
(* list of rows counts as an empty page.                                   *)
(***************************************************************************)
EXTENDS HttpGet, FiniteSets

CONSTANTS
  MaxPage,         \* _MAX_PAGE
  MaxRecords,      \* max_records, of iter_activity
  MaxInitial,      \* bound: activities in the feed when the reading starts
  MaxInserts       \* bound: activities published while it lasts

ASSUME PagesAssumption ==
  {MaxPage, MaxRecords} \subseteq Nat \ {0} /\ {MaxInitial, MaxInserts} \subseteq Nat

VARIABLES
  feed,        \* the activities, newest first; 1..initial are the first ones
  initial,     \* how many there are at the start
  odd,         \* those of them whose row is no object
  rows,        \* the page in hand
  offset,
  seen,        \* the activities yielded
  yielded,     \* how many times one was
  inserted,    \* history: those published since the first page
  misread,     \* history: whether a body in place of a page was no list
  outcome      \* "reading", "exhausted", "full", "failed"

pageVars == <<rows, offset, seen, yielded, misread, outcome>>
feedVars == <<feed, initial, odd, inserted>>
activityVars == <<pageVars, feedVars>>

InitActivity ==
  /\ initial \in 0..MaxInitial
  /\ feed = [i \in 1..initial |-> i]
  /\ odd \in {{}} \union {{a} : a \in 1..initial}
  /\ rows = <<>> /\ offset = 0 /\ seen = {} /\ yielded = 0 /\ inserted = {}
  /\ misread = FALSE /\ outcome = "reading"

Few(m, n) == IF m <= n THEN m ELSE n

\* The page asked for.
Limit == Few(MaxPage, MaxRecords - yielded)

\* What the API answers: `Limit` rows from `offset` on, as of now.
Page == SubSeq(feed, offset + 1, Few(offset + Limit, Len(feed)))

\* What _as_list makes of a body: a list of rows, bare or under "data", is the
\* page; JSON of any other shape is no row at all.
Bodies == {Page, <<>>}

\* A step of the request; a value carries the page of its moment.
RequestPage ==
  /\ outcome = "reading"
  /\ NextGet
  /\ rows' \in IF result' = "value" THEN Bodies ELSE {rows}
  /\ misread' = (misread \/ (result' = "value" /\ rows' # Page))
  /\ UNCHANGED <<offset, seen, yielded, outcome, feedVars>>

\* The rows _as_list keeps, as a set: no page has an activity twice.
Objects == Range(rows) \ odd
Count == Cardinality(Objects)

\* An empty or a short page is the last.
Outcome(total) ==
  IF total >= MaxRecords THEN "full"
  ELSE IF Count < Limit THEN "exhausted" ELSE "reading"

\* Mutant: the next page starts one activity too late.
NextOffset_PastTheEnd == offset + Count + 1

\* Mutant: the next page starts with the last activity of this one.
NextOffset_Overlap == IF Count > 1 THEN offset + Count - 1 ELSE offset + Count

NextOffset == offset + Count

Returned == outcome = "reading" /\ place = "done"

TakePage ==
  /\ Returned /\ result = "value"
  /\ seen' = seen \union Objects
  /\ yielded' = yielded + Count
  /\ offset' = NextOffset
  /\ outcome' = Outcome(yielded')
  /\ NewGet
  /\ UNCHANGED <<rows, misread, feedVars>>

\* Mutant: what was read so far passes for everything.
Failure_Swallowed == "exhausted"

\* Mutant: a page that failed is asked for again.
Failure_Ignored == "reading"

\* The exception of get_json is the caller's.
Failure == "failed"

Raise ==
  /\ Returned /\ result # "value"
  /\ outcome' = Failure
  /\ UNCHANGED <<getVars, rows, offset, seen, yielded, misread, feedVars>>

\* An activity is published, below the ones with a later timestamp.
Publish ==
  /\ outcome = "reading" /\ Len(feed) < initial + MaxInserts
  /\ LET new == Len(feed) + 1
     IN  /\ \E at \in 1..new : feed' = InsertAt(feed, at, new)
         /\ inserted' = IF seen = {} /\ rows = <<>> THEN inserted
                        ELSE inserted \union {new}
  /\ UNCHANGED <<getVars, pageVars, initial, odd>>

NextActivity == RequestPage \/ TakePage \/ Raise \/ Publish

SpecActivity == InitGet /\ InitActivity /\ [][NextActivity]_<<getVars, activityVars>>

-----------------------------------------------------------------------------
(***************************************************************************)
(* Pages join: of the activities there were at the start, none is passed   *)
(* over on the way to an older one, and never more are yielded than were   *)
(* asked for (iter_activity).                                              *)
(***************************************************************************)
PagesJoin ==
  /\ \A i, j \in DOMAIN feed :
       i < j /\ feed[j] \in seen => feed[i] \in seen \union inserted \union odd
  /\ yielded <= MaxRecords

\* An activity is read again only as others are published above it.
RepeatsAreNews == yielded - Cardinality(seen) <= Cardinality(inserted)

(***************************************************************************)
(* "partial retrieval is explicit": a reading that ends by itself has      *)
(* every activity there was at the start, and a failed page raises; but    *)
(* only if every row was an object and every body a list of rows, since    *)
(* _as_list drops the one and takes the other for an empty, last page.     *)
(***************************************************************************)
NothingLost ==
  outcome = "exhausted" /\ odd = {} /\ ~misread => 1..initial \subseteq seen

-----------------------------------------------------------------------------
InHand == outcome = "reading" /\ place = "done" /\ result = "value"

Read == IF InHand THEN seen \union Range(rows) ELSE seen

PagesTypeOK ==
  /\ initial \in Nat /\ yielded \in Nat /\ offset \in Nat
  /\ feed \in Seq(Nat) /\ rows \in Seq(Nat)
  /\ Range(feed) = 1..Len(feed)
  /\ \A i, j \in DOMAIN feed : feed[i] = feed[j] => i = j
  /\ initial <= Len(feed) /\ odd \subseteq 1..initial
  /\ Read \subseteq 1..Len(feed)
  /\ inserted \subseteq (initial + 1)..Len(feed) /\ misread \in BOOLEAN
  /\ outcome \in {"reading", "exhausted", "full", "failed"}

(***************************************************************************)
(* The inductive invariant of a reading.  Up to the offset, and with a     *)
(* page in hand up to its end, the feed is read, or news; what is above an *)
(* activity read is, too; a short page in hand is the rest, if it is a     *)
(* page.  A row that is no object is in no page but the last.              *)
(***************************************************************************)
Passed == offset + (IF InHand THEN Len(rows) ELSE 0)

PagesInv ==
  /\ PagesTypeOK /\ GetInv
  /\ offset = yielded /\ (seen = {} => yielded = 0)
  /\ outcome = "reading" =>
       /\ yielded < MaxRecords /\ Passed <= Len(feed)
       /\ \A i \in 1..Passed : feed[i] \in Read \union inserted
       /\ \A i, j \in DOMAIN feed : i < j /\ feed[j] \in Read => feed[i] \in Read \union inserted
  /\ InHand =>
       /\ Len(rows) <= Limit
       /\ \A i, j \in DOMAIN rows : rows[i] = rows[j] => i = j
       /\ Len(rows) < Limit /\ ~misread => 1..initial \subseteq Read
  /\ PagesJoin /\ RepeatsAreNews /\ NothingLost
=============================================================================
