---------------------------- MODULE MarketPages ----------------------------
(***************************************************************************)
(* GammaClient.iter_markets: the open markets, read in pages of one size   *)
(* by the offset of their raw rows.  A market that closes leaves the list  *)
(* and moves the ones after it up by one, under the reader; new ones are   *)
(* listed anywhere.  A row is a market, an object that is none (no aligned *)
(* tokens: DataError), or no object at all.  A body that is an object but  *)
(* no list of rows counts as one row, and any other one as an empty page.  *)
(***************************************************************************)
EXTENDS HttpGet, Rows, FiniteSets

CONSTANTS
  PageSize,        \* page_size, at most _MAX_PAGE
  MaxMarkets,      \* max_markets, of iter_markets
  MaxListed,       \* bound: rows when the reading starts
  MaxMoves         \* bound: rows that leave or come while it lasts

ASSUME MarketPagesAssumption ==
  {PageSize, MaxMarkets} \subseteq Nat \ {0} /\ {MaxListed, MaxMoves} \subseteq Nat

\* 0 is the row made of a body that is no list.
Junk == 0
Ids == Junk..(MaxListed + MaxMoves)
Kinds == {"market", "malformed", "other"}

VARIABLES
  catalogue,   \* the rows of the API, in its order
  listed,      \* 1..listed were there at the start
  kind,        \* [Ids -> Kinds]
  batch,       \* the page in hand
  from,        \* offset
  markets,     \* the markets yielded, in order
  gone, come,  \* history: rows that left or came since the start
  garbled,     \* history: whether a body in place of a page was no list
  reading      \* "more", "end", "full", "failed"

readerVars == <<batch, from, markets, garbled, reading>>
apiVars == <<catalogue, listed, kind, gone, come>>
marketVars == <<readerVars, apiVars>>

InitMarkets ==
  /\ listed \in 0..MaxListed
  /\ catalogue = [i \in 1..listed |-> i]
  /\ \E k \in {"malformed", "other"}, bad \in SUBSET (1..listed) :
       /\ Cardinality(bad) <= 1
       /\ kind = [i \in Ids |-> IF i = Junk THEN "malformed"
                               ELSE IF i \in bad THEN k ELSE "market"]
  /\ batch = <<>> /\ from = 0 /\ markets = <<>> /\ gone = {} /\ come = {}
  /\ garbled = FALSE /\ reading = "more"

Least(m, n) == IF m <= n THEN m ELSE n

Open == {i \in Ids : kind[i] = "market"}

\* What the API answers as of now; _as_list keeps the objects.
Batch ==
  Select(SubSeq(catalogue, from + 1, Least(from + PageSize, Len(catalogue))),
         {i \in Ids : kind[i] # "other"})

\* What _as_list makes of a body: a list, bare or under "data", is the page;
\* another object is a row by itself, and other JSON is no row.
Pages == {Batch, <<Junk>>, <<>>}

RequestMarkets ==
  /\ reading = "more"
  /\ NextGet
  /\ batch' \in IF result' = "value" THEN Pages ELSE {batch}
  /\ garbled' = (garbled \/ (result' = "value" /\ batch' # Batch))
  /\ UNCHANGED <<from, markets, reading, apiVars>>

\* The markets of the page: a malformed one does not abort it.
Parsed == Select(batch, Open)

\* Mutant: a malformed row makes a page short.
Reading_ByMarkets(total) ==
  IF total >= MaxMarkets THEN "full"
  ELSE IF Len(Parsed) < PageSize THEN "end" ELSE "more"

\* No more are yielded than asked for; an empty or a short page is the last.
Reading(total) ==
  IF total >= MaxMarkets THEN "full"
  ELSE IF Len(batch) < PageSize THEN "end" ELSE "more"

\* Mutant: only the markets yielded move the offset, not the rows read.
NextFrom_Parsed == from + Len(Parsed)

NextFrom == from + Len(batch)

TakeMarkets ==
  /\ reading = "more" /\ place = "done" /\ result = "value"
  /\ markets' = markets \o SubSeq(Parsed, 1, Least(Len(Parsed), MaxMarkets - Len(markets)))
  /\ reading' = Reading(Len(markets) + Len(Parsed))
  /\ from' = NextFrom
  /\ NewGet
  /\ UNCHANGED <<batch, garbled, apiVars>>

RaiseMarkets ==
  /\ reading = "more" /\ place = "done" /\ result # "value"
  /\ reading' = "failed"
  /\ UNCHANGED <<getVars, batch, from, markets, garbled, apiVars>>

Moves == Cardinality(gone) + Cardinality(come)

\* A market closes, and is no longer among the open ones.
Close ==
  /\ reading = "more" /\ Moves < MaxMoves
  /\ \E at \in DOMAIN catalogue :
       /\ gone' = gone \union {catalogue[at]}
       /\ catalogue' = RemoveAt(catalogue, at)
  /\ UNCHANGED <<getVars, readerVars, listed, kind, come>>

\* A market is listed.
List ==
  /\ reading = "more" /\ Moves < MaxMoves
  /\ LET new == listed + Cardinality(come) + 1
     IN  /\ come' = come \union {new}
         /\ \E at \in 1..(Len(catalogue) + 1) : catalogue' = InsertAt(catalogue, at, new)
  /\ UNCHANGED <<getVars, readerVars, listed, kind, gone>>

NextMarkets == RequestMarkets \/ TakeMarkets \/ RaiseMarkets \/ Close \/ List

SpecMarkets == InitGet /\ InitMarkets /\ [][NextMarkets]_<<getVars, marketVars>>

-----------------------------------------------------------------------------
Yielded == Range(markets)

\* The rows of a list up to the p-th, and those after it.
Above(list, p) == {list[i] : i \in 1..Least(p, Len(list))}
Below(list, p) == {list[i] : i \in (p + 1)..Len(list)}

\* Markets there all along that the reader has passed without reading them.
PassedOver == Above(catalogue, from) \ (Yielded \union come)

(***************************************************************************)
(* A market that stays open is passed over only as another one left, or as *)
(* a body was no list, and is yielded twice only as another one came:      *)
(* offsets count the rows read, also those that were no market             *)
(* (iter_markets).                                                         *)
(***************************************************************************)
MarketsJoin ==
  reading # "full" =>
    /\ ~garbled =>
         Cardinality({m \in PassedOver : kind[m] = "market"}) <= Cardinality(gone)
    /\ Len(markets) - Cardinality(Yielded) <= Cardinality(come)

(***************************************************************************)
(* Only markets are yielded, as many as asked for at most, and a reading   *)
(* that ends by itself has all that stayed open but as many as left.  Not  *)
(* so with a row that is no object, or a body that is no list: they make a *)
(* page short, and end the reading early.                                  *)
(***************************************************************************)
MarketsComplete ==
  /\ Len(markets) <= MaxMarkets /\ \A m \in Yielded : kind[m] = "market"
  /\ reading = "end" /\ ~garbled /\ (\A i \in Ids : kind[i] # "other") =>
       Cardinality({m \in 1..listed : kind[m] = "market"} \ (Yielded \union gone))
         <= Cardinality(gone)

-----------------------------------------------------------------------------
BatchInHand == reading = "more" /\ place = "done" /\ result = "value"

\* The markets yielded, with those of the page in hand.
Found == markets \o Parsed

\* Markets among the rows that are neither found in f nor new.
Missed(rows, f) == (Open \intersect rows) \ (Range(f) \union come)

Repeats(f) == Len(f) - Cardinality(Range(f))

FewMissed(rows, f) == garbled \/ Cardinality(Missed(rows, f)) <= Cardinality(gone)

\* With the rows that f has already, and may have again.
FewAgain(rows, f) ==
  Repeats(f) + Cardinality(rows \intersect Range(f)) <= Cardinality(come)

MarketsTypeOK ==
  /\ listed \in 0..MaxListed /\ kind \in [Ids -> Kinds] /\ kind[Junk] = "malformed"
  /\ from \in Nat /\ garbled \in BOOLEAN
  /\ catalogue \in Seq(Ids) /\ batch \in Seq(Ids) /\ markets \in Seq(Ids)
  /\ \A i, j \in DOMAIN catalogue : catalogue[i] = catalogue[j] => i = j
  /\ gone \subseteq Ids /\ Moves <= MaxMoves
  /\ IsFiniteSet(come) /\ come = (listed + 1)..(listed + Cardinality(come))
  /\ Range(catalogue) = (1..listed \union come) \ gone
  /\ gone \union Range(markets) \union (Range(batch) \ {Junk}) \subseteq 1..listed \union come
  /\ Range(markets) \subseteq Open
  /\ reading \in {"more", "end", "full", "failed"}

AllObjects == \A i \in Ids : kind[i] # "other"

(***************************************************************************)
(* The inductive invariant of a reading of the markets.  A market slips    *)
(* past the offset only as a row above it leaves, and one found falls back *)
(* below it only as a row comes: both hold of the offset and what was      *)
(* yielded, and of a page in hand as if it were taken, as long as pages    *)
(* were lists.  A short page in hand may have left out a row that is no    *)
(* object, and then it is the last.                                        *)
(***************************************************************************)
MarketsInv ==
  /\ MarketsTypeOK /\ GetInv /\ Len(markets) <= MaxMarkets
  /\ reading # "full" =>
       FewMissed(Above(catalogue, from), markets) /\ Repeats(markets) <= Cardinality(come)
  /\ reading = "more" => Len(markets) < MaxMarkets /\ FewAgain(Below(catalogue, from), markets)
  /\ BatchInHand =>
       /\ Len(batch) <= PageSize
       /\ FewMissed(Above(catalogue, from + Len(batch)), Found)
       /\ Repeats(Found) <= Cardinality(come)
       /\ Len(batch) = PageSize => FewAgain(Below(catalogue, from + Len(batch)), Found)
       /\ Len(batch) < PageSize /\ AllObjects => FewMissed(Range(catalogue), Found)
  /\ reading = "end" /\ AllObjects => FewMissed(Range(catalogue), markets)
=============================================================================
