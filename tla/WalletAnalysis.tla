--------------------------- MODULE WalletAnalysis ---------------------------
(***************************************************************************)
(* What the analyses make of the public activity of a wallet               *)
(* (analysis/wallet, analysis/cohort): counts by hour, weekday and bucket, *)
(* the share of a window of hours that someone claims, and wallets side by *)
(* side.                                                                   *)
(*                                                                         *)
(* An activity is [time, side, price, usdc, market], a field the API left  *)
(* out being None.  Prices and money are hundredths; a share is counted in *)
(* 1/10000 and a percentage in tenths, as the code rounds them.            *)
(***************************************************************************)
EXTENDS OrderBooks, Bags, FiniteSets

CONSTANTS
  TicksPerHour,    \* ticks of a timestamp
  OffsetHours,     \* utc_offset_hours
  TopN,            \* top_n
  None             \* no value

ASSUME WalletAssumption == TicksPerHour \in Nat \ {0} /\ OffsetHours \in Int /\ TopN \in Nat

Hour(t) == (t \div TicksPerHour) % 24

LocalHour(t) == (t \div TicksPerHour + OffsetHours) % 24

\* 0 is Monday; the epoch was a Thursday.
Weekday(t) == ((t \div TicksPerHour + OffsetHours) \div 24 + 3) % 7

Dated(items) == Select(items, {a \in Range(items) : a.time # None})

Side(items, side) == Cardinality({i \in DOMAIN items : items[i].side = side})

\* Counter.most_common: by count, the ones met first before their equals.
MostCommon(values, n) ==
  LET met == FoldLeft(LAMBDA d, v : IF Contains(d, v) THEN d ELSE Append(d, v), <<>>, values)
      count == ToBag(values)
      ranked == StableSort(met, [v \in Range(met) |-> 0 - count[v]])
  IN  [i \in 1..Smaller(n, Len(ranked)) |-> [value |-> ranked[i], count |-> count[ranked[i]]]]

\* The half-open buckets [edges[b], edges[b + 1]); 0 is none of them.
Bucket(amount, edges) ==
  LET fits == {b \in 1..(Len(edges) - 1) : edges[b] <= amount /\ amount < edges[b + 1]}
  IN  IF fits = {} THEN 0 ELSE CHOOSE b \in fits : TRUE

\* The last of _PRICE_BUCKETS ends just above 1.
PriceEdges == <<0, 10, 20, 30, 40, 50, 60, 70, 80, 90, 101>>

\* Of _NOTIONAL_BUCKETS; the last one ends at 1e30, more than any amount.
NotionalEdges == <<0, 1000, 5000, 10000, 50000, 100000, 2000000000>>

Filled(items, field, edges) ==
  [b \in 1..(Len(edges) - 1) |->
     Cardinality({i \in DOMAIN items :
                    items[i][field] # None /\ Bucket(items[i][field], edges) = b})]

\* What analyze_wallet cannot use, by the warning it gives.
Warnings(items) ==
  LET lacks(field) == \E i \in DOMAIN items : items[i][field] = None
  IN  {w \in {"time", "usdc", "price"} : lacks(w)}
        \union (IF Len(items) < 30 THEN {"small sample"} ELSE {})

AnalyzeWallet(items) ==
  LET dated == Dated(items)
      stamps == {dated[i].time : i \in DOMAIN dated}
  IN  [records    |-> Len(items),
       dated      |-> Len(dated),
       range      |-> IF dated = <<>> THEN None ELSE <<Min(stamps), Max(stamps)>>,
       hourUtc    |-> ToBag([i \in DOMAIN dated |-> Hour(dated[i].time)]),
       hourLocal  |-> ToBag([i \in DOMAIN dated |-> LocalHour(dated[i].time)]),
       weekday    |-> ToBag([i \in DOMAIN dated |-> Weekday(dated[i].time)]),
       buys       |-> Side(items, "BUY"),
       sells      |-> Side(items, "SELL"),
       others     |-> Len(items) - Side(items, "BUY") - Side(items, "SELL"),
       notional   |-> FoldLeft(LAMBDA n, a : IF a.usdc = None THEN n ELSE n + a.usdc, 0, items),
       markets    |-> MostCommon([i \in DOMAIN items |-> items[i].market], TopN),
       prices     |-> Filled(items, "price", PriceEdges),
       notionals  |-> Filled(items, "usdc", NotionalEdges),
       warnings   |-> Warnings(items)]

\* Mutant: a window past midnight is taken for one of a single day.
HourInWindow_SameDay(hour, start, end) == start <= hour /\ hour <= end

\* Both ends belong to the window, which may wrap past midnight.
HourInWindow(hour, start, end) ==
  IF start <= end THEN start <= hour /\ hour <= end ELSE start <= hour \/ hour <= end

InsideCount(analysis, start, end) ==
  SumFunctionOnSet(analysis.hourLocal,
                   {h \in DOMAIN analysis.hourLocal : HourInWindow(h, start, end)})

\* window_share, and the percentages of window_claim.
Share(inside, dated) == IF dated = 0 THEN 0 ELSE RoundHalfEven(10000 * inside, dated)

WindowClaim(analysis, start, end) ==
  LET inside == InsideCount(analysis, start, end)
      share == Share(inside, analysis.dated)
  IN  [inside |-> inside, outside |-> analysis.dated - inside, share |-> share,
       insidePct |-> RoundHalfEven(share, 10), outsidePct |-> RoundHalfEven(10000 - share, 10)]

\* parse_claim_window: 0..23 both, or ValueError.
ClaimWindows == (0..23) \X (0..23)

-----------------------------------------------------------------------------
\* Mutant: the share is of all records.
CohortShare_OfRecords(analysis, window) ==
  RoundHalfEven(10000 * InsideCount(analysis, window[1], window[2]), analysis.records)

CohortShare(analysis, window) ==
  RoundHalfEven(10000 * InsideCount(analysis, window[1], window[2]), analysis.dated)

\* A row of build_cohort; ratios of nothing are None.
CohortRow(analysis, window) ==
  [ratio |-> IF analysis.sells = 0 THEN None
             ELSE RoundHalfEven(10000 * analysis.buys, analysis.sells),
   topMarket |-> IF analysis.markets = <<>> THEN None ELSE analysis.markets[1].value,
   topShare  |-> IF analysis.markets = <<>> THEN None
                 ELSE RoundHalfEven(10000 * analysis.markets[1].count, analysis.records),
   windowShare |-> IF analysis.dated = 0 THEN None ELSE CohortShare(analysis, window)]

\* analyze-cohort: every wallet analysed, in the order of the command line.
Cohort(feeds, window) ==
  [i \in DOMAIN feeds |-> CohortRow(AnalyzeWallet(feeds[i]), window)]
=============================================================================
