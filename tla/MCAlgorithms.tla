---------------------------- MODULE MCAlgorithms ----------------------------
(***************************************************************************)
(* The pure algorithms on every small input: an order book's payload, the  *)
(* activity of a wallet, the hours of a larger one, a series of prices and *)
(* the markets of a scan.  One of them, the subject, grows step by step;   *)
(* the others stay empty.                                                  *)
(***************************************************************************)
EXTENDS MCOrderBooks, PatternDiscovery, MarketScan

CONSTANTS
  Activities,                                \* what the feed of a wallet may have
  Points,                                    \* what a series may have
  Log(_),                                    \* of a price that is positive
  LiveMarkets, OpenMarkets,                  \* what the two scans may find listed
  MaxFeed, MaxHourly, MaxTicks, MaxListed    \* bounds of the inputs

\* A price is one of a binary market, a time is not before the epoch.
IsActivity(a) ==
  /\ a.time # None => a.time \in Nat
  /\ a.price # None => a.price \in 0..100
  /\ a.usdc # None => a.usdc \in Nat /\ a.usdc < NotionalEdges[Len(NotionalEdges)]

\* A rank is a number, and a request fails or not.
IsMarket(m) ==
  /\ {"score", "fails"} \subseteq DOMAIN m
  /\ m.score \in Int /\ m.fails \in {"none", "market", "book", "price"}

ASSUME InputsAssumption ==
  /\ \A a \in Activities : IsActivity(a)
  /\ \A p \in Points : p.time \in Nat /\ p.price \in Nat
  /\ \A m, n \in {p.price : p \in Points} \ {0} :
       Log(m) \in Int /\ (Log(m) = Log(n) => m = n)
  /\ None \notin Int \X Int
  /\ \A m \in LiveMarkets \union OpenMarkets : IsMarket(m)
  /\ MaxListed \in Nat

\* utc_offset_hours of the runs, which wraps hours to the day before.
Eastern == -5

VARIABLES subject, feed, hours, points, listed

Series == INSTANCE PriceSeries

inputs == <<payload, feed, hours, points, listed>>

Empty ==
  /\ InitPayload
  /\ feed = <<>> /\ points = <<>> /\ listed = <<>>
  /\ hours = [h \in {9, 12} |-> 0]

Init == Empty /\ subject \in {"payload", "feed", "hours", "points", "live", "open"}

Activity(side, time, price, usdc, market) ==
  [side |-> side, time |-> time, price |-> price, usdc |-> usdc, market |-> market]

\* At 5 hours behind UTC, 19:00 on the day before, 1:00 (twice) and 23:30.
SomeActivities ==
  {Activity("BUY", 0, 5, 900, "m1"), Activity("BUY", 12, 50, 1000, "m1"),
   Activity("BUY", 12, 95, 7000, "m2"), Activity("BUY", 57, 50, None, "m2"),
   Activity("SELL", 9, 100, 60000, "m1"), Activity("OTHER", None, 20, 5000, "m1"),
   Activity("BUY", 57, None, 200000, "m1")}

\* Powers of two, of which a logarithm counts the doublings; 0 is a bad tick.
SomePoints == [time : 0..2, price : {0, 1, 2, 4}]
Doublings(price) == CHOOSE k \in 0..price : 2^k = price

SomeLiveMarkets ==
  {m \in [asset : {"BTC", "ETH", "SOL"}, trading : BOOLEAN,
          fails : {"none", "book", "price"}, opening : BOOLEAN, positive : BOOLEAN,
          score : 0..1] :
     /\ m.asset # "BTC" => m.positive /\ m.opening
     /\ m.asset = "SOL" \/ ~m.trading => m.fails = "none" /\ m.score = 1 /\ m.opening
     /\ m.fails # "none" => m.score = 1 /\ m.positive
     /\ m.score = 1 => m.opening}

SomeOpenMarkets ==
  {m \in [binary : BOOLEAN, accepting : BOOLEAN, fails : {"none", "book"}, score : 0..2,
          candidate : BOOLEAN] :
     /\ m.candidate => m.score > 0
     /\ ~(m.binary /\ m.accepting) \/ m.fails # "none" => m.score = 2 /\ m.candidate}

\* A market is listed under its own id.
UnderId(m, id) == [f \in DOMAIN m \union {"id"} |-> IF f = "id" THEN id ELSE m[f]]

List(m) == listed' = Append(listed, UnderId(m, Len(listed) + 1))

Next ==
  /\ \/ subject = "payload" /\ NextPayload /\ UNCHANGED <<feed, hours, points, listed>>
     \/ /\ subject = "feed" /\ Len(feed) < MaxFeed
        /\ \E a \in Activities : feed' = Append(feed, a)
        /\ UNCHANGED <<payload, hours, points, listed>>
     \/ /\ subject = "hours"
        /\ \E h \in DOMAIN hours : hours[h] < MaxHourly /\ hours' = [hours EXCEPT ![h] = @ + 1]
        /\ UNCHANGED <<payload, feed, points, listed>>
     \/ /\ subject = "points" /\ Len(points) < MaxTicks
        /\ \E p \in Points : points' = Append(points, p)
        /\ UNCHANGED <<payload, feed, hours, listed>>
     \/ /\ Len(listed) < MaxListed
        /\ \/ subject = "live" /\ \E m \in LiveMarkets : List(m)
           \/ subject = "open" /\ \E m \in OpenMarkets : List(m)
        /\ UNCHANGED <<payload, feed, hours, points>>
  /\ UNCHANGED subject

Spec == Init /\ [][Next]_<<inputs, subject>>

-----------------------------------------------------------------------------
analysis == AnalyzeWallet(feed)

\* Of an analysis of more trades, what it says of their hours.
tallied == [hourLocal |-> hours, dated |-> hours[9] + hours[12]]

Windows == {w \in ClaimWindows : w[1] \in {19, 22, 1} /\ w[2] \in {1, 3, 18}}

(***************************************************************************)
(* Every dated trade is in one hour and one weekday, and, of a window and  *)
(* the hours outside it, in one, also where either wraps past midnight;    *)
(* every priced one is in one bucket (wallet.analyze_wallet, window_share).*)
(***************************************************************************)
EveryTradeCountedOnce ==
  LET wallet == analysis IN
  /\ SumFunction(wallet.hourUtc) = wallet.dated
  /\ SumFunction(wallet.hourLocal) = wallet.dated
  /\ SumFunction(wallet.weekday) = wallet.dated
  /\ \A w \in Windows : (w[2] + 1) % 24 # w[1] =>
       InsideCount(wallet, w[1], w[2])
         + InsideCount(wallet, (w[2] + 1) % 24, (w[1] + 23) % 24) = wallet.dated
  /\ SumFunction(wallet.prices) = Cardinality({i \in DOMAIN feed : feed[i].price # None})
  /\ SumFunction(wallet.notionals) = Cardinality({i \in DOMAIN feed : feed[i].usdc # None})

(***************************************************************************)
(* The two percentages of a claim add up to 100.0, although each is        *)
(* rounded twice (wallet.window_claim).                                    *)
(***************************************************************************)
ClaimPercentagesAddUp ==
  subject = "hours" =>
    LET claim == WindowClaim(tallied, 9, 9)
    IN  claim.insidePct + claim.outsidePct = 1000

\* Of one wallet, what the busiest window and claims of three hours say.
IsBusiestClaim(wallet) ==
  LET busiest == BusiestWindow(wallet.hourLocal, wallet.dated)
      claim == WindowClaim(wallet, busiest.start, busiest.end)
  IN  wallet.dated > 0 =>
        /\ Distance(busiest.coverage, claim.insidePct) <= 1
        /\ \A s \in 0..23 : WindowClaim(wallet, s, (s + 2) % 24).inside <= claim.inside

(***************************************************************************)
(* The coverage of the busiest window is the percentage that claiming that *)
(* window would show, or a tenth of a percent beside it: the claim rounds  *)
(* its share a second time.  No claim of three hours, past midnight or     *)
(* not, counts more trades (reverse_engineer._busiest_window against       *)
(* wallet.window_claim).                                                   *)
(***************************************************************************)
BusiestWindowIsAClaim == IsBusiestClaim(analysis) /\ IsBusiestClaim(tallied)

(***************************************************************************)
(* A wallet's row in a cohort says of a window what its own analysis says  *)
(* (cohort.build_cohort against wallet.window_share).                      *)
(***************************************************************************)
CohortTellsTheSame ==
  LET wallet == analysis IN
  \A w \in Windows :
    LET share == Cohort(<<feed>>, w)[1].windowShare
    IN  IF wallet.dated = 0 THEN share = None
        ELSE share = WindowClaim(wallet, w[1], w[2]).share

\* A window covers the same trades whichever analysis speaks of it.
WindowsAgree == BusiestWindowIsAClaim /\ CohortTellsTheSame

segments == Segments(feed)

(***************************************************************************)
(* Patterns are found on purchases of which none is later than any of      *)
(* those they are judged on; the two halves are all of them, once, and as  *)
(* even as can be (reverse_engineer, "discovered on an earlier segment and *)
(* evaluated on a later one").                                             *)
(***************************************************************************)
SplitIsChronological ==
  LET early == segments.discovery
      late == segments.validation
      usable == Select(feed, {a \in Range(feed) : a.side = "BUY" /\ a.time # None /\ a.price # None})
  IN  /\ \A i \in DOMAIN early, j \in DOMAIN late : early[i].time <= late[j].time
      /\ Len(late) - Len(early) \in 0..1
      /\ Len(usable) >= 4 => ToBag(early \o late) = ToBag(usable)

(***************************************************************************)
(* What is found does not depend on what it is judged on: with a later     *)
(* purchase changed, the same patterns are found with the same support.    *)
(***************************************************************************)
PatternsIgnoreTheFuture ==
  LET found(items) == {[pattern |-> c.pattern, support |-> c.support, coverage |-> c.coverage] :
                         c \in Range(Candidates(items))}
      early == segments.discovery
      Later(a) == a.side = "BUY" /\ a.time # None /\ a.price # None
                    /\ a.time > early[Len(early)].time
  IN  early # <<>> =>
        \A i \in DOMAIN feed, a \in Activities :
          Later(feed[i]) /\ Later(a) => found([feed EXCEPT ![i] = a]) = found(feed)

\* Nothing of what a pattern is judged on has a part in finding it.
NoLookAhead == SplitIsChronological /\ PatternsIgnoreTheFuture

(***************************************************************************)
(* A pattern has no more purchases, in both halves together, than the      *)
(* analysis counts in the local hours of its band, nor than it counts in   *)
(* the finer price buckets its own bucket is made of                       *)
(* (reverse_engineer.key against the tables of wallet.analyze_wallet).     *)
(***************************************************************************)
PatternsAreInTheTables ==
  \A c \in Range(Candidates(feed)) :
    LET wallet == analysis
        start == c.pattern.band * Width
        finer == {b \in DOMAIN wallet.prices :
                    Bucket(PriceEdges[b], BandEdges) = c.pattern.bucket}
        purchases == c.support + c.validation
    IN  /\ purchases <= InsideCount(wallet, start, start + Width - 1)
        /\ purchases <= SumFunctionOnSet(wallet.prices, finer)

-----------------------------------------------------------------------------
history == Series!History(points)
prices == Series!Prices(history)

(***************************************************************************)
(* The drawdown is the worst fall from any price to a later one, and a     *)
(* total loss is never more than it (price_series).                        *)
(***************************************************************************)
FallsMeasured ==
  LET stats == Series!Summarize(history)
      Fall(i, j) == <<prices[i] - prices[j], prices[i]>>
      Falls == {f \in (DOMAIN prices) \X (DOMAIN prices) : f[1] <= f[2] /\ prices[f[1]] > 0}
  IN  prices # <<>> =>
        /\ \A f \in Falls : ~Series!Greater(Fall(f[1], f[2]), stats.maxDrawdown)
        /\ \/ stats.maxDrawdown[1] = 0
           \/ \E f \in Falls : Fall(f[1], f[2]) = stats.maxDrawdown

(***************************************************************************)
(* Where no two ticks have one time, the order they come in changes        *)
(* nothing, and the volatility is zero only of a price that never moved    *)
(* (probability.volatility_per_sqrt_sec_from_series).                      *)
(***************************************************************************)
VolatilityOfEveryMove ==
  LET good == Series!Positive(points)
      apart == \A i, j \in DOMAIN good : good[i].time = good[j].time => i = j
      v == Series!Volatility(points, 1)
  IN  apart /\ Len(good) >= 3 =>
        /\ v # None /\ v = Series!Volatility(Reverse(points), 1)
        /\ v[1] = 0 <=> \A i \in DOMAIN good : good[i].price = good[1].price

(***************************************************************************)
(* Three positive ticks have a volatility and fewer have none, whatever    *)
(* their times; it never divides by zero (probability, "too few points to  *)
(* estimate").                                                             *)
(***************************************************************************)
VolatilityIsDefined ==
  LET v == Series!Volatility(points, 1)
  IN  IF Len(Series!Positive(points)) < 3 THEN v = None ELSE v[1] >= 0 /\ v[2] > 0

\* The volatility is that of every move, wherever there is one.
VolatilityMeasured == VolatilityOfEveryMove /\ VolatilityIsDefined

-----------------------------------------------------------------------------
live == IF subject = "live" THEN Discover(listed, {"BTC", "ETH"}, MaxListed) ELSE <<>>
scan == ScanSignals(live)

OtherThan(id, signals) == Select(signals, {s \in Range(signals) : s.id # id})

(***************************************************************************)
(* A market whose requests fail costs the scan that market only: without   *)
(* it, the other signals are the same, in the same order                   *)
(* (service.scan_signals, "a single market failing is skipped").           *)
(***************************************************************************)
FailureCostsItsMarketOnly ==
  ~scan.raised =>
    /\ \A i \in DOMAIN live : live[i].fails # "none" =>
         OtherThan(live[i].id, scan.signals)
           = OtherThan(live[i].id, ScanSignals(RemoveAt(live, i)).signals)
    /\ \A i \in DOMAIN live : live[i].fails = "none" =>
         \E j \in DOMAIN scan.signals : scan.signals[j].id = live[i].id

(***************************************************************************)
(* All signals of an asset are about one price, and a price is asked for   *)
(* again only after it failed (service.py, "fetched once per scan").       *)
(***************************************************************************)
OnePricePerAsset ==
  \A asset \in {"BTC", "ETH"} :
    LET of == {s \in Range(scan.signals) : s.asset = asset}
        failed == {i \in DOMAIN live : live[i].asset = asset /\ live[i].fails = "price"}
        asked == {i \in DOMAIN scan.asked : scan.asked[i] = asset}
    IN  /\ \A s, t \in of : s.price = t.price
        /\ Cardinality(asked) <= 1 + Cardinality(failed)

(***************************************************************************)
(* A market whose books fail changes nothing of what the others come to,   *)
(* and no candidate that is not displayed is better than one that is       *)
(* (cli.scan_arbs_cmd).                                                    *)
(***************************************************************************)
ArbScanGoesOn ==
  LET open == IF subject = "open" THEN listed ELSE <<>>
      arbs == ScanArbs(open, 2)
      shown == Range(arbs.candidates)
  IN  /\ \A i \in DOMAIN open : open[i].fails # "none" =>
           ScanArbs(RemoveAt(open, i), 2).results = arbs.results
      /\ \A r \in Range(arbs.results) : r.candidate /\ r \notin shown =>
           Len(arbs.candidates) = 2 /\ \A s \in shown : s.score >= r.score

(***************************************************************************)
(* A failing market costs either scan that market only: the others keep    *)
(* their signals, prices, results and places.                              *)
(***************************************************************************)
FailuresStayLocal == FailureCostsItsMarketOnly /\ OnePricePerAsset /\ ArbScanGoesOn
=============================================================================
