----------------------------- MODULE MarketScan -----------------------------
(***************************************************************************)
(* The two scans: scan_signals over the live DreamDEX markets, for the CLI *)
(* and the dashboard, and scan-arbs over the open Polymarket ones.  Both   *)
(* go through a list of markets, make some requests for each, pass over a  *)
(* market whose requests fail, and rank what is left.                      *)
(*                                                                         *)
(* A market of a scan says what its requests and its evaluation will do:   *)
(* `fails` names the first request of it that fails, if it is made, and    *)
(* `score` is the rank its signal would have.                              *)
(***************************************************************************)
EXTENDS OrderBooks

\* discover: the live markets of the assets asked for that are trading.
Discover(live, assets, limit) ==
  Select(SubSeq(live, 1, Smaller(limit, Len(live))),
         {m \in Range(live) : m.asset \in assets /\ m.trading})

\* What a scan has so far.
NoSignals == [prices |-> <<>>, asked |-> <<>>, signals |-> <<>>, raised |-> FALSE]

Known(scan, asset) == \E i \in DOMAIN scan.prices : scan.prices[i].asset = asset

PriceOf(scan, asset) ==
  scan.prices[CHOOSE i \in DOMAIN scan.prices : scan.prices[i].asset = asset]

\* Mutant: a price that failed is not asked for again.
AskPrice_Once(scan, m) ==
  IF \E i \in DOMAIN scan.asked : scan.asked[i] = m.asset THEN scan
  ELSE [scan EXCEPT !.asked = Append(@, m.asset),
                    !.prices = IF m.fails = "price" THEN @
                               ELSE Append(@, [asset |-> m.asset, positive |-> m.positive, of |-> m.id])]

\* The underlying of an asset is asked for until one request succeeds.
AskPrice(scan, m) ==
  IF Known(scan, m.asset) THEN scan
  ELSE [scan EXCEPT !.asked = Append(@, m.asset),
                    !.prices = IF m.fails = "price" THEN @
                               ELSE Append(@, [asset |-> m.asset, positive |-> m.positive, of |-> m.id])]

(***************************************************************************)
(* The body of the loop: market, book, underlying, signal.  A failed       *)
(* request is an EdgeLabError and costs its market only; a price that is   *)
(* not positive is a ValueError of the probability model and ends the scan *)
(* (`opening`: there is an opening reference to compare the price to, and  *)
(* what else an estimate needs).                                           *)
(***************************************************************************)
Visit(scan, m) ==
  IF scan.raised \/ m.fails \in {"market", "book"} THEN scan
  ELSE LET after == AskPrice(scan, m)
       IN  IF ~Known(after, m.asset) THEN after
           ELSE IF m.opening /\ ~PriceOf(after, m.asset).positive
             THEN [after EXCEPT !.raised = TRUE]
           ELSE [after EXCEPT !.signals =
                   Append(@, [id |-> m.id, asset |-> m.asset, score |-> m.score,
                              price |-> PriceOf(after, m.asset).of])]

\* The key of a ranking: the highest score first.
HighestFirst(rows) == [r \in Range(rows) |-> 0 - r.score]

\* scan_signals: the highest rank first.
ScanSignals(markets) ==
  LET end == FoldLeft(Visit, NoSignals, markets)
  IN  [end EXCEPT !.signals = StableSort(@, HighestFirst(@))]

-----------------------------------------------------------------------------
(***************************************************************************)
(* scan-arbs: of the markets the pages yield, the binary ones that accept  *)
(* orders and have a YES and a NO token.                                   *)
(***************************************************************************)
Scannable(markets) == Select(markets, {m \in Range(markets) : m.binary /\ m.accepting})

ScanArbs(markets, top) ==
  LET scanned == Scannable(markets)
      quoted == Select(scanned, {m \in Range(scanned) : m.fails = "none"})
      results == StableSort(quoted, HighestFirst(quoted))
      found == Select(results, {r \in Range(results) : r.candidate})
  IN  [scanned |-> Len(scanned),
       skipped |-> Cardinality({i \in DOMAIN scanned : scanned[i].fails # "none"}),
       results |-> results, candidates |-> SubSeq(found, 1, Smaller(top, Len(found)))]
=============================================================================
