----------------------------- MODULE RiskEngine -----------------------------
(***************************************************************************)
(* From a market, its book and its underlying to a decision: confidence,   *)
(* executable edge, risk checks and the size a trade may have (core/edge,  *)
(* core/risk, strategies/event_contracts).                                 *)
(*                                                                         *)
(* Probabilities and prices are counted in the quantum both are rounded to *)
(* (1e-6), One of which are 1, and money in quanta times tokens.  An edge  *)
(* has the same quantum (0.01 bps), in Parts of which the buffer and the   *)
(* least edge are given.  All commands ask for Size tokens; a size that    *)
(* the caps cut is rounded down to a token.                                *)
(***************************************************************************)
EXTENDS OrderBooks

CONSTANTS
  Size,            \* requested size (--size)
  One,             \* quanta of a probability of 1: 10^6 in the code
  Parts,           \* parts of a quantum
  Buffer,          \* fee buffer plus slippage buffer, in parts
  MinEdge,         \* in parts
  MinConfidence, MinTimeToExpiry, MaxPriceAge, MaxDataAge,
  MaxSlippageBps, MaxPerMarket, MaxTotal     \* RiskConfig

Clamp(n, lo, hi) == IF n < lo THEN lo ELSE Smaller(n, hi)

(***************************************************************************)
(* Data quality, in units of 1/2800: of 28 samples, tenths of freshness    *)
(* and tenths of time.  No volatility, no confidence.                      *)
(***************************************************************************)
Confidence(hasVol, samples, age, tte) ==
  LET fresh == IF age <= 15 THEN 10 ELSE IF age <= 60 THEN 5 ELSE 1
      time  == IF tte <= 0 THEN 0 ELSE IF tte \in 60..1200 THEN 10 ELSE 5
  IN  IF hasVol THEN Clamp(samples - 2, 0, 28) * fresh * time ELSE 0

(***************************************************************************)
(* build_probability.  Without an opening reference or a volatility the    *)
(* estimate is one half, of no confidence; otherwise P(Up) is whatever the *)
(* Gaussian model makes of the snapshot, u.pUp.                            *)
(***************************************************************************)
Probability(market, u, now) ==
  IF market.opening /\ u.hasVol
    THEN [up |-> u.pUp, down |-> One - u.pUp,
          confidence |-> Confidence(u.hasVol, u.samples, now - u.received,
                                    market.expiry - now)]
    ELSE [up |-> One \div 2, down |-> One \div 2, confidence |-> 0]

\* The edge of a probability at a price, in quanta.
NetEdge(p, price) == RoundHalfEven((p - price) * Parts - Buffer, Parts)

\* Mutant: the edge of the top of the book, for the whole size.
SideEdge_TopOfBook(side, p, asks) ==
  LET quote == WalkBook(asks, Size)
  IN  [side |-> side,
       fits |-> quote.full /\ quote.filled > 0,
       price |-> quote.top,
       edge |-> NetEdge(p, quote.top),
       slipped |-> FALSE]

\* By how much a walk is above the top of its book, in 0.01 bps: of the average
\* price as it is.
Slippage(quote) ==
  LET top == quote.top * quote.filled
  IN  IF top = 0 THEN 0 ELSE RoundHalfEven((quote.cost - top) * 1000000, top)

(***************************************************************************)
(* The executable edge of one side: of the average price of Size tokens,   *)
(* never the midpoint.  The price is rounded, and the edge of that price   *)
(* is rounded again.                                                       *)
(***************************************************************************)
SideEdge(side, p, asks) ==
  LET quote == WalkBook(asks, Size)
      price == RoundHalfEven(quote.cost, Size)
  IN  [side |-> side,
       fits |-> quote.full /\ quote.filled > 0,
       price |-> price,
       edge |-> NetEdge(p, price),
       slipped |-> Slippage(quote) > MaxSlippageBps * 100]

\* The side with the higher executable edge; a side that does not fit has none.
Best(up, down) ==
  IF down.fits /\ (~up.fits \/ down.edge > up.edge) THEN down ELSE up

Room(cap, existing) == IF existing >= cap THEN 0 ELSE cap - existing

\* The exposure caps override what was asked for.
AllowedNotional(edge, exposure) ==
  IF ~edge.fits \/ edge.price = 0 THEN 0
  ELSE Smaller(Size * edge.price,
               Smaller(Room(MaxPerMarket, exposure.market),
                       Room(MaxTotal, exposure.total)))

AllowedSize(edge, exposure) ==
  IF edge.price = 0 THEN 0 ELSE AllowedNotional(edge, exposure) \div edge.price

EdgeTooSmall(edge) == edge.edge * Parts < MinEdge

Stale(captured, u, now) ==
  now - captured > MaxDataAge \/ now - u.received > MaxPriceAge

\* The most specific blocker first.
SignalState(market, captured, u, now, prob, edge, exposure) ==
  IF ~market.trading THEN "MARKET_NOT_TRADING"
  ELSE IF Stale(captured, u, now) THEN "DATA_STALE"
  ELSE IF market.expiry - now < MinTimeToExpiry THEN "TOO_CLOSE_TO_EXPIRY"
  ELSE IF prob.confidence < MinConfidence THEN "LOW_CONFIDENCE"
  ELSE IF ~edge.fits \/ edge.slipped \/ AllowedSize(edge, exposure) = 0
    THEN "INSUFFICIENT_LIQUIDITY"
  ELSE IF EdgeTooSmall(edge) THEN "NO_EDGE"
  ELSE "BUY"

NoExposure == [market |-> 0, total |-> 0]

\* The edge of a probability on a book.
Edge(prob, book) ==
  Best(SideEdge("UP", prob.up, book.up), SideEdge("DOWN", prob.down, book.down))

\* What is known of a trade; its size is 0 unless it is actionable.
Decide(state, prob, edge, exposure) ==
  [state |-> state, side |-> edge.side, price |-> edge.price,
   p     |-> IF edge.side = "UP" THEN prob.up ELSE prob.down,
   size  |-> IF state = "BUY" THEN AllowedSize(edge, exposure) ELSE 0]

EvaluateMarket(market, captured, u, now, prob, edge, exposure) ==
  Decide(SignalState(market, captured, u, now, prob, edge, exposure), prob, edge, exposure)

\* build_event_signal.
Evaluate(market, book, u, now, exposure) ==
  LET prob == Probability(market, u, now)
  IN  EvaluateMarket(market, book.captured, u, now, prob, Edge(prob, book), exposure)
=============================================================================
