--------------------------- MODULE DreamdexPaper ---------------------------
(***************************************************************************)
(* The commands `edge-lab dreamdex paper-trade` and `settle`, run by       *)
(* several terminals on one database of paper trades.  paper-trade reads   *)
(* the clock, then the market, its book and its underlying from the        *)
(* bridge, one call each, decides and records; settle reads a trade and    *)
(* then updates it.                                                        *)
(***************************************************************************)
EXTENDS RiskEngine, FiniteSets

CONSTANTS
  Procs,           \* terminals, running one command at a time
  Markets,         \* market ids
  Expiry,          \* [Markets -> Nat]
  Books,           \* [up, down]: asks as the bridge may send them
  Estimates,       \* [pUp, hasVol, samples]: what the price history may give
  ExclusiveSettle, \* TRUE: nobody settles a trade another one is settling
  Steps,           \* by how much the clock may advance
  MaxClock,        \* bound: seconds elapsed
  MaxTrades        \* bound: trades recorded

ASSUME DeskAssumption ==
  /\ {Size, One, Parts} \subseteq Nat \ {0} /\ {Buffer, MinEdge} \subseteq Int
  /\ {MinConfidence, MinTimeToExpiry, MaxPriceAge, MaxDataAge,
      MaxSlippageBps, MaxPerMarket, MaxTotal} \subseteq Nat
  /\ Expiry \in [Markets -> Nat] /\ ExclusiveSettle \in BOOLEAN
  /\ Steps \subseteq Nat \ {0} /\ MaxClock \in Nat /\ MaxTrades \in Nat
  /\ \A e \in Estimates :
       e.pUp \in 0..One /\ e.hasVol \in BOOLEAN /\ e.samples \in Nat

\* now = int(time.time()).
Seconds(t) == t

\* _levels: levels without a price or a size are dropped, the cheapest first.
Levels(raw) == StableSort(ParseLevels(raw), ByPrice)

ASSUME BooksAssumption == \A b \in Books : b.up \in Seq(Level) /\ b.down \in Seq(Level)

Outcomes == {"UP", "DOWN", "VOID"}
NoOutcome == "none"

\* A row of dreamdex_paper_trades; its notional is size times price.
Trade == [market : Markets, side : {"UP", "DOWN"}, size : Nat, price : Nat,
          status : {"open", "settled", "void"}, outcome : Outcomes \union {NoOutcome},
          realized : Int]

Decision == [state : {"MARKET_NOT_TRADING", "DATA_STALE", "TOO_CLOSE_TO_EXPIRY",
                      "LOW_CONFIDENCE", "INSUFFICIENT_LIQUIDITY", "NO_EDGE", "BUY"},
             side : {"UP", "DOWN"}, price : Nat, p : 0..One, size : Nat]

VARIABLES
  clock,       \* time.time(), of the terminals and of the bridge
  locked,      \* markets no longer trading
  feed,        \* when the price feed last published
  trades,      \* the rows of the database, by id
  pc,          \* where each terminal is
  now,         \* the clock its command read when it started
  market,      \* the market it read: id, trading, opening, expiry
  book,        \* the book it read: up, down, captured
  source,      \* the source time of the price it read
  decision,    \* what it decided
  target       \* the trade it settles, and the row it will write

local == <<now, market, book, source, decision, target>>
vars == <<clock, locked, feed, trades, pc, local>>

NoMarket == [id |-> "none", trading |-> FALSE, opening |-> FALSE, expiry |-> 0]
NoBook == [up |-> <<>>, down |-> <<>>, captured |-> 0]
NoDecision == [state |-> "NO_EDGE", side |-> "UP", price |-> 0, p |-> 0, size |-> 0]
NoTarget == [id |-> 0, status |-> "open", outcome |-> NoOutcome, realized |-> 0]

Init ==
  /\ clock = 0 /\ locked = {} /\ feed = 0 /\ trades = <<>>
  /\ pc = [p \in Procs |-> "idle"]
  /\ now = [p \in Procs |-> 0]
  /\ market = [p \in Procs |-> NoMarket]
  /\ book = [p \in Procs |-> NoBook]
  /\ source = [p \in Procs |-> 0]
  /\ decision = [p \in Procs |-> NoDecision]
  /\ target = [p \in Procs |-> NoTarget]

Goto(p, from, to) == pc[p] = from /\ pc' = [pc EXCEPT ![p] = to]

\* A command ends, and everything it knew is gone.
Exit(p) ==
  /\ pc' = [pc EXCEPT ![p] = "idle"]
  /\ now' = [now EXCEPT ![p] = 0]
  /\ market' = [market EXCEPT ![p] = NoMarket]
  /\ book' = [book EXCEPT ![p] = NoBook]
  /\ source' = [source EXCEPT ![p] = 0]
  /\ decision' = [decision EXCEPT ![p] = NoDecision]
  /\ target' = [target EXCEPT ![p] = NoTarget]

-----------------------------------------------------------------------------
(***************************************************************************)
(* paper-trade.                                                            *)
(***************************************************************************)
StartTrade(p, m) ==
  /\ Goto(p, "idle", "market")
  /\ now' = [now EXCEPT ![p] = Seconds(clock)]
  /\ market' = [market EXCEPT ![p] = [NoMarket EXCEPT !.id = m]]
  /\ UNCHANGED <<clock, locked, feed, trades, book, source, decision, target>>

\* market_from_json; only the status "trading" becomes TRADING.
MarketFromJson(m, opening) ==
  [id |-> m, trading |-> m \notin locked, opening |-> opening, expiry |-> Expiry[m]]

\* The opening reference is missing until its question is answered.
ReadMarket(p) ==
  LET m == market[p].id
  IN  /\ Goto(p, "market", "book")
      /\ \E opening \in BOOLEAN :
           market' = [market EXCEPT ![p] = MarketFromJson(m, opening)]
      /\ UNCHANGED <<clock, locked, feed, trades, now, book, source, decision, target>>

\* book_from_json; capturedAt is the bridge's clock.
BookFromJson(b) == [up |-> Levels(b.up), down |-> Levels(b.down), captured |-> clock]

ReadBook(p) ==
  /\ Goto(p, "book", "price")
  /\ \E b \in Books :
       book' = [book EXCEPT ![p] = BookFromJson(b)]
  /\ UNCHANGED <<clock, locked, feed, trades, now, market, source, decision, target>>

\* The caps are applied to an exposure of 0: no caller passes another one.
Exposure(p) == NoExposure

\* underlying_from_json; receivedAt is the bridge's clock, timestamp the feed's.
Snapshot(e) == [pUp |-> e.pUp, hasVol |-> e.hasVol, samples |-> e.samples,
                received |-> clock, timestamp |-> feed]

\* The underlying is the last read: the decision follows it.
ReadPrice(p) ==
  /\ pc[p] = "price"
  /\ \E e \in Estimates :
       LET d == Evaluate(market[p], book[p], Snapshot(e), now[p], Exposure(p))
       IN  IF d.state # "BUY" THEN Exit(p)
           ELSE /\ Goto(p, "price", "record")
                /\ decision' = [decision EXCEPT ![p] = d]
                /\ source' = [source EXCEPT ![p] = feed]
                /\ UNCHANGED <<now, market, book, target>>
  /\ UNCHANGED <<clock, locked, feed, trades>>

RecordTrade(p) ==
  LET d == decision[p]
  IN  /\ pc[p] = "record" /\ Len(trades) < MaxTrades
      /\ trades' = Append(trades,
           [market |-> market[p].id, side |-> d.side, size |-> d.size,
            price |-> d.price, status |-> "open", outcome |-> NoOutcome, realized |-> 0])
      /\ Exit(p)
      /\ UNCHANGED <<clock, locked, feed>>

-----------------------------------------------------------------------------
(***************************************************************************)
(* settle: a SELECT, then an UPDATE by id.                                 *)
(***************************************************************************)
Settling(i) == \E q \in Procs : pc[q] = "update" /\ target[q].id = i

\* A token pays 1 on a win; a void returns the stake.
Realized(t, outcome) ==
  IF outcome = "VOID" THEN 0
  ELSE IF outcome = t.side THEN t.size * One - t.size * t.price
  ELSE -(t.size * t.price)

\* Mutant: a trade is settled whatever its status.
MaySettle_Any(t) == TRUE

MaySettle(t) == t.status = "open"

SelectTrade(p, i, outcome) ==
  /\ MaySettle(trades[i])
  /\ ExclusiveSettle => ~Settling(i)
  /\ Goto(p, "idle", "update")
  /\ target' = [target EXCEPT ![p] =
       [id       |-> i,
        status   |-> IF outcome = "VOID" THEN "void" ELSE "settled",
        outcome  |-> outcome,
        realized |-> Realized(trades[i], outcome)]]
  /\ UNCHANGED <<clock, locked, feed, trades, now, market, book, source, decision>>

UpdateTrade(p) ==
  LET row == target[p]
  IN  /\ pc[p] = "update"
      /\ trades' = [trades EXCEPT ![row.id] =
           [@ EXCEPT !.status = row.status, !.outcome = row.outcome,
                     !.realized = row.realized]]
      /\ Exit(p)
      /\ UNCHANGED <<clock, locked, feed>>

-----------------------------------------------------------------------------
\* Any bridge call may fail or time out, and any command may be killed.
Fail(p) ==
  /\ pc[p] # "idle"
  /\ Exit(p)
  /\ UNCHANGED <<clock, locked, feed, trades>>

Tick ==
  /\ \E d \in Steps : clock' = clock + d /\ clock' <= MaxClock
  /\ UNCHANGED <<locked, feed, trades, pc, local>>

Lock(m) ==
  /\ m \notin locked
  /\ locked' = locked \union {m}
  /\ UNCHANGED <<clock, feed, trades, pc, local>>

Publish ==
  /\ feed' = clock
  /\ UNCHANGED <<clock, locked, trades, pc, local>>

Next ==
  \/ Tick \/ Publish
  \/ \E m \in Markets : Lock(m)
  \/ \E p \in Procs :
       \/ \E m \in Markets : StartTrade(p, m)
       \/ ReadMarket(p) \/ ReadBook(p) \/ ReadPrice(p) \/ RecordTrade(p)
       \/ \E i \in DOMAIN trades, outcome \in Outcomes : SelectTrade(p, i, outcome)
       \/ UpdateTrade(p)
       \/ Fail(p)

Spec == Init /\ [][Next]_vars

-----------------------------------------------------------------------------
\* Every variable keeps its type.
Asks == {Levels(b.up) : b \in Books} \union {Levels(b.down) : b \in Books}

MarketRow == [id : Markets \union {NoMarket.id}, trading : BOOLEAN,
              opening : BOOLEAN, expiry : Nat]
BookRow == [up : Asks \union {<<>>}, down : Asks \union {<<>>}, captured : 0..clock]
Target == [id : Nat, status : {"open", "settled", "void"},
           outcome : Outcomes \union {NoOutcome}, realized : Int]

TypeOK ==
  /\ clock \in 0..MaxClock /\ locked \subseteq Markets /\ feed \in 0..clock
  /\ trades \in Seq(Trade)
  /\ pc \in [Procs -> {"idle", "market", "book", "price", "record", "update"}]
  /\ now \in [Procs -> 0..clock] /\ source \in [Procs -> 0..clock]
  /\ market \in [Procs -> MarketRow] /\ book \in [Procs -> BookRow]
  /\ decision \in [Procs -> Decision] /\ target \in [Procs -> Target]

(***************************************************************************)
(* A size cut to the caps keeps the edge it was approved for, to within a  *)
(* quantum: on the book it was decided on, the recorded size costs at most *)
(* half a quantum a token more than the notional it will be booked at, and *)
(* its exact edge is less than the buffers and the minimum together by no  *)
(* more than the quantum (0.01 bps) that the rounding of the price and of  *)
(* the edge can make up (core/edge, core/risk).                            *)
(***************************************************************************)
EdgeKept(d, asks) ==
  LET w == WalkAsks(asks, d.size)
  IN  /\ d.size > 0 /\ w.full
      /\ 2 * w.cost <= d.size * (2 * d.price + 1)
      /\ d.size * d.price <= Smaller(MaxPerMarket, MaxTotal)
      /\ (d.p * d.size - w.cost) * Parts >= (MinEdge + Buffer - Parts) * d.size

BuyKeepsItsEdge ==
  \A p \in Procs : pc[p] = "record" =>
    EdgeKept(decision[p], IF decision[p].side = "UP" THEN book[p].up ELSE book[p].down)

(***************************************************************************)
(* A trade that is settled or void stays as it is: its outcome and its     *)
(* realized profit never change (settle_trade, "already settled").         *)
(***************************************************************************)
SettledForGood ==
  [][\A i \in DOMAIN trades : trades[i].status # "open" => trades'[i] = trades[i]]_trades

(***************************************************************************)
(* What a command knows at each place: with it, BuyKeepsItsEdge is         *)
(* inductive, and SettledForGood follows when settlements are exclusive.   *)
(***************************************************************************)
HandInv(p) ==
  /\ pc[p] \notin {"idle", "update"} => market[p].id \in Markets
  /\ pc[p] \in {"price", "record"} => book[p].up \in Asks /\ book[p].down \in Asks
  /\ pc[p] = "update" => target[p].id \in DOMAIN trades

SettleInv ==
  \A p \in Procs : pc[p] = "update" =>
    /\ trades[target[p].id].status = "open"
    /\ \A q \in Procs : pc[q] = "update" /\ target[q].id = target[p].id => q = p

DeskInv ==
  /\ TypeOK
  /\ \A p \in Procs : HandInv(p)
  /\ BuyKeepsItsEdge
  /\ ExclusiveSettle => SettleInv

(***************************************************************************)
(* Statements of the repository that the code does not meet.               *)
(***************************************************************************)
\* "The maximum position always overrides strategy output": the open trades
\* of a market together stay within the cap of a market.
Open(m) == SelectSeq(trades, LAMBDA t : t.market = m /\ t.status = "open")

PositionCapped ==
  \A m \in Markets :
    FoldLeft(LAMBDA n, t : n + t.size * t.price, 0, Open(m)) <= MaxPerMarket

\* "Stale external data results in no trade": the price a trade is decided
\* on is no older, by its source time, than max_price_age.
NoTradeOnStalePrice ==
  \A p \in Procs : pc[p] = "record" => now[p] - source[p] <= MaxPriceAge
=============================================================================
