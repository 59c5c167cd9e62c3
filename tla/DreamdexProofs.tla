--------------------------- MODULE DreamdexProofs ---------------------------
(***************************************************************************)
(* Proofs about DreamdexPaper, for any terminals, markets, books,          *)
(* estimates and thresholds: a trade keeps the edge it was approved for,   *)
(* and when settlements exclude each other a settled trade stays as it is. *)
(***************************************************************************)
EXTENDS DreamdexPaper, LoopProofs

-----------------------------------------------------------------------------
(***************************************************************************)
(* Arithmetic.                                                             *)
(***************************************************************************)
\* The parameters are numbers.
LEMMA DeskBounds ==
  /\ Size \in Nat /\ Size > 0 /\ One \in Nat /\ Parts \in Nat /\ Parts > 0
  /\ Buffer \in Int /\ MinEdge \in Int /\ MaxPerMarket \in Nat /\ MaxTotal \in Nat
  /\ MaxClock \in Nat /\ Expiry \in [Markets -> Nat]
  /\ Steps \subseteq Nat
  BY DeskAssumption

\* An average price is rounded by half a quantum at most, so k of Size tokens cost
\* at most so much more than they are booked at.
LEMMA BookedCost ==
  ASSUME NEW cost \in Nat, NEW k \in Nat, NEW part \in Nat, part * Size <= k * cost
  PROVE  /\ RoundHalfEven(cost, Size) \in Nat
         /\ 2 * part <= k * (2 * RoundHalfEven(cost, Size) + 1)
<1> DEFINE price == RoundHalfEven(cost, Size)
<1>1. price \in Int /\ 2 * (price * Size) <= 2 * cost + Size /\ 2 * (price * Size) >= 2 * cost - Size
  BY DeskBounds, HalfEvenIs
<1> HIDE DEF price
<1>2. price \in Nat
  <2> SUFFICES ASSUME price < 0 PROVE FALSE
    BY <1>1
  <2>1. PICK n \in Nat : price = 0 - n /\ n > 0
    BY <1>1
  <2>2. 1 * Size <= n * Size
    BY <2>1, DeskBounds, Cancel
  <2>3. PICK m \in Nat : m = n * Size /\ price * Size = 0 - m
    BY <2>1, DeskBounds
  <2> QED
    BY <1>1, <2>2, <2>3, DeskBounds
<1>3. PICK e \in Int : e = 2 * price + 1
  BY <1>1
<1>4. 2 * cost <= e * Size
  <2>1. e * Size = 2 * (price * Size) + Size /\ price * Size \in Int
    BY <1>1, <1>3, DeskBounds
  <2> QED
    BY <1>1, <2>1, DeskBounds
<1>5. (2 * part) * Size <= (k * e) * Size
  <2>1. (2 * cost) * k <= (e * Size) * k
    <3>1. PICK x \in Int, y \in Int : x = 2 * cost /\ y = e * Size
      BY DeskBounds
    <3>2. x <= y
      BY <1>4, <3>1
    <3>3. x * k <= y * k
      BY <3>2
    <3> QED
      BY <3>1, <3>3
  <2>2. PICK a \in Nat, b \in Nat : a = part * Size /\ b = k * cost
    BY DeskBounds
  <2>3. (2 * part) * Size = 2 * a /\ (2 * cost) * k = 2 * b /\ (e * Size) * k = (k * e) * Size
    BY <2>2, DeskBounds
  <2>4. (k * e) * Size \in Int
    BY DeskBounds
  <2> QED
    BY <2>1, <2>2, <2>3, <2>4
<1>6. 2 * part <= k * e
  <2>1. k * e \in Int /\ 2 * part \in Int
    OBVIOUS
  <2> QED
    BY <1>5, <2>1, DeskBounds, Cancel
<1> QED
  BY <1>2, <1>3, <1>6 DEF price

\* What k tokens earn that cost so little, when the rounded edge of the rounded
\* price is the least: both roundings together take a quantum a token at most.
LEMMA EarnedEdge ==
  ASSUME NEW p \in Nat, NEW price \in Nat, NEW k \in Nat, NEW part \in Nat,
         2 * part <= k * (2 * price + 1),
         NetEdge(p, price) * Parts >= MinEdge
  PROVE  (p * k - part) * Parts >= (MinEdge + Buffer - Parts) * k
<1>1. PICK q \in Nat, b \in Int, least \in Int : q = Parts /\ b = Buffer /\ least = MinEdge /\ q > 0
  BY DeskBounds
<1>2. PICK g \in Int : g = (p - price) * q
  OBVIOUS
<1>3. PICK e \in Int : e = NetEdge(p, price) * q /\ 2 * e <= 2 * (g - b) + q
  <2>1. NetEdge(p, price) = RoundHalfEven(g - b, q)
    BY <1>1, <1>2 DEF NetEdge
  <2>2. g - b \in Int
    OBVIOUS
  <2>3. RoundHalfEven(g - b, q) \in Int /\ 2 * (RoundHalfEven(g - b, q) * q) <= 2 * (g - b) + q
    BY <1>1, <2>2, HalfEvenIs
  <2> QED
    BY <2>1, <2>3
<1>4. least <= e
  BY <1>1, <1>3
<1>5. 2 * least + 2 * b - q <= 2 * g
  BY <1>3, <1>4
<1>6. PICK gk \in Int, lk \in Int, bk \in Int, qk \in Int :
        gk = g * k /\ lk = least * k /\ bk = b * k /\ qk = q * k
  OBVIOUS
<1>7. 2 * lk + 2 * bk - qk <= 2 * gk
  <2>1. PICK x \in Int, y \in Int : x = 2 * least + 2 * b - q /\ y = 2 * g /\ x <= y
    BY <1>5
  <2>2. x * k <= y * k
    BY <2>1
  <2>3. x * k = 2 * lk + 2 * bk - qk /\ y * k = 2 * gk
    BY <1>6, <2>1
  <2> QED
    BY <2>2, <2>3
<1>8. PICK pk \in Int, ck \in Int : pk = p * k /\ ck = price * k
  OBVIOUS
<1>9. 2 * part <= 2 * ck + k
  BY <1>8
<1>10. gk = (pk - ck) * q
  BY <1>2, <1>6, <1>8
<1>11. PICK h \in Int : h = (pk - part) * q
  OBVIOUS
<1>12. 2 * gk <= 2 * h + qk
  <2>1. PICK x \in Int, y \in Int : x = 2 * (pk - ck) /\ y = 2 * (pk - part) + k /\ x <= y
    BY <1>9
  <2>2. x * q <= y * q
    BY <1>1, <2>1, Cancel
  <2>3. x * q = 2 * gk /\ y * q = 2 * h + qk
    BY <1>6, <1>10, <1>11, <2>1
  <2> QED
    BY <2>2, <2>3
<1>13. lk + bk - qk <= h
  BY <1>7, <1>12
<1>14. (least + b - q) * k = lk + bk - qk
  BY <1>6
<1> QED
  BY <1>1, <1>8, <1>11, <1>13, <1>14

\* The floor of a quotient times the divisor is at most the dividend.
LEMMA DivFloor ==
  ASSUME NEW n \in Nat, NEW c \in Nat, c > 0
  PROVE  n \div c \in Nat /\ (n \div c) * c <= n
  OBVIOUS

-----------------------------------------------------------------------------
(***************************************************************************)
(* The decision.                                                           *)
(***************************************************************************)
\* A probability is between 0 and 1, the other side's included.
LEMMA ProbabilityType ==
  ASSUME NEW m, NEW u, u.pUp \in 0..One, NEW t
  PROVE  Probability(m, u, t).up \in 0..One /\ Probability(m, u, t).down \in 0..One
<1>1. One \div 2 \in 0..One /\ One - u.pUp \in 0..One
  BY DeskBounds
<1> QED
  BY <1>1 DEF Probability

\* What a decision to buy says of the edge it chose.
LEMMA BuyMeans ==
  ASSUME NEW m, NEW b, NEW u, NEW t, NEW x, Evaluate(m, b, u, t, x).state = "BUY"
  PROVE  LET d == Evaluate(m, b, u, t, x)
             prob == Probability(m, u, t)
             edge == Edge(prob, b)
         IN  /\ d.side = edge.side /\ d.price = edge.price
             /\ d.p = IF edge.side = "UP" THEN prob.up ELSE prob.down
             /\ d.size = AllowedSize(edge, x)
             /\ edge.fits /\ AllowedSize(edge, x) # 0 /\ ~EdgeTooSmall(edge)
<1> DEFINE prob == Probability(m, u, t)
           edge == Edge(prob, b)
<1>1. SignalState(m, b.captured, u, t, prob, edge, x) = "BUY"
  BY DEF Evaluate, EvaluateMarket, Decide
<1> HIDE DEF prob, edge
<1>2. edge.fits /\ AllowedSize(edge, x) # 0 /\ ~EdgeTooSmall(edge)
  BY <1>1 DEF SignalState
<1> QED
  BY <1>1, <1>2 DEF Evaluate, EvaluateMarket, Decide, prob, edge

\* The caps leave a size between 1 and what was asked for, and they bind.
LEMMA SizeIsCapped ==
  ASSUME NEW edge, edge.price \in Nat, edge.fits, AllowedSize(edge, NoExposure) # 0
  PROVE  LET n == AllowedSize(edge, NoExposure)
         IN  /\ n \in 1..Size
             /\ n * edge.price <= Smaller(MaxPerMarket, MaxTotal)
<1> DEFINE c == edge.price
           n == AllowedSize(edge, NoExposure)
           a == AllowedNotional(edge, NoExposure)
           cap == Smaller(MaxPerMarket, MaxTotal)
<1>1. c \in Nat /\ c > 0 /\ n = a \div c
  BY DEF AllowedSize
<1>2. Room(MaxPerMarket, 0) = MaxPerMarket /\ Room(MaxTotal, 0) = MaxTotal
  BY DeskBounds DEF Room
<1>3. a = Smaller(Size * c, cap)
  BY <1>1, <1>2 DEF AllowedNotional, NoExposure
<1>4. \A i, j \in Nat : Smaller(i, j) \in Nat /\ Smaller(i, j) <= i /\ Smaller(i, j) <= j
  BY DEF Smaller
<1>n. n # 0
  OBVIOUS
<1>5. cap \in Nat
  BY <1>4, DeskBounds
<1> HIDE DEF c, n, a, cap
<1>c. Size * c \in Nat
  BY <1>1, DeskBounds
<1>6. a \in Nat /\ a <= Size * c /\ a <= cap
  BY <1>3, <1>4, <1>5, <1>c
<1>7. n \in Nat /\ n * c <= a
  BY <1>1, <1>6, DivFloor
<1>8. n * c <= Size * c /\ n * c <= cap
  <2>1. n * c \in Int
    BY <1>1, <1>7
  <2> QED BY <1>5, <1>6, <1>7, <1>c, <2>1
<1>9. n <= Size
  BY <1>1, <1>7, <1>8, DeskBounds, Cancel
<1>10. n \in 1..Size
  BY <1>7, <1>9, <1>n, DeskBounds
<1> QED
  BY <1>8, <1>10 DEF n, c, cap

\* Of two sides Best takes one.
LEMMA BestIsASide ==
  ASSUME NEW p, NEW q, NEW up, NEW down
  PROVE  LET edge == Best(SideEdge("UP", p, up), SideEdge("DOWN", q, down))
         IN  \/ edge = SideEdge("UP", p, up) /\ edge.side = "UP"
             \/ edge = SideEdge("DOWN", q, down) /\ edge.side = "DOWN"
<1>1. SideEdge("UP", p, up).side = "UP" /\ SideEdge("DOWN", q, down).side = "DOWN"
  BY DEF SideEdge
<1> QED
  BY <1>1 DEF Best

\* The asks a decision is made on are levels, the cheapest first.
LEMMA LevelsSorted ==
  ASSUME NEW asks \in Asks
  PROVE  asks \in Seq(Level) /\ Ascending(asks)
<1>1. PICK raw \in Seq(Level) : asks = Levels(raw)
  BY BooksAssumption DEF Asks
<1>2. ParseLevels(raw) \in Seq(Level)
  BY SelectType DEF ParseLevels
<1> QED
  BY <1>1, <1>2, AsksSorted DEF Levels

LEMMA BuyKeepsEdge ==
  ASSUME NEW m, NEW b, b.up \in Asks, b.down \in Asks,
         NEW u, u.pUp \in 0..One, NEW t,
         Evaluate(m, b, u, t, NoExposure).state = "BUY"
  PROVE  LET d == Evaluate(m, b, u, t, NoExposure)
         IN  /\ d \in Decision
             /\ EdgeKept(d, IF d.side = "UP" THEN b.up ELSE b.down)
<1> DEFINE d == Evaluate(m, b, u, t, NoExposure)
           prob == Probability(m, u, t)
           edge == Edge(prob, b)
           asks == IF d.side = "UP" THEN b.up ELSE b.down
           quote == WalkBook(asks, Size)
           w == WalkAsks(asks, d.size)
<1>1. /\ d.side = edge.side /\ d.price = edge.price /\ d.state = "BUY"
      /\ d.p = IF edge.side = "UP" THEN prob.up ELSE prob.down
      /\ d.size = AllowedSize(edge, NoExposure)
      /\ edge.fits /\ AllowedSize(edge, NoExposure) # 0 /\ ~EdgeTooSmall(edge)
  BY BuyMeans
<1>2. edge = SideEdge(d.side, d.p, asks) /\ d.side \in {"UP", "DOWN"}
  BY <1>1, BestIsASide DEF Edge
<1>3. asks \in Asks /\ d.p \in 0..One
  BY <1>1, <1>2, ProbabilityType
<1>rec. d = [state |-> d.state, side |-> d.side, price |-> d.price, p |-> d.p, size |-> d.size]
  BY DEF Evaluate, EvaluateMarket, Decide
<1> HIDE DEF d, prob, edge, asks
<1>4. asks \in Seq(Level) /\ Ascending(asks)
  BY <1>3, LevelsSorted
<1>5. /\ quote.full /\ quote.cost \in Nat /\ edge.price \in Nat
      /\ edge.price = RoundHalfEven(quote.cost, Size) /\ edge.edge = NetEdge(d.p, edge.price)
  <2>1. /\ quote.full /\ edge.price = RoundHalfEven(quote.cost, Size)
        /\ edge.edge = NetEdge(d.p, RoundHalfEven(quote.cost, Size))
    BY <1>1, <1>2 DEF SideEdge
  <2>2. quote.cost = WalkQuantity(asks, Size).cost
    BY DEF WalkBook
  <2>3. WalkQuantity(asks, Size).cost \in Nat
    BY <1>4, DeskBounds, WalkType
  <2>4. RoundHalfEven(quote.cost, Size) \in Nat
    <3>1. 0 \in Nat /\ 0 * Size <= 0 * quote.cost
      BY <2>2, <2>3, DeskBounds
    <3> QED
      BY <2>2, <2>3, <3>1, BookedCost
  <2> QED
    BY <2>1, <2>2, <2>3, <2>4
<1>6. d.size \in 1..Size /\ d.size * edge.price <= Smaller(MaxPerMarket, MaxTotal)
  BY <1>1, <1>5, SizeIsCapped
<1>7. w.full /\ w.cost \in Nat /\ w.cost * Size <= d.size * quote.cost
  <2>1. Size \in Nat /\ d.size \in Nat /\ d.size <= Size
    BY <1>6, DeskBounds
  <2>2. WalkQuantity(asks, Size).full /\ WalkQuantity(asks, Size).cost = quote.cost
    BY <1>5 DEF WalkBook
  <2> DEFINE k == d.size
  <2> HIDE DEF k
  <2>3. k \in Nat /\ k <= Size
    BY <2>1 DEF k
  <2>4. /\ WalkQuantity(asks, k).full
        /\ WalkQuantity(asks, k).cost * Size <= WalkQuantity(asks, Size).cost * k
    BY <1>4, <2>1, <2>2, <2>3, SmallerWalk
  <2>5. WalkQuantity(asks, k).cost \in Nat
    BY <1>4, <2>3, WalkType
  <2>6. quote.cost * k = k * quote.cost
    BY <1>5, <2>3
  <2> QED
    BY <2>2, <2>4, <2>5, <2>6 DEF k, WalkAsks
<1>8. NetEdge(d.p, edge.price) * Parts >= MinEdge
  <2>1. ~(edge.edge * Parts < MinEdge)
    BY <1>1 DEF EdgeTooSmall
  <2>2. NetEdge(d.p, edge.price) \in Int
    <3>1. (d.p - edge.price) * Parts - Buffer \in Int
      BY <1>3, <1>5, DeskBounds
    <3> QED
      BY <3>1, DeskBounds, HalfEvenIs DEF NetEdge
  <2>3. NetEdge(d.p, edge.price) * Parts \in Int
    BY <2>2, DeskBounds
  <2> QED
    BY <1>5, <2>1, <2>3, DeskBounds
<1>9. d.p \in Nat /\ d.size \in Nat
  BY <1>3, <1>6, DeskBounds
<1> HIDE DEF w, quote
<1>10. /\ 2 * w.cost <= d.size * (2 * edge.price + 1)
       /\ (d.p * d.size - w.cost) * Parts >= (MinEdge + Buffer - Parts) * d.size
  <2> DEFINE p == d.p
             k == d.size
             cost == quote.cost
             part == w.cost
             price == edge.price
  <2>1. p \in Nat /\ k \in Nat /\ cost \in Nat /\ part \in Nat /\ price \in Nat
    BY <1>5, <1>7, <1>9
  <2>2. part * Size <= k * cost /\ price = RoundHalfEven(cost, Size)
    BY <1>5, <1>7
  <2>3. NetEdge(p, price) * Parts >= MinEdge
    BY <1>8
  <2> HIDE DEF p, k, cost, part, price
  <2>4. 2 * part <= k * (2 * price + 1)
    BY <2>1, <2>2, BookedCost
  <2>5. (p * k - part) * Parts >= (MinEdge + Buffer - Parts) * k
    BY <2>1, <2>3, <2>4, EarnedEdge
  <2> QED BY <2>4, <2>5 DEF p, k, part, price
<1>11. EdgeKept(d, asks)
  BY <1>1, <1>5, <1>6, <1>7, <1>10 DEF EdgeKept, w
<1>12. d \in Decision
  BY <1>rec, <1>1, <1>2, <1>3, <1>5, <1>6 DEF Decision
<1> QED
  BY <1>11, <1>12 DEF d, asks

-----------------------------------------------------------------------------
(***************************************************************************)
(* The steps.                                                              *)
(***************************************************************************)
LEMMA DeskInit == Init => DeskInv
<1> SUFFICES ASSUME Init PROVE DeskInv
  OBVIOUS
<1> USE DEF Init
<1>1. NoDecision \in Decision /\ NoTarget \in Target /\ NoMarket \in MarketRow
  BY DeskBounds DEF NoDecision, NoTarget, NoMarket, Decision, Target, MarketRow
<1>2. [p \in Procs |-> NoBook] \in [Procs -> BookRow]
  BY DEF NoBook, BookRow
<1>3. TypeOK
  BY <1>1, <1>2, DeskBounds DEF TypeOK
<1>4. \A p \in Procs : HandInv(p)
  BY DEF HandInv
<1> QED
  BY <1>3, <1>4 DEF DeskInv, BuyKeepsItsEdge, SettleInv

\* A command that ends leaves the others as they are, if the trades they are
\* settling are.
LEMMA ExitKeeps ==
  ASSUME DeskInv, NEW p \in Procs, Exit(p), UNCHANGED <<clock, locked, feed>>,
         trades' \in Seq(Trade), DOMAIN trades \subseteq DOMAIN trades',
         ExclusiveSettle =>
           \A q \in Procs \ {p} : pc[q] = "update" => trades'[target[q].id].status = "open"
  PROVE  DeskInv'
<1>1. NoDecision \in Decision /\ NoTarget \in Target /\ NoMarket \in MarketRow
  BY DeskBounds DEF NoDecision, NoTarget, NoMarket, Decision, Target, MarketRow
<1>2. NoBook \in BookRow
  BY DEF NoBook, BookRow, DeskInv, TypeOK
<1>3. TypeOK'
  BY <1>1, <1>2 DEF DeskInv, TypeOK, Exit, BookRow
<1>4. (\A q \in Procs : HandInv(q))'
  BY DEF DeskInv, TypeOK, HandInv, Exit
<1>5. BuyKeepsItsEdge'
  BY DEF DeskInv, TypeOK, BuyKeepsItsEdge, Exit
<1>6. (ExclusiveSettle => SettleInv)'
  BY DEF DeskInv, TypeOK, SettleInv, Exit
<1> QED
  BY <1>3, <1>4, <1>5, <1>6 DEF DeskInv

LEMMA StartTradeKeeps ==
  ASSUME DeskInv, NEW p \in Procs, NEW m \in Markets, StartTrade(p, m)
  PROVE  DeskInv'
<1>1. [NoMarket EXCEPT !.id = m] \in MarketRow
  BY DEF NoMarket, MarketRow
<1>2. TypeOK'
  BY <1>1 DEF DeskInv, TypeOK, StartTrade, Goto, Seconds, BookRow
<1>3. (\A q \in Procs : HandInv(q))'
  BY <1>1 DEF DeskInv, TypeOK, HandInv, StartTrade, Goto
<1>4. BuyKeepsItsEdge' /\ (ExclusiveSettle => SettleInv)'
  BY DEF DeskInv, TypeOK, BuyKeepsItsEdge, SettleInv, StartTrade, Goto
<1> QED
  BY <1>2, <1>3, <1>4 DEF DeskInv

LEMMA ReadMarketKeeps ==
  ASSUME DeskInv, NEW p \in Procs, ReadMarket(p)
  PROVE  DeskInv'
<1>1. PICK opening \in BOOLEAN :
        market' = [market EXCEPT ![p] =
          [id |-> market[p].id, trading |-> market[p].id \notin locked,
           opening |-> opening, expiry |-> Expiry[market[p].id]]]
  BY DEF ReadMarket, MarketFromJson
<1>2. market[p].id \in Markets
  BY DEF DeskInv, HandInv, ReadMarket, Goto
<1>3. market'[p] \in MarketRow /\ market'[p].id = market[p].id
  BY <1>1, <1>2, DeskBounds DEF MarketRow, DeskInv, TypeOK
<1>4. TypeOK'
  BY <1>1, <1>3 DEF DeskInv, TypeOK, ReadMarket, Goto, BookRow
<1>5. (\A q \in Procs : HandInv(q))'
  BY <1>1, <1>2, <1>3 DEF DeskInv, TypeOK, HandInv, ReadMarket, Goto
<1>6. BuyKeepsItsEdge' /\ (ExclusiveSettle => SettleInv)'
  BY DEF DeskInv, TypeOK, BuyKeepsItsEdge, SettleInv, ReadMarket, Goto
<1> QED
  BY <1>4, <1>5, <1>6 DEF DeskInv

LEMMA ReadBookKeeps ==
  ASSUME DeskInv, NEW p \in Procs, ReadBook(p)
  PROVE  DeskInv'
<1>1. PICK b \in Books :
        book' = [book EXCEPT ![p] =
          [up |-> Levels(b.up), down |-> Levels(b.down), captured |-> clock]]
  BY DEF ReadBook, BookFromJson
<1>2. Levels(b.up) \in Asks /\ Levels(b.down) \in Asks
  BY DEF Asks
<1>3. book'[p] = [up |-> Levels(b.up), down |-> Levels(b.down), captured |-> clock]
  BY <1>1 DEF DeskInv, TypeOK
<1>4. book'[p] \in BookRow
  BY <1>2, <1>3 DEF BookRow, DeskInv, TypeOK
<1>5. TypeOK'
  BY <1>1, <1>4 DEF DeskInv, TypeOK, ReadBook, Goto, BookRow
<1>6. (\A q \in Procs : HandInv(q))'
  BY <1>1, <1>2, <1>3 DEF DeskInv, TypeOK, HandInv, ReadBook, Goto
<1>7. BuyKeepsItsEdge' /\ (ExclusiveSettle => SettleInv)'
  BY <1>1 DEF DeskInv, TypeOK, BuyKeepsItsEdge, SettleInv, ReadBook, Goto
<1> QED
  BY <1>5, <1>6, <1>7 DEF DeskInv

\* The decision to buy is made on the book in hand.
LEMMA ReadPriceKeeps ==
  ASSUME DeskInv, NEW p \in Procs, ReadPrice(p)
  PROVE  DeskInv'
<1> DEFINE d(e) == Evaluate(market[p], book[p], Snapshot(e), now[p], NoExposure)
<1>1. PICK e \in Estimates :
        IF d(e).state # "BUY" THEN Exit(p)
        ELSE /\ Goto(p, "price", "record")
             /\ decision' = [decision EXCEPT ![p] = d(e)]
             /\ source' = [source EXCEPT ![p] = feed]
             /\ UNCHANGED <<now, market, book, target>>
  BY DEF ReadPrice, Exposure
<1>2. UNCHANGED <<clock, locked, feed, trades>> /\ pc[p] = "price"
  BY DEF ReadPrice
<1>3. CASE d(e).state # "BUY"
  <2>1. Exit(p)
    BY <1>1, <1>3
  <2>2. trades \in Seq(Trade)
    BY DEF DeskInv, TypeOK
  <2>3. ExclusiveSettle => \A q \in Procs : pc[q] = "update" => trades[target[q].id].status = "open"
    BY DEF DeskInv, SettleInv
  <2> QED BY <1>2, <2>1, <2>2, <2>3, ExitKeeps
<1>4. CASE d(e).state = "BUY"
  <2>1. /\ Goto(p, "price", "record")
        /\ decision' = [decision EXCEPT ![p] = d(e)]
        /\ source' = [source EXCEPT ![p] = feed]
        /\ UNCHANGED <<now, market, book, target>>
    BY <1>1, <1>4
  <2>2. book[p].up \in Asks /\ book[p].down \in Asks /\ market[p].id \in Markets
    BY <1>2 DEF DeskInv, HandInv
  <2>3. Snapshot(e).pUp \in 0..One
    BY DeskAssumption DEF Snapshot
  <2>4. d(e) \in Decision /\ EdgeKept(d(e), IF d(e).side = "UP" THEN book[p].up ELSE book[p].down)
    BY <1>4, <2>2, <2>3, BuyKeepsEdge
  <2> HIDE DEF d
  <2>5. TypeOK'
    BY <1>2, <2>1, <2>4 DEF DeskInv, TypeOK, Goto, BookRow
  <2>6. (\A q \in Procs : HandInv(q))'
    BY <1>2, <2>1, <2>2 DEF DeskInv, TypeOK, HandInv, Goto
  <2>7. BuyKeepsItsEdge'
    BY <1>2, <2>1, <2>4 DEF DeskInv, TypeOK, BuyKeepsItsEdge, Goto
  <2>8. (ExclusiveSettle => SettleInv)'
    BY <1>2, <2>1 DEF DeskInv, TypeOK, SettleInv, Goto
  <2> QED
    BY <2>5, <2>6, <2>7, <2>8 DEF DeskInv
<1> QED
  BY <1>3, <1>4

\* A new trade is open, and the trades before it are as they were.
LEMMA RecordTradeKeeps ==
  ASSUME DeskInv, NEW p \in Procs, RecordTrade(p)
  PROVE  DeskInv'
<1> DEFINE d == decision[p]
           row == [market |-> market[p].id, side |-> d.side, size |-> d.size,
                   price |-> d.price, status |-> "open", outcome |-> NoOutcome,
                   realized |-> 0]
<1>1. trades' = Append(trades, row) /\ Exit(p) /\ UNCHANGED <<clock, locked, feed>>
  BY DEF RecordTrade
<1>2. trades \in Seq(Trade) /\ d \in Decision /\ market[p].id \in Markets
  BY DEF DeskInv, TypeOK, HandInv, RecordTrade
<1>3. row \in Trade
  BY <1>2 DEF Trade, Decision
<1> HIDE DEF row, d
<1>4. /\ trades' \in Seq(Trade) /\ Len(trades') = Len(trades) + 1
      /\ \A i \in 1..Len(trades) : trades'[i] = trades[i]
  BY <1>1, <1>2, <1>3, AppendProperties
<1>5. DOMAIN trades = 1..Len(trades) /\ DOMAIN trades' = 1..Len(trades')
      /\ Len(trades) \in Nat
  BY <1>2, <1>4
<1>6. DOMAIN trades \subseteq DOMAIN trades'
  BY <1>4, <1>5
<1>7. ExclusiveSettle =>
        \A q \in Procs : pc[q] = "update" => trades'[target[q].id].status = "open"
  BY <1>4, <1>5 DEF DeskInv, SettleInv, HandInv
<1> QED
  BY <1>1, <1>4, <1>6, <1>7, ExitKeeps

\* What is won or lost on a trade is a whole number of units.
LEMMA RealizedType ==
  ASSUME NEW t \in Trade, NEW outcome \in Outcomes
  PROVE  Realized(t, outcome) \in Int
<1> DEFINE n == t.size
           c == t.price
<1>1. n \in Nat /\ c \in Nat
  BY DEF Trade
<1> HIDE DEF n, c
<1>2. 0 \in Int /\ n * One - n * c \in Int /\ -(n * c) \in Int
  BY <1>1, DeskBounds
<1> QED
  BY <1>2 DEF Realized, n, c

\* An open trade is chosen that nobody else is settling.
LEMMA SelectTradeKeeps ==
  ASSUME DeskInv, NEW p \in Procs, NEW i \in DOMAIN trades, NEW outcome \in Outcomes,
         SelectTrade(p, i, outcome)
  PROVE  DeskInv'
<1> DEFINE row == [id |-> i, status |-> IF outcome = "VOID" THEN "void" ELSE "settled",
                   outcome |-> outcome, realized |-> Realized(trades[i], outcome)]
<1>1. trades \in Seq(Trade) /\ DOMAIN trades = 1..Len(trades) /\ Len(trades) \in Nat
  BY DEF DeskInv, TypeOK
<1>2. i \in Nat /\ trades[i] \in Trade
  BY <1>1
<1>3. Realized(trades[i], outcome) \in Int
  BY <1>2, RealizedType
<1>4. row \in Target /\ row.id = i
  BY <1>2, <1>3 DEF Target
<1>5. target' = [target EXCEPT ![p] = row]
  BY DEF SelectTrade
<1> HIDE DEF row
<1>6. TypeOK'
  BY <1>4, <1>5 DEF DeskInv, TypeOK, SelectTrade, Goto, BookRow
<1>7. (\A q \in Procs : HandInv(q))'
  BY <1>4, <1>5 DEF DeskInv, TypeOK, HandInv, SelectTrade, Goto
<1>8. BuyKeepsItsEdge'
  BY DEF DeskInv, TypeOK, BuyKeepsItsEdge, SelectTrade, Goto
<1>9. (ExclusiveSettle => SettleInv)'
  <2> SUFFICES ASSUME ExclusiveSettle PROVE SettleInv'
    OBVIOUS
  <2>1. trades[i].status = "open" /\ \A q \in Procs : pc[q] = "update" => target[q].id # i
    BY DEF SelectTrade, MaySettle, Settling
  <2> QED
    BY <1>4, <1>5, <2>1 DEF DeskInv, TypeOK, SettleInv, SelectTrade, Goto
<1> QED
  BY <1>6, <1>7, <1>8, <1>9 DEF DeskInv

\* The row written is the one of the trade selected, and no other.
LEMMA UpdateWrites ==
  ASSUME DeskInv, NEW p \in Procs, UpdateTrade(p)
  PROVE  /\ trades' \in Seq(Trade) /\ DOMAIN trades' = DOMAIN trades
         /\ \A i \in DOMAIN trades : i # target[p].id => trades'[i] = trades[i]
<1> DEFINE row == target[p]
           new == [trades[row.id] EXCEPT !.status = row.status, !.outcome = row.outcome,
                                         !.realized = row.realized]
<1>1. trades' = [trades EXCEPT ![row.id] = new]
  BY DEF UpdateTrade
<1>2. trades \in Seq(Trade) /\ row \in Target /\ row.id \in DOMAIN trades
  BY DEF DeskInv, TypeOK, HandInv, UpdateTrade
<1>3. trades[row.id] \in Trade
  BY <1>2
<1>4. new \in Trade
  BY <1>2, <1>3 DEF Trade, Target
<1> HIDE DEF row, new
<1>5. trades' \in Seq(Trade)
  BY <1>1, <1>2, <1>4, ExceptSeq
<1> QED
  BY <1>1, <1>2, <1>5 DEF row

LEMMA UpdateTradeKeeps ==
  ASSUME DeskInv, NEW p \in Procs, UpdateTrade(p)
  PROVE  DeskInv'
<1>1. Exit(p) /\ UNCHANGED <<clock, locked, feed>> /\ pc[p] = "update"
  BY DEF UpdateTrade
<1>2. /\ trades' \in Seq(Trade) /\ DOMAIN trades \subseteq DOMAIN trades'
      /\ \A i \in DOMAIN trades : i # target[p].id => trades'[i] = trades[i]
  BY UpdateWrites
<1>3. ExclusiveSettle =>
        \A q \in Procs \ {p} : pc[q] = "update" => trades'[target[q].id].status = "open"
  BY <1>1, <1>2 DEF DeskInv, SettleInv, HandInv
<1> QED
  BY <1>1, <1>2, <1>3, ExitKeeps

LEMMA FailKeeps ==
  ASSUME DeskInv, NEW p \in Procs, Fail(p)
  PROVE  DeskInv'
<1>1. Exit(p) /\ UNCHANGED <<clock, locked, feed, trades>>
  BY DEF Fail
<1>2. /\ trades' \in Seq(Trade)
      /\ ExclusiveSettle =>
           \A q \in Procs : pc[q] = "update" => trades'[target[q].id].status = "open"
  BY <1>1 DEF DeskInv, TypeOK, SettleInv
<1> QED
  BY <1>1, <1>2, ExitKeeps

\* The clock, the feed and the markets are nobody's: only ages change.
LEMMA WorldKeeps ==
  ASSUME DeskInv, Tick \/ Publish \/ \E m \in Markets : Lock(m)
  PROVE  DeskInv'
<1>1. clock' \in clock..MaxClock /\ feed' \in 0..clock' /\ locked' \subseteq Markets
      /\ UNCHANGED <<trades, pc, local>>
  BY DeskBounds DEF DeskInv, TypeOK, Tick, Publish, Lock
<1>2. TypeOK'
  <2>1. clock \in Nat /\ clock' \in 0..MaxClock /\ 0..clock \subseteq 0..clock'
    BY <1>1, DeskBounds DEF DeskInv, TypeOK
  <2>2. BookRow \subseteq BookRow'
    BY <2>1 DEF BookRow
  <2>3. now' \in [Procs -> 0..clock'] /\ source' \in [Procs -> 0..clock']
    BY <1>1, <2>1 DEF DeskInv, TypeOK, local
  <2>4. book' \in [Procs -> BookRow']
    BY <1>1, <2>2 DEF DeskInv, TypeOK, local
  <2> QED
    BY <1>1, <2>1, <2>3, <2>4 DEF DeskInv, TypeOK, local
<1>3. (\A q \in Procs : HandInv(q))'
  BY <1>1 DEF DeskInv, HandInv, local
<1>4. BuyKeepsItsEdge' /\ (ExclusiveSettle => SettleInv)'
  BY <1>1 DEF DeskInv, BuyKeepsItsEdge, SettleInv, local
<1> QED
  BY <1>2, <1>3, <1>4 DEF DeskInv

LEMMA NextKeeps == DeskInv /\ [Next]_vars => DeskInv'
<1> SUFFICES ASSUME DeskInv, [Next]_vars PROVE DeskInv'
  OBVIOUS
<1>1. CASE Tick \/ Publish \/ \E m \in Markets : Lock(m)
  BY <1>1, WorldKeeps
<1>2. CASE \E p \in Procs : \E m \in Markets : StartTrade(p, m)
  BY <1>2, StartTradeKeeps
<1>3. CASE \E p \in Procs : ReadMarket(p) \/ ReadBook(p) \/ ReadPrice(p)
  BY <1>3, ReadMarketKeeps, ReadBookKeeps, ReadPriceKeeps
<1>4. CASE \E p \in Procs : RecordTrade(p)
  BY <1>4, RecordTradeKeeps
<1>5. CASE \E p \in Procs : \E i \in DOMAIN trades, outcome \in Outcomes :
             SelectTrade(p, i, outcome)
  BY <1>5, SelectTradeKeeps
<1>6. CASE \E p \in Procs : UpdateTrade(p) \/ Fail(p)
  BY <1>6, UpdateTradeKeeps, FailKeeps
<1>7. CASE UNCHANGED vars
  BY <1>7 DEF vars, local, DeskInv, TypeOK, HandInv, BuyKeepsItsEdge, SettleInv, BookRow
<1> QED
  BY <1>1, <1>2, <1>3, <1>4, <1>5, <1>6, <1>7 DEF Next

-----------------------------------------------------------------------------
(***************************************************************************)
(* The desk keeps its invariant: the types, what each command knows of     *)
(* what it read, and the trades being settled (DeskInv).                   *)
(***************************************************************************)
THEOREM DeskInvariant == Spec => []DeskInv
<1>1. Init => DeskInv
  BY DeskInit
<1>2. DeskInv /\ [Next]_vars => DeskInv'
  BY NextKeeps
<1> QED
  BY <1>1, <1>2, PTL DEF Spec

(***************************************************************************)
(* What a command holds and what the file stores is of its type at every   *)
(* place of paper-trade and settle.                                        *)
(***************************************************************************)
THEOREM DeskTypesHold == Spec => []TypeOK
<1>1. DeskInv => TypeOK
  BY DEF DeskInv
<1> QED
  BY <1>1, DeskInvariant, PTL

(***************************************************************************)
(* A size cut to the caps keeps the edge it was approved for, to within    *)
(* the quantum the edge was rounded to, and costs half a quantum a token   *)
(* more than was booked at most: for every book whose asks are sorted and  *)
(* every threshold (core/edge, core/risk).                                 *)
(***************************************************************************)
THEOREM BuyAlwaysKeepsItsEdge == Spec => []BuyKeepsItsEdge
<1>1. DeskInv => BuyKeepsItsEdge
  BY DEF DeskInv
<1> QED
  BY <1>1, DeskInvariant, PTL

(***************************************************************************)
(* When no two terminals settle one trade at a time, a settled trade stays *)
(* as it is (settle_trade).  The run settle_race shows that the exclusion  *)
(* is needed.                                                              *)
(***************************************************************************)
THEOREM SettledOnce ==
  ASSUME ExclusiveSettle
  PROVE  Spec => SettledForGood
<1>1. ASSUME DeskInv, [Next]_vars
      PROVE  [\A i \in DOMAIN trades : trades[i].status # "open" => trades'[i] = trades[i]]_trades
  <2> SUFFICES ASSUME NEW i \in DOMAIN trades, trades[i].status # "open", trades' # trades
               PROVE  trades'[i] = trades[i]
    OBVIOUS
  <2>1. trades \in Seq(Trade) /\ i \in 1..Len(trades)
    BY <1>1 DEF DeskInv, TypeOK
  <2>2. CASE \E p \in Procs : RecordTrade(p)
    <3>1. PICK p \in Procs : RecordTrade(p)
      BY <2>2
    <3> DEFINE row == [market |-> market[p].id, side |-> decision[p].side,
                       size |-> decision[p].size, price |-> decision[p].price,
                       status |-> "open", outcome |-> NoOutcome, realized |-> 0]
    <3>2. trades' = Append(trades, row)
      BY <3>1 DEF RecordTrade
    <3> HIDE DEF row
    <3> QED
      BY <2>1, <3>2
  <2>3. CASE \E p \in Procs : UpdateTrade(p)
    <3>1. PICK p \in Procs : UpdateTrade(p)
      BY <2>3
    <3>2. pc[p] = "update"
      BY <3>1 DEF UpdateTrade
    <3>3. trades[target[p].id].status = "open"
      BY <1>1, <3>2 DEF DeskInv, SettleInv
    <3>4. i # target[p].id
      BY <3>3
    <3> QED
      BY <1>1, <3>1, <3>4, UpdateWrites
  <2> QED
    BY <1>1, <2>2, <2>3
       DEF Next, vars, Tick, Publish, Lock, StartTrade, ReadMarket, ReadBook, ReadPrice,
           SelectTrade, Fail
<1> QED
  BY <1>1, DeskInvariant, PTL DEF Spec, SettledForGood
=============================================================================
