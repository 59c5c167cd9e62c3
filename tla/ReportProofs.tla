---------------------------- MODULE ReportProofs ----------------------------
(***************************************************************************)
(* The books of a run balance, positions against fills, closures against   *)
(* sales, cash against profit, and what a report says of them while        *)
(* followers trade: for every number of followers, trades and assets.      *)
(***************************************************************************)
EXTENDS FollowerProofs, PaperReport

-----------------------------------------------------------------------------
(***************************************************************************)
(* One row more.                                                           *)
(***************************************************************************)
\* Row f is a trade of that kind.
OfKind(f, r, a, side) == f.run = r /\ f.asset = a /\ f.side = side

\* The fills of a run and an asset are fills.
LEMMA FillsType ==
  ASSUME NEW img \in Image, NEW r, NEW a, NEW side
  PROVE  FillsOf(img, r, a, side) \in Seq(FillRow)
<1>1. img.fills \in Seq(FillRow)
  BY DEF Image
<1> QED
  BY <1>1, SelectType DEF FillsOf

\* And its closures closures.
LEMMA ClosuresType ==
  ASSUME NEW img \in Image, NEW r, NEW a
  PROVE  ClosuresOf(img, r, a) \in Seq(ClosureRow)
<1>1. img.closures \in Seq(ClosureRow)
  BY DEF Image
<1> QED
  BY <1>1, SelectType DEF ClosuresOf

\* A new fill joins the fills of its kind and no others.
LEMMA FillsGrow ==
  ASSUME NEW img \in Image, NEW new, NEW row \in FillRow,
         new.fills = Append(img.fills, row), NEW r, NEW a, NEW side
  PROVE  FillsOf(new, r, a, side) =
           IF OfKind(row, r, a, side) THEN Append(FillsOf(img, r, a, side), row)
           ELSE FillsOf(img, r, a, side)
<1> DEFINE S == {f \in FillRow : f.run = r /\ f.asset = a /\ f.side = side}
<1>1. img.fills \in Seq(FillRow)
  BY DEF Image
<1>2. row \in S <=> OfKind(row, r, a, side)
  BY DEF OfKind
<1>3. FillsOf(img, r, a, side) = Select(img.fills, S) /\ FillsOf(new, r, a, side) = Select(new.fills, S)
  BY DEF FillsOf
<1> HIDE DEF S
<1>4. Select(Append(img.fills, row), S) =
        IF row \in S THEN Append(Select(img.fills, S), row) ELSE Select(img.fills, S)
  BY <1>1, SelectAppend
<1> QED
  BY <1>2, <1>3, <1>4

\* A closure more is one of its own run and asset.
LEMMA ClosuresGrow ==
  ASSUME NEW img \in Image, NEW new, NEW row \in ClosureRow,
         new.closures = Append(img.closures, row), NEW r, NEW a
  PROVE  ClosuresOf(new, r, a) =
           IF row.run = r /\ row.asset = a THEN Append(ClosuresOf(img, r, a), row)
           ELSE ClosuresOf(img, r, a)
<1> DEFINE S == {c \in ClosureRow : c.run = r /\ c.asset = a}
<1>1. img.closures \in Seq(ClosureRow)
  BY DEF Image
<1>2. row \in S <=> row.run = r /\ row.asset = a
  OBVIOUS
<1>3. ClosuresOf(img, r, a) = Select(img.closures, S) /\ ClosuresOf(new, r, a) = Select(new.closures, S)
  BY DEF ClosuresOf
<1> HIDE DEF S
<1>4. Select(Append(img.closures, row), S) =
        IF row \in S THEN Append(Select(img.closures, S), row) ELSE Select(img.closures, S)
  BY <1>1, SelectAppend
<1> QED
  BY <1>2, <1>3, <1>4

\* What was traded of that kind in all: shares or money.
Traded(img, r, a, side, field) == TotalOf(FillsOf(img, r, a, side), field)

\* What was traded is a number.
LEMMA TradedType ==
  ASSUME NEW img \in Image, NEW r, NEW a, NEW side, NEW field \in {"quantity", "notional"}
  PROVE  Traded(img, r, a, side, field) \in Int /\ HasField(FillRow, field)
<1>1. HasField(FillRow, field)
  BY DEF HasField, FillRow
<1>2. FillsOf(img, r, a, side) \in Seq(FillRow)
  BY FillsType
<1> QED
  BY <1>1, <1>2, TotalType DEF Traded

\* A fill more adds what it traded.
LEMMA TradedGrows ==
  ASSUME NEW img \in Image, NEW new, NEW row \in FillRow,
         new.fills = Append(img.fills, row), NEW r, NEW a, NEW side,
         NEW field \in {"quantity", "notional"}
  PROVE  Traded(new, r, a, side, field) =
           IF OfKind(row, r, a, side) THEN Traded(img, r, a, side, field) + row[field]
           ELSE Traded(img, r, a, side, field)
<1>1. FillsOf(img, r, a, side) \in Seq(FillRow) /\ HasField(FillRow, field)
  BY FillsType, TradedType
<1>2. TotalOf(Append(FillsOf(img, r, a, side), row), field)
        = TotalOf(FillsOf(img, r, a, side), field) + row[field]
  BY <1>1, TotalAppend
<1>3. CASE OfKind(row, r, a, side)
  BY <1>2, <1>3, FillsGrow DEF Traded
<1>4. CASE ~OfKind(row, r, a, side)
  BY <1>4, FillsGrow DEF Traded
<1> QED
  BY <1>3, <1>4

-----------------------------------------------------------------------------
(***************************************************************************)
(* The steps that write trades.                                            *)
(***************************************************************************)
\* The tables the balances are about.
trades == <<db.fills, db.closures, db.positions>>

\* Only a commit writes them.
LEMMA OnlyCommitsTrade ==
  ASSUME IInv, [Next]_vars
  PROVE  UNCHANGED trades \/ \E p \in Procs : Commit(p)
<1>1. TypeOK /\ HandInv /\ db \in Image
  BY DEF IInv, TypeOK
<1>2. CASE db' = db
  BY <1>2 DEF trades
<1>3. ASSUME NEW p \in Procs, CreateRun(p)
      PROVE  UNCHANGED trades
  BY <1>1, <1>3 DEF CreateRun, Autocommit, CommitUnlessDeferred, Image, trades
<1>4. ASSUME NEW p \in Procs, Skip(p)
      PROVE  UNCHANGED trades
  BY <1>1, <1>4, SkipWrites DEF trades
<1> QED
  BY <1>2, <1>3, <1>4, FileWrites DEF vars

\* The fill and the closure a commit of p writes.
FillBy(p) == FillRowOf(p, Len(db.signals) + 1)
ClosureBy(p) == ClosureOf(run[p], act(p).asset, pos[p], est[p])

\* What they say, of one side and one asset.
LEMMA CommitRows ==
  ASSUME IInv, NEW p \in Procs, Commit(p)
  PROVE  /\ FillBy(p) \in FillRow
         /\ FillBy(p).run \in Runs /\ FillBy(p).asset \in Assets
         /\ FillBy(p).side \in {"BUY", "SELL"}
         /\ FillBy(p).quantity \in Nat /\ FillBy(p).notional \in Nat
         /\ db'.fills = Append(db.fills, FillBy(p))
         /\ FillBy(p).side = "BUY" => db'.closures = db.closures
         /\ FillBy(p).side = "SELL" =>
              /\ ClosureBy(p) \in ClosureRow
              /\ ClosureBy(p).run = FillBy(p).run /\ ClosureBy(p).asset = FillBy(p).asset
              /\ ClosureBy(p).quantity = FillBy(p).quantity
              /\ ClosureBy(p).proceeds = FillBy(p).notional
              /\ db'.closures = Append(db.closures, ClosureBy(p))
<1>1. TypeOK /\ HandInv /\ TransactionInv
  BY DEF IInv
<1>2. /\ pc[p] \in Quoted /\ FillBy(p) \in FillRow /\ FillBy(p).run = run[p]
      /\ FillBy(p).asset = act(p).asset /\ FillBy(p).side = act(p).side
      /\ FillBy(p).quantity = est[p].quantity /\ FillBy(p).notional = est[p].cost
      /\ db'.fills = Append(db.fills, FillBy(p))
      /\ db'.closures = IF act(p).side = "SELL" THEN Append(db.closures, ClosureBy(p))
                        ELSE db.closures
  BY <1>1, CommitWrites DEF FillBy, ClosureBy
<1>3. run[p] \in Runs /\ act(p).asset \in Assets /\ act(p).side \in {"BUY", "SELL"}
  BY <1>1, <1>2, HandType DEF Decided
<1>4. est[p].quantity \in Nat /\ est[p].cost \in Nat
  BY <1>2 DEF FillRow
<1>5. ASSUME act(p).side = "SELL"
      PROVE  /\ ClosureBy(p) \in ClosureRow
             /\ ClosureBy(p).run = run[p] /\ ClosureBy(p).asset = act(p).asset
             /\ ClosureBy(p).quantity = est[p].quantity
             /\ ClosureBy(p).proceeds = est[p].cost
  <2>1. ClosureBy(p) \in ClosureRow
    BY <1>1, <1>2, <1>5, AfterType DEF ClosureBy
  <2> QED
    BY <2>1 DEF ClosureBy, ClosureOf
<1> QED
  BY <1>2, <1>3, <1>4, <1>5

-----------------------------------------------------------------------------
(***************************************************************************)
(* Positions and fills.                                                    *)
(***************************************************************************)
\* An empty file balances.
LEMMA NothingTraded ==
  ASSUME NEW r, NEW a
  PROVE  /\ \A side : FillsOf(EmptyImage, r, a, side) = <<>>
         /\ ClosuresOf(EmptyImage, r, a) = <<>>
         /\ \A side, field : Traded(EmptyImage, r, a, side, field) = 0
<1>1. EmptyImage.fills = <<>> /\ EmptyImage.closures = <<>>
  BY DEF EmptyImage
<1>2. ASSUME NEW side PROVE FillsOf(EmptyImage, r, a, side) = <<>>
  BY <1>1, SelectEmpty DEF FillsOf
<1>3. ClosuresOf(EmptyImage, r, a) = <<>>
  BY <1>1, SelectEmpty DEF ClosuresOf
<1> QED
  BY <1>2, <1>3, TotalEmpty DEF Traded

\* One run and one asset of PositionsReconcile.
PositionReconciles(img, r, a) ==
  img.positions[<<r, a>>].quantity
    = Traded(img, r, a, "BUY", "quantity") - Traded(img, r, a, "SELL", "quantity")

\* With exclusive runs every step keeps it.
LEMMA PositionReconcilesStep ==
  ASSUME IInv, ExclusiveRuns, [Next]_vars, NEW r \in Runs, NEW a \in Assets,
         PositionReconciles(db, r, a)
  PROVE  PositionReconciles(db', r, a)
<1>1. TypeOK /\ HandInv /\ TransactionInv /\ ExclusiveInv /\ db \in Image
  BY DEF IInv, TypeOK
<1>2. CASE UNCHANGED trades
  BY <1>2 DEF trades, PositionReconciles, Traded, FillsOf
<1>3. ASSUME NEW p \in Procs, Commit(p)
      PROVE  PositionReconciles(db', r, a)
  <2> DEFINE f == FillBy(p)
             was == db.positions[<<r, a>>].quantity
             is == db'.positions[<<r, a>>].quantity
             bought == Traded(db, r, a, "BUY", "quantity")
             sold == Traded(db, r, a, "SELL", "quantity")
             newBought == Traded(db', r, a, "BUY", "quantity")
             newSold == Traded(db', r, a, "SELL", "quantity")
  <2>1. f \in FillRow /\ f.quantity \in Nat /\ f.side \in {"BUY", "SELL"}
        /\ db'.fills = Append(db.fills, f)
    BY <1>3, CommitRows
  <2>2. newBought = IF OfKind(f, r, a, "BUY") THEN bought + f.quantity ELSE bought
    BY <1>1, <2>1, TradedGrows
  <2>3. newSold = IF OfKind(f, r, a, "SELL") THEN sold + f.quantity ELSE sold
    BY <1>1, <2>1, TradedGrows
  <2>4. is = IF f.run = r /\ f.asset = a
               THEN was + (IF f.side = "BUY" THEN f.quantity ELSE -f.quantity)
               ELSE was
    <3>1. PositionsMove
      BY <1>1, <1>3, CommitMovesByFill
    <3>2. db.fills \in Seq(FillRow)
      BY <1>1 DEF Image
    <3> HIDE DEF f
    <3>3. db'.fills # db.fills /\ db'.fills[Len(db'.fills)] = f
      BY <2>1, <3>2
    <3>4. /\ db'.positions[<<f.run, f.asset>>].quantity
               = db.positions[<<f.run, f.asset>>].quantity
                   + (IF f.side = "BUY" THEN f.quantity ELSE -f.quantity)
          /\ \A other \in (Runs \X Assets) \ {<<f.run, f.asset>>} :
               db'.positions[other] = db.positions[other]
      BY <3>1, <3>3 DEF PositionsMove
    <3>5. CASE f.run = r /\ f.asset = a
      BY <3>4, <3>5
    <3>6. CASE ~(f.run = r /\ f.asset = a)
      BY <3>4, <3>6
    <3> QED
      BY <3>5, <3>6
  <2>5. bought \in Int /\ sold \in Int /\ was = bought - sold
    BY <1>1, TradedType DEF PositionReconciles
  <2> HIDE DEF f, was, is, bought, sold, newBought, newSold
  <2>6. is = newBought - newSold
    BY <2>1, <2>2, <2>3, <2>4, <2>5 DEF OfKind
  <2> QED
    BY <2>6 DEF PositionReconciles, is, newBought, newSold
<1> QED
  BY <1>2, <1>3, OnlyCommitsTrade

(***************************************************************************)
(* The positions cache never desyncs from the fills of a run that has one  *)
(* follower: it holds what was bought less what was sold (comments in      *)
(* follower.py and db.py), after any number of trades and crashes.         *)
(***************************************************************************)
THEOREM PositionsAlwaysReconcile ==
  ASSUME ExclusiveRuns
  PROVE  Spec => []PositionsReconcile
<1>1. PositionsReconcile <=> \A r \in Runs, a \in Assets : PositionReconciles(db, r, a)
  BY DEF PositionsReconcile, PositionReconciles, Traded
<1>2. Init => PositionsReconcile
  <2>1. ASSUME Init, NEW r \in Runs, NEW a \in Assets
        PROVE  PositionReconciles(db, r, a)
    <3>1. db = EmptyImage /\ EmptyImage.positions[<<r, a>>].quantity = 0
      BY <2>1 DEF Init, EmptyImage, NoPosition
    <3>2. /\ Traded(EmptyImage, r, a, "BUY", "quantity") = 0
          /\ Traded(EmptyImage, r, a, "SELL", "quantity") = 0
      BY NothingTraded
    <3>3. 0 - 0 = 0
      OBVIOUS
    <3> QED
      BY <3>1, <3>2, <3>3 DEF PositionReconciles
  <2> QED
    BY <1>1, <2>1
<1>3. IInv /\ PositionsReconcile /\ [Next]_vars => PositionsReconcile'
  <2>1. ASSUME IInv, PositionsReconcile, [Next]_vars, NEW r \in Runs, NEW a \in Assets
        PROVE  PositionReconciles(db', r, a)
    BY <1>1, <2>1, PositionReconcilesStep
  <2> QED
    BY <2>1 DEF PositionsReconcile, PositionReconciles, Traded, FillsOf
<1> QED
  BY <1>2, <1>3, InvariantHolds, PTL DEF Spec

-----------------------------------------------------------------------------
(***************************************************************************)
(* Closures and sales.                                                     *)
(***************************************************************************)
\* Closures that report sales, one each and in order.
Reports(closures, sells) ==
  /\ Len(closures) = Len(sells)
  /\ \A k \in DOMAIN sells :
       closures[k].quantity = sells[k].quantity /\ closures[k].proceeds = sells[k].notional

\* A closure and a sale that agree may be added together.
LEMMA ReportsOneMore ==
  ASSUME NEW closures \in Seq(ClosureRow), NEW sells \in Seq(FillRow),
         NEW c \in ClosureRow, NEW f \in FillRow, Reports(closures, sells),
         c.quantity = f.quantity, c.proceeds = f.notional
  PROVE  Reports(Append(closures, c), Append(sells, f))
<1> DEFINE C == Append(closures, c)
           S == Append(sells, f)
           n == Len(sells)
<1>1. n \in Nat /\ Len(closures) = n /\ DOMAIN sells = 1..n
  BY DEF Reports
<1>2. /\ Len(C) = n + 1 /\ Len(S) = n + 1 /\ DOMAIN S = 1..(n + 1)
      /\ C[n + 1] = c /\ S[n + 1] = f
      /\ \A k \in 1..n : C[k] = closures[k] /\ S[k] = sells[k]
  BY <1>1
<1> HIDE DEF C, S, n
<1>3. ASSUME NEW k \in DOMAIN S
      PROVE  C[k].quantity = S[k].quantity /\ C[k].proceeds = S[k].notional
  <2>1. CASE k = n + 1
    BY <1>2, <2>1
  <2>2. CASE k # n + 1
    <3>1. k \in 1..n
      BY <1>1, <1>2, <2>2
    <3> QED
      BY <1>1, <1>2, <3>1 DEF Reports
  <2> QED
    BY <2>1, <2>2
<1>4. Reports(C, S)
  BY <1>2, <1>3 DEF Reports
<1> QED
  BY <1>4 DEF C, S

\* What a step adds to the fills of a kind it adds to the closures.
LEMMA ClosuresMatchStep ==
  ASSUME IInv, [Next]_vars, NEW r \in Runs, NEW a \in Assets,
         Reports(ClosuresOf(db, r, a), FillsOf(db, r, a, "SELL"))
  PROVE  Reports(ClosuresOf(db', r, a), FillsOf(db', r, a, "SELL"))
<1>1. TypeOK /\ HandInv /\ TransactionInv /\ db \in Image
  BY DEF IInv, TypeOK
<1>2. CASE UNCHANGED trades
  BY <1>2 DEF trades, FillsOf, ClosuresOf
<1>3. ASSUME NEW p \in Procs, Commit(p)
      PROVE  Reports(ClosuresOf(db', r, a), FillsOf(db', r, a, "SELL"))
  <2> DEFINE f == FillBy(p)
             c == ClosureBy(p)
             closures == ClosuresOf(db, r, a)
             sells == FillsOf(db, r, a, "SELL")
  <2>1. /\ f \in FillRow /\ f.side \in {"BUY", "SELL"} /\ db'.fills = Append(db.fills, f)
        /\ f.side = "BUY" => db'.closures = db.closures
        /\ f.side = "SELL" =>
              /\ c \in ClosureRow /\ c.run = f.run /\ c.asset = f.asset
              /\ c.quantity = f.quantity /\ c.proceeds = f.notional
              /\ db'.closures = Append(db.closures, c)
    BY <1>3, CommitRows
  <2>2. closures \in Seq(ClosureRow) /\ sells \in Seq(FillRow)
    BY <1>1, FillsType, ClosuresType
  <2>3. FillsOf(db', r, a, "SELL") = IF OfKind(f, r, a, "SELL") THEN Append(sells, f) ELSE sells
    BY <1>1, <2>1, FillsGrow
  <2> HIDE DEF f, c
  <2>4. CASE f.side = "SELL"
    <3>1. ClosuresOf(db', r, a) = IF c.run = r /\ c.asset = a THEN Append(closures, c)
                                  ELSE closures
      BY <1>1, <2>1, <2>4, ClosuresGrow
    <3> HIDE DEF closures, sells
    <3>2. Reports(closures, sells)
      BY DEF closures, sells
    <3>3. Reports(Append(closures, c), Append(sells, f))
      BY <2>1, <2>2, <2>4, <3>2, ReportsOneMore
    <3> QED
      BY <2>1, <2>3, <2>4, <3>1, <3>2, <3>3 DEF OfKind
  <2>5. CASE f.side = "BUY"
    BY <2>1, <2>3, <2>5 DEF OfKind, ClosuresOf
  <2> QED
    BY <2>1, <2>4, <2>5
<1> QED
  BY <1>2, <1>3, OnlyCommitsTrade

(***************************************************************************)
(* The k-th closure of a run and asset reports the k-th sale, also when    *)
(* several followers share the run, and wherever one of them dies between  *)
(* the two rows (one transaction writes both).                             *)
(***************************************************************************)
THEOREM ClosuresAlwaysMatchSells == Spec => []ClosuresMatchSells
<1>1. ClosuresMatchSells <=>
        \A r \in Runs, a \in Assets : Reports(ClosuresOf(db, r, a), FillsOf(db, r, a, "SELL"))
  BY DEF ClosuresMatchSells, Reports
<1>2. Init => ClosuresMatchSells
  <2>1. ASSUME Init, NEW r \in Runs, NEW a \in Assets
        PROVE  Reports(ClosuresOf(db, r, a), FillsOf(db, r, a, "SELL"))
    <3>1. ClosuresOf(db, r, a) = <<>> /\ FillsOf(db, r, a, "SELL") = <<>>
      BY <2>1, NothingTraded DEF Init
    <3> QED
      BY <3>1 DEF Reports
  <2> QED
    BY <1>1, <2>1
<1>3. IInv /\ ClosuresMatchSells /\ [Next]_vars => ClosuresMatchSells'
  <2>1. ASSUME IInv, ClosuresMatchSells, [Next]_vars, NEW r \in Runs, NEW a \in Assets
        PROVE  Reports(ClosuresOf(db', r, a), FillsOf(db', r, a, "SELL"))
    BY <1>1, <2>1, ClosuresMatchStep
  <2> QED
    BY <2>1 DEF ClosuresMatchSells, Reports, ClosuresOf, FillsOf
<1> QED
  BY <1>2, <1>3, InvariantHolds, PTL DEF Spec

-----------------------------------------------------------------------------
(***************************************************************************)
(* Cash and profit.                                                        *)
(***************************************************************************)
\* A quotient times the divisor is at most one divisor short of the product.
LEMMA QuotientBound ==
  ASSUME NEW n \in Nat, NEW h \in Nat, h > 0
  PROVE  /\ n \div h \in Nat
         /\ h * (n \div h) <= n /\ n < h * (n \div h) + h
  OBVIOUS

\* A product at most another with the same factor.
LEMMA ProductOrder ==
  ASSUME NEW x \in Int, NEW y \in Int, NEW h \in Nat, h > 0
  PROVE  /\ h * x <= h * y => x <= y
         /\ h * x < h * y => x < y
<1>1. ASSUME x > y PROVE h * x > h * y
  <2>1. x - y > 0 /\ x - y \in Int
    BY <1>1
  <2>2. h * (x - y) > 0
    BY <2>1
  <2>3. h * (x - y) = h * x - h * y
    OBVIOUS
  <2>4. h * x \in Int /\ h * y \in Int
    OBVIOUS
  <2> QED
    BY <2>2, <2>3, <2>4
<1>2. h * x \in Int /\ h * y \in Int
  OBVIOUS
<1>3. x = y => h * x = h * y
  OBVIOUS
<1> QED
  BY <1>1, <1>2, <1>3

\* Splitting a position loses at most one unit of its basis to rounding.
LEMMA SplitBasis ==
  ASSUME NEW held \in Position, held.quantity > 0, NEW q \in 0..held.quantity
  PROVE  held.cost - BasisOf(held, q) - BasisOf(held, held.quantity - q) \in 0..1
<1> DEFINE c == held.cost
           h == held.quantity
           k == h - q
           x == BasisOf(held, q)
           y == BasisOf(held, k)
<1>1. c \in Nat /\ h \in Nat /\ h > 0 /\ q \in Nat /\ k \in Nat /\ q + k = h
  BY DEF Position
<1>2. x = (c * q) \div h /\ y = (c * k) \div h
  BY DEF BasisOf
<1> HIDE DEF c, h, k, x, y
<1>3. c * q \in Nat /\ c * k \in Nat
  BY <1>1
<1>4. x \in Nat /\ h * x <= c * q /\ c * q < h * x + h
  BY <1>1, <1>2, <1>3, QuotientBound
<1>5. y \in Nat /\ h * y <= c * k /\ c * k < h * y + h
  BY <1>1, <1>2, <1>3, QuotientBound
<1>6. c * q + c * k = h * c
  <2>1. c * q + c * k = c * (q + k)
    BY <1>1
  <2> QED
    BY <1>1, <2>1
<1>7. h * x \in Int /\ h * y \in Int
  BY <1>1, <1>4, <1>5
<1>8. h * x + h * y <= h * c /\ h * c < h * x + h * y + h + h
  BY <1>1, <1>3, <1>4, <1>5, <1>6, <1>7
<1>9. h * (x + y) = h * x + h * y /\ h * (x + y + 2) = h * x + h * y + h + h
  BY <1>1, <1>4, <1>5
<1>10. x + y <= c
  BY <1>1, <1>4, <1>5, <1>8, <1>9, ProductOrder
<1>11. c < x + y + 2
  BY <1>1, <1>4, <1>5, <1>8, <1>9, ProductOrder
<1>12. c - x - y \in 0..1
  BY <1>1, <1>4, <1>5, <1>10, <1>11
<1> QED
  BY <1>12 DEF c, h, k, x, y

\* What a commit does to the basis of its position, and to realized profit.
LEMMA CommitCosts ==
  ASSUME IInv, ExclusiveRuns, NEW p \in Procs, Commit(p)
  PROVE  LET f == FillBy(p)
             k == <<f.run, f.asset>>
             held == db.positions[k]
             kept == db'.positions[k]
         IN  /\ k \in Runs \X Assets /\ held \in Position
             /\ \A other \in (Runs \X Assets) \ {k} :
                  db'.positions[other] = db.positions[other]
             /\ f.side = "BUY" => kept.cost = held.cost + f.notional
             /\ f.side = "SELL" =>
                  /\ held.quantity > 0 /\ f.quantity \in 0..held.quantity
                  /\ kept.cost = BasisOf(held, held.quantity - f.quantity)
                  /\ ClosureBy(p).realized = f.notional - BasisOf(held, f.quantity)
<1> DEFINE f == FillBy(p)
           k == <<f.run, f.asset>>
           held == db.positions[k]
           kept == db'.positions[k]
<1>1. TypeOK /\ HandInv /\ TransactionInv /\ ExclusiveInv
  BY DEF IInv
<1>2. /\ pc[p] \in Quoted /\ f.run = run[p] /\ f.asset = act(p).asset
      /\ f.side = act(p).side /\ f.quantity = est[p].quantity /\ f.notional = est[p].cost
      /\ db'.positions = [db.positions EXCEPT ![<<run[p], act(p).asset>>] = NewPosition(p)]
  BY <1>1, CommitWrites DEF FillBy
<1>3. k = <<run[p], act(p).asset>> /\ k \in Runs \X Assets
  BY <1>1, <1>2, HandType DEF Decided
<1>4. db.positions \in [Runs \X Assets -> Position]
  BY <1>1 DEF TypeOK, Image
<1> HIDE DEF f
<1>5. kept = NewPosition(p) /\ held \in Position
      /\ \A other \in (Runs \X Assets) \ {k} : db'.positions[other] = db.positions[other]
  BY <1>2, <1>3, <1>4
<1>6. act(p).side = "BUY" => kept.cost = held.cost + f.notional
  BY <1>1, <1>2, <1>3, <1>5, CommitMoves
<1>7. ASSUME act(p).side = "SELL"
      PROVE  /\ held.quantity > 0 /\ f.quantity \in 0..held.quantity
             /\ kept.cost = BasisOf(held, held.quantity - f.quantity)
             /\ ClosureBy(p).realized = f.notional - BasisOf(held, f.quantity)
  <2> DEFINE left == held.quantity - f.quantity
  <2>1. pos[p] = held
    BY <1>1, <1>2, <1>3, <1>7 DEF ExclusiveInv, ExclusiveAt, Decided
  <2>2. /\ held.quantity \in Nat /\ held.cost \in Nat /\ f.quantity \in Nat
        /\ held.quantity > 0 /\ f.quantity <= held.quantity
    BY <1>1, <1>2, <1>7, <2>1, QuotedTypes
  <2>3. left \in Nat
    BY <2>2
  <2>4. kept = IF left <= 0 THEN NoPosition
               ELSE [quantity |-> left, cost |-> BasisOf(held, left)]
    BY <1>2, <1>5, <1>7, <2>1 DEF NewPosition, AfterSell
  <2>5. BasisOf(held, 0) = 0
    <3> DEFINE c == held.cost
               h == held.quantity
    <3>1. c \in Nat /\ h \in Nat /\ h > 0
      BY <2>2
    <3> HIDE DEF c, h
    <3>2. (c * 0) \div h = 0
      <4>1. c * 0 = 0 /\ 0 \div h = 0
        BY <3>1
      <4> QED
        BY <4>1
    <3> QED
      BY <3>2 DEF BasisOf, c, h
  <2> HIDE DEF left
  <2>6. kept.cost = BasisOf(held, left)
    <3>1. CASE left = 0
      BY <2>4, <2>5, <3>1 DEF NoPosition
    <3>2. CASE left # 0
      <4>1. ~(left <= 0)
        BY <2>3, <3>2
      <4> QED
        BY <2>4, <4>1
    <3> QED
      BY <3>1, <3>2
  <2>7. ClosureBy(p).realized = f.notional - BasisOf(held, f.quantity)
    BY <1>2, <2>1 DEF ClosureBy, ClosureOf
  <2> QED
    BY <2>2, <2>6, <2>7 DEF left
<1> QED
  BY <1>2, <1>3, <1>5, <1>6, <1>7 DEF f

\* The profit of the closures.
Profit(img, r, a) == TotalOf(ClosuresOf(img, r, a), "realized")

\* The profit is a number.
LEMMA ProfitType ==
  ASSUME NEW img \in Image, NEW r, NEW a
  PROVE  Profit(img, r, a) \in Int
<1>1. HasField(ClosureRow, "realized")
  BY DEF HasField, ClosureRow
<1> QED
  BY <1>1, ClosuresType, TotalType DEF Profit

\* A closure more adds what it realized.
LEMMA ProfitGrows ==
  ASSUME NEW img \in Image, NEW new, NEW row \in ClosureRow,
         new.closures = Append(img.closures, row), NEW r, NEW a
  PROVE  Profit(new, r, a) =
           IF row.run = r /\ row.asset = a THEN Profit(img, r, a) + row.realized
           ELSE Profit(img, r, a)
<1>1. ClosuresOf(img, r, a) \in Seq(ClosureRow) /\ HasField(ClosureRow, "realized")
  BY ClosuresType DEF HasField, ClosureRow
<1>2. TotalOf(Append(ClosuresOf(img, r, a), row), "realized")
        = TotalOf(ClosuresOf(img, r, a), "realized") + row.realized
  BY <1>1, TotalAppend
<1>3. CASE row.run = r /\ row.asset = a
  BY <1>2, <1>3, ClosuresGrow DEF Profit
<1>4. CASE ~(row.run = r /\ row.asset = a)
  BY <1>4, ClosuresGrow DEF Profit
<1> QED
  BY <1>3, <1>4

\* One run and one asset of CashReconciles.
CashGap(img, r, a) ==
  (Traded(img, r, a, "BUY", "notional") + Profit(img, r, a))
    - (Traded(img, r, a, "SELL", "notional") + img.positions[<<r, a>>].cost)

CashBalances(img, r, a) == CashGap(img, r, a) \in 0..Len(FillsOf(img, r, a, "SELL"))

\* A sale widens the gap by at most the unit its rounding loses.
LEMMA CashBalancesStep ==
  ASSUME IInv, ExclusiveRuns, [Next]_vars, NEW r \in Runs, NEW a \in Assets,
         CashBalances(db, r, a)
  PROVE  CashBalances(db', r, a)
<1>1. db \in Image
  BY DEF IInv, TypeOK
<1>2. CASE UNCHANGED trades
  BY <1>2 DEF trades, CashBalances, CashGap, Traded, Profit, FillsOf, ClosuresOf
<1>3. ASSUME NEW p \in Procs, Commit(p)
      PROVE  CashBalances(db', r, a)
  <2> DEFINE f == FillBy(p)
             c == ClosureBy(p)
             k == <<f.run, f.asset>>
             held == db.positions[k]
             kept == db'.positions[k]
             sells == FillsOf(db, r, a, "SELL")
             paid == Traded(db, r, a, "BUY", "notional")
             got == Traded(db, r, a, "SELL", "notional")
             profit == Profit(db, r, a)
             cost == db.positions[<<r, a>>].cost
  <2>1. /\ f \in FillRow /\ f.side \in {"BUY", "SELL"} /\ db'.fills = Append(db.fills, f)
        /\ f.notional \in Nat
        /\ f.side = "BUY" => db'.closures = db.closures
        /\ f.side = "SELL" =>
              /\ c \in ClosureRow /\ c.run = f.run /\ c.asset = f.asset
              /\ db'.closures = Append(db.closures, c)
    BY <1>3, CommitRows
  <2>2. /\ k \in Runs \X Assets /\ held \in Position
        /\ \A other \in (Runs \X Assets) \ {k} :
             db'.positions[other] = db.positions[other]
        /\ f.side = "BUY" => kept.cost = held.cost + f.notional
        /\ f.side = "SELL" =>
             /\ held.quantity > 0 /\ f.quantity \in 0..held.quantity
             /\ kept.cost = BasisOf(held, held.quantity - f.quantity)
             /\ c.realized = f.notional - BasisOf(held, f.quantity)
    BY <1>3, CommitCosts
  <2>3. paid \in Int /\ got \in Int /\ profit \in Int /\ cost \in Int
        /\ sells \in Seq(FillRow) /\ Len(sells) \in Nat
    <3>1. cost \in Nat
      BY <1>1 DEF Image, Position
    <3> QED
      BY <1>1, <3>1, TradedType, ProfitType, FillsType
  <2>4. (paid + profit) - (got + cost) \in 0..Len(sells)
    BY DEF CashBalances, CashGap
  <2>5. /\ Traded(db', r, a, "BUY", "notional")
             = IF OfKind(f, r, a, "BUY") THEN paid + f.notional ELSE paid
        /\ Traded(db', r, a, "SELL", "notional")
             = IF OfKind(f, r, a, "SELL") THEN got + f.notional ELSE got
        /\ FillsOf(db', r, a, "SELL")
             = IF OfKind(f, r, a, "SELL") THEN Append(sells, f) ELSE sells
    <3>1. Traded(db', r, a, "BUY", "notional")
            = IF OfKind(f, r, a, "BUY") THEN paid + f.notional ELSE paid
      BY <1>1, <2>1, TradedGrows
    <3>2. Traded(db', r, a, "SELL", "notional")
            = IF OfKind(f, r, a, "SELL") THEN got + f.notional ELSE got
      BY <1>1, <2>1, TradedGrows
    <3>3. FillsOf(db', r, a, "SELL")
            = IF OfKind(f, r, a, "SELL") THEN Append(sells, f) ELSE sells
      BY <1>1, <2>1, FillsGrow
    <3> QED
      BY <3>1, <3>2, <3>3
  <2>6. f.side = "BUY" => Profit(db', r, a) = profit
    BY <2>1 DEF Profit, ClosuresOf
  <2>7. f.side = "SELL" =>
          Profit(db', r, a) = IF c.run = r /\ c.asset = a THEN profit + c.realized ELSE profit
    BY <1>1, <2>1, ProfitGrows
  <2> HIDE DEF f, c, sells, paid, got, profit
  <2>8. CASE ~(f.run = r /\ f.asset = a)
    <3>1. db'.positions[<<r, a>>] = db.positions[<<r, a>>]
      BY <2>2, <2>8
    <3>2. /\ Traded(db', r, a, "BUY", "notional") = paid
          /\ Traded(db', r, a, "SELL", "notional") = got
          /\ FillsOf(db', r, a, "SELL") = sells
      BY <2>5, <2>8 DEF OfKind
    <3>3. Profit(db', r, a) = profit
      BY <2>1, <2>6, <2>7, <2>8
    <3> QED
      BY <2>4, <3>1, <3>2, <3>3 DEF CashBalances, CashGap
  <2>9. CASE f.run = r /\ f.asset = a /\ f.side = "BUY"
    <3>1. db'.positions[<<r, a>>].cost = cost + f.notional
      BY <2>2, <2>9
    <3>2. /\ Traded(db', r, a, "BUY", "notional") = paid + f.notional
          /\ Traded(db', r, a, "SELL", "notional") = got
          /\ FillsOf(db', r, a, "SELL") = sells
      BY <2>5, <2>9 DEF OfKind
    <3> HIDE DEF cost
    <3>3. ((paid + f.notional) + profit) - (got + (cost + f.notional)) \in 0..Len(sells)
      BY <2>1, <2>3, <2>4
    <3> QED
      BY <2>6, <2>9, <3>1, <3>2, <3>3 DEF CashBalances, CashGap
  <2>10. CASE f.run = r /\ f.asset = a /\ f.side = "SELL"
    <3> DEFINE x == BasisOf(held, f.quantity)
               y == BasisOf(held, held.quantity - f.quantity)
    <3>1. db'.positions[<<r, a>>].cost = y /\ held.cost = cost
      BY <2>2, <2>10
    <3>2. held.cost - x - y \in 0..1
      BY <2>2, <2>10, SplitBasis
    <3>3. x \in Nat /\ y \in Nat
      <4>1. held.quantity - f.quantity \in 0..held.quantity
        BY <2>2, <2>10 DEF Position
      <4> QED
        BY <2>2, <2>10, <4>1, BasisBound
    <3>4. /\ Traded(db', r, a, "BUY", "notional") = paid
          /\ Traded(db', r, a, "SELL", "notional") = got + f.notional
          /\ FillsOf(db', r, a, "SELL") = Append(sells, f)
      BY <2>5, <2>10 DEF OfKind
    <3>5. Profit(db', r, a) = profit + (f.notional - x)
      BY <2>1, <2>2, <2>7, <2>10
    <3>6. Len(Append(sells, f)) = Len(sells) + 1
      BY <2>1, <2>3
    <3> HIDE DEF cost, x, y, held
    <3>7. (paid + (profit + (f.notional - x))) - ((got + f.notional) + y) \in 0..(Len(sells) + 1)
      <4> DEFINE n == f.notional
                 most == Len(sells)
      <4>1. n \in Nat /\ most \in Nat /\ cost - x - y \in 0..1
            /\ (paid + profit) - (got + cost) \in 0..most
        BY <2>1, <2>3, <2>4, <3>1, <3>2
      <4> HIDE DEF n, most
      <4>2. (paid + (profit + (n - x))) - ((got + n) + y) \in 0..(most + 1)
        BY <2>3, <3>3, <4>1
      <4> QED
        BY <4>2 DEF n, most
    <3> QED
      BY <3>1, <3>4, <3>5, <3>6, <3>7 DEF CashBalances, CashGap
  <2> QED
    BY <2>1, <2>8, <2>9, <2>10
<1> QED
  BY <1>2, <1>3, OnlyCommitsTrade

(***************************************************************************)
(* Bookkeeping makes and loses no money: for a run with one follower, what *)
(* came in plus the basis still open is what went out plus the realized    *)
(* profit, up to one unit of rounding per sale, after any sequence of      *)
(* purchases and partial exits (the average-cost rules of follower.py).    *)
(***************************************************************************)
THEOREM CashAlwaysReconciles ==
  ASSUME ExclusiveRuns
  PROVE  Spec => []CashReconciles
<1>1. CashReconciles <=> \A r \in Runs, a \in Assets : CashBalances(db, r, a)
  BY DEF CashReconciles, CashBalances, CashGap, Traded, Profit
<1>2. Init => CashReconciles
  <2>1. ASSUME Init, NEW r \in Runs, NEW a \in Assets
        PROVE  CashBalances(db, r, a)
    <3>1. db = EmptyImage /\ EmptyImage.positions[<<r, a>>].cost = 0
      BY <2>1 DEF Init, EmptyImage, NoPosition
    <3>2. /\ Traded(EmptyImage, r, a, "BUY", "notional") = 0
          /\ Traded(EmptyImage, r, a, "SELL", "notional") = 0
          /\ Profit(EmptyImage, r, a) = 0
          /\ FillsOf(EmptyImage, r, a, "SELL") = <<>>
      BY NothingTraded, TotalEmpty DEF Profit
    <3>3. (0 + 0) - (0 + 0) \in 0..Len(<<>>)
      OBVIOUS
    <3> QED
      BY <3>1, <3>2, <3>3 DEF CashBalances, CashGap
  <2> QED
    BY <1>1, <2>1
<1>3. IInv /\ CashReconciles /\ [Next]_vars => CashReconciles'
  <2>1. ASSUME IInv, CashReconciles, [Next]_vars, NEW r \in Runs, NEW a \in Assets
        PROVE  CashBalances(db', r, a)
    BY <1>1, <2>1, CashBalancesStep
  <2> QED
    BY <2>1 DEF CashReconciles, CashBalances, CashGap, Traded, Profit, FillsOf, ClosuresOf
<1> QED
  BY <1>2, <1>3, InvariantHolds, PTL DEF Spec

(***************************************************************************)
(* A run with one follower never sells more of an asset than it bought;    *)
(* the run `oversell` shows that two followers of one run may.             *)
(***************************************************************************)
THEOREM ExclusiveNeverOversells ==
  ASSUME ExclusiveRuns
  PROVE  Spec => []NeverOversold
<1>1. IInv /\ PositionsReconcile => NeverOversold
  <2>1. ASSUME IInv, PositionsReconcile, NEW r \in Runs, NEW a \in Assets
        PROVE  Traded(db, r, a, "SELL", "quantity") <= Traded(db, r, a, "BUY", "quantity")
    <3>1. db \in Image /\ db.positions[<<r, a>>].quantity \in Nat
      BY <2>1 DEF IInv, TypeOK, Image, Position
    <3>2. /\ Traded(db, r, a, "SELL", "quantity") \in Int
          /\ Traded(db, r, a, "BUY", "quantity") \in Int
      BY <3>1, TradedType
    <3>3. db.positions[<<r, a>>].quantity
            = Traded(db, r, a, "BUY", "quantity") - Traded(db, r, a, "SELL", "quantity")
      BY <2>1 DEF PositionsReconcile, Traded
    <3> QED
      BY <3>1, <3>2, <3>3
  <2> QED
    BY <2>1 DEF NeverOversold, Traded
<1> QED
  BY <1>1, InvariantHolds, PositionsAlwaysReconcile, PTL

-----------------------------------------------------------------------------
(***************************************************************************)
(* The tables only grow, fills no slower than filled signals and closures  *)
(* no slower than sales.                                                   *)
(***************************************************************************)
OfRun(r) == {row \in SignalRow \union FillRow \union ClosureRow : row.run = r}
FilledRows == {s \in SignalRow : s.filled}
Sales == {f \in FillRow : f.side = "SELL"}
SkippedFor(why) == {s \in SignalRow : ~s.filled /\ s.reason = why}

\* Two tables of which the second is the first or has one row more, of R.
OneMore(R, rows, more) == more = rows \/ \E row \in R : more = Append(rows, row)

\* No step takes a row away.
LEMMA TablesGrow ==
  ASSUME IInv, [Next]_vars
  PROVE  /\ OneMore(SignalRow, db.signals, db'.signals)
         /\ OneMore(FillRow, db.fills, db'.fills)
         /\ OneMore(ClosureRow, db.closures, db'.closures)
<1>1. TypeOK /\ HandInv /\ TransactionInv /\ db \in Image
  BY DEF IInv, TypeOK
<1>2. CASE db' = db
  BY <1>2 DEF OneMore
<1>3. ASSUME NEW p \in Procs, CreateRun(p)
      PROVE  db'.signals = db.signals /\ db'.fills = db.fills /\ db'.closures = db.closures
  BY <1>1, <1>3 DEF CreateRun, Autocommit, CommitUnlessDeferred, Image
<1>4. ASSUME NEW p \in Procs, Skip(p)
      PROVE  /\ OneMore(SignalRow, db.signals, db'.signals)
             /\ db'.fills = db.fills /\ db'.closures = db.closures
  BY <1>1, <1>4, SkipWrites DEF OneMore
<1>5. ASSUME NEW p \in Procs, Commit(p)
      PROVE  /\ OneMore(SignalRow, db.signals, db'.signals)
             /\ OneMore(FillRow, db.fills, db'.fills)
             /\ OneMore(ClosureRow, db.closures, db'.closures)
  <2>1. OneMore(SignalRow, db.signals, db'.signals)
    BY <1>1, <1>5, CommitWrites DEF OneMore
  <2>2. /\ OneMore(FillRow, db.fills, db'.fills)
        /\ OneMore(ClosureRow, db.closures, db'.closures)
    BY <1>5, CommitRows DEF OneMore
  <2> QED
    BY <2>1, <2>2
<1> QED
  BY <1>2, <1>3, <1>4, <1>5, FileWrites DEF vars, OneMore

\* A selection grows with its table.
LEMMA SelectGrows ==
  ASSUME NEW R, NEW rows \in Seq(R), NEW more, OneMore(R, rows, more), NEW S
  PROVE  /\ more \in Seq(R)
         /\ OneMore(R, Select(rows, S), Select(more, S))
         /\ Len(Select(rows, S)) \in Nat
         /\ Len(Select(rows, S)) <= Len(Select(more, S))
<1>1. Select(rows, S) \in Seq(R)
  BY SelectType
<1>2. CASE more = rows
  BY <1>1, <1>2 DEF OneMore
<1>3. ASSUME NEW row \in R, more = Append(rows, row)
      PROVE  /\ more \in Seq(R)
             /\ OneMore(R, Select(rows, S), Select(more, S))
             /\ Len(Select(rows, S)) <= Len(Select(more, S))
  <2>1. Select(more, S) = IF row \in S THEN Append(Select(rows, S), row) ELSE Select(rows, S)
    BY <1>3, SelectAppend
  <2>2. more \in Seq(R) /\ Len(Append(Select(rows, S), row)) = Len(Select(rows, S)) + 1
        /\ Len(Select(rows, S)) \in Nat
    BY <1>1, <1>3
  <2>3. CASE row \in S
    BY <2>1, <2>2, <2>3 DEF OneMore
  <2>4. CASE row \notin S
    BY <2>1, <2>2, <2>4 DEF OneMore
  <2> QED
    BY <2>2, <2>3, <2>4
<1>4. Len(Select(rows, S)) \in Nat
  BY <1>1
<1> QED
  BY <1>1, <1>2, <1>3, <1>4 DEF OneMore

\* How many rows are in S, and how many of those in U.
Count(rows, S) == Len(Select(rows, S))
CountBoth(rows, S, U) == Len(Select(Select(rows, S), U))

\* A row more counts if it is in S.
LEMMA CountAppend ==
  ASSUME NEW R, NEW rows \in Seq(R), NEW row \in R, NEW S
  PROVE  /\ Count(rows, S) \in Nat
         /\ Count(Append(rows, row), S) = Count(rows, S) + (IF row \in S THEN 1 ELSE 0)
<1> DEFINE kept == Select(rows, S)
<1>1. kept \in Seq(R)
  BY SelectType
<1>2. Select(Append(rows, row), S) = IF row \in S THEN Append(kept, row) ELSE kept
  BY SelectAppend
<1>3. Count(rows, S) = Len(kept)
  BY DEF Count
<1> HIDE DEF kept
<1>4. Len(kept) \in Nat /\ Len(Append(kept, row)) = Len(kept) + 1
  BY <1>1
<1>5. CASE row \in S
  BY <1>2, <1>3, <1>4, <1>5 DEF Count
<1>6. CASE row \notin S
  BY <1>2, <1>3, <1>4, <1>6 DEF Count
<1> QED
  BY <1>5, <1>6

\* And in both, if it is in both.
LEMMA CountBothAppend ==
  ASSUME NEW R, NEW rows \in Seq(R), NEW row \in R, NEW S, NEW U
  PROVE  /\ CountBoth(rows, S, U) \in Nat
         /\ CountBoth(Append(rows, row), S, U)
              = CountBoth(rows, S, U) + (IF row \in S /\ row \in U THEN 1 ELSE 0)
<1> DEFINE kept == Select(rows, S)
<1>1. kept \in Seq(R)
  BY SelectType
<1>2. Select(Append(rows, row), S) = IF row \in S THEN Append(kept, row) ELSE kept
  BY SelectAppend
<1>3. CountBoth(rows, S, U) = Count(kept, U)
  BY DEF CountBoth, Count
<1> HIDE DEF kept
<1>4. /\ Count(kept, U) \in Nat
      /\ Count(Append(kept, row), U) = Count(kept, U) + (IF row \in U THEN 1 ELSE 0)
  BY <1>1, CountAppend
<1>5. CountBoth(Append(rows, row), S, U)
        = IF row \in S THEN Count(Append(kept, row), U) ELSE Count(kept, U)
  BY <1>2 DEF CountBoth, Count
<1> QED
  BY <1>3, <1>4, <1>5

\* Each filled signal of the file has its fill, each sale its closure.
Forward(img, r) ==
  /\ CountBoth(img.signals, OfRun(r), FilledRows) <= Count(img.fills, OfRun(r))
  /\ CountBoth(img.fills, OfRun(r), Sales) <= Count(img.closures, OfRun(r))

\* Every step of a follower keeps it.
LEMMA ForwardStep ==
  ASSUME IInv, [Next]_vars, NEW r, Forward(db, r)
  PROVE  Forward(db', r)
<1>1. TypeOK /\ HandInv /\ TransactionInv /\ db \in Image
  BY DEF IInv, TypeOK
<1>2. db.signals \in Seq(SignalRow) /\ db.fills \in Seq(FillRow) /\ db.closures \in Seq(ClosureRow)
  BY <1>1 DEF Image
<1>3. CASE db' = db
  BY <1>3 DEF Forward
<1>4. ASSUME NEW p \in Procs, CreateRun(p)
      PROVE  Forward(db', r)
  <2>1. db'.signals = db.signals /\ db'.fills = db.fills /\ db'.closures = db.closures
    BY <1>1, <1>4 DEF CreateRun, Autocommit, CommitUnlessDeferred, Image
  <2> QED
    BY <2>1 DEF Forward
<1>5. ASSUME NEW p \in Procs, Skip(p)
      PROVE  Forward(db', r)
  <2> DEFINE row == SignalRowOf(p, FALSE, reason[p])
  <2>1. /\ row \in SignalRow /\ ~row.filled /\ db'.signals = Append(db.signals, row)
        /\ db'.fills = db.fills /\ db'.closures = db.closures
    BY <1>1, <1>5, SkipWrites
  <2> HIDE DEF row
  <2>2. row \notin FilledRows
    BY <2>1 DEF FilledRows
  <2>3. /\ CountBoth(db'.signals, OfRun(r), FilledRows)
             = CountBoth(db.signals, OfRun(r), FilledRows) + 0
        /\ CountBoth(db.signals, OfRun(r), FilledRows) \in Nat
    BY <1>2, <2>1, <2>2, CountBothAppend
  <2>4. CountBoth(db'.signals, OfRun(r), FilledRows)
          = CountBoth(db.signals, OfRun(r), FilledRows)
    BY <2>3
  <2> QED
    BY <2>1, <2>4 DEF Forward
<1>6. ASSUME NEW p \in Procs, Commit(p)
      PROVE  Forward(db', r)
  <2> DEFINE row == SignalRowOf(p, TRUE, "none")
             f == FillBy(p)
             c == ClosureBy(p)
  <2>1. /\ row \in SignalRow /\ row.run = f.run
        /\ db'.signals = Append(db.signals, row)
    BY <1>1, <1>6, CommitWrites DEF FillBy
  <2>2. /\ f \in FillRow /\ f.side \in {"BUY", "SELL"} /\ db'.fills = Append(db.fills, f)
        /\ f.side = "BUY" => db'.closures = db.closures
        /\ f.side = "SELL" => /\ c \in ClosureRow /\ c.run = f.run
                              /\ db'.closures = Append(db.closures, c)
    BY <1>6, CommitRows
  <2> HIDE DEF row, f, c
  <2> DEFINE filled == CountBoth(db.signals, OfRun(r), FilledRows)
             fills == Count(db.fills, OfRun(r))
             sales == CountBoth(db.fills, OfRun(r), Sales)
             closures == Count(db.closures, OfRun(r))
  <2>3. /\ row \in OfRun(r) <=> f.run = r
        /\ f \in OfRun(r) <=> f.run = r
        /\ f \in Sales <=> f.side = "SELL"
        /\ f.side = "SELL" => (c \in OfRun(r) <=> f.run = r)
    BY <2>1, <2>2 DEF OfRun, Sales
  <2>4. /\ CountBoth(db'.signals, OfRun(r), FilledRows)
             = filled + (IF row \in OfRun(r) /\ row \in FilledRows THEN 1 ELSE 0)
        /\ filled \in Nat
    BY <1>2, <2>1, CountBothAppend
  <2>5. /\ Count(db'.fills, OfRun(r)) = fills + (IF f \in OfRun(r) THEN 1 ELSE 0)
        /\ CountBoth(db'.fills, OfRun(r), Sales)
             = sales + (IF f \in OfRun(r) /\ f \in Sales THEN 1 ELSE 0)
        /\ fills \in Nat /\ sales \in Nat
    BY <1>2, <2>2, CountAppend, CountBothAppend
  <2>6. ASSUME f.side = "SELL"
        PROVE  /\ Count(db'.closures, OfRun(r)) = closures + (IF c \in OfRun(r) THEN 1 ELSE 0)
               /\ closures \in Nat
    <3>1. c \in ClosureRow /\ db'.closures = Append(db.closures, c)
      BY <2>2, <2>6
    <3> QED
      BY <1>2, <3>1, CountAppend
  <2>7. filled <= fills /\ sales <= closures
    BY DEF Forward
  <2>8. f.side = "BUY" => Count(db'.closures, OfRun(r)) = closures
    BY <2>2
  <2> HIDE DEF filled, fills, sales, closures
  <2>9. CountBoth(db'.signals, OfRun(r), FilledRows) <= Count(db'.fills, OfRun(r))
    BY <2>3, <2>4, <2>5, <2>7
  <2>10. CountBoth(db'.fills, OfRun(r), Sales) <= Count(db'.closures, OfRun(r))
    <3>1. CASE f.side = "SELL"
      BY <2>3, <2>5, <2>6, <2>7, <3>1
    <3>2. CASE f.side = "BUY"
      <4>1. CountBoth(db'.fills, OfRun(r), Sales) = sales
        BY <2>3, <2>5, <3>2
      <4> QED
        BY <2>7, <2>8, <3>2, <4>1
    <3> QED
      BY <2>2, <3>1, <3>2
  <2> QED
    BY <2>9, <2>10 DEF Forward
<1> QED
  BY <1>3, <1>4, <1>5, <1>6, FileWrites DEF vars

\* Counts only grow.
LEMMA CountsGrow ==
  ASSUME NEW R, NEW rows \in Seq(R), NEW more, OneMore(R, rows, more), NEW S, NEW U
  PROVE  /\ Count(rows, S) \in Nat /\ Count(more, S) \in Nat
         /\ Count(rows, S) <= Count(more, S)
         /\ CountBoth(rows, S, U) \in Nat /\ CountBoth(more, S, U) \in Nat
         /\ CountBoth(rows, S, U) <= CountBoth(more, S, U)
<1>1. Select(rows, S) \in Seq(R)
  BY SelectType
<1>2. more \in Seq(R) /\ OneMore(R, Select(rows, S), Select(more, S))
      /\ Count(rows, S) \in Nat /\ Count(rows, S) <= Count(more, S)
  BY SelectGrows DEF Count
<1>3. Select(more, S) \in Seq(R)
  BY <1>2, SelectType
<1>4. Count(more, S) \in Nat
  BY <1>3 DEF Count
<1>5. CountBoth(rows, S, U) \in Nat /\ CountBoth(rows, S, U) <= CountBoth(more, S, U)
  BY <1>1, <1>2, SelectGrows DEF CountBoth
<1>6. Select(Select(more, S), U) \in Seq(R)
  BY <1>3, SelectType
<1>7. CountBoth(more, S, U) \in Nat
  BY <1>6 DEF CountBoth
<1> QED
  BY <1>2, <1>4, <1>5, <1>7

-----------------------------------------------------------------------------
(***************************************************************************)
(* The invariant of a report.                                              *)
(***************************************************************************)
ReadType ==
  [signals : Seq(SignalRow), fills : Seq(FillRow), closures : Seq(ClosureRow),
   positions : [Assets -> Position], marks : [Assets -> Prices \union {NoPrice}],
   skips : [Reasons -> Nat]]

ReportType ==
  /\ step \in 0..7 /\ (step > 0 => subject \in Runs)
  /\ read \in ReadType /\ quiet \in BOOLEAN

\* What was read is no further than the tables still to be read are now, and
\* than those read later were.
ReadForward ==
  /\ step > 1 => Count(read.signals, FilledRows) <= Count(db.fills, OfRun(subject))
  /\ step > 2 => Count(read.signals, FilledRows) <= Len(read.fills)
  /\ step > 2 => Count(read.fills, Sales) <= Count(db.closures, OfRun(subject))
  /\ step > 3 => Count(read.fills, Sales) <= Len(read.closures)
  /\ step > 1 => \A why \in Reasons :
       Count(read.signals, SkippedFor(why))
         <= CountBoth(db.signals, OfRun(subject), SkippedFor(why))
  /\ step > 6 => \A why \in Reasons :
       Count(read.signals, SkippedFor(why)) <= read.skips[why]

\* What was read is still there while nothing is committed.
ReadQuietly ==
  quiet =>
    /\ step > 2 => read.fills = Select(db.fills, OfRun(subject))
    /\ step > 3 => read.closures = Select(db.closures, OfRun(subject))
    /\ step > 4 => read.positions = [a \in Assets |-> db.positions[<<subject, a>>]]

ReportInv ==
  /\ ReportType /\ ReadForward /\ ReadQuietly
  /\ \A r \in Runs : Forward(db, r)

-----------------------------------------------------------------------------
(***************************************************************************)
(* The steps of a report.                                                  *)
(***************************************************************************)
\* What a commit, a skip or any other step of the followers does to it.
LEMMA FollowersKeep ==
  ASSUME IInv, ReportInv, Next, quiet' = (quiet /\ db' = db), UNCHANGED <<step, subject, read>>
  PROVE  ReportInv'
<1>1. db.signals \in Seq(SignalRow) /\ db.fills \in Seq(FillRow) /\ db.closures \in Seq(ClosureRow)
  BY DEF IInv, TypeOK, Image
<1>2. /\ OneMore(SignalRow, db.signals, db'.signals)
      /\ OneMore(FillRow, db.fills, db'.fills)
      /\ OneMore(ClosureRow, db.closures, db'.closures)
  BY TablesGrow
<1>3. ReportType'
  BY DEF ReportInv, ReportType
<1>4. \A r \in Runs : Forward(db', r)
  BY ForwardStep DEF ReportInv
<1>5. ReadQuietly'
  BY DEF ReportInv, ReadQuietly
<1>6. ReadForward'
  <2>1. Count(db.fills, OfRun(subject)) \in Nat /\ Count(db'.fills, OfRun(subject)) \in Nat
        /\ Count(db.fills, OfRun(subject)) <= Count(db'.fills, OfRun(subject))
    <3>1. \A U : /\ Count(db.fills, OfRun(subject)) \in Nat /\ Count(db'.fills, OfRun(subject)) \in Nat
                 /\ Count(db.fills, OfRun(subject)) <= Count(db'.fills, OfRun(subject))
                 /\ CountBoth(db.fills, OfRun(subject), U) \in Nat
      BY <1>1, <1>2, CountsGrow
    <3> QED
      BY <3>1
  <2>2. Count(db.closures, OfRun(subject)) \in Nat /\ Count(db'.closures, OfRun(subject)) \in Nat
        /\ Count(db.closures, OfRun(subject)) <= Count(db'.closures, OfRun(subject))
    <3>1. \A U : /\ Count(db.closures, OfRun(subject)) \in Nat /\ Count(db'.closures, OfRun(subject)) \in Nat
                 /\ Count(db.closures, OfRun(subject)) <= Count(db'.closures, OfRun(subject))
                 /\ CountBoth(db.closures, OfRun(subject), U) \in Nat
      BY <1>1, <1>2, CountsGrow
    <3> QED
      BY <3>1
  <2>3. ASSUME NEW why
        PROVE  /\ CountBoth(db.signals, OfRun(subject), SkippedFor(why)) \in Nat
               /\ CountBoth(db'.signals, OfRun(subject), SkippedFor(why)) \in Nat
               /\ CountBoth(db.signals, OfRun(subject), SkippedFor(why))
                    <= CountBoth(db'.signals, OfRun(subject), SkippedFor(why))
    BY <1>1, <1>2, CountsGrow
  <2>4. read.signals \in Seq(SignalRow) /\ read.fills \in Seq(FillRow)
    BY DEF ReportInv, ReportType, ReadType
  <2>5. Count(read.signals, FilledRows) \in Nat /\ Count(read.fills, Sales) \in Nat
    BY <2>4, SelectGrows DEF OneMore, Count
  <2>6. ASSUME NEW why PROVE Count(read.signals, SkippedFor(why)) \in Nat
    BY <2>4, SelectGrows DEF OneMore, Count
  <2>7. /\ step > 1 => Count(read.signals, FilledRows) <= Count(db'.fills, OfRun(subject))
        /\ step > 2 => Count(read.fills, Sales) <= Count(db'.closures, OfRun(subject))
    BY <2>1, <2>2, <2>5 DEF ReportInv, ReadForward
  <2>8. step > 1 => \A why \in Reasons :
          Count(read.signals, SkippedFor(why))
            <= CountBoth(db'.signals, OfRun(subject), SkippedFor(why))
    BY <2>3, <2>6 DEF ReportInv, ReadForward
  <2> QED
    BY <2>7, <2>8 DEF ReportInv, ReadForward
<1> QED
  BY <1>3, <1>4, <1>5, <1>6 DEF ReportInv

\* Each table is read in its turn.
LEMMA ReadsInOrder ==
  ASSUME ReadTable \/ MarkPositions
  PROVE  /\ step \in 1..6 /\ step' = step + 1 /\ UNCHANGED <<vars, subject, quiet>>
         /\ step = 1 => read' = [read EXCEPT !["signals"] = RowsOf(db.signals)]
         /\ step = 2 => read' = [read EXCEPT !["fills"] = RowsOf(db.fills)]
         /\ step = 3 => read' = [read EXCEPT !["closures"] = RowsOf(db.closures)]
         /\ step = 4 => read' = [read EXCEPT !["positions"] =
                                   [a \in Assets |-> db.positions[<<subject, a>>]]]
         /\ step = 5 => \E m \in [Assets -> Prices \union {NoPrice}] :
                          read' = [read EXCEPT !["marks"] = m]
         /\ step = 6 => read' = [read EXCEPT !["skips"] = SkipCounts(RowsOf(db.signals))]
<1>1. /\ Tables[1] = "signals" /\ Tables[2] = "fills" /\ Tables[3] = "closures"
      /\ Tables[4] = "positions" /\ Tables[5] = "marks" /\ Tables[6] = "skips"
      /\ DOMAIN Tables = 1..6
  BY DEF Tables
<1>2. DOMAIN NothingRead = {"signals", "fills", "closures", "positions", "marks", "skips"}
  BY DEF NothingRead
<1>3. CASE MarkPositions
  <2>1. PICK m \in [Assets -> Prices \union {NoPrice}] : Take("marks", m)
    BY <1>3 DEF MarkPositions
  <2>2. step \in 1..6 /\ Tables[step] = "marks" /\ step' = step + 1
        /\ UNCHANGED <<vars, subject, quiet>> /\ read' = [read EXCEPT !["marks"] = m]
    BY <1>1, <2>1 DEF Take, Reading
  <2>3. step = 5
    BY <1>1, <2>2
  <2>4. \E n \in [Assets -> Prices \union {NoPrice}] : read' = [read EXCEPT !["marks"] = n]
    BY <2>1, <2>2
  <2>5. step \in 1..6 /\ step # 1 /\ step # 2 /\ step # 3 /\ step # 4 /\ step # 6
    BY <2>3
  <2> QED
    BY <2>2, <2>4, <2>5
<1>4. CASE ReadTable
  <2>1. PICK t \in {"signals", "fills", "closures", "positions", "skips"} : Take(t, Content(t))
    BY <1>2, <1>4 DEF ReadTable
  <2>2. step \in 1..6 /\ Tables[step] = t /\ step' = step + 1
        /\ UNCHANGED <<vars, subject, quiet>> /\ read' = [read EXCEPT ![t] = Content(t)]
    BY <1>1, <2>1 DEF Take, Reading
  <2>3. /\ step = 1 => t = "signals"
        /\ step = 2 => t = "fills"
        /\ step = 3 => t = "closures"
        /\ step = 4 => t = "positions"
        /\ step # 5
        /\ step = 6 => t = "skips"
    BY <1>1, <2>1, <2>2
  <2>4. /\ Content("signals") = RowsOf(db.signals)
        /\ Content("fills") = RowsOf(db.fills)
        /\ Content("closures") = RowsOf(db.closures)
        /\ Content("positions") = [a \in Assets |-> db.positions[<<subject, a>>]]
        /\ Content("skips") = SkipCounts(RowsOf(db.signals))
    BY DEF Content
  <2> QED
    BY <2>2, <2>3, <2>4
<1> QED
  BY <1>3, <1>4

\* What a table answers has the type of what was read.
LEMMA AnswerTypes ==
  ASSUME IInv, ReportInv, step > 0
  PROVE  /\ RowsOf(db.signals) = Select(db.signals, OfRun(subject))
         /\ RowsOf(db.fills) = Select(db.fills, OfRun(subject))
         /\ RowsOf(db.closures) = Select(db.closures, OfRun(subject))
         /\ RowsOf(db.signals) \in Seq(SignalRow) /\ RowsOf(db.fills) \in Seq(FillRow)
         /\ RowsOf(db.closures) \in Seq(ClosureRow)
         /\ [a \in Assets |-> db.positions[<<subject, a>>]] \in [Assets -> Position]
         /\ SkipCounts(RowsOf(db.signals)) \in [Reasons -> Nat]
         /\ \A rows : \A why \in Reasons : SkipCounts(rows)[why] = Count(rows, SkippedFor(why))
<1>1. db.signals \in Seq(SignalRow) /\ db.fills \in Seq(FillRow) /\ db.closures \in Seq(ClosureRow)
      /\ db.positions \in [Runs \X Assets -> Position] /\ subject \in Runs
  BY DEF IInv, TypeOK, Image, ReportInv, ReportType
<1>2. \A rows : RowsOf(rows) = Select(rows, OfRun(subject))
  BY DEF RowsOf, OfRun
<1>3. /\ RowsOf(db.signals) \in Seq(SignalRow)
      /\ RowsOf(db.fills) \in Seq(FillRow) /\ RowsOf(db.closures) \in Seq(ClosureRow)
  BY <1>1, <1>2, SelectType
<1>4. [a \in Assets |-> db.positions[<<subject, a>>]] \in [Assets -> Position]
  BY <1>1
<1>5. \A rows : \A why \in Reasons : SkipCounts(rows)[why] = Count(rows, SkippedFor(why))
  BY DEF SkipCounts, Count, SkippedFor
<1>6. SkipCounts(RowsOf(db.signals)) \in [Reasons -> Nat]
  <2> DEFINE rows == RowsOf(db.signals)
  <2>1. ASSUME NEW why \in Reasons
        PROVE  Len(Select(rows, {s \in SignalRow : ~s.filled /\ s.reason = why})) \in Nat
    <3>1. Select(rows, {s \in SignalRow : ~s.filled /\ s.reason = why}) \in Seq(SignalRow)
      BY <1>3, SelectType
    <3> QED
      BY <3>1
  <2> QED
    BY <2>1 DEF SkipCounts
<1> QED
  BY <1>2, <1>3, <1>4, <1>5, <1>6

\* Reading a table keeps the invariant.
LEMMA ReadsKeep ==
  ASSUME IInv, ReportInv, ReadTable \/ MarkPositions
  PROVE  ReportInv'
<1>1. /\ step \in 1..6 /\ step' = step + 1 /\ subject' = subject /\ quiet' = quiet /\ db' = db
  BY ReadsInOrder DEF vars
<1>2. ReportType /\ ReadForward /\ ReadQuietly /\ subject \in Runs /\ Forward(db, subject)
      /\ read \in ReadType
  BY <1>1 DEF ReportInv, ReportType
<1>3. \A r \in Runs : Forward(db', r)
  BY <1>1 DEF ReportInv
<1>4. step > 0
  BY <1>1
<1>5. CASE step = 1
  <2>1. /\ read' \in ReadType /\ read'.signals = RowsOf(db.signals)
    BY <1>2, <1>4, <1>5, ReadsInOrder, AnswerTypes DEF ReadType
  <2>2. /\ Count(read'.signals, FilledRows) = CountBoth(db.signals, OfRun(subject), FilledRows)
        /\ \A why : Count(read'.signals, SkippedFor(why))
                       = CountBoth(db.signals, OfRun(subject), SkippedFor(why))
    BY <1>4, <2>1, AnswerTypes DEF Count, CountBoth
  <2>3. \A why : CountBoth(db.signals, OfRun(subject), SkippedFor(why)) \in Nat
    <3>1. db.signals \in Seq(SignalRow) /\ OneMore(SignalRow, db.signals, db.signals)
      BY DEF IInv, TypeOK, Image, OneMore
    <3> QED
      BY <3>1, CountsGrow
  <2>4. step' = 2
    BY <1>1, <1>5
  <2>5. ReadForward'
    BY <1>1, <1>2, <2>2, <2>3, <2>4 DEF ReadForward, Forward
  <2>6. ReportType' /\ ReadQuietly'
    BY <1>1, <1>2, <2>1, <2>4 DEF ReportType, ReadQuietly
  <2> QED
    BY <1>3, <2>5, <2>6 DEF ReportInv
<1>6. CASE step = 2
  <2>1. /\ read' \in ReadType /\ read'.fills = RowsOf(db.fills) /\ read'.signals = read.signals
    BY <1>2, <1>4, <1>6, ReadsInOrder, AnswerTypes DEF ReadType
  <2>2. /\ Len(read'.fills) = Count(db.fills, OfRun(subject))
        /\ Count(read'.fills, Sales) = CountBoth(db.fills, OfRun(subject), Sales)
        /\ read'.fills = Select(db.fills, OfRun(subject))
    BY <1>4, <2>1, AnswerTypes DEF Count, CountBoth
  <2>3. step' = 3
    BY <1>1, <1>6
  <2>4. ReadForward'
    BY <1>1, <1>2, <1>6, <2>1, <2>2, <2>3 DEF ReadForward, Forward
  <2>5. ReportType' /\ ReadQuietly'
    BY <1>1, <1>2, <2>1, <2>2, <2>3 DEF ReportType, ReadQuietly
  <2> QED
    BY <1>3, <2>4, <2>5 DEF ReportInv
<1>7. CASE step = 3
  <2>1. /\ read' \in ReadType /\ read'.closures = RowsOf(db.closures)
        /\ read'.signals = read.signals /\ read'.fills = read.fills
    BY <1>2, <1>4, <1>7, ReadsInOrder, AnswerTypes DEF ReadType
  <2>2. /\ Len(read'.closures) = Count(db.closures, OfRun(subject))
        /\ read'.closures = Select(db.closures, OfRun(subject))
    BY <1>4, <2>1, AnswerTypes DEF Count
  <2>3. step' = 4
    BY <1>1, <1>7
  <2>4. ReadForward'
    BY <1>1, <1>2, <1>7, <2>1, <2>2, <2>3 DEF ReadForward
  <2>5. ReportType' /\ ReadQuietly'
    BY <1>1, <1>2, <1>7, <2>1, <2>2, <2>3 DEF ReportType, ReadQuietly
  <2> QED
    BY <1>3, <2>4, <2>5 DEF ReportInv
<1>8. CASE step = 4
  <2>1. /\ read' \in ReadType
        /\ read'.positions = [a \in Assets |-> db.positions[<<subject, a>>]]
        /\ read'.signals = read.signals /\ read'.fills = read.fills
        /\ read'.closures = read.closures
    BY <1>2, <1>4, <1>8, ReadsInOrder, AnswerTypes DEF ReadType
  <2>2. step' = 5
    BY <1>1, <1>8
  <2>3. ReadForward'
    BY <1>1, <1>2, <1>8, <2>1, <2>2 DEF ReadForward
  <2>4. ReportType' /\ ReadQuietly'
    BY <1>1, <1>2, <1>8, <2>1, <2>2 DEF ReportType, ReadQuietly
  <2> QED
    BY <1>3, <2>3, <2>4 DEF ReportInv
<1>9. CASE step = 5
  <2>1. PICK m \in [Assets -> Prices \union {NoPrice}] : read' = [read EXCEPT !["marks"] = m]
    BY <1>9, ReadsInOrder
  <2>2. /\ read' \in ReadType /\ read'.positions = read.positions
        /\ read'.signals = read.signals /\ read'.fills = read.fills
        /\ read'.closures = read.closures
    BY <1>2, <2>1 DEF ReadType
  <2>3. step' = 6
    BY <1>1, <1>9
  <2>4. ReadForward'
    BY <1>1, <1>2, <1>9, <2>2, <2>3 DEF ReadForward
  <2>5. ReportType' /\ ReadQuietly'
    BY <1>1, <1>2, <1>9, <2>2, <2>3 DEF ReportType, ReadQuietly
  <2> QED
    BY <1>3, <2>4, <2>5 DEF ReportInv
<1>10. CASE step = 6
  <2>1. /\ read' \in ReadType /\ read'.skips = SkipCounts(RowsOf(db.signals))
        /\ read'.positions = read.positions
        /\ read'.signals = read.signals /\ read'.fills = read.fills
        /\ read'.closures = read.closures
    BY <1>2, <1>4, <1>10, ReadsInOrder, AnswerTypes DEF ReadType
  <2>2. ASSUME NEW why \in Reasons
        PROVE  read'.skips[why] = CountBoth(db.signals, OfRun(subject), SkippedFor(why))
    BY <1>4, <2>1, AnswerTypes DEF Count, CountBoth
  <2>3. step' = 7
    BY <1>1, <1>10
  <2>4. ReadForward'
    BY <1>1, <1>2, <1>10, <2>1, <2>2, <2>3 DEF ReadForward
  <2>5. ReportType' /\ ReadQuietly'
    BY <1>1, <1>2, <1>10, <2>1, <2>3 DEF ReportType, ReadQuietly
  <2> QED
    BY <1>3, <2>4, <2>5 DEF ReportInv
<1> QED
  BY <1>1, <1>5, <1>6, <1>7, <1>8, <1>9, <1>10

\* Before the first report nothing is read.
LEMMA ReportInitInv == ReportInit => ReportInv
<1> SUFFICES ASSUME ReportInit PROVE ReportInv
  OBVIOUS
<1>1. step = 0 /\ read = NothingRead /\ quiet = TRUE /\ db = EmptyImage
  BY DEF ReportInit, Init
<1>2. NothingRead \in ReadType
  BY DEF NothingRead, ReadType, NoPosition, Position
<1>3. ReportType
  BY <1>1, <1>2 DEF ReportType
<1>4. ReadForward
  BY <1>1 DEF ReadForward
<1>5. ReadQuietly
  BY <1>1 DEF ReadQuietly
<1>6. ASSUME NEW r PROVE Forward(db, r)
  <2>1. db.signals = <<>> /\ db.fills = <<>> /\ db.closures = <<>>
    BY <1>1 DEF EmptyImage
  <2>2. \A S : Select(<<>>, S) = <<>>
    BY SelectEmpty
  <2>3. Len(<<>>) <= Len(<<>>)
    OBVIOUS
  <2> QED
    BY <2>1, <2>2, <2>3 DEF Forward, Count, CountBoth
<1> QED
  BY <1>3, <1>4, <1>5, <1>6 DEF ReportInv

\* Every step of the composition keeps it.
LEMMA ReportStep ==
  ASSUME IInv, ReportInv, [ReportNext]_<<vars, reportVars>>
  PROVE  ReportInv'
<1>1. CASE UNCHANGED <<vars, reportVars>>
  <2>1. db' = db /\ step' = step /\ subject' = subject /\ read' = read /\ quiet' = quiet
    BY <1>1 DEF vars, reportVars
  <2> QED
    BY <2>1 DEF ReportInv, ReportType, ReadForward, ReadQuietly
<1>2. CASE Next /\ quiet' = (quiet /\ db' = db) /\ UNCHANGED <<step, subject, read>>
  BY <1>2, FollowersKeep
<1>3. CASE StartReport
  <2>1. step' = 1 /\ subject' \in 1..db.runs /\ quiet' = TRUE /\ read' = read /\ db' = db
    BY <1>3 DEF StartReport, vars
  <2>2. subject' \in Runs
    <3>1. db.runs \in 0..MaxRuns
      BY DEF IInv, TypeOK, Image
    <3> QED
      BY <2>1, <3>1, BoundsType DEF Runs
  <2>3. ReportType'
    BY <2>1, <2>2 DEF ReportInv, ReportType
  <2>4. ReadForward' /\ ReadQuietly'
    BY <2>1 DEF ReadForward, ReadQuietly
  <2> QED
    BY <2>1, <2>3, <2>4 DEF ReportInv
<1>4. CASE ReadTable \/ MarkPositions
  BY <1>4, ReadsKeep
<1>5. CASE PrintReport
  <2>1. step' = 0 /\ read' = NothingRead /\ quiet' = TRUE /\ db' = db
    BY <1>5 DEF PrintReport, vars
  <2>2. NothingRead \in ReadType
    BY DEF NothingRead, ReadType, NoPosition, Position
  <2>3. ReportType' /\ ReadForward' /\ ReadQuietly'
    BY <2>1, <2>2 DEF ReportType, ReadForward, ReadQuietly
  <2> QED
    BY <2>1, <2>3 DEF ReportInv
<1> QED
  BY <1>1, <1>2, <1>3, <1>4, <1>5 DEF ReportNext

(***************************************************************************)
(* A report beside the followers takes nothing away from what is true of   *)
(* them, and keeps its own invariant: what it read is no further than what *)
(* it has still to read.                                                   *)
(***************************************************************************)
THEOREM ReportInvariantHolds == ReportSpec => [](IInv /\ ReportInv)
<1>1. ReportInit => IInv /\ ReportInv
  BY InitInv, ReportInitInv DEF ReportInit
<1>2. IInv /\ ReportInv /\ [ReportNext]_<<vars, reportVars>> => (IInv /\ ReportInv)'
  <2>1. ASSUME IInv, ReportInv, [ReportNext]_<<vars, reportVars>>
        PROVE  IInv'
    <3>1. [Next]_vars
      BY <2>1 DEF ReportNext, StartReport, ReadTable, MarkPositions, Take, PrintReport
    <3>2. Next => IInv'
      BY <2>1, TypeStep, HandStep, TransactionStep, ExclusiveStep, FillsStep DEF IInv
    <3> QED
      BY <2>1, <3>1, <3>2, StutterInv
  <2> QED
    BY <2>1, ReportStep
<1> QED
  BY <1>1, <1>2, PTL DEF ReportSpec

(***************************************************************************)
(* Whatever the followers commit between the reads of a report, it counts  *)
(* no signal filled without its fill, no sale without its closure, and no  *)
(* skip without its reason (the order of the SELECTs of build_report).     *)
(***************************************************************************)
THEOREM ReportsAlwaysMoveForward == ReportSpec => []ReportMovesForward
<1>1. IInv /\ ReportInv => ReportMovesForward
  <2>1. ASSUME IInv, ReportInv, Done
        PROVE  /\ Len(Filled) <= Len(read.fills)
               /\ Len(Side("SELL")) <= Len(read.closures)
               /\ \A why \in Reasons : SkipCounts(read.signals)[why] <= read.skips[why]
    <3>1. step > 6 /\ step > 3 /\ step > 2 /\ step > 0
      BY <2>1 DEF Done, Tables
    <3>2. Filled = Select(read.signals, FilledRows) /\ Side("SELL") = Select(read.fills, Sales)
      BY DEF Filled, Side, FilledRows, Sales
    <3>3. \A why \in Reasons : SkipCounts(read.signals)[why] = Count(read.signals, SkippedFor(why))
      BY <2>1, <3>1, AnswerTypes
    <3> QED
      BY <2>1, <3>1, <3>2, <3>3 DEF ReportInv, ReadForward, Count
  <2> QED
    BY <2>1 DEF ReportMovesForward
<1> QED
  BY <1>1, ReportInvariantHolds, PTL

-----------------------------------------------------------------------------
(***************************************************************************)
(* The drawdown.                                                           *)
(***************************************************************************)
\* One closure further along the curve.
Fallen(c, row) ==
  LET sum == c.sum + row.realized
      peak == -Smaller(-c.peak, -sum)
  IN  [sum |-> sum, peak |-> peak, worst |-> -Smaller(-c.worst, sum - peak)]

CurvePoint == [sum : Int, peak : Int, worst : Int]
CurveStart == [sum |-> 0, peak |-> 0, worst |-> 0]

\* f[k] is the curve after the first k closures.
CurveUpTo(rows, f) ==
  /\ f \in [0..Len(rows) -> CurvePoint] /\ f[0] = CurveStart
  /\ \A k \in 1..Len(rows) : f[k] = Fallen(f[k - 1], rows[k])

\* The drawdown is read off the last point of the curve.
LEMMA DrawdownTrace ==
  ASSUME NEW rows \in Seq(ClosureRow)
  PROVE  \E f : CurveUpTo(rows, f) /\ Drawdown(rows) = f[Len(rows)].worst
<1> DEFINE n == Len(rows)
           T == CurvePoint
           turn == [p \in T \X Nat |-> IF p[2] \in 1..n THEN Fallen(p[1], rows[p[2]]) ELSE p[1]]
           Eq(iter) == iter = [s \in SUBSET DOMAIN rows |->
                         IF s = {} THEN CurveStart ELSE Fallen(iter[s \ {Max(s)}], rows[Max(s)])]
           chosen == CHOOSE iter : Eq(iter)
<1>1. n \in Nat /\ DOMAIN rows = 1..n /\ \A k \in 1..n : rows[k] \in ClosureRow
  OBVIOUS
<1>2. Drawdown(rows) = chosen[DOMAIN rows].worst
  BY DEF Drawdown, FoldLeft, MapThenFoldSet, Fallen, CurveStart
<1>3. CurveStart \in T
  BY DEF CurveStart, CurvePoint
<1>4. ASSUME NEW c \in T, NEW row \in ClosureRow PROVE Fallen(c, row) \in T
  <2>1. \A x, y \in Int : -Smaller(-x, y) \in Int
    BY DEF Smaller
  <2> DEFINE sum == c.sum + row.realized
             peak == -Smaller(-c.peak, -sum)
             worst == -Smaller(-c.worst, sum - peak)
  <2>2. c.sum \in Int /\ c.peak \in Int /\ c.worst \in Int /\ row.realized \in Int
    BY DEF CurvePoint, ClosureRow
  <2>3. sum \in Int
    BY <2>2
  <2> HIDE DEF sum
  <2>4. peak \in Int
    <3>1. -sum \in Int
      BY <2>3
    <3> QED
      BY <2>1, <2>2, <3>1
  <2> HIDE DEF peak
  <2>5. worst \in Int
    <3>1. sum - peak \in Int
      BY <2>3, <2>4
    <3> QED
      BY <2>1, <2>2, <3>1
  <2> USE DEF sum, peak
  <2> QED
    BY <2>3, <2>4, <2>5 DEF Fallen, CurvePoint
<1> HIDE DEF T
<1>5. turn \in [T \X Nat -> T]
  BY <1>1, <1>4
<1>6. ASSUME NEW x \in T, NEW k \in 1..n PROVE turn[<<x, k>>] = Fallen(x, rows[k])
  BY <1>1
<1> HIDE DEF turn, n
<1>7. PICK iter \in [SUBSET (1..n) -> T] : Folds(iter, CurveStart, turn, n)
  BY <1>1, <1>3, <1>5, FoldExists
<1>8. Eq(iter)
  <2>1. ASSUME NEW s \in SUBSET (1..n), s # {}
        PROVE  turn[<<iter[s \ {Max(s)}], Max(s)>>] = Fallen(iter[s \ {Max(s)}], rows[Max(s)])
    <3>1. Max(s) \in 1..n
      BY <2>1, <1>1, MaxOf
    <3>2. iter[s \ {Max(s)}] \in T
      BY <1>7
    <3> QED
      BY <3>1, <3>2, <1>6
  <2> QED
    BY <1>1, <1>7, <2>1 DEF Folds
<1>9. Eq(chosen)
  BY <1>8
<1> HIDE DEF chosen
<1>10. StepsLikeFold(chosen, T, CurveStart, turn, n)
  <2>1. chosen[{}] = CurveStart
    BY <1>9
  <2>2. ASSUME NEW s \in SUBSET (1..n), s # {}, chosen[s \ {Max(s)}] \in T
        PROVE  chosen[s] = turn[<<chosen[s \ {Max(s)}], Max(s)>>]
    <3>1. Max(s) \in 1..n
      BY <2>2, <1>1, MaxOf
    <3>2. chosen[s] = Fallen(chosen[s \ {Max(s)}], rows[Max(s)])
      BY <1>1, <1>9, <2>2
    <3> QED
      BY <3>1, <3>2, <2>2, <1>6
  <2> QED
    BY <1>1, <1>3, <1>5, <2>1, <2>2 DEF StepsLikeFold
<1> HIDE DEF Eq
<1>11. PICK f : Traces(f, T, CurveStart, turn, n) /\ f[n] = chosen[1..n]
  BY <1>10, FoldTraces
<1>12. CurveUpTo(rows, f)
  <2>1. f \in [0..n -> T] /\ f[0] = CurveStart
    BY <1>11 DEF Traces
  <2>2. ASSUME NEW k \in 1..n PROVE f[k] = Fallen(f[k - 1], rows[k])
    <3>1. f[k] = turn[<<f[k - 1], k>>]
      BY <1>11 DEF Traces
    <3>2. f[k - 1] \in T
      BY <2>1, <1>1
    <3> QED
      BY <3>1, <3>2, <1>6
  <2> QED
    BY <2>1, <2>2 DEF CurveUpTo, n, T
<1> QED
  BY <1>1, <1>2, <1>11, <1>12 DEF n

\* The larger of two numbers, as the code of the curve has it.
LEMMA LargerOf ==
  ASSUME NEW x \in Int, NEW y \in Int
  PROVE  LET larger == -Smaller(-x, -y)
         IN  larger \in {x, y} /\ x <= larger /\ y <= larger
  BY DEF Smaller

\* At each point the sum is the running total, the peak the highest total so
\* far, and the worst the deepest fall between two points so far.
Measured(P, c, k) ==
  /\ c.sum = P[k]
  /\ \A i \in 0..k : P[i] <= c.peak
  /\ \E i \in 0..k : P[i] = c.peak
  /\ \A i \in 0..k : \A j \in i..k : P[i] - P[j] <= c.worst
  /\ \E i \in 0..k : \E j \in i..k : P[i] - P[j] = c.worst

\* One closure more keeps the curve measured.
LEMMA MeasuredStep ==
  ASSUME NEW P, NEW k \in Nat, \A i \in 0..(k + 1) : P[i] \in Int,
         NEW c \in CurvePoint, NEW row \in ClosureRow,
         Measured(P, c, k), P[k + 1] = P[k] + row.realized
  PROVE  Measured(P, Fallen(c, row), k + 1)
<1> DEFINE sum == c.sum + row.realized
           peak == -Smaller(-c.peak, -sum)
           worst == -Smaller(-c.worst, sum - peak)
           d == Fallen(c, row)
<1>1. c.sum \in Int /\ c.peak \in Int /\ c.worst \in Int /\ row.realized \in Int
  BY DEF CurvePoint, ClosureRow
<1>2. d.sum = sum /\ d.peak = peak /\ d.worst = worst
  BY DEF Fallen
<1>3. sum \in Int /\ sum = P[k + 1]
  BY <1>1 DEF Measured
<1>4. peak \in {c.peak, sum} /\ c.peak <= peak /\ sum <= peak /\ peak \in Int
  <2> HIDE DEF sum
  <2>1. peak \in {c.peak, sum} /\ c.peak <= peak /\ sum <= peak
    BY <1>1, <1>3, LargerOf
  <2> QED
    BY <1>1, <1>3, <2>1
<1> HIDE DEF sum, peak, d
<1>5. worst \in {c.worst, peak - sum} /\ c.worst <= worst /\ peak - sum <= worst
      /\ worst \in Int
  <2> DEFINE fall == peak - sum
  <2>1. fall \in Int /\ -fall = sum - peak
    BY <1>3, <1>4
  <2> HIDE DEF fall
  <2>2. worst \in {c.worst, fall} /\ c.worst <= worst /\ fall <= worst
    BY <1>1, <2>1, LargerOf
  <2>3. worst \in Int
    BY <1>1, <2>1, <2>2
  <2> QED
    BY <2>2, <2>3 DEF fall
<1> HIDE DEF worst
<1>6. \A i \in 0..(k + 1) : P[i] <= peak
  <2> TAKE i \in 0..(k + 1)
  <2>1. CASE i = k + 1
    BY <1>3, <1>4, <2>1
  <2>2. CASE i # k + 1
    <3>1. i \in 0..k /\ P[i] \in Int
      BY <2>2
    <3>2. P[i] <= c.peak
      BY <3>1 DEF Measured
    <3> QED
      BY <1>1, <1>4, <3>1, <3>2
  <2> QED
    BY <2>1, <2>2
<1>7. \E i \in 0..(k + 1) : P[i] = peak
  <2>1. CASE peak = sum
    <3>1. k + 1 \in 0..(k + 1)
      OBVIOUS
    <3> QED
      BY <1>3, <2>1, <3>1
  <2>2. CASE peak = c.peak
    <3>1. PICK i \in 0..k : P[i] = c.peak
      BY DEF Measured
    <3>2. i \in 0..(k + 1)
      OBVIOUS
    <3> QED
      BY <2>2, <3>1, <3>2
  <2> QED
    BY <1>4, <2>1, <2>2
<1>8. \A i \in 0..(k + 1) : \A j \in i..(k + 1) : P[i] - P[j] <= worst
  <2> TAKE i \in 0..(k + 1)
  <2> TAKE j \in i..(k + 1)
  <2>1. P[i] \in Int /\ P[j] \in Int
    OBVIOUS
  <2>2. CASE j = k + 1
    <3>1. P[i] <= peak /\ P[j] = sum
      BY <1>3, <1>6, <2>2
    <3> QED
      BY <1>3, <1>4, <1>5, <2>1, <3>1
  <2>3. CASE j # k + 1
    <3>1. i \in 0..k /\ j \in i..k
      BY <2>3
    <3>2. P[i] - P[j] <= c.worst
      BY <3>1 DEF Measured
    <3> QED
      BY <1>1, <1>5, <2>1, <3>2
  <2> QED
    BY <2>2, <2>3
<1>9. \E i \in 0..(k + 1) : \E j \in i..(k + 1) : P[i] - P[j] = worst
  <2>1. CASE worst = peak - sum
    <3>1. PICK i \in 0..(k + 1) : P[i] = peak
      BY <1>7
    <3>2. k + 1 \in i..(k + 1)
      OBVIOUS
    <3> QED
      BY <1>3, <2>1, <3>1, <3>2
  <2>2. CASE worst = c.worst
    <3>1. PICK i \in 0..k : \E j \in i..k : P[i] - P[j] = c.worst
      BY DEF Measured
    <3>2. PICK j \in i..k : P[i] - P[j] = c.worst
      BY <3>1
    <3>3. i \in 0..(k + 1) /\ j \in i..(k + 1)
      OBVIOUS
    <3> QED
      BY <2>2, <3>2, <3>3
  <2> QED
    BY <1>5, <2>1, <2>2
<1>10. d.sum = P[k + 1]
  BY <1>2, <1>3
<1>11. Measured(P, d, k + 1)
  BY <1>2, <1>6, <1>7, <1>8, <1>9, <1>10 DEF Measured
<1> QED
  BY <1>11 DEF d
\* The drawdown is the deepest fall between two running totals.
LEMMA DrawdownIsDeepest ==
  ASSUME NEW rows \in Seq(ClosureRow), NEW P, TotalUpTo(rows, "realized", P)
  PROVE  /\ Drawdown(rows) \in Int
         /\ \A i \in 0..Len(rows) : \A j \in i..Len(rows) : P[i] - P[j] <= Drawdown(rows)
         /\ \E i \in 0..Len(rows) : \E j \in i..Len(rows) : P[i] - P[j] = Drawdown(rows)
<1> DEFINE n == Len(rows)
<1>1. PICK f : CurveUpTo(rows, f) /\ Drawdown(rows) = f[n].worst
  BY DrawdownTrace
<1>2. n \in Nat /\ (\A k \in 1..n : rows[k] \in ClosureRow)
  OBVIOUS
<1>3. /\ \A k \in 0..n : f[k] \in CurvePoint
      /\ f[0] = CurveStart
      /\ \A k \in 1..n : f[k] = Fallen(f[k - 1], rows[k])
  BY <1>1 DEF CurveUpTo
<1>4. /\ \A k \in 0..n : P[k] \in Int
      /\ P[0] = 0
      /\ \A k \in 1..n : P[k] = P[k - 1] + rows[k].realized
  BY DEF TotalUpTo
<1> HIDE DEF n
<1> DEFINE S == {k \in Nat : k <= n => Measured(P, f[k], k)}
<1>5. 0 \in S
  <2>1. f[0].sum = 0 /\ f[0].peak = 0 /\ f[0].worst = 0
    BY <1>3 DEF CurveStart
  <2>2. \A i \in 0..0 : i = 0
    OBVIOUS
  <2>3. 0 \in 0..0 /\ 0 - 0 = 0 /\ 0 <= 0
    OBVIOUS
  <2> QED
    BY <1>4, <2>1, <2>2, <2>3 DEF Measured
<1>6. ASSUME NEW k \in Nat, k \in S PROVE k + 1 \in S
  <2>1. CASE k + 1 <= n
    <3>1. k \in 0..n /\ k + 1 \in 1..n /\ (k + 1) - 1 = k /\ Measured(P, f[k], k)
      BY <1>2, <1>6, <2>1
    <3>2. f[k] \in CurvePoint /\ f[k + 1] = Fallen(f[k], rows[k + 1])
      BY <1>3, <3>1
    <3>3. rows[k + 1] \in ClosureRow /\ P[k + 1] = P[k] + rows[k + 1].realized
      BY <1>2, <1>4, <3>1
    <3>4. \A i \in 0..(k + 1) : P[i] \in Int
      BY <1>2, <1>4, <2>1
    <3>5. Measured(P, f[k + 1], k + 1)
      BY <3>1, <3>2, <3>3, <3>4, MeasuredStep
    <3> QED
      BY <3>5
  <2> QED
    BY <2>1
<1> HIDE DEF S
<1>7. n \in S
  BY <1>2, <1>5, <1>6, SetInduction
<1>8. Measured(P, f[n], n)
  BY <1>2, <1>7 DEF S
<1>9. f[n].worst \in Int
  BY <1>2, <1>3 DEF CurvePoint
<1> QED
  BY <1>1, <1>8, <1>9 DEF Measured, n

(***************************************************************************)
(* The drawdown a report prints is the most that any stretch of            *)
(* consecutive closures lost, however many there are: one pass with a      *)
(* running peak finds it (_max_realized_drawdown).                         *)
(***************************************************************************)
THEOREM DrawdownIsAlwaysTheWorst == ReportSpec => []DrawdownIsTheWorstStretch
<1>1. ReportInv => DrawdownIsTheWorstStretch
  <2> DEFINE rows == read.closures
             n == Len(rows)
             Loss(i, j) == -TotalOf(SubSeq(rows, i, j), "realized")
             losses == {0} \union {Loss(i, j) : i, j \in 1..n}
             worst == Drawdown(rows)
  <2> SUFFICES ASSUME ReportInv
               PROVE  worst \in losses /\ \A l \in losses : l <= worst
    BY DEF DrawdownIsTheWorstStretch
  <2>1. rows \in Seq(ClosureRow) /\ HasField(ClosureRow, "realized")
    BY DEF ReportInv, ReportType, ReadType, HasField, ClosureRow
  <2> HIDE DEF rows
  <2>2. n \in Nat
    BY <2>1
  <2>3. PICK P : TotalUpTo(rows, "realized", P)
    BY <2>1, TotalTrace DEF HasField
  <2>4. /\ worst \in Int
        /\ \A i \in 0..n : \A j \in i..n : P[i] - P[j] <= worst
        /\ \E i \in 0..n : \E j \in i..n : P[i] - P[j] = worst
    BY <2>1, <2>3, DrawdownIsDeepest
  <2>5. \A k \in 0..n : P[k] \in Int
    BY <2>3 DEF TotalUpTo
  <2>6. ASSUME NEW i \in 1..n, NEW j \in i..n
        PROVE  Loss(i, j) = P[i - 1] - P[j]
    <3>1. TotalOf(SubSeq(rows, i, j), "realized") = P[j] - P[i - 1]
      BY <2>1, <2>3, TotalPart
    <3>2. P[j] \in Int /\ P[i - 1] \in Int
      BY <2>2, <2>5
    <3> QED
      BY <3>1, <3>2
  <2>7. ASSUME NEW i \in 1..n, NEW j \in 1..n, j < i
        PROVE  Loss(i, j) = 0
    <3>1. SubSeq(rows, i, j) = <<>>
      BY <2>2, <2>7, SubSeqEmpty
    <3> QED
      BY <3>1, TotalEmpty
  <2> HIDE DEF n, worst
  <2>8. worst \in losses
    <3> HIDE DEF Loss
    <3>1. PICK i \in 0..n : \E j \in i..n : P[i] - P[j] = worst
      BY <2>4
    <3>2. PICK j \in i..n : P[i] - P[j] = worst
      BY <3>1
    <3>3. CASE i = j
      BY <2>2, <2>5, <3>2, <3>3
    <3>4. CASE i # j
      <4>1. i + 1 \in 1..n /\ j \in (i + 1)..n /\ j \in 1..n /\ (i + 1) - 1 = i
        BY <2>2, <3>4
      <4>2. Loss(i + 1, j) = worst
        BY <2>6, <3>2, <4>1
      <4> QED
        BY <4>1, <4>2
    <3> QED
      BY <3>3, <3>4
  <2>9. 0 <= worst
    <3>1. 0 \in 0..n /\ P[0] \in Int
      BY <2>2, <2>5
    <3>2. P[0] - P[0] <= worst
      BY <2>4, <3>1
    <3> QED
      BY <3>1, <3>2
  <2>10. ASSUME NEW i \in 1..n, NEW j \in 1..n PROVE Loss(i, j) <= worst
    <3> HIDE DEF Loss
    <3>1. CASE j < i
      BY <2>7, <2>9, <3>1
    <3>2. CASE i <= j
      <4>1. j \in i..n /\ i - 1 \in 0..n /\ j \in (i - 1)..n
        BY <2>2, <3>2
      <4> QED
        BY <2>4, <2>6, <4>1
    <3> QED
      BY <2>2, <3>1, <3>2
  <2> QED
    BY <2>8, <2>9, <2>10
<1> QED
  BY <1>1, ReportInvariantHolds, PTL

-----------------------------------------------------------------------------
(***************************************************************************)
(* What a whole run bought, sold and realized, and what is still open.     *)
(***************************************************************************)
Purchases == {f \in FillRow : f.side = "BUY"}

\* The total of the rows in S, and of those of them in U.
TotalIn(rows, S, field) == TotalOf(Select(rows, S), field)
TotalBoth(rows, S, U, field) == TotalOf(Select(Select(rows, S), U), field)

\* A row more adds its field if it is in S.
LEMMA TotalInAppend ==
  ASSUME NEW R, NEW rows \in Seq(R), NEW row \in R, NEW S, NEW field, HasField(R, field)
  PROVE  /\ TotalIn(rows, S, field) \in Int
         /\ TotalIn(Append(rows, row), S, field)
              = TotalIn(rows, S, field) + (IF row \in S THEN row[field] ELSE 0)
<1> DEFINE kept == Select(rows, S)
<1>1. kept \in Seq(R)
  BY SelectType
<1>2. Select(Append(rows, row), S) = IF row \in S THEN Append(kept, row) ELSE kept
  BY SelectAppend
<1>3. TotalIn(rows, S, field) = TotalOf(kept, field)
  BY DEF TotalIn
<1> HIDE DEF kept
<1>4. /\ TotalOf(kept, field) \in Int
      /\ TotalOf(Append(kept, row), field) = TotalOf(kept, field) + row[field]
  BY <1>1, TotalType, TotalAppend
<1>5. CASE row \in S
  BY <1>2, <1>3, <1>4, <1>5 DEF TotalIn
<1>6. CASE row \notin S
  BY <1>2, <1>3, <1>4, <1>6 DEF TotalIn
<1> QED
  BY <1>5, <1>6

\* And in both, if it is in both.
LEMMA TotalBothAppend ==
  ASSUME NEW R, NEW rows \in Seq(R), NEW row \in R, NEW S, NEW U,
         NEW field, HasField(R, field)
  PROVE  /\ TotalBoth(rows, S, U, field) \in Int
         /\ TotalBoth(Append(rows, row), S, U, field)
              = TotalBoth(rows, S, U, field)
                  + (IF row \in S /\ row \in U THEN row[field] ELSE 0)
<1> DEFINE kept == Select(rows, S)
<1>1. kept \in Seq(R)
  BY SelectType
<1>2. Select(Append(rows, row), S) = IF row \in S THEN Append(kept, row) ELSE kept
  BY SelectAppend
<1>3. TotalBoth(rows, S, U, field) = TotalIn(kept, U, field)
  BY DEF TotalBoth, TotalIn
<1> HIDE DEF kept
<1>4. /\ TotalIn(kept, U, field) \in Int
      /\ TotalIn(Append(kept, row), U, field)
           = TotalIn(kept, U, field) + (IF row \in U THEN row[field] ELSE 0)
  BY <1>1, TotalInAppend
<1>5. TotalBoth(Append(rows, row), S, U, field)
        = IF row \in S THEN TotalIn(Append(kept, row), U, field) ELSE TotalIn(kept, U, field)
  BY <1>2 DEF TotalBoth, TotalIn
<1> QED
  BY <1>3, <1>4, <1>5

\* The basis of each asset of a run, the assets it holds, and the basis of these.
Costs(img, r) == [a \in Assets |-> img.positions[<<r, a>>].cost]
OpenOf(img, r) == {a \in Assets : img.positions[<<r, a>>] # NoPosition}
OpenCost(img, r) == SumFunctionOnSet(Costs(img, r), OpenOf(img, r))

\* The basis of one asset and of the others held.
LEMMA OpenCostWithout ==
  ASSUME NEW img, NEW r, NEW a \in Assets, IsFiniteSet(OpenOf(img, r)),
         \A b \in Assets : img.positions[<<r, b>>].cost \in Int
  PROVE  LET rest == SumFunctionOnSet(Costs(img, r), OpenOf(img, r) \ {a})
         IN  /\ OpenCost(img, r) \in Int /\ rest \in Int
             /\ OpenCost(img, r) = img.positions[<<r, a>>].cost + rest
<1> DEFINE S == OpenOf(img, r)
           f == Costs(img, r)
<1>1. Numbers(f, S)
  BY DEF Numbers, Costs, OpenOf
<1>2. f[a] = img.positions[<<r, a>>].cost
  BY DEF Costs
<1>3. a \notin S => f[a] = 0
  BY DEF OpenOf, Costs, NoPosition
<1>4. OpenCost(img, r) = SumFunctionOnSet(f, S)
  BY DEF OpenCost
<1> HIDE DEF S, f
<1>5. /\ SumFunctionOnSet(f, S) \in Int /\ SumFunctionOnSet(f, S \ {a}) \in Int
      /\ SumFunctionOnSet(f, S) = f[a] + SumFunctionOnSet(f, S \ {a})
  BY <1>1, <1>3, SumWithout DEF S
<1> QED
  BY <1>2, <1>4, <1>5 DEF S, f

\* From img to new, no position of the run moves but that of a.
OneMoves(img, new, r, a) ==
  /\ \A b \in Assets : /\ img.positions[<<r, b>>].cost \in Int
                       /\ b # a => new.positions[<<r, b>>] = img.positions[<<r, b>>]
  /\ new.positions[<<r, a>>].cost \in Int

\* When the position of one asset moves, the open basis moves with it.
LEMMA OpenCostMoves ==
  ASSUME NEW img, NEW new, NEW r, NEW a \in Assets, IsFiniteSet(OpenOf(img, r)),
         OneMoves(img, new, r, a)
  PROVE  /\ IsFiniteSet(OpenOf(new, r))
         /\ OpenCost(img, r) \in Int
         /\ OpenCost(new, r) = OpenCost(img, r) - img.positions[<<r, a>>].cost
                                 + new.positions[<<r, a>>].cost
<1> USE DEF OneMoves
<1> DEFINE rest == OpenOf(img, r) \ {a}
<1>1. OpenOf(new, r) \ {a} = rest
  BY DEF OpenOf
<1>2. IsFiniteSet(rest)
  BY FS_Subset
<1>3. IsFiniteSet(OpenOf(new, r))
  <2>1. OpenOf(new, r) \subseteq rest \union {a} /\ IsFiniteSet(rest \union {a})
    BY <1>1, <1>2, FS_AddElement
  <2> QED
    BY <2>1, FS_Subset
<1>4. \A b \in Assets : new.positions[<<r, b>>].cost \in Int
  OBVIOUS
<1>5. /\ OpenCost(img, r) \in Int
      /\ OpenCost(img, r) = img.positions[<<r, a>>].cost + SumFunctionOnSet(Costs(img, r), rest)
      /\ SumFunctionOnSet(Costs(img, r), rest) \in Int
  BY OpenCostWithout
<1>6. OpenCost(new, r) = new.positions[<<r, a>>].cost + SumFunctionOnSet(Costs(new, r), rest)
  BY <1>1, <1>3, <1>4, OpenCostWithout
<1>7. SumFunctionOnSet(Costs(img, r), rest) = SumFunctionOnSet(Costs(new, r), rest)
  <2>1. Numbers(Costs(img, r), rest)
    BY DEF Numbers, Costs, OpenOf
  <2>2. \A b \in rest : Costs(img, r)[b] = Costs(new, r)[b]
    BY DEF Costs, OpenOf
  <2> HIDE DEF rest
  <2> QED
    BY <1>2, <2>1, <2>2, SumSame
<1> HIDE DEF rest
<1> DEFINE other == SumFunctionOnSet(Costs(img, r), rest)
           before == img.positions[<<r, a>>].cost
           after == new.positions[<<r, a>>].cost
<1>8. /\ OpenCost(img, r) = before + other /\ OpenCost(new, r) = after + other
      /\ before \in Int /\ after \in Int /\ other \in Int
  BY <1>5, <1>6, <1>7
<1> HIDE DEF other, before, after
<1>9. OpenCost(new, r) = OpenCost(img, r) - before + after
  BY <1>8
<1> QED
  BY <1>3, <1>5, <1>9 DEF before, after

\* CashReconciles for a whole run.
RunGap(img, r) ==
  (TotalBoth(img.fills, OfRun(r), Purchases, "notional")
     + TotalIn(img.closures, OfRun(r), "realized"))
    - (TotalBoth(img.fills, OfRun(r), Sales, "notional") + OpenCost(img, r))

RunBalances(img, r) ==
  /\ IsFiniteSet(OpenOf(img, r))
  /\ RunGap(img, r) \in 0..CountBoth(img.fills, OfRun(r), Sales)

\* The arithmetic of a sale: x is its basis, y what stays.
LEMMA SaleGap ==
  ASSUME NEW paid \in Int, NEW got \in Int, NEW profit \in Int, NEW open \in Int,
         NEW cost \in Int, NEW x \in Int, NEW y \in Int, NEW n \in Int, NEW most \in Int,
         (paid + profit) - (got + open) \in 0..most, cost - x - y \in 0..1
  PROVE  (paid + (profit + (n - x))) - ((got + n) + (open - cost + y)) \in 0..(most + 1)
  OBVIOUS

\* A sale widens the gap of its run by at most the unit its rounding loses.
LEMMA RunBalancesStep ==
  ASSUME IInv, ExclusiveRuns, [Next]_vars, NEW r \in Runs, RunBalances(db, r)
  PROVE  RunBalances(db', r)
<1>1. /\ db \in Image
      /\ db.fills \in Seq(FillRow) /\ db.closures \in Seq(ClosureRow)
      /\ db.positions \in [Runs \X Assets -> Position]
  BY DEF IInv, TypeOK, Image
<1>2. CASE UNCHANGED trades
  BY <1>2 DEF trades, RunBalances, RunGap, OpenCost, OpenOf, Costs
<1>3. ASSUME NEW p \in Procs, Commit(p)
      PROVE  RunBalances(db', r)
  <2> DEFINE f == FillBy(p)
             c == ClosureBy(p)
             a == f.asset
             held == db.positions[<<f.run, a>>]
             kept == db'.positions[<<f.run, a>>]
             paid == TotalBoth(db.fills, OfRun(r), Purchases, "notional")
             got == TotalBoth(db.fills, OfRun(r), Sales, "notional")
             most == CountBoth(db.fills, OfRun(r), Sales)
             profit == TotalIn(db.closures, OfRun(r), "realized")
             open == OpenCost(db, r)
  <2>1. /\ f \in FillRow /\ f.side \in {"BUY", "SELL"} /\ db'.fills = Append(db.fills, f)
        /\ f.notional \in Nat /\ f.run \in Runs /\ a \in Assets
        /\ f.side = "BUY" => db'.closures = db.closures
        /\ f.side = "SELL" =>
              /\ c \in ClosureRow /\ c.run = f.run
              /\ db'.closures = Append(db.closures, c)
    BY <1>3, CommitRows
  <2>2. /\ held \in Position
        /\ \A other \in (Runs \X Assets) \ {<<f.run, a>>} :
             db'.positions[other] = db.positions[other]
        /\ f.side = "BUY" => kept.cost = held.cost + f.notional
        /\ f.side = "SELL" =>
             /\ held.quantity > 0 /\ f.quantity \in 0..held.quantity
             /\ kept.cost = BasisOf(held, held.quantity - f.quantity)
             /\ c.realized = f.notional - BasisOf(held, f.quantity)
    BY <1>3, CommitCosts
  <2> HIDE DEF f, c
  <2>3. HasField(FillRow, "notional") /\ HasField(ClosureRow, "realized")
    BY DEF HasField, FillRow, ClosureRow
  <2>4. /\ f \in OfRun(r) <=> f.run = r
        /\ f \in Purchases <=> f.side = "BUY"
        /\ f \in Sales <=> f.side = "SELL"
        /\ f.side = "SELL" => (c \in OfRun(r) <=> f.run = r)
    BY <2>1 DEF OfRun, Purchases, Sales
  <2>5. /\ paid \in Int /\ got \in Int /\ most \in Nat
        /\ TotalBoth(db'.fills, OfRun(r), Purchases, "notional")
             = paid + (IF f.run = r /\ f.side = "BUY" THEN f.notional ELSE 0)
        /\ TotalBoth(db'.fills, OfRun(r), Sales, "notional")
             = got + (IF f.run = r /\ f.side = "SELL" THEN f.notional ELSE 0)
        /\ CountBoth(db'.fills, OfRun(r), Sales)
             = most + (IF f.run = r /\ f.side = "SELL" THEN 1 ELSE 0)
    <3>1. /\ paid \in Int
          /\ TotalBoth(db'.fills, OfRun(r), Purchases, "notional")
               = paid + (IF f \in OfRun(r) /\ f \in Purchases THEN f.notional ELSE 0)
      BY <1>1, <2>1, <2>3, TotalBothAppend
    <3>2. /\ got \in Int
          /\ TotalBoth(db'.fills, OfRun(r), Sales, "notional")
               = got + (IF f \in OfRun(r) /\ f \in Sales THEN f.notional ELSE 0)
      BY <1>1, <2>1, <2>3, TotalBothAppend
    <3>3. /\ most \in Nat
          /\ CountBoth(db'.fills, OfRun(r), Sales)
               = most + (IF f \in OfRun(r) /\ f \in Sales THEN 1 ELSE 0)
      BY <1>1, <2>1, CountBothAppend
    <3> QED
      BY <2>4, <3>1, <3>2, <3>3
  <2>6. f.side = "SELL" =>
          TotalIn(db'.closures, OfRun(r), "realized")
            = profit + (IF f.run = r THEN c.realized ELSE 0)
    <3>1. ASSUME f.side = "SELL"
          PROVE  TotalIn(db'.closures, OfRun(r), "realized")
                   = TotalIn(db.closures, OfRun(r), "realized")
                       + (IF c \in OfRun(r) THEN c.realized ELSE 0)
      <4>1. c \in ClosureRow /\ db'.closures = Append(db.closures, c)
        BY <2>1, <3>1
      <4> QED
        BY <1>1, <2>3, <4>1, TotalInAppend
    <3> QED
      BY <2>4, <3>1
  <2>7. f.side = "BUY" => TotalIn(db'.closures, OfRun(r), "realized") = profit
    BY <2>1
  <2>8. profit \in Int
    <3>1. Select(db.closures, OfRun(r)) \in Seq(ClosureRow)
      BY <1>1, SelectType
    <3> QED
      BY <2>3, <3>1, TotalType DEF TotalIn
  <2>9. (paid + profit) - (got + open) \in 0..most
    BY DEF RunBalances, RunGap
  <2>10. \A b \in Assets : db.positions[<<r, b>>].cost \in Int
    BY <1>1 DEF Position
  <2> HIDE DEF paid, got, most, profit
  <2>11. CASE f.run # r
    <3>1. \A b \in Assets : db'.positions[<<r, b>>] = db.positions[<<r, b>>]
      BY <2>2, <2>11
    <3>2. OpenOf(db', r) = OpenOf(db, r) /\ OpenCost(db', r) = open
      BY <3>1 DEF OpenOf, OpenCost, Costs
    <3>3. TotalIn(db'.closures, OfRun(r), "realized") = profit
      BY <2>1, <2>6, <2>7, <2>8, <2>11
    <3>4. /\ TotalBoth(db'.fills, OfRun(r), Purchases, "notional") = paid
          /\ TotalBoth(db'.fills, OfRun(r), Sales, "notional") = got
          /\ CountBoth(db'.fills, OfRun(r), Sales) = most
      BY <2>5, <2>11
    <3> QED
      BY <2>9, <3>2, <3>3, <3>4 DEF RunBalances, RunGap
  <2>12. ASSUME f.run = r, kept.cost \in Int
         PROVE  /\ IsFiniteSet(OpenOf(db', r)) /\ open \in Int
                /\ OpenCost(db', r) = open - held.cost + kept.cost
    <3>1. \A b \in Assets : b # a => db'.positions[<<r, b>>] = db.positions[<<r, b>>]
      BY <2>2, <2>12
    <3>2. held = db.positions[<<r, a>>] /\ kept = db'.positions[<<r, a>>]
      BY <2>12
    <3>3. IsFiniteSet(OpenOf(db, r)) /\ db'.positions[<<r, a>>].cost \in Int
      BY <2>12, <3>2 DEF RunBalances
    <3>4. OneMoves(db, db', r, a)
      BY <2>10, <3>1, <3>3 DEF OneMoves
    <3>5. a \in Assets
      BY <2>1
    <3> HIDE DEF a, held, kept, open
    <3> DEFINE before == db.positions[<<r, a>>].cost
               after == db'.positions[<<r, a>>].cost
    <3>6. /\ IsFiniteSet(OpenOf(db', r)) /\ OpenCost(db, r) \in Int
          /\ OpenCost(db', r) = OpenCost(db, r) - before + after
      BY <3>3, <3>4, <3>5, OpenCostMoves
    <3> QED
      BY <3>2, <3>6 DEF open
  <2>13. CASE f.run = r /\ f.side = "BUY"
    <3>1. held.cost \in Nat /\ kept.cost = held.cost + f.notional
      BY <2>2, <2>13 DEF Position
    <3>2. /\ IsFiniteSet(OpenOf(db', r)) /\ open \in Int
          /\ OpenCost(db', r) = open - held.cost + kept.cost
      BY <2>1, <2>12, <2>13, <3>1
    <3>3. /\ TotalBoth(db'.fills, OfRun(r), Purchases, "notional") = paid + f.notional
          /\ TotalBoth(db'.fills, OfRun(r), Sales, "notional") = got
          /\ CountBoth(db'.fills, OfRun(r), Sales) = most
      BY <2>5, <2>13
    <3> HIDE DEF held, kept, open
    <3>4. OpenCost(db', r) = open + f.notional
      BY <2>1, <3>1, <3>2
    <3>5. ((paid + f.notional) + profit) - (got + (open + f.notional)) \in 0..most
      BY <2>1, <2>5, <2>8, <2>9, <3>2
    <3> QED
      BY <2>7, <2>13, <3>2, <3>3, <3>4, <3>5 DEF RunBalances, RunGap
  <2>14. CASE f.run = r /\ f.side = "SELL"
    <3> DEFINE x == BasisOf(held, f.quantity)
               y == BasisOf(held, held.quantity - f.quantity)
    <3>1. kept.cost = y /\ c.realized = f.notional - x
      BY <2>2, <2>14
    <3>2. held.cost - x - y \in 0..1
      BY <2>2, <2>14, SplitBasis
    <3>3. x \in Nat /\ y \in Nat /\ held.cost \in Nat
      <4>1. held.quantity - f.quantity \in 0..held.quantity
        BY <2>2, <2>14 DEF Position
      <4>2. held.cost \in Nat
        BY <2>2 DEF Position
      <4> QED
        BY <2>2, <2>14, <4>1, <4>2, BasisBound
    <3>4. /\ IsFiniteSet(OpenOf(db', r)) /\ open \in Int
          /\ OpenCost(db', r) = open - held.cost + y
      BY <2>12, <2>14, <3>1, <3>3
    <3>5. /\ TotalBoth(db'.fills, OfRun(r), Purchases, "notional") = paid
          /\ TotalBoth(db'.fills, OfRun(r), Sales, "notional") = got + f.notional
          /\ CountBoth(db'.fills, OfRun(r), Sales) = most + 1
      BY <2>5, <2>14
    <3>6. TotalIn(db'.closures, OfRun(r), "realized") = profit + (f.notional - x)
      BY <2>6, <2>14, <3>1
    <3> DEFINE n == f.notional
               cost == held.cost
    <3>7. n \in Int /\ cost \in Int /\ x \in Int /\ y \in Int /\ most \in Int
          /\ cost - x - y \in 0..1
      BY <2>1, <2>5, <3>2, <3>3
    <3> HIDE DEF held, kept, open, x, y, n, cost
    <3>8. (paid + (profit + (n - x))) - ((got + n) + (open - cost + y)) \in 0..(most + 1)
      BY <2>5, <2>8, <2>9, <3>4, <3>7, SaleGap
    <3> QED
      BY <3>4, <3>5, <3>6, <3>8 DEF RunBalances, RunGap, n, cost
  <2> QED
    BY <2>1, <2>11, <2>13, <2>14
<1> QED
  BY <1>2, <1>3, OnlyCommitsTrade

ProfitInv == \A r \in Runs : RunBalances(db, r)

\* Nothing traded, nothing open.
LEMMA NothingOpen == Init => ProfitInv
<1> SUFFICES ASSUME Init, NEW r \in Runs PROVE RunBalances(db, r)
  BY DEF ProfitInv
<1>1. db.fills = <<>> /\ db.closures = <<>>
  BY DEF Init, EmptyImage
<1>2. OpenOf(db, r) = {}
  BY DEF Init, EmptyImage, OpenOf
<1>3. OpenCost(db, r) = 0
  BY <1>2, SumEmpty DEF OpenCost
<1>4. \A S, field : Select(<<>>, S) = <<>> /\ TotalOf(<<>>, field) = 0
  BY SelectEmpty, TotalEmpty
<1>5. /\ TotalBoth(db.fills, OfRun(r), Purchases, "notional") = 0
      /\ TotalBoth(db.fills, OfRun(r), Sales, "notional") = 0
      /\ TotalIn(db.closures, OfRun(r), "realized") = 0
      /\ CountBoth(db.fills, OfRun(r), Sales) = Len(<<>>)
  BY <1>1, <1>4 DEF TotalBoth, TotalIn, CountBoth
<1>6. (0 + 0) - (0 + 0) \in 0..Len(<<>>)
  OBVIOUS
<1> QED
  BY <1>2, <1>3, <1>5, <1>6, FS_EmptySet DEF RunBalances, RunGap

\* What a report made in a quiet time has read, in terms of the file.
LEMMA QuietReport ==
  ASSUME IInv, ReportInv, Done, quiet
  PROVE  /\ subject \in Runs
         /\ Realized = TotalIn(db.closures, OfRun(subject), "realized")
         /\ \A side : TotalOf(Side(side), "notional")
              = TotalBoth(db.fills, OfRun(subject), {f \in FillRow : f.side = side}, "notional")
         /\ Len(Side("SELL")) = CountBoth(db.fills, OfRun(subject), Sales)
         /\ read.positions = [a \in Assets |-> db.positions[<<subject, a>>]]
         /\ OpenAssets = OpenOf(db, subject)
<1>1. Len(Tables) = 6 /\ step = 7
  BY DEF Tables, Done
<1>2. /\ subject \in Runs
      /\ read.fills = Select(db.fills, OfRun(subject))
      /\ read.closures = Select(db.closures, OfRun(subject))
      /\ read.positions = [a \in Assets |-> db.positions[<<subject, a>>]]
  BY <1>1 DEF ReportInv, ReportType, ReadQuietly
<1>3. Realized = TotalIn(db.closures, OfRun(subject), "realized")
  BY <1>2 DEF Realized, TotalIn
<1>4. \A side : TotalOf(Side(side), "notional")
        = TotalBoth(db.fills, OfRun(subject), {f \in FillRow : f.side = side}, "notional")
  BY <1>2 DEF Side, TotalBoth
<1>5. Len(Side("SELL")) = CountBoth(db.fills, OfRun(subject), Sales)
  BY <1>2 DEF Side, Sales, CountBoth
<1>6. OpenAssets = OpenOf(db, subject)
  BY <1>2 DEF OpenAssets, OpenOf
<1> QED
  BY <1>2, <1>3, <1>4, <1>5, <1>6

\* The unrealized profit is the worth less the basis.
LEMMA UnrealizedIs ==
  ASSUME IInv, ReportInv, Done, quiet, Known, RunBalances(db, subject)
  PROVE  /\ Worth \in Int /\ OpenCost(db, subject) \in Int
         /\ Unrealized = Worth - OpenCost(db, subject)
<1> DEFINE S == OpenAssets
           W == [a \in S |-> read.marks[a] * read.positions[a].quantity]
           U == [a \in S |-> read.marks[a] * read.positions[a].quantity - read.positions[a].cost]
           C == Costs(db, subject)
<1>1. read \in ReadType
  BY DEF ReportInv, ReportType
<1>2. S = OpenOf(db, subject) /\ IsFiniteSet(S)
      /\ read.positions = [a \in Assets |-> db.positions[<<subject, a>>]]
  BY QuietReport DEF RunBalances
<1>3. \A a \in S : a \in Assets /\ read.positions[a] \in Position
                   /\ read.marks[a] \in Nat
  BY <1>1, PricesAssumption DEF OpenAssets, Known, ReadType
<1>4. \A a \in S : W[a] \in Int
  <2> SUFFICES ASSUME NEW a \in S PROVE read.marks[a] * read.positions[a].quantity \in Int
    OBVIOUS
  <2>1. read.marks[a] \in Nat /\ read.positions[a].quantity \in Nat
    BY <1>3 DEF Position
  <2> QED
    BY <2>1
<1>5. \A a \in S : C[a] = read.positions[a].cost /\ C[a] \in Int
  BY <1>2, <1>3 DEF Costs, Position
<1>6. \A a \in S : U[a] = W[a] - C[a]
  BY <1>5
<1>7. /\ Worth = SumFunctionOnSet(W, S) /\ Unrealized = SumFunctionOnSet(U, S)
      /\ OpenCost(db, subject) = SumFunctionOnSet(C, S)
  <2>1. DOMAIN W = S /\ DOMAIN U = S
    OBVIOUS
  <2>2. Worth = SumFunction(W) /\ Unrealized = SumFunction(U)
    BY DEF Worth, Unrealized
  <2>3. SumFunction(W) = SumFunctionOnSet(W, S) /\ SumFunction(U) = SumFunctionOnSet(U, S)
    BY <2>1 DEF SumFunction
  <2>4. OpenCost(db, subject) = SumFunctionOnSet(C, S)
    BY <1>2 DEF OpenCost
  <2> QED
    BY <2>2, <2>3, <2>4
<1> HIDE DEF S, W, U, C
<1>8. Numbers(W, S) /\ Numbers(C, S)
  BY <1>4, <1>5 DEF Numbers
<1>9. SumFunctionOnSet(U, S) = SumFunctionOnSet(W, S) - SumFunctionOnSet(C, S)
  BY <1>2, <1>6, <1>8, SumDifference
<1>10. SumFunctionOnSet(W, S) \in Int /\ SumFunctionOnSet(C, S) \in Int
  BY <1>2, <1>8, SumType
<1> QED
  BY <1>7, <1>9, <1>10

(***************************************************************************)
(* A report during which nothing was committed accounts for the money of a *)
(* run with one follower: realized and unrealized profit, computed from    *)
(* different tables, are what the sales brought plus what the positions    *)
(* would bring less what was paid, up to a unit of rounding per sale       *)
(* (PaperReport.total_net_pnl).                                            *)
(***************************************************************************)
THEOREM ProfitAlwaysAddsUp ==
  ASSUME ExclusiveRuns
  PROVE  ReportSpec => []ProfitAddsUp
<1>1. ReportInit => ProfitInv
  BY NothingOpen DEF ReportInit
<1>2. IInv /\ ProfitInv /\ [ReportNext]_<<vars, reportVars>> => ProfitInv'
  <2>1. ASSUME IInv, ProfitInv, [ReportNext]_<<vars, reportVars>>, NEW r \in Runs
        PROVE  RunBalances(db', r)
    <3>1. [Next]_vars
      BY <2>1 DEF ReportNext, StartReport, ReadTable, MarkPositions, Take, PrintReport
    <3> QED
      BY <2>1, <3>1, RunBalancesStep DEF ProfitInv
  <2> QED
    BY <2>1 DEF ProfitInv, RunBalances, RunGap, OpenOf, OpenCost, Costs, TotalBoth, TotalIn, CountBoth
<1>3. IInv /\ ReportInv /\ ProfitInv => ProfitAddsUp
  <2>1. ASSUME IInv, ReportInv, ProfitInv, Done, quiet, Known
        PROVE  LET money == TotalOf(Side("SELL"), "notional") + Worth
                              - TotalOf(Side("BUY"), "notional")
               IN  Realized + Unrealized - money \in 0..Len(Side("SELL"))
    <3> DEFINE paid == TotalBoth(db.fills, OfRun(subject), Purchases, "notional")
               got == TotalBoth(db.fills, OfRun(subject), Sales, "notional")
               profit == TotalIn(db.closures, OfRun(subject), "realized")
               most == CountBoth(db.fills, OfRun(subject), Sales)
               cost == OpenCost(db, subject)
    <3>1. subject \in Runs /\ RunBalances(db, subject)
      BY <2>1, QuietReport DEF ProfitInv
    <3>2. /\ Realized = profit /\ Len(Side("SELL")) = most
          /\ TotalOf(Side("SELL"), "notional") = got
          /\ TotalOf(Side("BUY"), "notional") = paid
      BY <2>1, QuietReport DEF Sales, Purchases
    <3>3. Worth \in Int /\ cost \in Int /\ Unrealized = Worth - cost
      BY <2>1, <3>1, UnrealizedIs
    <3>4. (paid + profit) - (got + cost) \in 0..most
      BY <3>1 DEF RunBalances, RunGap
    <3>5. paid \in Int /\ got \in Int /\ profit \in Int /\ most \in Nat
      <4>1. db.fills \in Seq(FillRow) /\ db.closures \in Seq(ClosureRow)
        BY <2>1 DEF IInv, TypeOK, Image
      <4>2. /\ Select(Select(db.fills, OfRun(subject)), Purchases) \in Seq(FillRow)
            /\ Select(Select(db.fills, OfRun(subject)), Sales) \in Seq(FillRow)
            /\ Select(db.closures, OfRun(subject)) \in Seq(ClosureRow)
        <5>1. Select(db.fills, OfRun(subject)) \in Seq(FillRow)
          BY <4>1, SelectType
        <5> QED
          BY <4>1, <5>1, SelectType
      <4>3. HasField(FillRow, "notional") /\ HasField(ClosureRow, "realized")
        BY DEF HasField, FillRow, ClosureRow
      <4> QED
        BY <4>2, <4>3, TotalType DEF TotalBoth, TotalIn, CountBoth
    <3> DEFINE worth == Worth
    <3> HIDE DEF paid, got, profit, most, cost, worth
    <3>6. profit + (worth - cost) - (got + worth - paid) \in 0..most
      <4>1. worth \in Int
        BY <3>3 DEF worth
      <4> QED
        BY <3>3, <3>4, <3>5, <4>1
    <3> QED
      BY <3>2, <3>3, <3>6 DEF worth
  <2> QED
    BY <2>1 DEF ProfitAddsUp
<1> QED
  BY <1>1, <1>2, <1>3, ReportInvariantHolds, PTL DEF ReportSpec
=============================================================================
