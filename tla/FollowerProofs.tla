--------------------------- MODULE FollowerProofs ---------------------------
(***************************************************************************)
(* Proofs about PaperFollower, for every number of processes, activities,  *)
(* books and bounds.                                                       *)
(***************************************************************************)
EXTENDS FollowerInvariant, LoopProofs, FiniteSetTheorems

-----------------------------------------------------------------------------
(***************************************************************************)
(* Lemmas about the operators.                                             *)
(***************************************************************************)
\* The bounds are numbers.
LEMMA BoundsType ==
  /\ PaperUsdc \in Nat /\ MaxAge \in Nat /\ MaxDriftBps \in Nat /\ Latest \in Nat
  /\ MaxRuns \in Nat /\ MaxClock \in Nat /\ MaxDeaths \in Nat
  /\ NoProc \notin Procs
  BY ConstantsAssumption

\* A batch is a sequence of published activities, no longer than --latest.
LEMMA BatchType ==
  ASSUME NEW feed \in SUBSET Activities, NEW batch \in Batches(feed)
  PROVE  batch \in Seq(Activities) /\ Len(batch) <= Latest
<1>1. PICK W \in Windows(feed) : batch \in SetToSeqs(W)
  BY DEF Batches
<1>2. Cardinality(feed) \in Nat
  BY FS_Subset, FS_CardinalityType, ConstantsAssumption
<1>3. W \subseteq Activities /\ Cardinality(W) = Smaller(Latest, Cardinality(feed))
  BY DEF Windows
<1>4. Cardinality(W) \in Nat /\ Cardinality(W) <= Latest
  <2>1. \A m, n \in Nat : Smaller(m, n) \in Nat /\ Smaller(m, n) <= m
    BY DEF Smaller
  <2>2. QED BY <1>2, <1>3, <2>1, BoundsType
<1>5. batch \in [1..Cardinality(W) -> W]
  BY <1>1 DEF SetToSeqs
<1>6. QED BY <1>3, <1>4, <1>5

\* An activity that passes the checks has a side, a token, a price and an age.
LEMMA ValidatedActivity ==
  ASSUME NEW a \in ActivityType, NEW t \in Nat, PreValidate(a, t) = "none"
  PROVE  /\ a.side \in {"BUY", "SELL"} /\ a.asset \in Assets
         /\ a.price \in Nat /\ a.price > 0 /\ t - a.ts \in Nat
<1>1. a.side # "OTHER" /\ a.asset # "" /\ a.price # 0 /\ a.ts # NoTime
  BY DEF PreValidate
<1>2. t - a.ts \in 0..MaxAge
  BY <1>1 DEF PreValidate
<1>3. a.side \in {"BUY", "SELL"} /\ a.asset \in Assets /\ a.price \in Nat
  BY <1>1 DEF ActivityType
<1>4. a.ts \in Nat
  BY <1>1 DEF ActivityType
<1>5. t - a.ts \in Nat
  BY <1>2, <1>4, BoundsType
<1>6. a.price > 0
  <2> DEFINE price == a.price
  <2>1. price \in Nat /\ price # 0
    BY <1>1, <1>3
  <2> HIDE DEF price
  <2>2. price > 0
    BY <2>1
  <2>3. QED BY <2>2 DEF price
<1>7. QED BY <1>3, <1>5, <1>6

\* The basis of a part of a position is at most the basis of the whole.
LEMMA BasisBound ==
  ASSUME NEW held \in Position, held.quantity > 0, NEW q \in 0..held.quantity
  PROVE  BasisOf(held, q) \in Nat /\ BasisOf(held, q) <= held.cost
<1> DEFINE c == held.cost
           n == held.quantity
<1>1. c \in Nat /\ n \in Nat /\ n > 0 /\ q \in Nat /\ q <= n
  BY DEF Position
<1> HIDE DEF c, n
<1>2. c * q \in Nat /\ c * q <= c * n
  BY <1>1
<1>3. (c * q) \div n \in Nat /\ n * ((c * q) \div n) <= c * q
  BY <1>1, <1>2
<1> DEFINE b == (c * q) \div n
<1> HIDE DEF b
<1>4. n * b <= n * c /\ b \in Nat
  BY <1>1, <1>2, <1>3 DEF b
<1>5. b <= c
  BY <1>1, <1>4
<1>6. QED BY <1>4, <1>5 DEF BasisOf, b, c, n

\* Every write of the follower turns an image into an image.
LEMMA ImageWrites ==
  ASSUME NEW img \in Image
  PROVE  /\ \A row \in SignalRow : Recorded(img, row) \in Image
         /\ \A row \in FillRow : [img EXCEPT !.fills = Append(@, row)] \in Image
         /\ \A row \in ClosureRow : [img EXCEPT !.closures = Append(@, row)] \in Image
         /\ \A r \in Runs, a \in Assets, held \in Position :
              UpsertPosition(img, r, a, held) \in Image
         /\ img.runs < MaxRuns => [img EXCEPT !.runs = @ + 1] \in Image
<1>0. /\ img.signals \in Seq(SignalRow) /\ img.fills \in Seq(FillRow)
      /\ img.closures \in Seq(ClosureRow) /\ img.runs \in 0..MaxRuns
  BY DEF Image
<1>a. \A rows \in Seq(SignalRow) : [img EXCEPT !.signals = rows] \in Image
  BY DEF Image
<1>b. \A rows \in Seq(FillRow) : [img EXCEPT !.fills = rows] \in Image
  BY DEF Image
<1>c. \A rows \in Seq(ClosureRow) : [img EXCEPT !.closures = rows] \in Image
  BY DEF Image
<1>d. \A n \in 0..MaxRuns : [img EXCEPT !.runs = n] \in Image
  BY DEF Image
<1>1. \A row \in SignalRow : Recorded(img, row) \in Image
  BY <1>0, <1>a, AppendProperties DEF Recorded
<1>2. \A row \in FillRow : [img EXCEPT !.fills = Append(@, row)] \in Image
  BY <1>0, <1>b, AppendProperties
<1>3. \A row \in ClosureRow : [img EXCEPT !.closures = Append(@, row)] \in Image
  BY <1>0, <1>c, AppendProperties
<1>4. ASSUME NEW r \in Runs, NEW a \in Assets, NEW held \in Position
      PROVE  UpsertPosition(img, r, a, held) \in Image
  <2>1. NoPosition \in Position
    BY DEF NoPosition, Position
  <2>2. QED BY <2>1 DEF Image, UpsertPosition
<1>5. ASSUME img.runs < MaxRuns
      PROVE  [img EXCEPT !.runs = @ + 1] \in Image
  <2> DEFINE n == img.runs + 1
  <2>1. n \in 0..MaxRuns
    BY <1>0, <1>5, BoundsType
  <2>2. [img EXCEPT !.runs = n] \in Image
    BY <2>1, <1>d
  <2>3. QED BY <2>2
<1>6. QED BY <1>1, <1>2, <1>3, <1>4, <1>5

-----------------------------------------------------------------------------
(***************************************************************************)
(* The activity in hand and the rows made from it have their types.        *)
(***************************************************************************)
LEMMA ActType ==
  ASSUME TypeOK, NEW p \in Procs, queue[p] # <<>>
  PROVE  /\ act(p) \in Activities /\ act(p) \in ActivityType
         /\ Tail(queue[p]) \in Seq(Activities)
         /\ Len(Tail(queue[p])) <= Latest
<1>1. queue[p] \in Seq(Activities) /\ Len(queue[p]) <= Latest
  BY DEF TypeOK
<1>2. act(p) \in Activities /\ Tail(queue[p]) \in Seq(Activities)
  BY <1>1 DEF act
<1>3. Len(Tail(queue[p])) = Len(queue[p]) - 1 /\ Len(queue[p]) \in Nat
  BY <1>1
<1>4. Len(Tail(queue[p])) <= Latest
  <2> DEFINE n == Len(queue[p])
             m == Len(Tail(queue[p]))
  <2>1. n \in Nat /\ n <= Latest /\ m = n - 1
    BY <1>1, <1>3
  <2> HIDE DEF n, m
  <2>2. m <= Latest
    BY <2>1, BoundsType
  <2>3. QED BY <2>2 DEF m
<1>5. act(p) \in ActivityType
  BY <1>2, ConstantsAssumption
<1>6. QED BY <1>2, <1>4, <1>5

\* What is in hand, once accepted, has a run, a token, a price and an age.
LEMMA HandType ==
  ASSUME TypeOK, HandInv, NEW p \in Procs, pc[p] \in Decided \union {"held"}
  PROVE  /\ run[p] \in Runs /\ queue[p] # <<>>
         /\ act(p).side \in {"BUY", "SELL"} /\ act(p).asset \in Assets
         /\ act(p).sid \in SignalIds /\ act(p).price \in Nat
         /\ now[p] - act(p).ts \in Nat
<1>1. queue[p] # <<>> /\ PreValidate(act(p), now[p]) = "none" /\ run[p] \in 1..db.runs
  BY DEF HandInv, HandAt, Decided, Quoted, InTransaction, Idle
<1>2. act(p) \in ActivityType /\ now[p] \in Nat
  BY <1>1, ActType, BoundsType DEF TypeOK
<1>3. db.runs \in 0..MaxRuns
  BY DEF TypeOK, Image
<1>4. run[p] \in Runs
  BY <1>1, <1>3, BoundsType DEF Runs
<1>5. act(p).sid \in SignalIds
  BY <1>2 DEF ActivityType
<1>6. QED BY <1>1, <1>2, <1>4, <1>5, ValidatedActivity

\* A row for the signal in hand is one of the table.
LEMMA SignalRowType ==
  ASSUME TypeOK, HandInv, NEW p \in Procs, pc[p] \notin Idle, queue[p] # <<>>,
         NEW filled \in BOOLEAN, NEW why \in Reasons
  PROVE  SignalRowOf(p, filled, why) \in SignalRow
<1>1. run[p] \in 1..db.runs /\ db.runs \in 0..MaxRuns
  BY DEF HandInv, HandAt, TypeOK, Image
<1>2. run[p] \in Runs
  BY <1>1, BoundsType DEF Runs
<1>3. act(p).sid \in SignalIds
  BY ActType DEF ActivityType
<1>4. QED BY <1>2, <1>3 DEF SignalRowOf, SignalRow

\* So is a fill of a quoted trade.
LEMMA FillRowType ==
  ASSUME TypeOK, HandInv, NEW p \in Procs, pc[p] \in Quoted, NEW ref \in Nat
  PROVE  FillRowOf(p, ref) \in FillRow
<1>1. est[p].quantity \in Nat /\ est[p].cost \in Nat
  BY DEF TypeOK, Estimate
<1>2. QED BY <1>1, HandType DEF FillRowOf, FillRow, Decided

\* What was read and quoted for a trade: a sale is within the position.
LEMMA QuotedTypes ==
  ASSUME TypeOK, HandInv, NEW p \in Procs, pc[p] \in Quoted
  PROVE  /\ pos[p].quantity \in Nat /\ pos[p].cost \in Nat
         /\ est[p].quantity \in Nat /\ est[p].cost \in Nat /\ est[p].quantity > 0
         /\ act(p).side = "SELL" => /\ pos[p].quantity > 0
                                    /\ est[p].quantity <= pos[p].quantity
  BY DEF TypeOK, HandInv, HandAt, Position, Estimate, Quoted, Decided

\* The position and the closure a trade writes have their types.
LEMMA AfterType ==
  ASSUME TypeOK, HandInv, NEW p \in Procs, pc[p] \in Quoted
  PROVE  /\ \A held \in Position : AfterBuy(held, est[p]) \in Position
         /\ act(p).side = "SELL" => AfterSell(pos[p], est[p]) \in Position
         /\ act(p).side = "SELL" =>
              ClosureOf(run[p], act(p).asset, pos[p], est[p]) \in ClosureRow
<1>1. ASSUME NEW held \in Position
      PROVE  AfterBuy(held, est[p]) \in Position
  BY QuotedTypes DEF AfterBuy, Position
<1>2. ASSUME act(p).side = "SELL"
      PROVE  AfterSell(pos[p], est[p]) \in Position
  <2> DEFINE kept == pos[p].quantity - est[p].quantity
  <2>1. pos[p] \in Position /\ pos[p].quantity > 0 /\ kept \in 0..pos[p].quantity
    BY <1>2, QuotedTypes DEF TypeOK
  <2>2. BasisOf(pos[p], kept) \in Nat /\ kept \in Nat
    BY <2>1, BasisBound, QuotedTypes
  <2>3. QED BY <2>2 DEF AfterSell, Position
<1>3. ASSUME act(p).side = "SELL"
      PROVE  ClosureOf(run[p], act(p).asset, pos[p], est[p]) \in ClosureRow
  <2>1. pos[p] \in Position /\ pos[p].quantity > 0
        /\ est[p].quantity \in 0..pos[p].quantity
    BY <1>3, QuotedTypes DEF TypeOK
  <2>2. BasisOf(pos[p], est[p].quantity) \in Nat
    BY <2>1, BasisBound
  <2>3. est[p].cost - BasisOf(pos[p], est[p].quantity) \in Int
    BY <2>2, QuotedTypes
  <2>4. run[p] \in Runs /\ act(p).asset \in Assets
    BY HandType DEF Decided
  <2>5. QED BY <2>3, <2>4, QuotedTypes DEF ClosureOf, ClosureRow
<1>4. QED BY <1>1, <1>2, <1>3

\* A quoted purchase spends no more than the budget.
LEMMA BuyQuote ==
  ASSUME NEW b \in Books
  PROVE  /\ WalkForNotional(b.asks, PaperUsdc) \in Estimate
         /\ WalkForNotional(b.asks, PaperUsdc).cost <= PaperUsdc
<1>1. b.asks \in Seq(Level) /\ PaperUsdc \in Nat
  BY BooksAssumption, ConstantsAssumption
<1> DEFINE e == WalkForNotional(b.asks, PaperUsdc)
<1>2. e \in [quantity : Nat, cost : 0..PaperUsdc, full : BOOLEAN, consumed : Nat]
  BY <1>1, SpendType
<1> HIDE DEF e
<1> QED
  BY <1>1, <1>2 DEF Estimate, e

\* A quoted sale is of no more than the position.
LEMMA SellQuote ==
  ASSUME NEW b \in Books, NEW held \in Position
  PROVE  /\ WalkBids(b.bids, SellQuantity(held, b)) \in Estimate
         /\ WalkBids(b.bids, SellQuantity(held, b)).quantity <= held.quantity
<1> DEFINE q == SellQuantity(held, b)
<1>1. Depth(b.bids) \in Nat /\ held.quantity \in Nat
  BY BooksAssumption, DepthType DEF Position
<1>2. q \in 0..Depth(b.bids) /\ q <= held.quantity
  BY <1>1 DEF SellQuantity, Smaller
<1> HIDE DEF q
<1>3. WalkBids(b.bids, q) \in Estimate /\ WalkBids(b.bids, q).quantity = q
  <2>1. b.bids \in Seq(Level) /\ q \in Nat /\ q <= Depth(b.bids)
    BY <1>1, <1>2, BooksAssumption
  <2> HIDE DEF q
  <2>2. Smaller(q, Depth(b.bids)) = q
    BY <2>1 DEF Smaller
  <2> QED
    BY <2>1, <2>2, WalkType DEF Estimate, WalkBids
<1>4. QED BY <1>2, <1>3 DEF q

-----------------------------------------------------------------------------
(***************************************************************************)
(* Types.                                                                  *)
(***************************************************************************)
LEMMA ForgetType ==
  ASSUME TypeOK, NEW p \in Procs, ForgetHand(p)
  PROVE  /\ pos' \in [Procs -> Position] /\ est' \in [Procs -> Estimate]
         /\ reason' \in [Procs -> Reasons]
<1>1. NoPosition \in Position /\ NoEstimate \in Estimate /\ "none" \in Reasons
  BY DEF NoPosition, Position, NoEstimate, Estimate, Reasons
<1>2. QED BY <1>1 DEF ForgetHand, TypeOK

\* So does going on to the next one.
LEMMA FinishType ==
  ASSUME TypeOK, NEW p \in Procs, NEW from \in Places, queue[p] # <<>>,
         Finish(p, from)
  PROVE  /\ pos' \in [Procs -> Position] /\ est' \in [Procs -> Estimate]
         /\ reason' \in [Procs -> Reasons] /\ queue' \in [Procs -> Seq(Activities)]
         /\ pc' \in [Procs -> Places]
         /\ \A q \in Procs : Len(queue'[q]) <= Latest
<1>1. queue' = [queue EXCEPT ![p] = Tail(queue[p])] /\ ForgetHand(p)
  BY DEF Finish
<1>2. pc' \in [Procs -> Places]
  BY DEF Finish, Goto, TypeOK, Places
<1>3. queue' \in [Procs -> Seq(Activities)] /\ \A q \in Procs : Len(queue'[q]) <= Latest
  BY <1>1, ActType DEF TypeOK
<1>4. QED BY <1>1, <1>2, <1>3, ForgetType

\* Every step keeps the types.
LEMMA TypeStep ==
  ASSUME TypeOK, HandInv, Next
  PROVE  TypeOK'
<1> USE DEF vars, world, hand
<1>1. CASE Tick
  BY <1>1, BoundsType DEF TypeOK, Tick
<1>2. ASSUME NEW a \in Activities, Publish(a)
      PROVE  TypeOK'
  BY <1>2 DEF TypeOK, Publish
<1>3. ASSUME NEW p \in Procs, ResumeRun(p)
      PROVE  TypeOK'
  <2>1. db.runs \in 0..MaxRuns
    BY DEF TypeOK, Image
  <2>2. QED BY <1>3, <2>1 DEF TypeOK, ResumeRun, Goto, Places
<1>4. ASSUME NEW p \in Procs, AskForRun(p)
      PROVE  TypeOK'
  BY <1>4 DEF TypeOK, AskForRun, Goto, Places
<1>5. ASSUME NEW p \in Procs, CreateRun(p)
      PROVE  TypeOK'
  <2>1. db \in Image /\ db.runs \in 0..MaxRuns /\ db.runs < MaxRuns
    BY <1>5 DEF TypeOK, Image, CreateRun
  <2>2. [db EXCEPT !.runs = @ + 1] \in Image /\ db.runs + 1 \in 0..MaxRuns
    BY <2>1, ImageWrites, BoundsType
  <2>3. QED
    BY <1>5, <2>2 DEF TypeOK, CreateRun, Goto, Places, Autocommit, CommitUnlessDeferred
<1>6. ASSUME NEW p \in Procs, FetchActivity(p)
      PROVE  TypeOK'
  <2>1. PICK batch \in Batches(published) : queue' = [queue EXCEPT ![p] = batch]
    BY <1>6 DEF FetchActivity
  <2>2. batch \in Seq(Activities) /\ Len(batch) <= Latest
    BY BatchType DEF TypeOK
  <2>3. QED BY <1>6, <2>1, <2>2 DEF TypeOK, FetchActivity, Goto, Places
<1>7. ASSUME NEW p \in Procs, EndPoll(p)
      PROVE  TypeOK'
  BY <1>7, BoundsType DEF TypeOK, EndPoll, Goto, Places
<1>8. ASSUME NEW p \in Procs, IgnoreDuplicate(p)
      PROVE  TypeOK'
  BY <1>8, FinishType DEF TypeOK, IgnoreDuplicate, Places
<1>9. ASSUME NEW p \in Procs, RejectEarly(p)
      PROVE  TypeOK'
  <2>1. PreValidate(act(p), now[p]) \in Reasons
    BY DEF PreValidate, Reasons
  <2>2. QED BY <1>9, <2>1 DEF TypeOK, RejectEarly, Decline, Goto, Places
<1>10. ASSUME NEW p \in Procs, Accept(p)
       PROVE  TypeOK'
  BY <1>10 DEF TypeOK, Accept, Goto, Places
<1>11. ASSUME NEW p \in Procs, ReadPosition(p)
       PROVE  TypeOK'
  <2>1. pc[p] = "held"
    BY <1>11 DEF ReadPosition
  <2>2. run[p] \in Runs /\ act(p).asset \in Assets
    BY <2>1, HandType
  <2>3. db.positions[<<run[p], act(p).asset>>] \in Position
    BY <2>2 DEF TypeOK, Image
  <2>4. QED BY <1>11, <2>3 DEF TypeOK, ReadPosition, Decline, Goto, Places, Reasons
<1>12. ASSUME NEW p \in Procs, BookUnavailable(p)
       PROVE  TypeOK'
  BY <1>12 DEF TypeOK, BookUnavailable, Decline, Goto, Places, Reasons
<1>13. ASSUME NEW p \in Procs, NEW e \in Estimate, NEW objection \in Reasons,
              Quote(p, e, objection)
       PROVE  TypeOK'
  BY <1>13 DEF TypeOK, Quote, Decline, Goto, Places
<1>14. ASSUME NEW p \in Procs, QuoteBuy(p)
       PROVE  TypeOK'
  <2>1. PICK b \in Books : LET e == WalkForNotional(b.asks, PaperUsdc)
                           IN  Quote(p, e, BuyObjection(act(p), e))
    BY <1>14 DEF QuoteBuy
  <2>2. WalkForNotional(b.asks, PaperUsdc) \in Estimate
    BY BuyQuote
  <2>3. BuyObjection(act(p), WalkForNotional(b.asks, PaperUsdc)) \in Reasons
    BY DEF BuyObjection, Reasons
  <2>4. QED BY <1>13, <2>1, <2>2, <2>3
<1>15. ASSUME NEW p \in Procs, QuoteSell(p)
       PROVE  TypeOK'
  <2>1. PICK b \in Books :
          LET e == WalkBids(b.bids, SellQuantity(pos[p], b))
          IN  Quote(p, e, IF e.quantity = 0 THEN "insufficient_liquidity" ELSE "none")
    BY <1>15 DEF QuoteSell
  <2>2. WalkBids(b.bids, SellQuantity(pos[p], b)) \in Estimate
    BY SellQuote DEF TypeOK
  <2>3. "none" \in Reasons /\ "insufficient_liquidity" \in Reasons
    BY DEF Reasons
  <2>4. QED BY <1>13, <2>1, <2>2, <2>3
<1>16. ASSUME NEW p \in Procs, Skip(p)
       PROVE  TypeOK'
  <2>1. pc[p] = "skip" /\ queue[p] # <<>> /\ pc[p] \notin Idle
    BY <1>16 DEF Skip, HandInv, HandAt, Idle
  <2>2. Recorded(db, SignalRowOf(p, FALSE, reason[p])) \in Image
    BY <2>1, SignalRowType, ImageWrites DEF TypeOK
  <2>3. QED BY <1>16, <2>1, <2>2, FinishType
          DEF TypeOK, Skip, Autocommit, CommitUnlessDeferred, Places
<1>17. ASSUME NEW p \in Procs, NEW img \in Image, Deferred(p, img)
       PROVE  db' \in Image /\ work' \in Image /\ writer' \in Procs \union {NoProc}
  BY <1>17 DEF TypeOK, Deferred, CommitUnlessDeferred
<1>18. ASSUME NEW p \in Procs, InsertSignal(p)
       PROVE  TypeOK'
  <2>1. pc[p] = "signal" /\ queue[p] # <<>> /\ pc[p] \notin Idle
    BY <1>18 DEF InsertSignal, HandInv, HandAt, Idle
  <2>2. Recorded(work, SignalRowOf(p, TRUE, "none")) \in Image
    <3>1. "none" \in Reasons /\ work \in Image
      BY DEF Reasons, TypeOK
    <3>2. SignalRowOf(p, TRUE, "none") \in SignalRow
      BY <2>1, <3>1, SignalRowType
    <3>3. QED BY <3>1, <3>2, ImageWrites
  <2>3. QED BY <1>17, <1>18, <2>2
          DEF TypeOK, InsertSignal, Goto, Places, InTransaction
<1>19. ASSUME NEW p \in Procs, InsertFill(p)
       PROVE  TypeOK'
  <2>1. pc[p] \in Quoted
    BY <1>19 DEF InsertFill, Goto, Quoted, InTransaction
  <2>2. work \in Image /\ Len(work.signals) \in Nat
    BY DEF TypeOK, Image
  <2>3. [work EXCEPT !.fills = Append(@, FillRowOf(p, Len(work.signals)))] \in Image
    BY <2>1, <2>2, FillRowType, ImageWrites
  <2>4. QED BY <1>17, <1>19, <2>3
          DEF TypeOK, InsertFill, Goto, Places, InTransaction
<1>20. ASSUME NEW p \in Procs, MovePositionBuy(p)
       PROVE  TypeOK'
  <2>1. pc[p] \in Quoted
    BY <1>20 DEF MovePositionBuy, Quoted, InTransaction
  <2>2. run[p] \in Runs /\ act(p).asset \in Assets /\ work \in Image
    BY <2>1, HandType DEF Decided, TypeOK
  <2>3. work.positions[<<run[p], act(p).asset>>] \in Position
    BY <2>2 DEF Image
  <2>4. UpsertPosition(work, run[p], act(p).asset,
          AfterBuy(work.positions[<<run[p], act(p).asset>>], est[p])) \in Image
    BY <2>1, <2>2, <2>3, AfterType, ImageWrites
  <2>5. QED BY <1>17, <1>20, <2>4
          DEF TypeOK, MovePositionBuy, Goto, Places, InTransaction
<1>21. ASSUME NEW p \in Procs, MovePositionSell(p)
       PROVE  TypeOK'
  <2>1. pc[p] \in Quoted /\ act(p).side = "SELL"
    BY <1>21 DEF MovePositionSell, Quoted, InTransaction
  <2>2. run[p] \in Runs /\ act(p).asset \in Assets /\ work \in Image
    BY <2>1, HandType DEF Decided, TypeOK
  <2>3. UpsertPosition(work, run[p], act(p).asset, AfterSell(pos[p], est[p])) \in Image
    BY <2>1, <2>2, AfterType, ImageWrites
  <2>4. QED BY <1>17, <1>21, <2>3
          DEF TypeOK, MovePositionSell, Goto, Places, InTransaction
<1>22. ASSUME NEW p \in Procs, InsertClosure(p)
       PROVE  TypeOK'
  <2>1. pc[p] = "closure"
    BY <1>22 DEF InsertClosure, Goto
  <2>2. pc[p] \in Quoted /\ act(p).side = "SELL" /\ work \in Image
    BY <2>1 DEF Quoted, InTransaction, HandInv, HandAt, TypeOK
  <2>3. [work EXCEPT !.closures =
           Append(@, ClosureOf(run[p], act(p).asset, pos[p], est[p]))] \in Image
    BY <2>2, AfterType, ImageWrites
  <2>4. QED BY <1>17, <1>22, <2>3
          DEF TypeOK, InsertClosure, Goto, Places, InTransaction
<1>23. ASSUME NEW p \in Procs, Commit(p)
       PROVE  TypeOK'
  <2>1. pc[p] = "commit"
    BY <1>23 DEF Commit, Finish, Goto
  <2>2. queue[p] # <<>>
    BY <2>1 DEF HandInv, HandAt, Idle
  <2>3. QED BY <1>23, <2>2, FinishType DEF TypeOK, Commit, Places, InTransaction
<1>24. ASSUME NEW p \in Procs, Die(p), deaths' \in 0..MaxDeaths
       PROVE  TypeOK'
  <2>1. ForgetHand(p) /\ queue' = [queue EXCEPT ![p] = <<>>]
    BY <1>24 DEF Die
  <2>2. queue' \in [Procs -> Seq(Activities)] /\ \A q \in Procs : Len(queue'[q]) <= Latest
    BY <2>1, BoundsType DEF TypeOK
  <2>3. QED BY <1>24, <2>1, <2>2, ForgetType, BoundsType DEF TypeOK, Die, Places
<1>25. ASSUME NEW p \in Procs, Crash(p)
       PROVE  TypeOK'
  <2>1. deaths' \in 0..MaxDeaths
    BY <1>25, BoundsType DEF Crash, TypeOK
  <2>2. QED BY <1>24, <1>25, <2>1 DEF Crash
<1>26. ASSUME NEW p \in Procs, UniqueViolation(p)
       PROVE  TypeOK'
  BY <1>24, <1>26 DEF UniqueViolation, TypeOK
<1>27. QED
  BY <1>1, <1>2, <1>3, <1>4, <1>5, <1>6, <1>7, <1>8, <1>9, <1>10, <1>11, <1>12,
     <1>14, <1>15, <1>16, <1>18, <1>19, <1>20, <1>21, <1>22, <1>23, <1>25, <1>26
     DEF Next, Start, Work

-----------------------------------------------------------------------------
(***************************************************************************)
(* What each process knows.                                                *)
(***************************************************************************)
\* A process keeps what it knows through a step of another.
LEMMA HandFrame ==
  ASSUME TypeOK, NEW q \in Procs, HandAt(q), db'.runs \in Nat, db.runs <= db'.runs,
         pc'[q] = pc[q], run'[q] = run[q], now'[q] = now[q], queue'[q] = queue[q],
         pos'[q] = pos[q], est'[q] = est[q]
  PROVE  HandAt(q)'
<1>1. db.runs \in Nat
  BY BoundsType DEF TypeOK, Image
<1>2. run[q] \in 1..db.runs => run[q] \in 1..db'.runs
  BY <1>1
<1>3. act(q)' = act(q)
  BY DEF act
<1>4. QED BY <1>2, <1>3 DEF HandAt

\* Only a new run, a skip and a commit change the committed file.
LEMMA FileWrites ==
  ASSUME Next
  PROVE  db' = db \/ \E p \in Procs : CreateRun(p) \/ Skip(p) \/ Commit(p)
  BY DEF Next, Start, Work, vars, world, hand, Tick, Publish, ResumeRun, AskForRun,
         FetchActivity, EndPoll, IgnoreDuplicate, RejectEarly, Accept, ReadPosition,
         BookUnavailable, QuoteBuy, QuoteSell, Quote, InsertSignal, InsertFill,
         MovePositionBuy, MovePositionSell, InsertClosure, UniqueViolation, Crash,
         Die, Deferred, CommitUnlessDeferred

\* The number of runs never goes down.
LEMMA RunsGrow ==
  ASSUME TypeOK, HandInv, TransactionInv, Next
  PROVE  db'.runs \in Nat /\ db.runs <= db'.runs
<1>1. db.runs \in Nat /\ db \in Image
  BY BoundsType DEF TypeOK, Image
<1>2. TypeOK'
  BY TypeStep
<1>3. db'.runs \in Nat
  BY <1>2, BoundsType DEF TypeOK, Image
<1>4. CASE db' = db
  BY <1>1, <1>4
<1>5. ASSUME NEW p \in Procs, CreateRun(p)
      PROVE  db.runs <= db'.runs
  <2>1. db' = [db EXCEPT !.runs = @ + 1]
    BY <1>5 DEF CreateRun, Autocommit, CommitUnlessDeferred
  <2>2. db'.runs = db.runs + 1
    BY <1>1, <2>1 DEF Image
  <2>3. QED BY <1>1, <2>2
<1>6. ASSUME NEW p \in Procs, Skip(p)
      PROVE  db'.runs = db.runs
  BY <1>1, <1>6 DEF Skip, Autocommit, CommitUnlessDeferred, Recorded, Image
<1>7. ASSUME NEW p \in Procs, Commit(p)
      PROVE  db'.runs = db.runs
  <2>1. writer = p
    BY <1>7 DEF TransactionInv, Commit, Finish, Goto, InTransaction
  <2>2. QED BY <1>7, <2>1 DEF TransactionInv, TransactionAt, Commit
<1>8. QED BY <1>1, <1>3, <1>4, <1>5, <1>6, <1>7, FileWrites

\* Every step keeps what the processes know.
LEMMA HandStep ==
  ASSUME TypeOK, HandInv, TransactionInv, Next
  PROVE  HandInv'
<1> USE DEF vars, world, hand
<1>0. /\ db'.runs \in Nat /\ db.runs <= db'.runs /\ db.runs \in Nat
      /\ \A q \in Procs : HandAt(q)
  BY RunsGrow, BoundsType DEF HandInv, TypeOK, Image
<1>1. CASE Tick \/ \E a \in Activities : Publish(a)
  BY <1>0, <1>1, HandFrame DEF Tick, Publish, HandInv
<1>2. ASSUME NEW p \in Procs, ResumeRun(p)
      PROVE  HandInv'
  <2>1. HandAt(p)'
    BY <1>2, <1>0 DEF HandAt, Idle, Decided, Quoted, InTransaction, ResumeRun, Goto, act, TypeOK
  <2>2. \A q \in Procs \ {p} : HandAt(q)'
    BY <1>2, <1>0, HandFrame DEF ResumeRun, Goto, TypeOK
  <2>3. QED BY <2>1, <2>2 DEF HandInv
<1>3. ASSUME NEW p \in Procs, AskForRun(p)
      PROVE  HandInv'
  <2>1. HandAt(p)'
    BY <1>3, <1>0 DEF HandAt, Idle, Decided, Quoted, InTransaction, AskForRun, Goto, act, TypeOK
  <2>2. \A q \in Procs \ {p} : HandAt(q)'
    BY <1>3, <1>0, HandFrame DEF AskForRun, Goto, TypeOK
  <2>3. QED BY <2>1, <2>2 DEF HandInv
<1>4. ASSUME NEW p \in Procs, FetchActivity(p)
      PROVE  HandInv'
  <2>1. HandAt(p)'
    BY <1>4, <1>0 DEF HandAt, Idle, Decided, Quoted, InTransaction, FetchActivity, Goto, act, TypeOK
  <2>2. \A q \in Procs \ {p} : HandAt(q)'
    BY <1>4, <1>0, HandFrame DEF FetchActivity, Goto, TypeOK
  <2>3. QED BY <2>1, <2>2 DEF HandInv
<1>5. ASSUME NEW p \in Procs, EndPoll(p)
      PROVE  HandInv'
  <2>1. HandAt(p)'
    BY <1>5, <1>0 DEF HandAt, Idle, Decided, Quoted, InTransaction, EndPoll, Goto, act, TypeOK
  <2>2. \A q \in Procs \ {p} : HandAt(q)'
    BY <1>5, <1>0, HandFrame DEF EndPoll, Goto, TypeOK
  <2>3. QED BY <2>1, <2>2 DEF HandInv
<1>6. ASSUME NEW p \in Procs, IgnoreDuplicate(p)
      PROVE  HandInv'
  <2>1. HandAt(p)'
    BY <1>6, <1>0 DEF HandAt, Idle, Decided, Quoted, InTransaction, IgnoreDuplicate, Finish, ForgetHand, Goto, act, TypeOK
  <2>2. \A q \in Procs \ {p} : HandAt(q)'
    BY <1>6, <1>0, HandFrame DEF IgnoreDuplicate, Finish, ForgetHand, Goto, TypeOK
  <2>3. QED BY <2>1, <2>2 DEF HandInv
<1>7. ASSUME NEW p \in Procs, RejectEarly(p)
      PROVE  HandInv'
  <2>1. HandAt(p)'
    BY <1>7, <1>0 DEF HandAt, Idle, Decided, Quoted, InTransaction, RejectEarly, Decline, Goto, act, TypeOK
  <2>2. \A q \in Procs \ {p} : HandAt(q)'
    BY <1>7, <1>0, HandFrame DEF RejectEarly, Decline, Goto, TypeOK
  <2>3. QED BY <2>1, <2>2 DEF HandInv
<1>8. ASSUME NEW p \in Procs, BookUnavailable(p)
      PROVE  HandInv'
  <2>1. HandAt(p)'
    BY <1>8, <1>0 DEF HandAt, Idle, Decided, Quoted, InTransaction, BookUnavailable, Decline, Goto, act, TypeOK
  <2>2. \A q \in Procs \ {p} : HandAt(q)'
    BY <1>8, <1>0, HandFrame DEF BookUnavailable, Decline, Goto, TypeOK
  <2>3. QED BY <2>1, <2>2 DEF HandInv
<1>9. ASSUME NEW p \in Procs, Skip(p)
      PROVE  HandInv'
  <2>1. HandAt(p)'
    <3>1. pc[p] = "skip" /\ pc'[p] = "next" /\ run' = run
      BY <1>9 DEF Skip, Finish, Goto, TypeOK
    <3>2. run[p] \in 1..db.runs
      BY <1>0, <3>1 DEF HandAt, Idle
    <3>3. run'[p] \in 1..db'.runs
      BY <1>0, <3>1, <3>2
    <3>4. QED BY <3>1, <3>3 DEF HandAt, Idle, Decided, Quoted, InTransaction
  <2>2. \A q \in Procs \ {p} : HandAt(q)'
    BY <1>9, <1>0, HandFrame DEF Skip, Finish, ForgetHand, Goto, TypeOK
  <2>3. QED BY <2>1, <2>2 DEF HandInv
<1>10. ASSUME NEW p \in Procs, InsertSignal(p)
      PROVE  HandInv'
  <2>1. HandAt(p)'
    BY <1>10, <1>0 DEF HandAt, Idle, Decided, Quoted, InTransaction, InsertSignal, Goto, Deferred, CommitUnlessDeferred, act, TypeOK
  <2>2. \A q \in Procs \ {p} : HandAt(q)'
    BY <1>10, <1>0, HandFrame DEF InsertSignal, Goto, Deferred, CommitUnlessDeferred, TypeOK
  <2>3. QED BY <2>1, <2>2 DEF HandInv
<1>11. ASSUME NEW p \in Procs, InsertFill(p)
      PROVE  HandInv'
  <2>1. HandAt(p)'
    BY <1>11, <1>0 DEF HandAt, Idle, Decided, Quoted, InTransaction, InsertFill, Goto, Deferred, CommitUnlessDeferred, act, TypeOK
  <2>2. \A q \in Procs \ {p} : HandAt(q)'
    BY <1>11, <1>0, HandFrame DEF InsertFill, Goto, Deferred, CommitUnlessDeferred, TypeOK
  <2>3. QED BY <2>1, <2>2 DEF HandInv
<1>12. ASSUME NEW p \in Procs, MovePositionBuy(p)
      PROVE  HandInv'
  <2>1. HandAt(p)'
    BY <1>12, <1>0 DEF HandAt, Idle, Decided, Quoted, InTransaction, MovePositionBuy, Goto, Deferred, CommitUnlessDeferred, act, TypeOK
  <2>2. \A q \in Procs \ {p} : HandAt(q)'
    BY <1>12, <1>0, HandFrame DEF MovePositionBuy, Goto, Deferred, CommitUnlessDeferred, TypeOK
  <2>3. QED BY <2>1, <2>2 DEF HandInv
<1>13. ASSUME NEW p \in Procs, MovePositionSell(p)
      PROVE  HandInv'
  <2>1. HandAt(p)'
    BY <1>13, <1>0 DEF HandAt, Idle, Decided, Quoted, InTransaction, MovePositionSell, Goto, Deferred, CommitUnlessDeferred, act, TypeOK
  <2>2. \A q \in Procs \ {p} : HandAt(q)'
    BY <1>13, <1>0, HandFrame DEF MovePositionSell, Goto, Deferred, CommitUnlessDeferred, TypeOK
  <2>3. QED BY <2>1, <2>2 DEF HandInv
<1>14. ASSUME NEW p \in Procs, InsertClosure(p)
      PROVE  HandInv'
  <2>1. HandAt(p)'
    BY <1>14, <1>0 DEF HandAt, Idle, Decided, Quoted, InTransaction, InsertClosure, Goto, Deferred, CommitUnlessDeferred, act, TypeOK
  <2>2. \A q \in Procs \ {p} : HandAt(q)'
    BY <1>14, <1>0, HandFrame DEF InsertClosure, Goto, Deferred, CommitUnlessDeferred, TypeOK
  <2>3. QED BY <2>1, <2>2 DEF HandInv
<1>15. ASSUME NEW p \in Procs, Commit(p)
      PROVE  HandInv'
  <2>1. HandAt(p)'
    <3>1. pc[p] = "commit" /\ pc'[p] = "next" /\ run' = run
      BY <1>15 DEF Commit, Finish, Goto, TypeOK
    <3>2. run[p] \in 1..db.runs
      BY <1>0, <3>1 DEF HandAt, Idle
    <3>3. run'[p] \in 1..db'.runs
      BY <1>0, <3>1, <3>2
    <3>4. QED BY <3>1, <3>3 DEF HandAt, Idle, Decided, Quoted, InTransaction
  <2>2. \A q \in Procs \ {p} : HandAt(q)'
    BY <1>15, <1>0, HandFrame DEF Commit, Finish, ForgetHand, Goto, TypeOK
  <2>3. QED BY <2>1, <2>2 DEF HandInv
<1>16. ASSUME NEW p \in Procs, Crash(p)
      PROVE  HandInv'
  <2>1. HandAt(p)'
    BY <1>16, <1>0 DEF HandAt, Idle, Decided, Quoted, InTransaction, Crash, Die, ForgetHand, act, TypeOK
  <2>2. \A q \in Procs \ {p} : HandAt(q)'
    BY <1>16, <1>0, HandFrame DEF Crash, Die, ForgetHand, TypeOK
  <2>3. QED BY <2>1, <2>2 DEF HandInv
<1>17. ASSUME NEW p \in Procs, UniqueViolation(p)
      PROVE  HandInv'
  <2>1. HandAt(p)'
    BY <1>17, <1>0 DEF HandAt, Idle, Decided, Quoted, InTransaction, UniqueViolation, Die, ForgetHand, act, TypeOK
  <2>2. \A q \in Procs \ {p} : HandAt(q)'
    BY <1>17, <1>0, HandFrame DEF UniqueViolation, Die, ForgetHand, TypeOK
  <2>3. QED BY <2>1, <2>2 DEF HandInv
<1>18. ASSUME NEW p \in Procs, CreateRun(p)
      PROVE  HandInv'
  <2>1. db' = [db EXCEPT !.runs = @ + 1]
    BY <1>18 DEF CreateRun, Autocommit, CommitUnlessDeferred
  <2>2. db'.runs = db.runs + 1
    BY <2>1 DEF TypeOK, Image
  <2>3. HandAt(p)'
    BY <1>18, <1>0, <2>2 DEF HandAt, Idle, Decided, Quoted, InTransaction, CreateRun, Goto, act, TypeOK
  <2>4. \A q \in Procs \ {p} : HandAt(q)'
    BY <1>18, <1>0, HandFrame DEF CreateRun, Goto, TypeOK
  <2>5. QED BY <2>3, <2>4 DEF HandInv
<1>19. ASSUME NEW p \in Procs, Accept(p)
      PROVE  HandInv'
  <2>1. act(p)' = act(p) /\ act(p) \in ActivityType /\ now[p] \in Nat
    BY <1>19, ActType, BoundsType DEF Accept, act, TypeOK
  <2>2. act(p).side \in {"BUY", "SELL"}
    BY <1>19, <2>1, ValidatedActivity DEF Accept
  <2>3. pc'[p] = (IF act(p).side = "BUY" THEN "book" ELSE "held")
    BY <1>19 DEF Accept, Goto, TypeOK
  <2>4. HandAt(p)'
    BY <1>19, <1>0, <2>1, <2>2, <2>3 DEF HandAt, Idle, Decided, Quoted, InTransaction, Accept
  <2>5. \A q \in Procs \ {p} : HandAt(q)'
    BY <1>19, <1>0, HandFrame DEF Accept, Goto, TypeOK
  <2>6. QED BY <2>4, <2>5 DEF HandInv
<1>20. ASSUME NEW p \in Procs, ReadPosition(p)
      PROVE  HandInv'
  <2>1. db.positions[<<run[p], act(p).asset>>].quantity \in Nat
    BY <1>20, HandType DEF ReadPosition, TypeOK, Image, Position
  <2>2. act(p)' = act(p)
    BY <1>20 DEF ReadPosition, act
  <2>3. HandAt(p)'
    <3>1. CASE db.positions[<<run[p], act(p).asset>>].quantity = 0
      BY <1>20, <1>0, <2>2, <3>1 DEF HandAt, Idle, Decided, Quoted, InTransaction,
           ReadPosition, Decline, Goto, TypeOK
    <3>2. CASE db.positions[<<run[p], act(p).asset>>].quantity # 0
      <4>1. /\ pc[p] = "held" /\ pc'[p] = "book" /\ run' = run /\ now' = now
            /\ queue' = queue /\ db' = db
            /\ pos'[p] = db.positions[<<run[p], act(p).asset>>]
        BY <1>20, <3>2 DEF ReadPosition, Goto, TypeOK
      <4>2. pos'[p].quantity > 0
        BY <2>1, <3>2, <4>1
      <4>3. QED
        BY <1>0, <2>2, <4>1, <4>2 DEF HandAt, Idle, Decided, Quoted, InTransaction
    <3>3. QED BY <3>1, <3>2
  <2>4. \A q \in Procs \ {p} : HandAt(q)'
    BY <1>20, <1>0, HandFrame DEF ReadPosition, Decline, Goto, TypeOK
  <2>5. QED BY <2>3, <2>4 DEF HandInv
<1>21. ASSUME NEW p \in Procs, NEW e \in Estimate, NEW objection, pc[p] = "book",
              Quote(p, e, objection),
              objection = "none" => /\ e.quantity > 0
                                    /\ act(p).side = "SELL" => e.quantity <= pos[p].quantity
      PROVE  HandInv'
  <2>1. act(p)' = act(p)
    BY <1>21 DEF Quote, act
  <2>2. CASE objection # "none"
    <3>1. HandAt(p)'
      BY <1>21, <1>0, <2>1, <2>2 DEF HandAt, Idle, Decided, Quoted, InTransaction, Quote, Decline, Goto, TypeOK
    <3>2. \A q \in Procs \ {p} : HandAt(q)'
      BY <1>21, <1>0, <2>2, HandFrame DEF Quote, Decline, Goto, TypeOK
    <3>3. QED BY <3>1, <3>2 DEF HandInv
  <2>3. CASE objection = "none"
    <3>1. est'[p] = e /\ pos' = pos
      BY <1>21, <2>3 DEF Quote, TypeOK
    <3>2. HandAt(p)'
      BY <1>21, <1>0, <2>1, <2>3, <3>1 DEF HandAt, Idle, Decided, Quoted, InTransaction, Quote, Goto, TypeOK
    <3>3. \A q \in Procs \ {p} : HandAt(q)'
      BY <1>21, <1>0, <2>3, HandFrame DEF Quote, Goto, TypeOK
    <3>4. QED BY <3>2, <3>3 DEF HandInv
  <2>4. QED BY <2>2, <2>3
<1>22. ASSUME NEW p \in Procs, QuoteBuy(p)
      PROVE  HandInv'
  <2>1. PICK b \in Books : LET e == WalkForNotional(b.asks, PaperUsdc)
                           IN  Quote(p, e, BuyObjection(act(p), e))
    BY <1>22 DEF QuoteBuy
  <2> DEFINE e == WalkForNotional(b.asks, PaperUsdc)
  <2>2. e \in Estimate /\ e.quantity \in Nat
    BY BuyQuote DEF Estimate
  <2>3. BuyObjection(act(p), e) = "none" => e.quantity # 0
    BY DEF BuyObjection
  <2>4. pc[p] = "book" /\ act(p).side = "BUY"
    BY <1>22 DEF QuoteBuy
  <2> HIDE DEF e
  <2>5. QED BY <1>21, <2>1, <2>2, <2>3, <2>4 DEF e
<1>23. ASSUME NEW p \in Procs, QuoteSell(p)
      PROVE  HandInv'
  <2>1. PICK b \in Books :
          LET e == WalkBids(b.bids, SellQuantity(pos[p], b))
          IN  Quote(p, e, IF e.quantity = 0 THEN "insufficient_liquidity" ELSE "none")
    BY <1>23 DEF QuoteSell
  <2> DEFINE e == WalkBids(b.bids, SellQuantity(pos[p], b))
  <2>2. e \in Estimate /\ e.quantity \in Nat /\ e.quantity <= pos[p].quantity
    BY SellQuote DEF Estimate, TypeOK
  <2>3. pc[p] = "book"
    BY <1>23 DEF QuoteSell
  <2>4. QED BY <1>21, <2>1, <2>2, <2>3
<1>24. QED
  BY <1>1, <1>2, <1>3, <1>4, <1>5, <1>6, <1>7, <1>8, <1>9, <1>10, <1>11, <1>12, <1>13, <1>14, <1>15, <1>16, <1>17, <1>18, <1>19, <1>20, <1>22, <1>23
     DEF Next, Start, Work

-----------------------------------------------------------------------------
(***************************************************************************)
(* The transaction.                                                        *)
(***************************************************************************)
\* A process's transaction is not touched by the steps of others.
LEMMA TransactionFrame ==
  ASSUME NEW q \in Procs, TransactionAt(q), db' = db, work' = work,
         pc'[q] = pc[q], run'[q] = run[q], now'[q] = now[q], queue'[q] = queue[q],
         pos'[q] = pos[q], est'[q] = est[q]
  PROVE  TransactionAt(q)'
<1>1. act(q)' = act(q)
  BY DEF act
<1>2. SignalRowOf(q, TRUE, "none")' = SignalRowOf(q, TRUE, "none")
  BY <1>1 DEF SignalRowOf
<1>3. FillRowOf(q, Len(db.signals) + 1)' = FillRowOf(q, Len(db.signals) + 1)
  BY <1>1 DEF FillRowOf
<1>4. NewPosition(q)' = NewPosition(q)
  BY <1>1 DEF NewPosition
<1>5. ClosureOf(run[q], act(q).asset, pos[q], est[q])'
        = ClosureOf(run[q], act(q).asset, pos[q], est[q])
  BY <1>1 DEF ClosureOf, BasisOf
<1>6. QED BY <1>1, <1>2, <1>3, <1>4, <1>5 DEF TransactionAt

\* A step of a process outside a transaction that does not touch the file.
LEMMA OutsideTransaction ==
  ASSUME TransactionInv, NEW p \in Procs, UNCHANGED <<db, work, writer>>,
         pc[p] \notin InTransaction, pc'[p] \notin InTransaction,
         \A q \in Procs \ {p} :
           /\ pc'[q] = pc[q] /\ run'[q] = run[q] /\ now'[q] = now[q]
           /\ queue'[q] = queue[q] /\ pos'[q] = pos[q] /\ est'[q] = est[q]
  PROVE  TransactionInv'
<1>1. writer # p
  BY DEF TransactionInv
<1>2. \A q \in Procs : pc'[q] \in InTransaction <=> writer' = q
  BY <1>1 DEF TransactionInv
<1>3. ASSUME NEW q \in Procs, writer' = q
      PROVE  TransactionAt(q)'
  <2>1. q # p /\ TransactionAt(q)
    BY <1>1, <1>3 DEF TransactionInv
  <2>2. QED BY <2>1, TransactionFrame
<1>4. QED BY <1>2, <1>3 DEF TransactionInv

\* A step of the process in the transaction; nobody else is in one.
LEMMA InsideTransaction ==
  ASSUME TypeOK, TransactionInv, NEW p \in Procs, NEW to \in InTransaction,
         pc' = [pc EXCEPT ![p] = to], writer' = p, writer \in {p, NoProc},
         TransactionAt(p)'
  PROVE  TransactionInv'
<1>1. \A q \in Procs : pc'[q] \in InTransaction <=> writer' = q
  <2>1. \A q \in Procs \ {p} : pc[q] \notin InTransaction
    BY BoundsType DEF TransactionInv
  <2>2. QED BY <2>1 DEF TypeOK
<1>2. writer' # NoProc
  BY BoundsType
<1>3. QED BY <1>1, <1>2 DEF TransactionInv

\* Every step keeps the image of a transaction exact.
LEMMA TransactionStep ==
  ASSUME TypeOK, HandInv, TransactionInv, Next
  PROVE  TransactionInv'
<1> USE DEF vars, world, hand
<1>0. HandInv' /\ TypeOK'
  BY HandStep, TypeStep
<1>1. CASE Tick \/ \E a \in Activities : Publish(a)
  <2>1. \A q \in Procs : TransactionAt(q) => TransactionAt(q)'
    BY <1>1, TransactionFrame DEF Tick, Publish
  <2>2. QED BY <1>1, <2>1 DEF Tick, Publish, TransactionInv
<1>2. ASSUME NEW p \in Procs, ResumeRun(p)
      PROVE  TransactionInv'
  BY <1>2, OutsideTransaction DEF ResumeRun, Goto, InTransaction, TypeOK
<1>3. ASSUME NEW p \in Procs, AskForRun(p)
      PROVE  TransactionInv'
  BY <1>3, OutsideTransaction DEF AskForRun, Goto, InTransaction, TypeOK
<1>4. ASSUME NEW p \in Procs, FetchActivity(p)
      PROVE  TransactionInv'
  BY <1>4, OutsideTransaction DEF FetchActivity, Goto, InTransaction, TypeOK
<1>5. ASSUME NEW p \in Procs, EndPoll(p)
      PROVE  TransactionInv'
  BY <1>5, OutsideTransaction DEF EndPoll, Goto, InTransaction, TypeOK
<1>6. ASSUME NEW p \in Procs, IgnoreDuplicate(p)
      PROVE  TransactionInv'
  BY <1>6, OutsideTransaction DEF IgnoreDuplicate, Finish, ForgetHand, Goto, InTransaction, TypeOK
<1>7. ASSUME NEW p \in Procs, RejectEarly(p)
      PROVE  TransactionInv'
  BY <1>7, OutsideTransaction DEF RejectEarly, Decline, Goto, InTransaction, TypeOK
<1>8. ASSUME NEW p \in Procs, Accept(p)
      PROVE  TransactionInv'
  BY <1>8, OutsideTransaction DEF Accept, Goto, InTransaction, TypeOK
<1>9. ASSUME NEW p \in Procs, ReadPosition(p)
      PROVE  TransactionInv'
  BY <1>9, OutsideTransaction DEF ReadPosition, Decline, Goto, InTransaction, TypeOK
<1>10. ASSUME NEW p \in Procs, BookUnavailable(p)
      PROVE  TransactionInv'
  BY <1>10, OutsideTransaction DEF BookUnavailable, Decline, Goto, InTransaction, TypeOK
<1>11. ASSUME NEW p \in Procs, NEW e, NEW objection, Quote(p, e, objection)
      PROVE  TransactionInv'
  BY <1>11, OutsideTransaction DEF Quote, Decline, Goto, InTransaction, TypeOK
<1>12. ASSUME NEW p \in Procs, QuoteBuy(p) \/ QuoteSell(p)
      PROVE  TransactionInv'
  BY <1>11, <1>12 DEF QuoteBuy, QuoteSell
<1>13. ASSUME NEW p \in Procs, CreateRun(p) \/ Skip(p)
      PROVE  TransactionInv'
  <2>1. /\ writer = NoProc /\ writer' = NoProc /\ work' = db'
        /\ \E to \in {"poll", "next"} : pc' = [pc EXCEPT ![p] = to]
    BY <1>13 DEF CreateRun, Skip, Autocommit, Finish, Goto
  <2>2. \A q \in Procs : pc[q] \notin InTransaction
    BY <2>1, BoundsType DEF TransactionInv
  <2>3. \A q \in Procs : pc'[q] \notin InTransaction
    BY <2>1, <2>2 DEF TypeOK, InTransaction
  <2>4. QED BY <2>1, <2>3, BoundsType DEF TransactionInv
<1>14. ASSUME NEW p \in Procs, InsertSignal(p)
      PROVE  TransactionInv'
  <2>1. /\ writer = NoProc /\ writer' = p /\ db' = db
        /\ work' = Recorded(db, SignalRowOf(p, TRUE, "none"))
        /\ pc' = [pc EXCEPT ![p] = "fill"] /\ run' = run /\ queue' = queue
    BY <1>14 DEF InsertSignal, Goto, Deferred, CommitUnlessDeferred, TransactionInv
  <2>2. SignalRowOf(p, TRUE, "none")' = SignalRowOf(p, TRUE, "none")
    BY <2>1 DEF SignalRowOf, act
  <2>3. pc'[p] = "fill" /\ db \in Image
    BY <2>1 DEF TypeOK
  <2>4. /\ work'.runs = db.runs /\ work'.fills = db.fills
        /\ work'.positions = db.positions /\ work'.closures = db.closures
        /\ work'.signals = Append(db.signals, SignalRowOf(p, TRUE, "none"))
    BY <2>1, <2>3 DEF Recorded, Image
  <2>5. TransactionAt(p)'
    BY <2>1, <2>2, <2>3, <2>4 DEF TransactionAt
  <2>6. QED BY <2>1, <2>5, InsideTransaction DEF InTransaction
<1>15. ASSUME NEW p \in Procs, InsertFill(p)
      PROVE  TransactionInv'
  <2>1. /\ pc[p] = "fill" /\ pc' = [pc EXCEPT ![p] = "position"]
        /\ writer' = p /\ db' = db
        /\ work' = [work EXCEPT !.fills = Append(@, FillRowOf(p, Len(work.signals)))]
        /\ run' = run /\ queue' = queue /\ now' = now /\ est' = est
    BY <1>15 DEF InsertFill, Goto, Deferred, CommitUnlessDeferred
  <2>2. writer = p /\ TransactionAt(p)
    BY <2>1 DEF TransactionInv, InTransaction
  <2>3. Len(work.signals) = Len(db.signals) + 1
    <3>1. db.signals \in Seq(SignalRow)
      BY DEF TypeOK, Image
    <3>2. QED BY <2>2, <3>1 DEF TransactionAt
  <2>4. /\ SignalRowOf(p, TRUE, "none")' = SignalRowOf(p, TRUE, "none")
        /\ FillRowOf(p, Len(db.signals) + 1)' = FillRowOf(p, Len(db.signals) + 1)
    BY <2>1 DEF SignalRowOf, FillRowOf, act
  <2>5. pc'[p] = "position" /\ work \in Image
    BY <2>1 DEF TypeOK
  <2>6. /\ work'.runs = work.runs /\ work'.signals = work.signals
        /\ work'.positions = work.positions /\ work'.closures = work.closures
        /\ work'.fills = Append(work.fills, FillRowOf(p, Len(work.signals)))
    BY <2>1, <2>5 DEF Image
  <2>7. TransactionAt(p)'
    BY <2>1, <2>2, <2>3, <2>4, <2>5, <2>6 DEF TransactionAt
  <2>8. QED BY <2>1, <2>2, <2>7, InsideTransaction DEF InTransaction
<1>16. ASSUME NEW p \in Procs, NEW held \in Position, NEW to \in {"closure", "commit"},
              pc[p] = "position", pc' = [pc EXCEPT ![p] = to],
              UNCHANGED <<run, now, queue, pos, est>>,
              Deferred(p, UpsertPosition(work, run[p], act(p).asset, held)),
              NewPosition(p) = IF held.quantity <= 0 THEN NoPosition ELSE held,
              to = "commit" => act(p).side # "SELL"
      PROVE  TransactionInv'
  <2>1. /\ writer' = p /\ db' = db /\ pc'[p] = to
        /\ work' = UpsertPosition(work, run[p], act(p).asset, held)
    BY <1>16 DEF Deferred, CommitUnlessDeferred, TypeOK
  <2>2. writer = p /\ TransactionAt(p)
    BY <1>16 DEF TransactionInv, InTransaction
  <2>3. /\ SignalRowOf(p, TRUE, "none")' = SignalRowOf(p, TRUE, "none")
        /\ FillRowOf(p, Len(db.signals) + 1)' = FillRowOf(p, Len(db.signals) + 1)
        /\ act(p)' = act(p)
    BY <1>16, <2>1 DEF SignalRowOf, FillRowOf, act
  <2>4. NewPosition(p)' = NewPosition(p)
    BY <1>16, <2>1, <2>3 DEF NewPosition
  <2>5. work \in Image
    BY DEF TypeOK
  <2>6. /\ work'.runs = work.runs /\ work'.signals = work.signals
        /\ work'.fills = work.fills /\ work'.closures = work.closures
        /\ work'.positions =
             [work.positions EXCEPT ![<<run[p], act(p).asset>>] = NewPosition(p)]
    BY <1>16, <2>1, <2>5 DEF UpsertPosition, Image
  <2>7. TransactionAt(p)'
    BY <1>16, <2>1, <2>2, <2>3, <2>4, <2>6 DEF TransactionAt
  <2>8. QED BY <1>16, <2>1, <2>2, <2>7, InsideTransaction DEF InTransaction
<1>17. ASSUME NEW p \in Procs, MovePositionBuy(p)
      PROVE  TransactionInv'
  <2>1. pc[p] = "position" /\ pc[p] \in Quoted /\ act(p).side = "BUY"
    BY <1>17 DEF MovePositionBuy, Quoted, InTransaction
  <2>2. run[p] \in Runs /\ act(p).asset \in Assets /\ work \in Image
    BY <2>1, HandType DEF Decided, TypeOK
  <2> DEFINE held == work.positions[<<run[p], act(p).asset>>]
  <2>3. AfterBuy(held, est[p]) \in Position
    BY <2>1, <2>2, AfterType DEF Image
  <2>4. work.positions = db.positions
    BY <2>1 DEF TransactionInv, TransactionAt, InTransaction
  <2>5. NewPosition(p) = IF AfterBuy(held, est[p]).quantity <= 0 THEN NoPosition
                         ELSE AfterBuy(held, est[p])
    BY <2>1, <2>4 DEF NewPosition
  <2>6. /\ pc' = [pc EXCEPT ![p] = "commit"] /\ UNCHANGED <<run, now, queue, pos, est>>
        /\ Deferred(p, UpsertPosition(work, run[p], act(p).asset, AfterBuy(held, est[p])))
    BY <1>17 DEF MovePositionBuy, Goto
  <2> HIDE DEF held
  <2>7. QED BY <1>16, <2>1, <2>3, <2>5, <2>6
<1>18. ASSUME NEW p \in Procs, MovePositionSell(p)
      PROVE  TransactionInv'
  <2>1. pc[p] = "position" /\ pc[p] \in Quoted /\ act(p).side = "SELL"
    BY <1>18 DEF MovePositionSell, Quoted, InTransaction
  <2>2. AfterSell(pos[p], est[p]) \in Position
    BY <2>1, AfterType
  <2>3. NewPosition(p) = IF AfterSell(pos[p], est[p]).quantity <= 0 THEN NoPosition
                         ELSE AfterSell(pos[p], est[p])
    BY <2>1 DEF NewPosition
  <2>4. /\ pc' = [pc EXCEPT ![p] = "closure"] /\ UNCHANGED <<run, now, queue, pos, est>>
        /\ Deferred(p, UpsertPosition(work, run[p], act(p).asset, AfterSell(pos[p], est[p])))
    BY <1>18 DEF MovePositionSell, Goto
  <2>5. QED BY <1>16, <2>1, <2>2, <2>3, <2>4
<1>19. ASSUME NEW p \in Procs, InsertClosure(p)
      PROVE  TransactionInv'
  <2> DEFINE row == ClosureOf(run[p], act(p).asset, pos[p], est[p])
  <2>1. /\ pc[p] = "closure" /\ pc' = [pc EXCEPT ![p] = "commit"]
        /\ UNCHANGED <<run, now, queue, pos, est>>
        /\ writer' = p /\ db' = db /\ work' = [work EXCEPT !.closures = Append(@, row)]
    BY <1>19 DEF InsertClosure, Goto, Deferred, CommitUnlessDeferred
  <2> HIDE DEF row
  <2>2. writer = p /\ TransactionAt(p)
    BY <2>1 DEF TransactionInv, InTransaction
  <2>3. /\ SignalRowOf(p, TRUE, "none")' = SignalRowOf(p, TRUE, "none")
        /\ FillRowOf(p, Len(db.signals) + 1)' = FillRowOf(p, Len(db.signals) + 1)
        /\ act(p)' = act(p)
    BY <2>1 DEF SignalRowOf, FillRowOf, act
  <2>4. NewPosition(p)' = NewPosition(p)
    BY <2>1, <2>3 DEF NewPosition
  <2>5. pc'[p] = "commit" /\ work \in Image
    BY <2>1 DEF TypeOK
  <2>6. /\ work'.runs = work.runs /\ work'.signals = work.signals
        /\ work'.fills = work.fills /\ work'.positions = work.positions
        /\ work'.closures = Append(db.closures, row)
    BY <2>1, <2>2, <2>5 DEF Image, TransactionAt
  <2>7. act(p).side = "SELL" /\ row' = row
    BY <2>1, <2>3 DEF HandInv, HandAt, row, ClosureOf, BasisOf
  <2>8. TransactionAt(p)'
    BY <2>1, <2>2, <2>3, <2>4, <2>5, <2>6, <2>7 DEF TransactionAt, row
  <2>9. QED BY <2>1, <2>2, <2>8, InsideTransaction DEF InTransaction
<1>20. ASSUME NEW p \in Procs, Commit(p)
      PROVE  TransactionInv'
  <2>1. /\ pc[p] = "commit" /\ pc' = [pc EXCEPT ![p] = "next"]
        /\ writer' = NoProc /\ db' = work /\ work' = work
    BY <1>20 DEF Commit, Finish, Goto
  <2>2. \A q \in Procs \ {p} : pc[q] \notin InTransaction
    BY <2>1 DEF TransactionInv, InTransaction
  <2>3. \A q \in Procs : pc'[q] \notin InTransaction
    BY <2>1, <2>2 DEF TypeOK, InTransaction
  <2>4. QED BY <2>1, <2>3, BoundsType DEF TransactionInv
<1>21. ASSUME NEW p \in Procs, Die(p)
      PROVE  TransactionInv'
  <2>1. pc' = [pc EXCEPT ![p] = "down"] /\ db' = db
    BY <1>21 DEF Die
  <2>2. CASE writer = p
    <3>1. writer' = NoProc /\ work' = db
      BY <1>21, <2>2 DEF Die
    <3>2. \A q \in Procs \ {p} : pc[q] \notin InTransaction
      BY <2>2 DEF TransactionInv
    <3>3. \A q \in Procs : pc'[q] \notin InTransaction
      BY <2>1, <3>2 DEF TypeOK, InTransaction
    <3>4. QED BY <2>1, <3>1, <3>3, BoundsType DEF TransactionInv
  <2>3. CASE writer # p
    <3>1. pc[p] \notin InTransaction
      BY <2>3 DEF TransactionInv
    <3>2. QED BY <1>21, <2>1, <2>3, <3>1, OutsideTransaction
            DEF Die, ForgetHand, InTransaction, TypeOK
  <2>4. QED BY <2>2, <2>3
<1>22. QED
  BY <1>1, <1>2, <1>3, <1>4, <1>5, <1>6, <1>7, <1>8, <1>9, <1>10, <1>12, <1>13, <1>14, <1>15, <1>17, <1>18, <1>19, <1>20, <1>21
     DEF Next, Start, Work, Crash, UniqueViolation

-----------------------------------------------------------------------------
(***************************************************************************)
(* Signals and fills.                                                      *)
(***************************************************************************)
\* What the two ways of disposing of a signal write to the file.
LEMMA SkipWrites ==
  ASSUME TypeOK, HandInv, NEW p \in Procs, Skip(p)
  PROVE  LET row == SignalRowOf(p, FALSE, reason[p])
         IN  /\ row \in SignalRow /\ ~row.filled
             /\ row.run = run[p] /\ row.sid = act(p).sid
             /\ ~HasSignal(db, run[p], act(p).sid)
             /\ db'.signals = Append(db.signals, row)
             /\ db'.runs = db.runs /\ db'.fills = db.fills
             /\ db'.positions = db.positions /\ db'.closures = db.closures
<1>1. pc[p] = "skip" /\ queue[p] # <<>> /\ reason[p] \in Reasons
  BY DEF Skip, HandInv, HandAt, Idle, TypeOK
<1>2. SignalRowOf(p, FALSE, reason[p]) \in SignalRow
  BY <1>1, SignalRowType DEF Idle
<1>3. db \in Image /\ db' = Recorded(db, SignalRowOf(p, FALSE, reason[p]))
  BY DEF TypeOK, Skip, Autocommit, CommitUnlessDeferred
<1>4. QED BY <1>2, <1>3 DEF Recorded, Image, SignalRowOf, Skip

\* A commit writes one filled signal, one fill, and one position.
LEMMA CommitWrites ==
  ASSUME TypeOK, HandInv, TransactionInv, NEW p \in Procs, Commit(p)
  PROVE  LET row == SignalRowOf(p, TRUE, "none")
             fill == FillRowOf(p, Len(db.signals) + 1)
         IN  /\ pc[p] = "commit" /\ pc[p] \in Quoted
             /\ row \in SignalRow /\ row.filled
             /\ row.run = run[p] /\ row.sid = act(p).sid
             /\ fill \in FillRow /\ fill.run = run[p] /\ fill.ref = Len(db.signals) + 1
             /\ fill.asset = act(p).asset /\ fill.side = act(p).side
             /\ fill.quantity = est[p].quantity /\ fill.notional = est[p].cost
             /\ db'.signals = Append(db.signals, row)
             /\ db'.fills = Append(db.fills, fill)
             /\ db'.runs = db.runs
             /\ db'.positions = [db.positions EXCEPT
                                   ![<<run[p], act(p).asset>>] = NewPosition(p)]
             /\ db'.closures =
                  IF act(p).side = "SELL"
                    THEN Append(db.closures, ClosureOf(run[p], act(p).asset, pos[p], est[p]))
                    ELSE db.closures
<1>1. pc[p] = "commit" /\ pc[p] \in Quoted /\ queue[p] # <<>> /\ db' = work
  BY DEF Commit, Finish, Goto, HandInv, HandAt, Idle, Quoted, InTransaction
<1>2. TransactionAt(p)
  BY <1>1 DEF TransactionInv, InTransaction
<1>3. SignalRowOf(p, TRUE, "none") \in SignalRow
  BY <1>1, SignalRowType DEF Idle, Reasons
<1>4. Len(db.signals) + 1 \in Nat
  BY DEF TypeOK, Image
<1>5. FillRowOf(p, Len(db.signals) + 1) \in FillRow
  BY <1>1, <1>4, FillRowType
<1>6. QED
  BY <1>1, <1>2, <1>3, <1>5 DEF TransactionAt, SignalRowOf, FillRowOf

\* A row for a skipped signal keeps signals and fills in step.
LEMMA MatchSkip ==
  ASSUME NEW img \in Image, NEW new, NEW row \in SignalRow,
         FillsMatchSignalsIn(img), ~row.filled,
         new.signals = Append(img.signals, row), new.fills = img.fills
  PROVE  FillsMatchSignalsIn(new)
<1> DEFINE S == img.signals
           n == Len(S)
<1>1. S \in Seq(SignalRow) /\ n \in Nat
  BY DEF Image
<1> HIDE DEF S, n
<1>2. /\ DOMAIN new.signals = DOMAIN S \union {n + 1}
      /\ \A i \in DOMAIN S : new.signals[i] = S[i]
      /\ new.signals[n + 1] = row
  BY <1>1 DEF S, n
<1>3. QED BY <1>2 DEF FillsMatchSignalsIn, S

\* So does a row for a filled signal together with its fill.
LEMMA MatchCommit ==
  ASSUME NEW img \in Image, NEW new, NEW row \in SignalRow, NEW fill \in FillRow,
         FillsMatchSignalsIn(img), row.filled, fill.run = row.run,
         fill.ref = Len(img.signals) + 1,
         new.signals = Append(img.signals, row), new.fills = Append(img.fills, fill)
  PROVE  FillsMatchSignalsIn(new)
<1> DEFINE S == img.signals
           F == img.fills
           n == Len(S)
           m == Len(F)
<1>1. S \in Seq(SignalRow) /\ n \in Nat /\ F \in Seq(FillRow) /\ m \in Nat
  BY DEF Image
<1> HIDE DEF S, n, F, m
<1>2. /\ DOMAIN new.signals = DOMAIN S \union {n + 1} /\ n + 1 \notin DOMAIN S
      /\ \A i \in DOMAIN S : new.signals[i] = S[i]
      /\ new.signals[n + 1] = row
  BY <1>1 DEF S, n
<1>3. /\ DOMAIN new.fills = DOMAIN F \union {m + 1} /\ m + 1 \notin DOMAIN F
      /\ \A i \in DOMAIN F : new.fills[i] = F[i]
      /\ new.fills[m + 1] = fill
  BY <1>1 DEF F, m
<1>4. fill.ref = n + 1
  BY DEF n, S
<1> DEFINE refOf(j) == new.fills[j].ref
<1>5. \A j \in DOMAIN F : F[j].ref \in DOMAIN S
  BY DEF FillsMatchSignalsIn, F, S
<1>6. \A i \in DOMAIN new.signals : new.signals[i].filled =>
        \E j \in DOMAIN new.fills : new.fills[j].ref = i
  BY <1>2, <1>3, <1>4 DEF FillsMatchSignalsIn, F, S
<1>7. ASSUME NEW j \in DOMAIN new.fills
      PROVE  /\ new.fills[j].ref \in DOMAIN new.signals
             /\ new.signals[new.fills[j].ref].filled
             /\ new.signals[new.fills[j].ref].run = new.fills[j].run
             /\ \A k \in DOMAIN new.fills : new.fills[k].ref = new.fills[j].ref => k = j
  BY <1>2, <1>3, <1>4, <1>5 DEF FillsMatchSignalsIn, F, S
<1>8. QED BY <1>6, <1>7 DEF FillsMatchSignalsIn

\* No step separates a filled signal from its fill.
LEMMA FillsStep ==
  ASSUME TypeOK, HandInv, TransactionInv, FillsMatchSignals, Next
  PROVE  FillsMatchSignals'
<1>1. db \in Image
  BY DEF TypeOK
<1>2. CASE db' = db
  BY <1>2 DEF FillsMatchSignals, FillsMatchSignalsIn
<1>3. ASSUME NEW p \in Procs, CreateRun(p)
      PROVE  FillsMatchSignals'
  <2>1. db' = [db EXCEPT !.runs = @ + 1]
    BY <1>3 DEF CreateRun, Autocommit, CommitUnlessDeferred
  <2>2. db'.signals = db.signals /\ db'.fills = db.fills
    BY <1>1, <2>1 DEF Image
  <2>3. QED BY <2>2 DEF FillsMatchSignals, FillsMatchSignalsIn
<1>4. ASSUME NEW p \in Procs, Skip(p)
      PROVE  FillsMatchSignals'
  <2>1. FillsMatchSignalsIn(db)
    BY DEF FillsMatchSignals
  <2>2. FillsMatchSignalsIn(db')
    BY <1>1, <1>4, <2>1, SkipWrites, MatchSkip
  <2>3. QED BY <2>2 DEF FillsMatchSignals
<1>5. ASSUME NEW p \in Procs, Commit(p)
      PROVE  FillsMatchSignals'
  <2>1. FillsMatchSignalsIn(db)
    BY DEF FillsMatchSignals
  <2> DEFINE row == SignalRowOf(p, TRUE, "none")
             fill == FillRowOf(p, Len(db.signals) + 1)
  <2>2. /\ row \in SignalRow /\ row.filled /\ fill \in FillRow
        /\ fill.run = row.run /\ fill.ref = Len(db.signals) + 1
        /\ db'.signals = Append(db.signals, row)
        /\ db'.fills = Append(db.fills, fill)
    BY <1>5, CommitWrites
  <2> HIDE DEF row, fill
  <2>3. FillsMatchSignalsIn(db')
    BY <1>1, <2>1, <2>2, MatchCommit
  <2>4. QED BY <2>3 DEF FillsMatchSignals
<1>6. QED BY <1>2, <1>3, <1>4, <1>5, FileWrites

-----------------------------------------------------------------------------
(***************************************************************************)
(* Followers that share no run.                                            *)
(***************************************************************************)
\* Two live followers still follow different runs after a step.
LEMMA DistinctStep ==
  ASSUME TypeOK, HandInv, ExclusiveRuns, DistinctRuns, Next
  PROVE  DistinctRuns'
<1>1. CASE run' = run
  BY <1>1 DEF DistinctRuns
<1>2. ASSUME NEW p \in Procs, ResumeRun(p)
      PROVE  DistinctRuns'
  BY <1>2 DEF ResumeRun, DistinctRuns, TypeOK
<1>3. ASSUME NEW p \in Procs, CreateRun(p)
      PROVE  DistinctRuns'
  <2>1. run' = [run EXCEPT ![p] = db.runs + 1] /\ db.runs \in Nat
    BY <1>3, BoundsType DEF CreateRun, TypeOK, Image
  <2>2. \A q \in Procs : run[q] \in 0..db.runs
    BY <2>1 DEF HandInv, HandAt
  <2>3. \A q \in Procs : run[q] # db.runs + 1
    BY <2>1, <2>2
  <2>4. QED BY <2>1, <2>3 DEF DistinctRuns, TypeOK
<1>4. ASSUME NEW p \in Procs, Die(p)
      PROVE  DistinctRuns'
  BY <1>4 DEF Die, DistinctRuns, TypeOK
<1>5. run' = run \/ \E p \in Procs : ResumeRun(p) \/ CreateRun(p) \/ Die(p)
  BY DEF Next, Start, Work, vars, world, hand, Tick, Publish, AskForRun,
         FetchActivity, EndPoll, IgnoreDuplicate, RejectEarly, Accept, ReadPosition,
         BookUnavailable, QuoteBuy, QuoteSell, Quote, Skip, InsertSignal, InsertFill,
         MovePositionBuy, MovePositionSell, InsertClosure, Commit, UniqueViolation,
         Crash
<1>6. QED BY <1>1, <1>2, <1>3, <1>4, <1>5

\* What a process decided on stays so while rows and positions do.
LEMMA ExclusiveFrame ==
  ASSUME NEW q \in Procs, ExclusiveAt(q),
         db'.signals = db.signals, db'.positions = db.positions,
         run'[q] = run[q], queue'[q] = queue[q], pos'[q] = pos[q],
         pc'[q] \in Idle \union {"poll", "next"} \/
           /\ pc[q] \notin Idle \union {"poll", "next"}
           /\ pc'[q] \in Decided => pc[q] \in Decided
  PROVE  ExclusiveAt(q)'
<1>1. act(q)' = act(q)
  BY DEF act
<1>2. Decided \intersect (Idle \union {"poll", "next"}) = {}
  BY DEF Decided, Quoted, InTransaction, Idle
<1>3. QED BY <1>1, <1>2 DEF ExclusiveAt, HasSignal

\* Nor do the rows of another run disturb it.
LEMMA ExclusiveOthers ==
  ASSUME TypeOK, NEW q \in Procs, ExclusiveAt(q), NEW row \in SignalRow, row.run # run[q],
         db'.signals = Append(db.signals, row),
         db'.positions[<<run[q], act(q).asset>>] = db.positions[<<run[q], act(q).asset>>],
         pc'[q] = pc[q], run'[q] = run[q], queue'[q] = queue[q], pos'[q] = pos[q]
  PROVE  ExclusiveAt(q)'
<1>1. act(q)' = act(q)
  BY DEF act
<1>2. db.signals \in Seq(SignalRow)
  BY DEF TypeOK, Image
<1>3. HasSignal(db', run[q], act(q).sid) => HasSignal(db, run[q], act(q).sid)
  <2> DEFINE n == Len(db.signals)
  <2>1. /\ DOMAIN db'.signals = DOMAIN db.signals \union {n + 1}
        /\ \A i \in DOMAIN db.signals : db'.signals[i] = db.signals[i]
        /\ db'.signals[n + 1] = row
    BY <1>2
  <2> HIDE DEF n
  <2>2. QED BY <2>1 DEF HasSignal
<1>4. QED BY <1>1, <1>3 DEF ExclusiveAt

\* A follower that has its run to itself keeps deciding on what is there.
LEMMA ExclusiveAtStep ==
  ASSUME TypeOK, HandInv, TransactionInv, DistinctRuns,
         NEW q \in Procs, ExclusiveAt(q), Next
  PROVE  ExclusiveAt(q)'
<1> USE DEF vars, world, hand
<1>0. db \in Image
  BY DEF TypeOK
<1>1. CASE Tick \/ \E a \in Activities : Publish(a)
  BY <1>1, ExclusiveFrame DEF Tick, Publish
<1>2. ASSUME NEW p \in Procs, ResumeRun(p) \/ AskForRun(p)
      PROVE  ExclusiveAt(q)'
  <2>1. CASE p = q
    BY <1>2, <2>1 DEF ResumeRun, AskForRun, Goto, ExclusiveAt, Idle, Decided, Quoted,
                      InTransaction, TypeOK
  <2>2. CASE p # q
    BY <1>2, <2>2, ExclusiveFrame DEF ResumeRun, AskForRun, Goto, TypeOK
  <2>3. QED BY <2>1, <2>2
<1>3. ASSUME NEW p \in Procs, CreateRun(p)
      PROVE  ExclusiveAt(q)'
  <2>1. db' = [db EXCEPT !.runs = @ + 1]
    BY <1>3 DEF CreateRun, Autocommit, CommitUnlessDeferred
  <2>2. db'.signals = db.signals /\ db'.positions = db.positions
    BY <1>0, <2>1 DEF Image
  <2>3. CASE p = q
    BY <1>3, <2>3 DEF CreateRun, Goto, ExclusiveAt, Decided, Quoted, InTransaction, TypeOK
  <2>4. CASE p # q
    BY <1>3, <2>2, <2>4, ExclusiveFrame DEF CreateRun, Goto, TypeOK
  <2>5. QED BY <2>3, <2>4
<1>4. ASSUME NEW p \in Procs, FetchActivity(p) \/ EndPoll(p) \/ IgnoreDuplicate(p)
      PROVE  ExclusiveAt(q)'
  <2>1. CASE p = q
    BY <1>4, <2>1 DEF FetchActivity, EndPoll, IgnoreDuplicate, Finish, Goto,
                      ExclusiveAt, Decided, Quoted, InTransaction, TypeOK
  <2>2. CASE p # q
    BY <1>4, <2>2, ExclusiveFrame
       DEF FetchActivity, EndPoll, IgnoreDuplicate, Finish, ForgetHand, Goto, TypeOK
  <2>3. QED BY <2>1, <2>2
<1>5. ASSUME NEW p \in Procs, RejectEarly(p) \/ Accept(p)
      PROVE  ExclusiveAt(q)'
  <2>1. CASE p = q
    <3>1. /\ ~HasSignal(db, run[q], act(q).sid) /\ UNCHANGED <<db, run, queue, pos>>
          /\ pc'[q] \in {"skip", "book", "held"}
          /\ pc'[q] = "book" => act(q).side = "BUY"
      BY <1>5, <2>1 DEF RejectEarly, Accept, Seen, Decline, Goto, TypeOK
    <3>2. act(q)' = act(q)
      BY <3>1 DEF act
    <3>3. QED
      BY <3>1, <3>2 DEF ExclusiveAt, HasSignal, Decided, Quoted, InTransaction
  <2>2. CASE p # q
    BY <1>5, <2>2, ExclusiveFrame DEF RejectEarly, Accept, Decline, Goto, TypeOK
  <2>3. QED BY <2>1, <2>2
<1>6. ASSUME NEW p \in Procs, ReadPosition(p)
      PROVE  ExclusiveAt(q)'
  <2>1. CASE p = q
    <3>1. /\ UNCHANGED <<db, run, queue>> /\ pc[q] = "held"
          /\ pc'[q] \in {"skip", "book"}
          /\ pc'[q] = "book" => pos'[q] = db.positions[<<run[q], act(q).asset>>]
      BY <1>6, <2>1 DEF ReadPosition, Decline, Goto, TypeOK
    <3>2. act(q)' = act(q)
      BY <3>1 DEF act
    <3>3. ~HasSignal(db, run[q], act(q).sid)
      BY <3>1 DEF ExclusiveAt, Idle
    <3>4. QED
      BY <3>1, <3>2, <3>3 DEF ExclusiveAt, HasSignal, Decided, Quoted, InTransaction
  <2>2. CASE p # q
    BY <1>6, <2>2, ExclusiveFrame DEF ReadPosition, Decline, Goto, TypeOK
  <2>3. QED BY <2>1, <2>2
<1>7. ASSUME NEW p \in Procs, NEW e, NEW objection, Quote(p, e, objection), pc[p] = "book"
      PROVE  ExclusiveAt(q)'
  BY <1>7, ExclusiveFrame DEF Quote, Decline, Goto, TypeOK, Idle, Decided, Quoted, InTransaction
<1>8. ASSUME NEW p \in Procs, QuoteBuy(p) \/ QuoteSell(p)
      PROVE  ExclusiveAt(q)'
  BY <1>7, <1>8 DEF QuoteBuy, QuoteSell
<1>9. ASSUME NEW p \in Procs, BookUnavailable(p)
      PROVE  ExclusiveAt(q)'
  BY <1>9, ExclusiveFrame DEF BookUnavailable, Decline, Goto, TypeOK, Idle, Decided, Quoted, InTransaction
<1>10. ASSUME NEW p \in Procs,
              \/ InsertSignal(p) \/ InsertFill(p)
              \/ MovePositionBuy(p) \/ MovePositionSell(p) \/ InsertClosure(p)
       PROVE  ExclusiveAt(q)'
  <2>1. /\ UNCHANGED <<db, run, queue, pos>> /\ pc[p] \in Quoted
        /\ \E to \in InTransaction : pc' = [pc EXCEPT ![p] = to]
    BY <1>10 DEF InsertSignal, InsertFill, MovePositionBuy, MovePositionSell,
                 InsertClosure, Deferred, CommitUnlessDeferred, Goto, Quoted, InTransaction
  <2>2. QED
    BY <2>1, ExclusiveFrame DEF TypeOK, Idle, Decided, Quoted, InTransaction
<1>11. ASSUME NEW p \in Procs, Skip(p) \/ Commit(p)
       PROVE  ExclusiveAt(q)'
  <2>1. pc' = [pc EXCEPT ![p] = "next"] /\ run' = run
    BY <1>11 DEF Skip, Commit, Finish, Goto
  <2>2. CASE p = q
    BY <2>1, <2>2 DEF ExclusiveAt, Decided, Quoted, InTransaction, TypeOK
  <2>3. CASE p # q /\ run[q] = 0
    <3>1. pc'[q] = pc[q] /\ pc[q] \in Idle
      BY <2>1, <2>3, BoundsType DEF TypeOK, HandInv, HandAt, Image
    <3>2. QED BY <3>1 DEF ExclusiveAt, Idle, Decided, Quoted, InTransaction
  <2>4. CASE p # q /\ run[q] # 0
    <3>1. run[p] # run[q]
      BY <2>4 DEF DistinctRuns
    <3>2. /\ pc'[q] = pc[q] /\ run'[q] = run[q] /\ queue'[q] = queue[q] /\ pos'[q] = pos[q]
      BY <1>11, <2>1, <2>4 DEF Skip, Commit, Finish, ForgetHand, TypeOK
    <3>3. CASE Skip(p)
      BY <3>1, <3>2, <3>3, SkipWrites, ExclusiveOthers
    <3>4. CASE Commit(p)
      <4> DEFINE row == SignalRowOf(p, TRUE, "none")
                 k == <<run[q], act(q).asset>>
                 moved == <<run[p], act(p).asset>>
      <4>1. /\ row \in SignalRow /\ row.run = run[p]
            /\ db'.signals = Append(db.signals, row)
            /\ db'.positions = [db.positions EXCEPT ![moved] = NewPosition(p)]
        BY <3>4, CommitWrites
      <4>2. k # moved
        BY <3>1
      <4> HIDE DEF row, k, moved
      <4>3. db'.positions[k] = db.positions[k]
        BY <4>1, <4>2
      <4>4. QED BY <3>1, <3>2, <4>1, <4>3, ExclusiveOthers DEF k
    <3>5. QED BY <1>11, <3>3, <3>4
  <2>5. QED BY <2>2, <2>3, <2>4
<1>12. ASSUME NEW p \in Procs, Die(p)
       PROVE  ExclusiveAt(q)'
  <2>1. CASE p = q
    BY <1>12, <2>1 DEF Die, ExclusiveAt, Idle, Decided, Quoted, InTransaction, TypeOK
  <2>2. CASE p # q
    BY <1>12, <2>2, ExclusiveFrame DEF Die, ForgetHand, TypeOK
  <2>3. QED BY <2>1, <2>2
<1>13. QED
  BY <1>1, <1>2, <1>3, <1>4, <1>5, <1>6, <1>8, <1>9, <1>10, <1>11, <1>12
     DEF Next, Start, Work, Crash, UniqueViolation

\* So every step keeps followers with a run each exclusive.
LEMMA ExclusiveStep ==
  ASSUME TypeOK, HandInv, TransactionInv, ExclusiveInv, Next
  PROVE  ExclusiveInv'
<1> SUFFICES ASSUME ExclusiveRuns
             PROVE  ExclusiveInv'
  BY DEF ExclusiveInv
<1>1. DistinctRuns /\ \A q \in Procs : ExclusiveAt(q)
  BY DEF ExclusiveInv
<1>2. DistinctRuns'
  BY <1>1, DistinctStep
<1>3. ASSUME NEW q \in Procs
      PROVE  ExclusiveAt(q)'
  BY <1>1, ExclusiveAtStep
<1>4. QED BY <1>2, <1>3 DEF ExclusiveInv

-----------------------------------------------------------------------------
(***************************************************************************)
(* The theorems.                                                           *)
(***************************************************************************)
\* The invariant holds of an empty file that nobody follows yet.
LEMMA InitInv ==
  ASSUME Init
  PROVE  IInv
<1>1. EmptyImage \in Image
  BY BoundsType DEF EmptyImage, Image, NoPosition, Position
<1>2. TypeOK
  <2>1. NoPosition \in Position /\ NoEstimate \in Estimate /\ "none" \in Reasons
    BY DEF NoPosition, Position, NoEstimate, Estimate, Reasons
  <2>2. <<>> \in Seq(Activities) /\ Len(<<>>) <= Latest
    BY BoundsType
  <2>3. QED BY <1>1, <2>1, <2>2, BoundsType DEF Init, TypeOK, Places
<1>3. HandInv
  BY DEF Init, HandInv, HandAt, Idle, Decided, Quoted, InTransaction
<1>4. TransactionInv
  BY BoundsType DEF Init, TransactionInv, InTransaction
<1>5. ExclusiveInv
  BY DEF Init, ExclusiveInv, DistinctRuns, ExclusiveAt, Idle, Decided, Quoted, InTransaction
<1>6. FillsMatchSignals
  BY DEF Init, FillsMatchSignals, FillsMatchSignalsIn, EmptyImage
<1>7. QED BY <1>2, <1>3, <1>4, <1>5, <1>6 DEF IInv

\* Nothing in the invariant depends on more than the variables.
LEMMA StutterInv ==
  ASSUME IInv, UNCHANGED vars
  PROVE  IInv'
<1> USE DEF vars, world, hand
<1>1. TypeOK' /\ FillsMatchSignals'
  BY DEF IInv, TypeOK, FillsMatchSignals, FillsMatchSignalsIn
<1>2. ASSUME NEW q \in Procs
      PROVE  HandAt(q)' /\ (TransactionAt(q) => TransactionAt(q)')
             /\ (ExclusiveAt(q) => ExclusiveAt(q)')
  <2>1. act(q)' = act(q)
    BY DEF act
  <2>2. HandAt(q)'
    BY <2>1 DEF IInv, HandInv, HandAt
  <2>3. TransactionAt(q) => TransactionAt(q)'
    BY TransactionFrame
  <2>4. ExclusiveAt(q) => ExclusiveAt(q)'
    BY ExclusiveFrame
  <2>5. QED BY <2>2, <2>3, <2>4
<1>3. HandInv'
  BY <1>2 DEF HandInv
<1>4. TransactionInv'
  BY <1>2 DEF IInv, TransactionInv
<1>5. ExclusiveInv'
  BY <1>2 DEF IInv, ExclusiveInv, DistinctRuns
<1>6. QED BY <1>1, <1>3, <1>4, <1>5 DEF IInv

(***************************************************************************)
(* Every reachable state satisfies the inductive invariant.                *)
(***************************************************************************)
THEOREM InvariantHolds == Spec => []IInv
<1>1. Init => IInv
  BY InitInv
<1>2. IInv /\ [Next]_vars => IInv'
  <2>1. ASSUME IInv, Next
        PROVE  IInv'
    BY <2>1, TypeStep, HandStep, TransactionStep, ExclusiveStep, FillsStep DEF IInv
  <2>2. QED BY <2>1, StutterInv
<1>3. QED BY <1>1, <1>2, PTL DEF Spec

(***************************************************************************)
(* Every variable of the follower keeps its type, and no poll holds more   *)
(* activities than --latest asked for.                                     *)
(***************************************************************************)
THEOREM TypeCorrect == Spec => []TypeOK
<1>1. IInv => TypeOK
  BY DEF IInv
<1>2. QED BY <1>1, InvariantHolds, PTL

(***************************************************************************)
(* However many followers share the file, and wherever one of them dies,   *)
(* the committed file pairs every filled signal with exactly one fill      *)
(* (db.atomic).                                                            *)
(***************************************************************************)
THEOREM FillsAlwaysMatchSignals == Spec => []FillsMatchSignals
<1>1. IInv => FillsMatchSignals
  BY DEF IInv
<1>2. QED BY <1>1, InvariantHolds, PTL

(***************************************************************************)
(* A follower alone on its run is never stopped by the UNIQUE constraint   *)
(* of observed_signals: has_signal before the work is enough.              *)
(***************************************************************************)
THEOREM ExclusiveNeverViolatesUnique ==
  ASSUME ExclusiveRuns
  PROVE  Spec => []NeverViolatesUnique
<1>1. IInv => NeverViolatesUnique
  BY DEF IInv, ExclusiveInv, ExclusiveAt, NeverViolatesUnique, Idle
<1>2. QED BY <1>1, InvariantHolds, PTL

-----------------------------------------------------------------------------
(***************************************************************************)
(* The follower alone on its run implements the ledger.                    *)
(***************************************************************************)
\* Appending a signal row disposes of one more signal.
LEMMA DisposedAppend ==
  ASSUME NEW img \in Image, NEW new, NEW row \in SignalRow,
         new.signals = Append(img.signals, row)
  PROVE  Disposed(new) = Disposed(img) \union {<<row.run, row.sid>>}
<1> DEFINE S == img.signals
           T == new.signals
           n == Len(S)
<1>1. S \in Seq(SignalRow)
  BY DEF Image
<1>2. /\ DOMAIN T = DOMAIN S \union {n + 1}
      /\ \A i \in DOMAIN S : T[i] = S[i]
      /\ T[n + 1] = row
  <2> HIDE DEF S
  <2>1. T = Append(S, row)
    BY DEF S
  <2> HIDE DEF T
  <2>2. QED BY <1>1, <2>1
<1> HIDE DEF S, T, n
<1>3. {<<T[i].run, T[i].sid>> : i \in DOMAIN T}
        = {<<S[i].run, S[i].sid>> : i \in DOMAIN S} \union {<<row.run, row.sid>>}
  BY <1>2
<1>4. QED BY <1>3 DEF Disposed, S, T

\* What a commit does to the position of its run and asset.
LEMMA CommitMoves ==
  ASSUME TypeOK, HandInv, TransactionInv, ExclusiveRuns, ExclusiveInv,
         NEW p \in Procs, Commit(p)
  PROVE  LET held == db.positions[<<run[p], act(p).asset>>]
             kept == NewPosition(p)
         IN  /\ held \in Position
             /\ act(p).side = "BUY" =>
                  kept = [quantity |-> held.quantity + est[p].quantity,
                          cost     |-> held.cost + est[p].cost]
             /\ act(p).side = "SELL" =>
                  /\ est[p].quantity <= held.quantity
                  /\ kept \in Position
                  /\ kept.quantity = held.quantity - est[p].quantity
                  /\ kept.cost <= held.cost
                  /\ kept.quantity = 0 => kept = NoPosition
<1> DEFINE held == db.positions[<<run[p], act(p).asset>>]
           kept == NewPosition(p)
<1>1. pc[p] \in Quoted
  BY CommitWrites
<1>2. held \in Position
  BY <1>1, HandType DEF TypeOK, Image, Decided
<1>3. ASSUME act(p).side = "BUY"
      PROVE  kept = [quantity |-> held.quantity + est[p].quantity,
                     cost     |-> held.cost + est[p].cost]
  <2>1. AfterBuy(held, est[p]) = [quantity |-> held.quantity + est[p].quantity,
                                  cost     |-> held.cost + est[p].cost]
    BY DEF AfterBuy
  <2>2. held.quantity \in Nat /\ est[p].quantity \in Nat /\ est[p].quantity > 0
    BY <1>1, <1>2, QuotedTypes DEF Position
  <2>3. ~(AfterBuy(held, est[p]).quantity <= 0)
    BY <2>1, <2>2
  <2>4. QED BY <1>3, <2>1, <2>3 DEF NewPosition
<1>4. ASSUME act(p).side = "SELL"
      PROVE  /\ est[p].quantity <= held.quantity
             /\ kept \in Position
             /\ kept.quantity = held.quantity - est[p].quantity
             /\ kept.cost <= held.cost
             /\ kept.quantity = 0 => kept = NoPosition
  <2> DEFINE left == held.quantity - est[p].quantity
  <2>1. pos[p] = held
    BY <1>1, <1>4 DEF ExclusiveInv, ExclusiveAt, Decided
  <2>2. /\ held.quantity \in Nat /\ est[p].quantity \in Nat /\ held.quantity > 0
        /\ est[p].quantity <= held.quantity
    BY <1>1, <1>4, <2>1, QuotedTypes
  <2>3. left \in 0..held.quantity /\ left \in Nat
    BY <2>2
  <2>4. AfterSell(held, est[p]) = [quantity |-> left, cost |-> BasisOf(held, left)]
    BY DEF AfterSell
  <2>5. BasisOf(held, left) \in Nat /\ BasisOf(held, left) <= held.cost
    BY <1>2, <2>2, <2>3, BasisBound
  <2>6. kept = IF left <= 0 THEN NoPosition
               ELSE [quantity |-> left, cost |-> BasisOf(held, left)]
    BY <1>4, <2>1, <2>4 DEF NewPosition
  <2>7. held.cost \in Nat
    BY <1>2 DEF Position
  <2>8. CASE left = 0
    BY <2>2, <2>6, <2>7, <2>8 DEF NoPosition, Position
  <2>9. CASE left # 0
    <3>1. ~(left <= 0)
      BY <2>3, <2>9
    <3>2. kept = [quantity |-> left, cost |-> BasisOf(held, left)]
      BY <2>6, <3>1
    <3>3. kept.quantity = left /\ kept.cost = BasisOf(held, left) /\ kept \in Position
      BY <2>3, <2>5, <3>2 DEF Position
    <3>4. QED BY <2>2, <2>5, <2>9, <3>3
  <2>10. QED BY <2>8, <2>9
<1>5. QED BY <1>2, <1>3, <1>4

\* A commit of process p is a purchase or a sale of the ledger.
LEMMA CommitIsTrade ==
  ASSUME TypeOK, HandInv, TransactionInv, ExclusiveRuns, ExclusiveInv,
         NEW p \in Procs, Commit(p)
  PROVE  Ledger!Next
<1> DEFINE r == run[p]
           s == act(p).sid
           a == act(p).asset
           held == db.positions[<<r, a>>]
           kept == NewPosition(p)
           row == SignalRowOf(p, TRUE, "none")
           fill == FillRowOf(p, Len(db.signals) + 1)
<1>1. /\ pc[p] \in Quoted /\ row \in SignalRow /\ row.run = r /\ row.sid = s
      /\ fill \in FillRow /\ fill.run = r /\ fill.asset = a /\ fill.side = act(p).side
      /\ fill.quantity = est[p].quantity /\ fill.notional = est[p].cost
      /\ db'.signals = Append(db.signals, row) /\ db'.fills = Append(db.fills, fill)
      /\ db'.runs = db.runs
      /\ db'.positions = [db.positions EXCEPT ![<<r, a>>] = kept]
  BY CommitWrites
<1>2. r \in Runs /\ s \in SignalIds /\ a \in Assets /\ act(p).side \in {"BUY", "SELL"}
  BY <1>1, HandType DEF Decided
<1>3. est[p].quantity > 0
  BY <1>1, QuotedTypes
<1>4. db \in Image /\ db.fills \in Seq(FillRow)
  BY DEF TypeOK, Image
<1>5. <<r, s>> \notin Disposed(db)
  <2>1. ~HasSignal(db, r, s)
    BY <1>1 DEF ExclusiveInv, ExclusiveAt, Idle, Quoted, InTransaction
  <2>2. QED BY <2>1 DEF HasSignal, Disposed
<1>6. /\ held \in Position
      /\ act(p).side = "BUY" =>
           kept = [quantity |-> held.quantity + fill.quantity,
                   cost     |-> held.cost + fill.notional]
      /\ act(p).side = "SELL" =>
           /\ fill.quantity <= held.quantity
           /\ kept \in Position
           /\ kept.quantity = held.quantity - fill.quantity
           /\ kept.cost <= held.cost
           /\ kept.quantity = 0 => kept = NoPosition
  BY <1>1, CommitMoves
<1>7. <<r, a>> \in DOMAIN db.positions
  BY <1>2, <1>4 DEF Image
<1> HIDE DEF r, s, a, held, kept, row, fill
<1>8. Disposed(db') = Disposed(db) \union {<<r, s>>}
  <2>1. Disposed(db') = Disposed(db) \union {<<row.run, row.sid>>}
    BY <1>1, <1>4, DisposedAppend
  <2>2. QED BY <1>1, <2>1
<1>9. /\ db'.fills # <<>> /\ db'.fills[Len(db'.fills)] = fill
      /\ db'.positions[<<r, a>>] = kept
  <2>1. db'.fills # <<>> /\ db'.fills[Len(db'.fills)] = fill
    BY <1>1, <1>4
  <2>2. QED BY <1>1, <1>7, <2>1
<1>10. Ledger!Trade(r, s, a, act(p).side, fill)
  BY <1>1, <1>3, <1>5, <1>8 DEF Ledger!Trade
<1>11. CASE act(p).side = "BUY"
  <2>1. Ledger!Buy(r, s, a)
    BY <1>1, <1>6, <1>9, <1>10, <1>11 DEF Ledger!Buy, held
  <2>2. QED BY <1>2, <2>1 DEF Ledger!Next
<1>12. CASE act(p).side = "SELL"
  <2>1. Ledger!Sell(r, s, a)
    BY <1>1, <1>6, <1>9, <1>10, <1>12
       DEF Ledger!Sell, Ledger!Holding, Ledger!Nothing, held, Position, NoPosition
  <2>2. QED BY <1>2, <2>1 DEF Ledger!Next
<1>13. QED BY <1>2, <1>11, <1>12

\* Every step of the follower is a step of the ledger, or none.
LEMMA LedgerStep ==
  ASSUME IInv, ExclusiveRuns, Next
  PROVE  [Ledger!Next]_<<db.runs, Disposed(db), db.fills, db.positions>>
<1>1. TypeOK /\ HandInv /\ TransactionInv /\ ExclusiveInv /\ db \in Image
  BY DEF IInv, TypeOK
<1>2. CASE db' = db
  BY <1>2 DEF Disposed
<1>3. ASSUME NEW p \in Procs, CreateRun(p)
      PROVE  Ledger!Next
  <2>1. db' = [db EXCEPT !.runs = @ + 1]
    BY <1>3 DEF CreateRun, Autocommit, CommitUnlessDeferred
  <2>2. /\ db'.runs = db.runs + 1 /\ db'.signals = db.signals
        /\ db'.fills = db.fills /\ db'.positions = db.positions
    BY <1>1, <2>1 DEF Image
  <2>3. Ledger!CreateRun
    BY <2>2 DEF Ledger!CreateRun, Disposed
  <2>4. QED BY <2>3 DEF Ledger!Next
<1>4. ASSUME NEW p \in Procs, Skip(p)
      PROVE  Ledger!Next
  <2> DEFINE row == SignalRowOf(p, FALSE, reason[p])
  <2>1. /\ row \in SignalRow /\ row.run = run[p] /\ row.sid = act(p).sid
        /\ ~HasSignal(db, run[p], act(p).sid)
        /\ db'.signals = Append(db.signals, row) /\ db'.runs = db.runs
        /\ db'.fills = db.fills /\ db'.positions = db.positions
    BY <1>1, <1>4, SkipWrites
  <2>2. run[p] \in Runs /\ act(p).sid \in SignalIds
    BY <2>1 DEF SignalRow
  <2> HIDE DEF row
  <2>3. Disposed(db') = Disposed(db) \union {<<run[p], act(p).sid>>}
    <3>1. Disposed(db') = Disposed(db) \union {<<row.run, row.sid>>}
      BY <1>1, <2>1, DisposedAppend
    <3>2. QED BY <2>1, <3>1
  <2>4. <<run[p], act(p).sid>> \notin Disposed(db)
    BY <2>1 DEF HasSignal, Disposed
  <2>5. Ledger!Skip(run[p], act(p).sid)
    BY <2>1, <2>3, <2>4 DEF Ledger!Skip
  <2>6. QED BY <2>2, <2>5 DEF Ledger!Next
<1>5. ASSUME NEW p \in Procs, Commit(p)
      PROVE  Ledger!Next
  BY <1>1, <1>5, CommitIsTrade
<1>6. QED BY <1>2, <1>3, <1>4, <1>5, FileWrites

(***************************************************************************)
(* Seen from its committed file, a follower alone on its run is the paper  *)
(* ledger: each signal is disposed of once, in one step; a fill moves its  *)
(* own position by exactly what it trades; a sale never exceeds it.        *)
(***************************************************************************)
THEOREM FollowerImplementsLedger ==
  ASSUME ExclusiveRuns
  PROVE  Spec => ImplementsLedger
<1>1. Init => Ledger!Init
  BY DEF Init, Ledger!Init, EmptyImage, Disposed, NoPosition, Ledger!Nothing
<1>2. IInv /\ [Next]_vars => [Ledger!Next]_Ledger!ledger
  <2>1. UNCHANGED vars => UNCHANGED Ledger!ledger
    BY DEF vars, Ledger!ledger, Disposed
  <2>2. QED BY <2>1, LedgerStep DEF Ledger!ledger
<1>3. QED BY <1>1, <1>2, InvariantHolds, PTL DEF Spec, ImplementsLedger, Ledger!Spec

\* A commit moves the position of its run and asset by its fill.
LEMMA CommitMovesByFill ==
  ASSUME TypeOK, HandInv, TransactionInv, ExclusiveRuns, ExclusiveInv,
         NEW p \in Procs, Commit(p)
  PROVE  PositionsMove
<1> DEFINE k == <<run[p], act(p).asset>>
           held == db.positions[k]
           kept == NewPosition(p)
           fill == FillRowOf(p, Len(db.signals) + 1)
           moved == IF fill.side = "BUY" THEN fill.quantity ELSE -fill.quantity
<1>1. /\ pc[p] \in Quoted /\ fill \in FillRow /\ fill.run = run[p]
      /\ fill.asset = act(p).asset /\ fill.side = act(p).side
      /\ fill.quantity = est[p].quantity
      /\ db'.fills = Append(db.fills, fill)
      /\ db'.positions = [db.positions EXCEPT ![k] = kept]
  BY CommitWrites
<1>2. db.fills \in Seq(FillRow) /\ DOMAIN db.positions = Runs \X Assets
  BY DEF TypeOK, Image
<1>3. k \in Runs \X Assets /\ k = <<fill.run, fill.asset>>
      /\ fill.side \in {"BUY", "SELL"}
  BY <1>1, HandType DEF Decided
<1>4. kept.quantity = held.quantity + moved
  <2>1. held.quantity \in Nat /\ fill.quantity \in Nat
    BY <1>1, CommitMoves DEF FillRow, Position
  <2>2. CASE fill.side = "BUY"
    <3>1. kept.quantity = held.quantity + fill.quantity
      BY <1>1, <2>2, CommitMoves
    <3>2. QED BY <2>2, <3>1
  <2>3. CASE fill.side = "SELL"
    <3>1. kept.quantity = held.quantity - fill.quantity
      BY <1>1, <2>3, CommitMoves
    <3>2. QED BY <2>1, <2>3, <3>1
  <2>4. QED BY <1>3, <2>2, <2>3
<1> HIDE DEF kept, fill
<1>5. db'.fills[Len(db'.fills)] = fill
  BY <1>1, <1>2
<1> HIDE DEF k
<1>6. /\ db'.positions[k] = kept
      /\ \A other \in (Runs \X Assets) \ {k} : db'.positions[other] = db.positions[other]
  BY <1>1, <1>2, <1>3
<1>7. QED BY <1>1, <1>3, <1>4, <1>5, <1>6 DEF PositionsMove

(***************************************************************************)
(* The positions of a run with one follower never leave its fills: a step  *)
(* that commits a fill moves one position by that fill, and no other step  *)
(* moves a position.                                                       *)
(***************************************************************************)
THEOREM PositionsAlwaysFollowFills ==
  ASSUME ExclusiveRuns
  PROVE  Spec => PositionsFollowFills
<1>1. IInv /\ [Next]_vars => [PositionsMove]_db
  <2>1. ASSUME IInv, Next
        PROVE  PositionsMove
    <3>1. TypeOK /\ HandInv /\ TransactionInv /\ ExclusiveInv /\ db \in Image
      BY <2>1 DEF IInv, TypeOK
    <3>2. CASE db' = db
      BY <3>2 DEF PositionsMove
    <3>3. ASSUME NEW p \in Procs, CreateRun(p) \/ Skip(p)
          PROVE  db'.fills = db.fills /\ db'.positions = db.positions
      BY <3>1, <3>3 DEF CreateRun, Skip, Autocommit, CommitUnlessDeferred, Recorded, Image
    <3>4. QED BY <2>1, <3>1, <3>2, <3>3, CommitMovesByFill, FileWrites DEF PositionsMove
  <2>2. QED BY <2>1 DEF vars
<1>2. QED BY <1>1, InvariantHolds, PTL DEF Spec, PositionsFollowFills

=============================================================================
