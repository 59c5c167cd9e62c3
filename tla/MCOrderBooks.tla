---------------------------- MODULE MCOrderBooks ----------------------------
(***************************************************************************)
(* Checks the walks of OrderBooks on every payload of at most MaxLevels    *)
(* levels, built one level at a time, against what a walk promises without *)
(* saying how it walks: no other way of taking the same quantity from the  *)
(* same levels is cheaper (dearer, for the bids).  Cut in two, a payload   *)
(* is the YES and the NO asks of a market, for CompleteSet.                *)
(***************************************************************************)
EXTENDS CompleteSet

CONSTANTS MaxLevels, MaxPrice, MaxSize

\* The searches of an arbitrage end within half a quantum on a book so deep.
ASSUME BoundsAssumption ==
  {MaxLevels, MaxPrice, MaxSize} \subseteq Nat /\ 2 * MaxLevels * MaxSize <= Fine

VARIABLE payload

InitPayload == payload = <<>>

AddLevel(l) ==
  /\ Len(payload) < MaxLevels
  /\ payload' = Append(payload, l)

NextPayload == \E l \in [price : 0..MaxPrice, size : 0..MaxSize] : AddLevel(l)

asks == OrderBook(payload, payload).asks
bids == OrderBook(payload, payload).bids

Amounts == 0..(MaxLevels * MaxSize + 1)
Budgets == 0..(MaxLevels * MaxSize * MaxPrice)

\* All the ways of taking `quantity` from the levels of a payload.
Takings(quantity) ==
  {t \in [DOMAIN payload -> 0..MaxSize] :
     /\ \A i \in DOMAIN payload : t[i] <= payload[i].size
     /\ \A i \in DOMAIN payload : payload[i].price = 0 => t[i] = 0
     /\ SumFunction(t) = quantity}

Value(t) == SumFunction([i \in DOMAIN payload |-> t[i] * payload[i].price])

(***************************************************************************)
(* Buying a quantity costs the least any taking of it costs, selling it    *)
(* brings the most, and a walk falls short only when the whole side is     *)
(* taken (arb.walk_asks, edge.walk_book, follower.walk_bids).              *)
(***************************************************************************)
BestExecution ==
  \A q \in Amounts :
    LET buy == WalkAsks(asks, q)
        sell == WalkBids(bids, q)
    IN  /\ buy.quantity = Smaller(q, Depth(asks))
        /\ sell.quantity = Smaller(q, Depth(bids))
        /\ buy.full <=> q <= Depth(asks)
        /\ \E t \in Takings(buy.quantity) : Value(t) = buy.cost
        /\ \A t \in Takings(buy.quantity) :
             Value(t) >= buy.cost /\ Value(t) <= sell.cost

(***************************************************************************)
(* Where the budget divides exactly, spending it on the asks and then      *)
(* buying the quantity it bought are the same trade, and no taking of more *)
(* shares fits in the budget (follower.walk_for_notional against           *)
(* arb.walk_asks).                                                         *)
(***************************************************************************)
BudgetBuysTheMost ==
  \A b \in Budgets : ExactBudget(asks, b) =>
    LET spend == WalkForNotional(asks, b)
        more == spend.quantity + 1
    IN  /\ WalkAsks(asks, spend.quantity).cost = spend.cost
        /\ spend.full => spend.cost = b
        /\ more <= Depth(asks) => WalkAsks(asks, more).cost > b

(***************************************************************************)
(* A smaller trade never pays a higher average price: a size cut to a cap  *)
(* keeps the edge of the size that was quoted (core/risk scales the        *)
(* quantity and keeps the price of core/edge.walk_book).                   *)
(***************************************************************************)
SmallerIsNoDearer ==
  \A q \in Amounts, k \in Amounts :
    k <= q /\ WalkAsks(asks, q).full =>
      /\ WalkAsks(asks, k).full
      /\ WalkAsks(asks, k).cost * q <= WalkBook(asks, q).cost * k

-----------------------------------------------------------------------------
Asks(raw) == OrderBook(raw, <<>>).asks

\* The YES and the NO asks a payload is cut into after its i-th level.
Yes(i) == Asks(SubSeq(payload, 1, i))
No(i) == Asks(SubSeq(payload, i + 1, Len(payload)))

(***************************************************************************)
(* The sets a scan says a budget buys fit in it, and the search stops at   *)
(* most a quantum below the most that does (_max_qty_within_budget).       *)
(***************************************************************************)
ArbWithinBudget ==
  \A i \in 1..(Len(payload) - 1), b \in Budgets :
    LET yes == Yes(i)
        no == No(i)
        qty == Analyze(Refined(yes), Refined(no), b).qty
    IN  /\ Affordable(yes, no, qty, b)
        /\ ~Affordable(yes, no, qty + 2, b)

\* The edge of q sets is the least wanted, less so many parts.
EdgeWithin(yes, no, q, parts) ==
  (One * q - SetCost(yes, no, q)) * Unit >= (Buffer + MinEdge - parts) * One * q

(***************************************************************************)
(* The size a scan says keeps the edge does so to within a quantum, and is *)
(* no smaller than the budget's size where that keeps it.  The verdict on  *)
(* the budget's size, which is of a rounded edge, is the exact one or      *)
(* wrong by less than a quantum of the edge, either way: only so may a     *)
(* candidate have a smaller size that keeps the edge, or none              *)
(* (_max_size_at_edge against net_edge_bps of analyze_complete_set).       *)
(***************************************************************************)
ArbEdgeHolds ==
  \A i \in 1..(Len(payload) - 1), b \in Budgets :
    LET yes == Yes(i)
        no == No(i)
        arb == Analyze(Refined(yes), Refined(no), b)
        qty == arb.qty
        most == arb.maxSize
    IN  /\ most > 1 => EdgeWithin(yes, no, most - 1, 0)
        /\ qty > 0 /\ BothFill(yes, no, most + 1) => ~EdgeWithin(yes, no, most + 1, 0)
        /\ qty > 0 /\ EdgeWithin(yes, no, qty, 0) => most >= qty
        /\ arb.candidate => EdgeWithin(yes, no, qty, Parts)
        /\ qty > 0 /\ EdgeWithin(yes, no, qty, 0 - Parts) => arb.candidate

\* Both searches of a scan end within a quantum of what they look for.
ArbSearchesAreTight == ArbWithinBudget /\ ArbEdgeHolds
=============================================================================
