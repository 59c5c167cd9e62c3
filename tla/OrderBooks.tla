----------------------------- MODULE OrderBooks -----------------------------
(***************************************************************************)
(* The order book arithmetic of edge_lab: how the payload of the CLOB API  *)
(* becomes a book, and the loops that walk one side of a book, best price  *)
(* first.                                                                  *)
(*                                                                         *)
(* Amounts are natural numbers of the smallest unit (ticks, shares, and    *)
(* ticks times shares for money).  The code computes with Decimal.  A loop *)
(* over the levels is inexact only where the remaining budget is divided   *)
(* by a price, and ExactBudget says when that leaves nothing over; what is *)
(* made of a walk afterwards is rounded to a quantum, by RoundHalfEven.    *)
(***************************************************************************)
EXTENDS Rows

Level == [price : Nat, size : Nat]

Smaller(m, n) == IF m <= n THEN m ELSE n

\* Mutant: halves are rounded up.
RoundHalfEven_Up(n, d) == (2 * n + d) \div (2 * d)

\* Decimal.quantize: of n / d, a half goes to the even neighbour.
RoundHalfEven(n, d) ==
  LET q == n \div d
      twice == 2 * (n % d)
  IN  IF twice > d \/ (twice = d /\ q % 2 = 1) THEN q + 1 ELSE q

\* A level with no positive price or no positive size is dropped on parsing.
ParseLevels(raw) == Select(raw, {l \in Level : l.price > 0 /\ l.size > 0})

\* The keys of the sides: the asks by price, the bids by price downwards.
ByPrice == [l \in Level |-> l.price]
ByPriceDown == [l \in Level |-> 0 - l.price]

(***************************************************************************)
(* Python's sorted: the least key first, rows of one key keeping the order *)
(* they had (also with reverse=True, which is a key negated).              *)
(***************************************************************************)
StableSort(rows, key) ==
  LET Place(sorted, row) ==
        LET later == {i \in DOMAIN sorted : key[row] < key[sorted[i]]}
            at == IF later = {} THEN Len(sorted) + 1
                  ELSE CHOOSE i \in later : \A j \in later : i <= j
        IN  InsertAt(sorted, at, row)
  IN  FoldLeft(Place, <<>>, rows)

\* Mutant: the sides keep the order of the payload.
OrderBook_Unsorted(rawAsks, rawBids) ==
  [asks |-> ParseLevels(rawAsks), bids |-> ParseLevels(rawBids)]

\* The book built from a payload: both sides parsed, then sorted best first.
OrderBook(rawAsks, rawBids) ==
  [asks |-> StableSort(ParseLevels(rawAsks), ByPrice),
   bids |-> StableSort(ParseLevels(rawBids), ByPriceDown)]

Depth(levels) == FoldLeft(LAMBDA d, l : d + l.size, 0, levels)

(***************************************************************************)
(* The loop that trades a quantity: walk_asks, walk_bids and walk_book are *)
(* three copies of it.  The break on remaining <= 0 makes every later      *)
(* level a no-op.                                                          *)
(***************************************************************************)
WalkQuantity(levels, quantity) ==
  LET Step(w, l) ==
        IF w.remaining = 0 THEN w
        ELSE LET take == Smaller(w.remaining, l.size)
             IN  [remaining |-> w.remaining - take,
                  cost      |-> w.cost + take * l.price,
                  consumed  |-> w.consumed + 1]
      end == FoldLeft(Step, [remaining |-> quantity, cost |-> 0, consumed |-> 0],
                      levels)
  IN  [quantity |-> quantity - end.remaining,
       cost     |-> end.cost,
       full     |-> end.remaining = 0,
       consumed |-> end.consumed]

WalkAsks(levels, quantity) == WalkQuantity(levels, quantity)

WalkBids(levels, quantity) == WalkQuantity(levels, quantity)

\* The quote of the DreamDEX signal engine adds the best price and the depth.
WalkBook(asks, size) ==
  LET w == WalkQuantity(asks, size)
  IN  [filled    |-> w.quantity,
       cost      |-> w.cost,
       full      |-> w.full,
       top       |-> IF asks = <<>> THEN 0 ELSE asks[1].price,
       available |-> Depth(asks)]

\* Mutant: the budget is compared with the size as if it were a quantity.
SpendOn_NoDivision(w, l) ==
  IF w.remaining = 0 \/ l.price = 0 THEN w
  ELSE LET take == Smaller(w.remaining, l.size)
       IN  [remaining |-> IF take * l.price > w.remaining THEN 0
                          ELSE w.remaining - take * l.price,
            quantity  |-> w.quantity + take,
            consumed  |-> w.consumed + 1]

(***************************************************************************)
(* The loop that spends a budget on the asks.  A level of non-positive     *)
(* price is passed over without being consumed.                            *)
(***************************************************************************)
SpendOn(w, l) ==
  IF w.remaining = 0 \/ l.price = 0 THEN w
  ELSE LET take == Smaller(w.remaining \div l.price, l.size)
       IN  [remaining |-> w.remaining - take * l.price,
            quantity  |-> w.quantity + take,
            consumed  |-> w.consumed + 1]

WalkForNotional(levels, budget) ==
  LET end == FoldLeft(SpendOn,
                      [remaining |-> budget, quantity |-> 0, consumed |-> 0],
                      levels)
  IN  [quantity |-> end.quantity,
       cost     |-> budget - end.remaining,
       full     |-> end.remaining = 0,
       consumed |-> end.consumed]

(***************************************************************************)
(* The budget divides exactly on this side of a book: either it all goes,  *)
(* or every level is bought out.  Decimal division always does so (to 28   *)
(* digits, within the tolerance of 1e-9 of fully_filled).                  *)
(***************************************************************************)
ExactBudget(levels, budget) ==
  LET w == WalkForNotional(levels, budget)
  IN  w.full \/ w.quantity = Depth(Select(levels, {l \in Level : l.price > 0}))
=============================================================================
