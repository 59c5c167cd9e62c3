---------------------------- MODULE CompleteSet ----------------------------
(***************************************************************************)
(* Arbitrage over a complete set (analysis/arb): one YES and one NO share  *)
(* of a market redeem together for 1.  How many sets a budget buys, and up *)
(* to which size a set keeps its edge, are searched by halving an interval *)
(* of quantities.                                                          *)
(*                                                                         *)
(* The books count sizes in the quantum of the results (1e-8 shares), the  *)
(* search in a fraction of it, Fine to the quantum; prices are ticks, One  *)
(* of which are 1.  An edge is rounded to a quantum of its own (1e-4 bps)  *)
(* where a quantity is judged, and is not where one is searched; the       *)
(* buffer and the least edge wanted may be finer than that quantum.        *)
(***************************************************************************)
EXTENDS OrderBooks

CONSTANTS
  Halvings,        \* rounds of the search: 60 in the code
  One,             \* ticks of a price of 1
  Grain,           \* quanta of an edge of 1: 10^8 in the code
  Parts,           \* the parts of a quantum Buffer and MinEdge are given in
  Buffer, MinEdge

ASSUME SearchAssumption ==
  /\ Halvings \in Nat /\ {One, Grain, Parts} \subseteq Nat \ {0}
  /\ {Buffer, MinEdge} \subseteq Int

\* The parts of an edge of 1.
Unit == Grain * Parts

Rounds == [i \in 1..Halvings |-> i]

\* So fine that halving a quantum in every round leaves 1.
Fine == FoldLeft(LAMBDA f, i : 2 * f, 1, Rounds)

Refined(levels) == [i \in DOMAIN levels |-> [levels[i] EXCEPT !.size = @ * Fine]]

BothFill(yes, no, q) == WalkAsks(yes, q).full /\ WalkAsks(no, q).full

SetCost(yes, no, q) == WalkAsks(yes, q).cost + WalkAsks(no, q).cost

Affordable(yes, no, q, budget) == BothFill(yes, no, q) /\ SetCost(yes, no, q) <= budget

\* The volume-weighted edge of q sets less the buffers, as it is, is the least
\* wanted.
KeepsEdge(yes, no, q) ==
  /\ q > 0 /\ BothFill(yes, no, q)
  /\ (One * q - SetCost(yes, no, q)) * Unit >= (Buffer + MinEdge) * One * q

\* The same edge in quanta, rounded before the buffers are taken off and after.
GrossEdge(yes, no, q) == RoundHalfEven((One * q - SetCost(yes, no, q)) * Grain, One * q)

NetEdge(yes, no, q) == RoundHalfEven(GrossEdge(yes, no, q) * Parts - Buffer, Parts)

\* The largest of the good quantities, if all below a good one are good.
Bisect(low, high, good) ==
  LET Halve(r, i) ==
        LET mid == (r.lo + r.hi) \div 2
        IN  IF mid \in good THEN [r EXCEPT !.lo = mid] ELSE [r EXCEPT !.hi = mid]
  IN  FoldLeft(Halve, [lo |-> low, hi |-> high], Rounds).lo

\* To the quantum of a quantity.
Nearest(q) == RoundHalfEven(q, Fine)

\* Mutant: rounded like the other quantities.
Down_Nearest(q) == Nearest(q)

Down(q) == q \div Fine

MaxQtyWithinBudget(yes, no, budget, ceiling) ==
  Down(IF Affordable(yes, no, ceiling, budget) THEN ceiling
       ELSE Bisect(0, ceiling, {q \in Nat : Affordable(yes, no, q, budget)}))

\* 0 for None.
MaxSizeAtEdge(yes, no, ceiling) ==
  IF KeepsEdge(yes, no, ceiling) THEN Nearest(ceiling)
  ELSE IF ~KeepsEdge(yes, no, Fine) THEN 0
  ELSE Nearest(Bisect(Fine, ceiling, {q \in Nat : KeepsEdge(yes, no, q)}))

NoArb == [qty |-> 0, candidate |-> FALSE, maxSize |-> 0]

ArbOf(yes, no, ceiling, qty) ==
  IF qty = 0 THEN NoArb
  ELSE [qty |-> qty,
        candidate |-> NetEdge(yes, no, qty * Fine) * Parts >= MinEdge,
        maxSize |-> MaxSizeAtEdge(yes, no, ceiling)]

\* analyze_complete_set, on asks and a budget in quanta.
Analyze(yes, no, budget) ==
  LET ceiling == Smaller(Depth(yes), Depth(no))
  IN  IF ceiling = 0 THEN NoArb
      ELSE ArbOf(yes, no, ceiling,
                 MaxQtyWithinBudget(yes, no, budget * Fine, ceiling))
=============================================================================
