-------------------------- MODULE AlgorithmProofs --------------------------
(***************************************************************************)
(* What the pure algorithms promise of inputs of any length: the walks of  *)
(* an order book and the searches for a complete set, whatever the prices, *)
(* sizes, budgets and quantities; the counts of a wallet and the windows   *)
(* of its day; the patterns of its purchases; the falls and the volatility *)
(* of a series of prices; and the scans of the markets.                    *)
(***************************************************************************)
EXTENDS MCAlgorithms, LoopProofs

-----------------------------------------------------------------------------
\* The size of what a side offers.
Sizes == [l \in Level |-> IF l \in Offers THEN l.size ELSE 0]

\* The depth of a side is what its sizes amount to.
LEMMA DepthIsAmount ==
  ASSUME NEW levels \in Seq(Offers)
  PROVE  Depth(levels) = AmountOf(levels, Sizes)
<1>1. levels \in Seq(Level) /\ \A k \in 1..Len(levels) : levels[k] \in Offers
  BY OffersAreLevels
<1>2. PICK d : DepthUpTo(levels, d) /\ Depth(levels) = d[Len(levels)]
  BY <1>1, DepthTrace
<1>3. \A l \in Offers : Sizes[l] = l.size /\ Sizes[l] \in Int
  BY DEF Sizes, Offers, Level
<1>4. /\ d \in [0..Len(levels) -> Int] /\ d[0] = 0
      /\ \A k \in 1..Len(levels) : d[k] = d[k - 1] + Sizes[levels[k]]
  BY <1>1, <1>2, <1>3 DEF DepthUpTo
<1>5. AmountUpTo(levels, Sizes, d)
  BY <1>3, <1>4 DEF AmountUpTo
<1> QED
  BY <1>2, <1>3, <1>5, AmountTrace

-----------------------------------------------------------------------------
(***************************************************************************)
(* The least cost.  A walk takes every level below some price and none     *)
(* above it; what a taking may save against that price is then bounded by  *)
(* what the levels below it offer, whichever order they come in.           *)
(***************************************************************************)
\* Where a walk for a quantity stops: the levels before are taken, those after are not.
StopsAt(levels, key, quantity, d, stop) ==
  /\ stop \in Int
  /\ \A k \in 1..Len(levels) :
       /\ key[levels[k]] < stop => d[k] <= quantity
       /\ key[levels[k]] > stop => quantity <= d[k - 1]

\* A walk stops at some price.
LEMMA StopExists ==
  ASSUME NEW key \in [Level -> Int], NEW levels \in Seq(Level), InOrder(levels, key),
         NEW quantity \in Nat, NEW d, DepthUpTo(levels, d)
  PROVE  \E stop : StopsAt(levels, key, quantity, d, stop)
<1> DEFINE n == Len(levels)
           M == {m \in 1..n : d[m - 1] < quantity}
<1>1. /\ n \in Nat /\ DOMAIN levels = 1..n
      /\ \A k \in 1..n : levels[k] \in Level /\ key[levels[k]] \in Int
  OBVIOUS
<1>2. \A k \in 0..n : \A i \in 0..k : d[i] \in Nat /\ d[i] <= d[k]
  BY DepthGrows
<1>3. \A i \in 1..n, j \in 1..n : i < j => key[levels[i]] <= key[levels[j]]
  BY <1>1 DEF InOrder
<1>4. CASE M = {}
  <2>1. CASE n = 0
    <3>1. StopsAt(levels, key, quantity, d, 0)
      BY <2>1 DEF StopsAt
    <3> QED
      BY <3>1
  <2>2. CASE n # 0
    <3> DEFINE stop == key[levels[1]]
    <3>1. 1 \in 1..n /\ stop \in Int
      BY <1>1, <2>2
    <3>2. d[0] = 0
      BY DEF DepthUpTo
    <3>3. quantity = 0
      <4>1. ~(d[1 - 1] < quantity)
        BY <1>4, <3>1
      <4> QED
        BY <3>2, <4>1
    <3>4. ASSUME NEW k \in 1..n
          PROVE  ~(key[levels[k]] < stop) /\ quantity <= d[k - 1]
      <4>1. stop <= key[levels[k]]
        BY <1>1, <1>3, <3>1
      <4>2. k - 1 \in 0..n /\ k - 1 \in 0..(k - 1)
        BY <1>1
      <4>3. d[k - 1] \in Nat
        BY <1>2, <4>2
      <4> QED
        BY <1>1, <3>1, <3>3, <4>1, <4>3
    <3> HIDE DEF stop
    <3>5. StopsAt(levels, key, quantity, d, stop)
      BY <3>1, <3>4 DEF StopsAt
    <3> QED
      BY <3>5
  <2> QED
    BY <2>1, <2>2
<1>5. CASE M # {}
  <2>1. M \in SUBSET (1..n)
    OBVIOUS
  <2>2. PICK m \in M : \A y \in M : m >= y
    <3> HIDE DEF M
    <3> QED
      BY <1>1, <1>5, <2>1, MaxOf
  <2> DEFINE stop == key[levels[m]]
  <2>3. m \in 1..n /\ d[m - 1] < quantity /\ stop \in Int /\ m \in Nat
    BY <1>1, <2>2
  <2>4. ASSUME NEW k \in 1..n
        PROVE  /\ key[levels[k]] < stop => d[k] <= quantity
               /\ key[levels[k]] > stop => quantity <= d[k - 1]
    <3>1. k \in Nat /\ k - 1 \in 0..n /\ m - 1 \in 0..n /\ key[levels[k]] \in Int /\ d[k - 1] \in Nat
      BY <1>1, <1>2, <2>3
    <3>2. ASSUME key[levels[k]] < stop PROVE d[k] <= quantity
      <4>1. k < m
        <5>1. ~(m < k) /\ k # m
          BY <1>3, <2>3, <3>1, <3>2
        <5> QED
          BY <2>3, <3>1, <5>1
      <4>2. k \in 0..(m - 1) /\ m - 1 \in 0..(m - 1)
        BY <2>3, <3>1, <4>1
      <4>3. d[k] \in Nat /\ d[m - 1] \in Nat /\ d[k] <= d[m - 1]
        BY <1>2, <3>1, <4>2
      <4> QED
        BY <2>3, <4>3
    <3>3. ASSUME key[levels[k]] > stop PROVE quantity <= d[k - 1]
      <4>1. k > m
        <5>1. ~(k < m) /\ k # m
          BY <1>3, <2>3, <3>1, <3>3
        <5> QED
          BY <2>3, <3>1, <5>1
      <4>2. k \notin M
        BY <2>2, <2>3, <3>1, <4>1
      <4> QED
        BY <3>1, <4>2
    <3> QED
      BY <3>2, <3>3
  <2> HIDE DEF stop
  <2>5. StopsAt(levels, key, quantity, d, stop)
    BY <2>3, <2>4 DEF StopsAt
  <2> QED
    BY <2>5
<1> QED
  BY <1>4, <1>5

\* What the levels below the stop save against it, and what they and those at it offer.
Saving(key, stop) ==
  [l \in Level |-> IF l \in Offers /\ key[l] < stop THEN (stop - key[l]) * l.size ELSE 0]
Below(key, stop) == [l \in Level |-> IF l \in Offers /\ key[l] < stop THEN l.size ELSE 0]
AtStop(key, stop) == [l \in Level |-> IF l \in Offers /\ key[l] = stop THEN l.size ELSE 0]

\* A level counts below the stop, at it, or not at all.
LEMMA AmountsType ==
  ASSUME NEW key \in [Level -> Int], NEW stop \in Int, NEW l \in Level
  PROVE  /\ l.price \in Nat /\ l.size \in Nat /\ key[l] \in Int
         /\ Saving(key, stop)[l] \in Nat /\ Below(key, stop)[l] \in Nat /\ AtStop(key, stop)[l] \in Nat
         /\ Saving(key, stop)[l] = IF l \in Offers /\ key[l] < stop THEN (stop - key[l]) * l.size ELSE 0
         /\ Below(key, stop)[l] = IF l \in Offers /\ key[l] < stop THEN l.size ELSE 0
         /\ AtStop(key, stop)[l] = IF l \in Offers /\ key[l] = stop THEN l.size ELSE 0
<1>1. l.price \in Nat /\ l.size \in Nat /\ key[l] \in Int
  BY DEF Level
<1>2. ASSUME key[l] < stop PROVE (stop - key[l]) * l.size \in Nat
  <2>1. stop - key[l] \in Nat
    BY <1>1, <1>2
  <2> QED
    BY <1>1, <2>1
<1> QED
  BY <1>1, <1>2 DEF Saving, Below, AtStop

\* c[k] is what k levels cost, in terms of the key.
CostsUpTo(levels, key, quantity, d, c) ==
  /\ c \in [0..Len(levels) -> Int] /\ c[0] = 0
  /\ \A k \in 1..Len(levels) :
       c[k] = c[k - 1] + (Taken(quantity, d, k) - Taken(quantity, d, k - 1)) * key[levels[k]]

\* What a level in the walk takes, and what its price is to the stop.
LEMMA TurnCosts ==
  ASSUME NEW p \in Int, NEW stop \in Int, NEW size \in Nat, NEW take \in Int,
         p < stop => take = size, p > stop => take = 0
  PROVE  take * p = stop * take - (IF p < stop THEN (stop - p) * size ELSE 0)
<1>1. CASE p < stop
  <2>1. take = size /\ take * p = stop * take - (stop - p) * take
    BY <1>1
  <2> QED
    BY <1>1, <2>1
<1>2. CASE p > stop
  <2>1. take * p = 0 /\ stop * take = 0
    BY <1>2
  <2> QED
    BY <1>2, <2>1
<1>3. CASE p = stop
  <2>1. take * p = stop * take
    BY <1>3
  <2> QED
    BY <1>3, <2>1
<1> QED
  BY <1>1, <1>2, <1>3

\* A product of a sum.
LEMMA StopTimes ==
  ASSUME NEW stop \in Int, NEW was \in Int, NEW take \in Int
  PROVE  stop * (was + take) = stop * was + stop * take /\ stop * was \in Int /\ stop * take \in Int
  OBVIOUS

\* What one more level takes, from where the walk stops.
LEMMA TurnTakes ==
  ASSUME NEW key \in [Level -> Int], NEW levels \in Seq(Offers), NEW quantity \in Nat, NEW d,
         DepthUpTo(levels, d), NEW stop, StopsAt(levels, key, quantity, d, stop),
         NEW k \in 1..Len(levels)
  PROVE  LET take == Taken(quantity, d, k) - Taken(quantity, d, k - 1)
             l == levels[k]
         IN  /\ Taken(quantity, d, k) \in Nat /\ Taken(quantity, d, k - 1) \in Nat
             /\ l \in Offers /\ l \in Level /\ stop \in Int
             /\ take \in 0..l.size
             /\ key[l] < stop => take = l.size
             /\ key[l] > stop => take = 0
<1>1. k \in 0..Len(levels) /\ k - 1 \in 0..Len(levels) /\ levels[k] \in Offers /\ levels[k] \in Level
  BY OffersAreLevels
<1>2. levels[k].size \in Nat /\ d[k - 1] \in Nat /\ d[k] = d[k - 1] + levels[k].size
  BY <1>1 DEF DepthUpTo, Level
<1>3. /\ stop \in Int
      /\ key[levels[k]] < stop => d[k] <= quantity
      /\ key[levels[k]] > stop => quantity <= d[k - 1]
  BY DEF StopsAt
<1> DEFINE before == d[k - 1]
           after == d[k]
           size == levels[k].size
<1>4. before \in Nat /\ size \in Nat /\ after = before + size
  BY <1>2
<1> HIDE DEF before, after, size
<1>5. /\ Smaller(quantity, after) \in Nat /\ Smaller(quantity, before) \in Nat
      /\ Smaller(quantity, after) - Smaller(quantity, before) \in 0..size
      /\ after <= quantity => Smaller(quantity, after) - Smaller(quantity, before) = size
      /\ quantity <= before => Smaller(quantity, after) - Smaller(quantity, before) = 0
  BY <1>4 DEF Smaller
<1> QED
  BY <1>1, <1>3, <1>5 DEF Taken, before, after, size

\* What a walk costs, whatever the order of the levels.
LEMMA CostIs ==
  ASSUME NEW key \in [Level -> Int], NEW levels \in Seq(Offers), NEW quantity \in Nat, NEW d,
         DepthUpTo(levels, d), NEW stop, StopsAt(levels, key, quantity, d, stop),
         NEW c, CostsUpTo(levels, key, quantity, d, c)
  PROVE  c[Len(levels)] = stop * Taken(quantity, d, Len(levels)) - AmountOf(levels, Saving(key, stop))
<1> DEFINE n == Len(levels)
           g == Saving(key, stop)
<1>1. n \in Nat /\ levels \in Seq(Level) /\ stop \in Int
  BY OffersAreLevels DEF StopsAt
<1>2. \A l \in Level : g[l] \in Int
  BY <1>1, AmountsType
<1>3. PICK a : AmountUpTo(levels, g, a) /\ AmountOf(levels, g) = a[Len(levels)]
  BY <1>1, <1>2, AmountTrace
<1>4. /\ a \in [0..n -> Int] /\ a[0] = 0 /\ \A k \in 1..n : a[k] = a[k - 1] + g[levels[k]]
      /\ AmountOf(levels, g) = a[n]
  <2> HIDE DEF g
  <2> QED
    BY <1>3 DEF AmountUpTo
<1> DEFINE S == {k \in Nat : k <= n => c[k] = stop * Taken(quantity, d, k) - a[k]}
<1>5. 0 \in S
  <2>1. Taken(quantity, d, 0) = 0 /\ c[0] = 0
    BY DEF Taken, Smaller, DepthUpTo, CostsUpTo
  <2> QED
    BY <1>1, <1>4, <2>1
<1>6. ASSUME NEW j \in Nat, j \in S PROVE j + 1 \in S
  <2>1. CASE j + 1 <= n
    <3> DEFINE k == j + 1
    <3>1. k \in 1..Len(levels) /\ k - 1 = j /\ c[j] = stop * Taken(quantity, d, j) - a[j]
      BY <1>1, <1>6, <2>1
    <3> HIDE DEF k
    <3> DEFINE l == levels[k]
               was == Taken(quantity, d, k - 1)
               now == Taken(quantity, d, k)
               take == now - was
    <3>2. /\ now \in Nat /\ was \in Nat /\ l \in Offers /\ l \in Level
          /\ take \in 0..l.size
          /\ key[l] < stop => take = l.size
          /\ key[l] > stop => take = 0
      BY <3>1, TurnTakes
    <3>3. c[k] = c[k - 1] + take * key[l] /\ a[k] = a[k - 1] + g[l] /\ a[k - 1] \in Int
      <4>1. k - 1 \in 0..n
        BY <1>1, <3>1
      <4> QED
        BY <1>4, <3>1, <4>1 DEF CostsUpTo
    <3>4. /\ l.size \in Nat /\ key[l] \in Int
          /\ g[l] = IF key[l] < stop THEN (stop - key[l]) * l.size ELSE 0
          /\ g[l] \in Int
      <4> HIDE DEF l, was, now, take
      <4>1. /\ l.size \in Nat /\ key[l] \in Int /\ Saving(key, stop)[l] \in Nat
            /\ Saving(key, stop)[l]
                 = IF l \in Offers /\ key[l] < stop THEN (stop - key[l]) * l.size ELSE 0
        BY <1>1, <3>2, AmountsType, SMTT(30)
      <4> HIDE DEF g
      <4>2. g = Saving(key, stop)
        BY DEF g
      <4> QED
        BY <3>2, <4>1, <4>2
    <3>5. now = was + take /\ take \in Int
      BY <3>2
    <3> HIDE DEF l, was, now, take, g
    <3>6. take * key[l] = stop * take - g[l]
      <4>1. take * key[l] = stop * take - (IF key[l] < stop THEN (stop - key[l]) * l.size ELSE 0)
        <5> DEFINE p == key[l]
                   size == l.size
        <5>1. /\ p \in Int /\ size \in Nat /\ stop \in Int /\ take \in Int
              /\ p < stop => take = size
              /\ p > stop => take = 0
          BY <1>1, <3>2, <3>4, <3>5
        <5> HIDE DEF p, size
        <5>2. take * p = stop * take - (IF p < stop THEN (stop - p) * size ELSE 0)
          BY <5>1, TurnCosts
        <5> QED
          BY <5>2 DEF p, size
      <4> QED
        BY <3>4, <4>1
    <3>7. stop * now = stop * was + stop * take /\ stop * was \in Int /\ stop * take \in Int
      BY <1>1, <3>2, <3>5, StopTimes
    <3>8. c[k - 1] = stop * was - a[k - 1]
      BY <3>1 DEF was
    <3>9. c[k] = stop * now - a[k]
      BY <3>3, <3>4, <3>6, <3>7, <3>8
    <3> QED
      BY <3>9 DEF k, now
  <2> QED
    BY <1>1, <2>1
<1> HIDE DEF S
<1>7. n \in S
  BY <1>1, <1>5, <1>6, SetInduction
<1> QED
  BY <1>1, <1>4, <1>7 DEF S

\* A walk takes what is below its stop and no more than what is at it besides.
LEMMA StopBounds ==
  ASSUME NEW key \in [Level -> Int], NEW levels \in Seq(Offers), NEW quantity \in Nat, NEW d,
         DepthUpTo(levels, d), NEW stop, StopsAt(levels, key, quantity, d, stop)
  PROVE  /\ AmountOf(levels, Below(key, stop)) <= Taken(quantity, d, Len(levels))
         /\ Taken(quantity, d, Len(levels)) <=
              AmountOf(levels, Below(key, stop)) + AmountOf(levels, AtStop(key, stop))
<1> DEFINE n == Len(levels)
           g == Below(key, stop)
           h == AtStop(key, stop)
<1>1. n \in Nat /\ levels \in Seq(Level) /\ stop \in Int
  BY OffersAreLevels DEF StopsAt
<1>2. \A l \in Level : g[l] \in Int /\ h[l] \in Int
  BY <1>1, AmountsType
<1>3. /\ \A l \in Level : key[l] \in Int /\ l.size \in Nat
      /\ \A l \in Offers : /\ g[l] = IF key[l] < stop THEN l.size ELSE 0
                           /\ h[l] = IF key[l] = stop THEN l.size ELSE 0
  <2>1. \A l \in Offers : l \in Level
    BY DEF Offers
  <2> QED
    BY <1>1, <2>1, AmountsType
<1> HIDE DEF g, h
<1>4. PICK a : AmountUpTo(levels, g, a) /\ AmountOf(levels, g) = a[Len(levels)]
  BY <1>1, <1>2, AmountTrace
<1>5. PICK b : AmountUpTo(levels, h, b) /\ AmountOf(levels, h) = b[Len(levels)]
  BY <1>1, <1>2, AmountTrace
<1>6. /\ a \in [0..n -> Int] /\ a[0] = 0 /\ \A k \in 1..n : a[k] = a[k - 1] + g[levels[k]]
      /\ AmountOf(levels, g) = a[n]
  BY <1>4 DEF AmountUpTo
<1>7. /\ b \in [0..n -> Int] /\ b[0] = 0 /\ \A k \in 1..n : b[k] = b[k - 1] + h[levels[k]]
      /\ AmountOf(levels, h) = b[n]
  BY <1>5 DEF AmountUpTo
<1> DEFINE S == {k \in Nat : k <= n => /\ a[k] <= Taken(quantity, d, k)
                                       /\ Taken(quantity, d, k) <= a[k] + b[k]}
<1>8. 0 \in S
  <2>1. Taken(quantity, d, 0) = 0
    BY DEF Taken, Smaller, DepthUpTo
  <2> QED
    BY <1>1, <1>6, <1>7, <2>1
<1>9. ASSUME NEW j \in Nat, j \in S PROVE j + 1 \in S
  <2>1. CASE j + 1 <= n
    <3> DEFINE k == j + 1
    <3>1. /\ k \in 1..Len(levels) /\ k - 1 = j
          /\ a[j] <= Taken(quantity, d, j) /\ Taken(quantity, d, j) <= a[j] + b[j]
      BY <1>1, <1>9, <2>1
    <3> HIDE DEF k
    <3> DEFINE l == levels[k]
               was == Taken(quantity, d, k - 1)
               now == Taken(quantity, d, k)
               take == now - was
    <3>2. /\ now \in Nat /\ was \in Nat /\ l \in Offers /\ l \in Level
          /\ take \in 0..l.size
          /\ key[l] < stop => take = l.size
          /\ key[l] > stop => take = 0
      BY <3>1, TurnTakes
    <3>3. /\ a[k] = a[k - 1] + g[l] /\ a[k - 1] \in Int
          /\ b[k] = b[k - 1] + h[l] /\ b[k - 1] \in Int
      <4>1. k - 1 \in 0..n
        BY <1>1, <3>1
      <4> QED
        BY <1>6, <1>7, <3>1, <4>1
    <3>4. /\ l.size \in Nat /\ key[l] \in Int
          /\ g[l] = IF key[l] < stop THEN l.size ELSE 0
          /\ h[l] = IF key[l] = stop THEN l.size ELSE 0
      BY <1>3, <3>2
    <3>5. now = was + take /\ take \in Int
      BY <3>2
    <3>6. a[k - 1] <= was /\ was <= a[k - 1] + b[k - 1]
      BY <3>1
    <3> HIDE DEF l, was, now, take
    <3>7. g[l] <= take /\ take <= g[l] + h[l] /\ g[l] \in Int /\ h[l] \in Int
      BY <1>1, <3>2, <3>4, <3>5
    <3>8. a[k] <= now /\ now <= a[k] + b[k]
      BY <3>2, <3>3, <3>5, <3>6, <3>7
    <3> QED
      BY <3>8 DEF k, now
  <2> QED
    BY <1>1, <2>1
<1> HIDE DEF S
<1>10. n \in S
  BY <1>1, <1>8, <1>9, SetInduction
<1> QED
  BY <1>1, <1>6, <1>7, <1>10 DEF S, g, h

-----------------------------------------------------------------------------
\* A way of taking shares from the levels, and what it is worth in terms of the key.
IsTaking(levels, t) ==
  \A k \in 1..Len(levels) :
    t[k] \in Int /\ t[k] \in 0..levels[k].size /\ (levels[k].price = 0 => t[k] = 0)

WorthUpTo(levels, key, t, v) ==
  /\ v \in [0..Len(levels) -> Int] /\ v[0] = 0
  /\ \A k \in 1..Len(levels) : v[k] = v[k - 1] + t[k] * key[levels[k]]

\* What is taken of a level saves no more against the stop than the level offers.
LEMMA TakeSaves ==
  ASSUME NEW p \in Int, NEW stop \in Int, NEW size \in Nat, NEW take \in 0..size
  PROVE  take * p >= stop * take - (IF p < stop THEN (stop - p) * size ELSE 0)
<1>1. take \in Nat /\ take <= size
  OBVIOUS
<1>2. CASE p < stop
  <2>1. PICK gap \in Nat : gap = stop - p
    BY <1>2
  <2>2. gap * take <= gap * size
    BY <1>1, <2>1, ProductGrows
  <2>3. gap * take = stop * take - take * p
    BY <1>1, <2>1
  <2> QED
    BY <1>1, <1>2, <2>1, <2>2, <2>3
<1>3. CASE p >= stop
  <2>1. take * stop <= take * p
    <3>1. PICK gap \in Nat : p = stop + gap
      <4>1. p - stop \in Nat /\ p = stop + (p - stop)
        BY <1>3
      <4> QED
        BY <4>1
    <3>2. take * p = take * stop + take * gap /\ take * gap \in Nat /\ take * stop \in Int
      BY <1>1, <3>1
    <3> QED
      BY <3>2
  <2>2. take * stop = stop * take /\ take * p \in Int
    BY <1>1
  <2> QED
    BY <1>1, <1>3, <2>1, <2>2
<1> QED
  BY <1>2, <1>3

\* Any taking of as many shares costs at least as much.
LEMMA TakingCosts ==
  ASSUME NEW key \in [Level -> Int], NEW levels \in Seq(Level), NEW stop \in Int,
         NEW t, IsTaking(levels, t), NEW s, RunningSum(t, Len(levels), s),
         NEW v, WorthUpTo(levels, key, t, v)
  PROVE  v[Len(levels)] >= stop * s[Len(levels)] - AmountOf(levels, Saving(key, stop))
<1> DEFINE n == Len(levels)
           g == Saving(key, stop)
<1>1. n \in Nat /\ \A k \in 1..n : levels[k] \in Level
  OBVIOUS
<1>2. ASSUME NEW l \in Level PROVE g[l] \in Int
  <2>1. Saving(key, stop)[l] \in Nat
    BY AmountsType
  <2> QED
    BY <2>1
<1>3. PICK a : AmountUpTo(levels, g, a) /\ AmountOf(levels, g) = a[Len(levels)]
  BY <1>1, <1>2, AmountTrace
<1>4. /\ a \in [0..n -> Int] /\ a[0] = 0 /\ \A k \in 1..n : a[k] = a[k - 1] + g[levels[k]]
      /\ AmountOf(levels, g) = a[n]
  <2> HIDE DEF g
  <2> QED
    BY <1>3 DEF AmountUpTo
<1>5. /\ s \in [0..n -> Int] /\ s[0] = 0
      /\ \A k \in 1..n : t[k] \in Int /\ s[k] = s[k - 1] + t[k]
  BY DEF RunningSum
<1>6. /\ v \in [0..n -> Int] /\ v[0] = 0
      /\ \A k \in 1..n : v[k] = v[k - 1] + t[k] * key[levels[k]]
  BY DEF WorthUpTo
<1> DEFINE S == {k \in Nat : k <= n => v[k] >= stop * s[k] - a[k]}
<1>7. 0 \in S
  <2>1. stop * s[0] = 0
    BY <1>5
  <2> QED
    BY <1>4, <1>6, <2>1
<1>8. ASSUME NEW j \in Nat, j \in S PROVE j + 1 \in S
  <2>1. CASE j + 1 <= n
    <3> DEFINE k == j + 1
    <3>1. k \in 1..n /\ k - 1 = j /\ v[j] >= stop * s[j] - a[j] /\ k - 1 \in 0..n
      BY <1>1, <1>8, <2>1
    <3> HIDE DEF k
    <3> DEFINE l == levels[k]
               take == t[k]
    <3>2. l \in Level /\ take \in 0..l.size /\ take \in Int /\ (l.price = 0 => take = 0)
      BY <1>1, <3>1 DEF IsTaking
    <3>3. /\ l.price \in Nat /\ l.size \in Nat /\ key[l] \in Int /\ g[l] \in Int
          /\ g[l] = IF l \in Offers /\ key[l] < stop THEN (stop - key[l]) * l.size ELSE 0
      BY <3>2, AmountsType
    <3>4. l \notin Offers => take = 0
      BY <3>2, <3>3 DEF Offers
    <3>5. /\ a[k] = a[k - 1] + g[l] /\ a[k - 1] \in Int
          /\ s[k] = s[k - 1] + take /\ s[k - 1] \in Int
          /\ v[k] = v[k - 1] + take * key[l] /\ v[k - 1] \in Int
      BY <1>4, <1>5, <1>6, <3>1
    <3>6. v[k - 1] >= stop * s[k - 1] - a[k - 1]
      BY <3>1
    <3> HIDE DEF l, take, g
    <3>7. take * key[l] >= stop * take - g[l]
      <4>1. CASE l \in Offers
        <5>1. g[l] = IF key[l] < stop THEN (stop - key[l]) * l.size ELSE 0
          BY <3>3, <4>1
        <5>2. take * key[l] >= stop * take - (IF key[l] < stop THEN (stop - key[l]) * l.size ELSE 0)
          BY <3>2, <3>3, TakeSaves
        <5> QED
          BY <5>1, <5>2
      <4>2. CASE l \notin Offers
        <5>1. g[l] = 0 /\ take = 0
          BY <3>3, <3>4, <4>2
        <5>2. take * key[l] = 0 /\ stop * take = 0
          BY <3>3, <5>1
        <5> QED
          BY <5>1, <5>2
      <4> QED
        BY <4>1, <4>2
    <3>8. stop * (s[k - 1] + take) = stop * s[k - 1] + stop * take
          /\ stop * s[k - 1] \in Int /\ stop * take \in Int
      BY <3>2, <3>5, StopTimes
    <3>9. take * key[l] \in Int
      BY <3>2, <3>3
    <3> DEFINE x == stop * s[k - 1]
               y == stop * take
               z == take * key[l]
    <3>10. /\ stop * s[k] = x + y /\ v[k] = v[k - 1] + z /\ x \in Int /\ y \in Int /\ z \in Int
           /\ z >= y - g[l] /\ v[k - 1] >= x - a[k - 1]
      BY <3>5, <3>6, <3>7, <3>8, <3>9
    <3> HIDE DEF x, y, z
    <3>11. v[k] >= stop * s[k] - a[k]
      BY <3>3, <3>5, <3>10
    <3> QED
      BY <3>11 DEF k
  <2> QED
    BY <1>1, <2>1
<1> HIDE DEF S
<1>9. n \in S
  BY <1>1, <1>7, <1>8, SetInduction
<1> QED
  BY <1>1, <1>4, <1>9 DEF S

\* t is a taking of a quantity worth just what a walk that stops there costs.
IsLeast(levels, key, stop, quantity, t) ==
  /\ t \in [1..Len(levels) -> Int] /\ IsTaking(levels, t)
  /\ SumFunctionOnSet(t, 1..Len(levels)) = quantity
  /\ \A v : WorthUpTo(levels, key, t, v) =>
       v[Len(levels)] = stop * quantity - AmountOf(levels, Saving(key, stop))

\* What is taken of a level below the stop, at it and beyond it.
TakesLeast(take, l, key, stop) ==
  /\ take \in Int /\ take \in 0..l.size /\ (l.price = 0 => take = 0)
  /\ take * key[l] = stop * take - Saving(key, stop)[l]

\* Of one level, no taking saves more than one that stops at the price does.
LEMMA LeastTake ==
  ASSUME NEW key \in [Level -> Int], NEW stop \in Int, NEW l \in Level, NEW part \in Int,
         part \in 0..AtStop(key, stop)[l], NEW take, take = Below(key, stop)[l] + part
  PROVE  TakesLeast(take, l, key, stop)
<1> DEFINE b == Below(key, stop)[l]
           h == AtStop(key, stop)[l]
           g == Saving(key, stop)[l]
<1>1. /\ l.price \in Nat /\ l.size \in Nat /\ key[l] \in Int
      /\ g = IF l \in Offers /\ key[l] < stop THEN (stop - key[l]) * l.size ELSE 0
      /\ b = IF l \in Offers /\ key[l] < stop THEN l.size ELSE 0
      /\ h = IF l \in Offers /\ key[l] = stop THEN l.size ELSE 0
  BY AmountsType
<1>2. part \in 0..h /\ take = b + part
  OBVIOUS
<1> HIDE DEF b, h, g
<1>3. CASE l \in Offers
  <2>1. /\ key[l] < stop => take = l.size
        /\ key[l] > stop => take = 0
        /\ take \in 0..l.size /\ take \in Int
    BY <1>1, <1>2, <1>3
  <2>2. g = IF key[l] < stop THEN (stop - key[l]) * l.size ELSE 0
    BY <1>1, <1>3
  <2>3. take * key[l] = stop * take - (IF key[l] < stop THEN (stop - key[l]) * l.size ELSE 0)
    BY <1>1, <2>1, TurnCosts
  <2>4. l.price # 0
    BY <1>3 DEF Offers
  <2> QED
    BY <2>1, <2>2, <2>3, <2>4 DEF g, TakesLeast
<1>4. CASE l \notin Offers
  <2>1. g = 0 /\ take = 0
    BY <1>1, <1>2, <1>4
  <2>2. take * key[l] = 0 /\ stop * take = 0
    BY <1>1, <2>1
  <2>3. take * key[l] = stop * take - Saving(key, stop)[l]
    BY <2>1, <2>2 DEF g
  <2>4. take \in Int /\ take \in 0..l.size
    BY <1>1, <2>1
  <2> QED
    BY <2>1, <2>3, <2>4 DEF TakesLeast
<1> QED
  BY <1>3, <1>4

\* A share of what is taken at the stop.
LEMMA PartOf ==
  ASSUME NEW rest \in Int, NEW was \in Int, NEW h \in Nat
  PROVE  /\ Smaller(rest, was) \in Int /\ Smaller(rest, was + h) \in Int
         /\ Smaller(rest, was + h) - Smaller(rest, was) \in 0..h
  BY DEF Smaller

\* Some taking costs as little as a walk.
LEMMA LeastTaking ==
  ASSUME NEW key \in [Level -> Int], NEW levels \in Seq(Level), NEW stop \in Int,
         NEW quantity \in Int,
         AmountOf(levels, Below(key, stop)) <= quantity,
         quantity <= AmountOf(levels, Below(key, stop)) + AmountOf(levels, AtStop(key, stop))
  PROVE  \E t : IsLeast(levels, key, stop, quantity, t)
<1> DEFINE n == Len(levels)
           b == Below(key, stop)
           h == AtStop(key, stop)
           g == Saving(key, stop)
<1>1. n \in Nat /\ \A k \in 1..n : levels[k] \in Level
  OBVIOUS
<1>2. ASSUME NEW l \in Level PROVE b[l] \in Nat /\ h[l] \in Nat /\ g[l] \in Nat
  <2>1. Below(key, stop)[l] \in Nat /\ AtStop(key, stop)[l] \in Nat /\ Saving(key, stop)[l] \in Nat
    BY AmountsType
  <2> QED
    BY <2>1
<1>3. AmountOf(levels, b) <= quantity /\ quantity <= AmountOf(levels, b) + AmountOf(levels, h)
  OBVIOUS
<1>4. ASSUME NEW l \in Level, NEW part \in Int, part \in 0..h[l], NEW take, take = b[l] + part
      PROVE  TakesLeast(take, l, key, stop)
  BY <1>4, LeastTake
<1> HIDE DEF b, h, g
<1>5. /\ \A l \in Level : b[l] \in Int
      /\ \A l \in Level : h[l] \in Int
      /\ \A l \in Level : g[l] \in Int
  BY <1>2
<1>6. PICK lo : AmountUpTo(levels, b, lo) /\ AmountOf(levels, b) = lo[Len(levels)]
  BY <1>5, AmountTrace
<1>7. PICK e : AmountUpTo(levels, h, e) /\ AmountOf(levels, h) = e[Len(levels)]
  BY <1>5, AmountTrace
<1>8. PICK a : AmountUpTo(levels, g, a) /\ AmountOf(levels, g) = a[Len(levels)]
  BY <1>5, AmountTrace
<1>9. /\ lo \in [0..n -> Int] /\ lo[0] = 0 /\ \A k \in 1..n : lo[k] = lo[k - 1] + b[levels[k]]
      /\ AmountOf(levels, b) = lo[n]
  BY <1>6 DEF AmountUpTo
<1>10. /\ e \in [0..n -> Int] /\ e[0] = 0 /\ \A k \in 1..n : e[k] = e[k - 1] + h[levels[k]]
       /\ AmountOf(levels, h) = e[n]
  BY <1>7 DEF AmountUpTo
<1>11. /\ a \in [0..n -> Int] /\ a[0] = 0 /\ \A k \in 1..n : a[k] = a[k - 1] + g[levels[k]]
       /\ AmountOf(levels, g) = a[n]
  BY <1>8 DEF AmountUpTo
<1> DEFINE rest == quantity - lo[n]
           part(k) == Smaller(rest, e[k]) - Smaller(rest, e[k - 1])
           t == [k \in 1..n |-> b[levels[k]] + part(k)]
           s == [k \in 0..n |-> lo[k] + Smaller(rest, e[k])]
<1>12. n \in 0..n /\ 0 \in 0..n /\ rest \in Int /\ 0 <= rest /\ rest <= e[n]
  BY <1>1, <1>3, <1>9, <1>10
<1>13. ASSUME NEW k \in 1..n
       PROVE  /\ levels[k] \in Level /\ part(k) \in Int /\ part(k) \in 0..h[levels[k]]
              /\ t[k] = b[levels[k]] + part(k) /\ s[k] = s[k - 1] + t[k]
  <2>1. k \in 0..n /\ k - 1 \in 0..n /\ levels[k] \in Level
    BY <1>1
  <2>2. /\ e[k] = e[k - 1] + h[levels[k]] /\ e[k - 1] \in Int
        /\ h[levels[k]] \in Nat
    BY <1>2, <1>10, <2>1
  <2>3. /\ lo[k] = lo[k - 1] + b[levels[k]] /\ lo[k - 1] \in Int
        /\ b[levels[k]] \in Nat
    BY <1>2, <1>9, <2>1
  <2> DEFINE y == e[k - 1]
             z == h[levels[k]]
             u == Smaller(rest, e[k])
             w == Smaller(rest, e[k - 1])
  <2>4. u \in Int /\ w \in Int /\ u - w \in 0..z
    <3> HIDE DEF rest, y, z
    <3>1. /\ Smaller(rest, y) \in Int /\ Smaller(rest, y + z) \in Int
          /\ Smaller(rest, y + z) - Smaller(rest, y) \in 0..z
      <4>1. y \in Int /\ z \in Nat
        BY <2>2 DEF y, z
      <4> QED
        BY <1>12, <4>1, PartOf
    <3>2. e[k] = y + z /\ e[k - 1] = y
      BY <2>2 DEF y, z
    <3> QED
      BY <3>1, <3>2
  <2>5. part(k) = u - w /\ t[k] = b[levels[k]] + (u - w) /\ s[k] = lo[k] + u /\ s[k - 1] = lo[k - 1] + w
    BY <2>1
  <2> HIDE DEF u, w, t, s, part
  <2>6. s[k] = s[k - 1] + t[k]
    <3> DEFINE x == lo[k - 1]
               c == b[levels[k]]
    <3>1. /\ x \in Int /\ c \in Int /\ u \in Int /\ w \in Int
          /\ s[k] = (x + c) + u /\ s[k - 1] = x + w /\ t[k] = c + (u - w)
      BY <2>3, <2>4, <2>5
    <3> HIDE DEF x, c
    <3> QED
      BY <3>1
  <2>7. part(k) \in Int /\ part(k) \in 0..z /\ t[k] = b[levels[k]] + part(k)
    BY <2>2, <2>4, <2>5
  <2> QED
    BY <2>1, <2>6, <2>7
<1>14. s \in [0..n -> Int] /\ s[0] = 0 /\ s[n] = quantity
  <2>1. ASSUME NEW k \in 0..n PROVE lo[k] + Smaller(rest, e[k]) \in Int
    BY <1>9, <1>10, <1>12 DEF Smaller
  <2>2. s[0] = 0
    BY <1>9, <1>10, <1>12 DEF Smaller
  <2>3. Smaller(rest, e[n]) = rest
    BY <1>10, <1>12 DEF Smaller
  <2>4. s[n] = lo[n] + rest /\ lo[n] \in Int
    BY <1>9, <1>12, <2>3
  <2> QED
    BY <2>1, <2>2, <2>4
<1>15. ASSUME NEW k \in 1..n
       PROVE  /\ t[k] \in Int /\ t[k] \in 0..levels[k].size /\ (levels[k].price = 0 => t[k] = 0)
              /\ t[k] * key[levels[k]] = stop * t[k] - g[levels[k]]
  <2>1. /\ levels[k] \in Level /\ part(k) \in Int /\ part(k) \in 0..h[levels[k]]
        /\ t[k] = b[levels[k]] + part(k)
    BY <1>13
  <2> HIDE DEF t, part
  <2>2. TakesLeast(t[k], levels[k], key, stop)
    BY <1>4, <2>1
  <2> QED
    BY <2>2 DEF TakesLeast, g
<1>16. t \in [1..n -> Int]
  <2>1. t = [k \in 1..n |-> t[k]]
    OBVIOUS
  <2> HIDE DEF t
  <2> QED
    BY <1>15, <2>1
<1>17. \A k \in 1..n : s[k] = s[k - 1] + t[k]
  BY <1>13
<1> HIDE DEF t, s, rest
<1>18. RunningSum(t, n, s)
  BY <1>1, <1>14, <1>15, <1>17 DEF RunningSum
<1>19. SumFunctionOnSet(t, 1..n) = quantity
  BY <1>14, <1>18, RunningSumIs
<1>20. ASSUME NEW v, WorthUpTo(levels, key, t, v)
       PROVE  v[n] = stop * quantity - AmountOf(levels, g)
  <2>1. /\ v \in [0..n -> Int] /\ v[0] = 0
        /\ \A k \in 1..n : v[k] = v[k - 1] + t[k] * key[levels[k]]
    BY <1>20 DEF WorthUpTo
  <2> DEFINE S == {k \in Nat : k <= n => v[k] = stop * s[k] - a[k]}
  <2>2. 0 \in S
    <3>1. stop * s[0] = 0
      BY <1>14
    <3> QED
      BY <1>11, <2>1, <3>1
  <2>3. ASSUME NEW j \in Nat, j \in S PROVE j + 1 \in S
    <3>1. CASE j + 1 <= n
      <4> DEFINE k == j + 1
      <4>1. k \in 1..n /\ k - 1 = j /\ v[j] = stop * s[j] - a[j] /\ k - 1 \in 0..n
        BY <1>1, <2>3, <3>1
      <4> HIDE DEF k
      <4> DEFINE x == stop * s[k - 1]
                 y == stop * t[k]
                 saved == g[levels[k]]
      <4>2. /\ v[k] = v[k - 1] + t[k] * key[levels[k]] /\ v[k - 1] = x - a[k - 1]
            /\ t[k] * key[levels[k]] = y - saved
        BY <1>15, <2>1, <4>1
      <4>3. a[k] = a[k - 1] + saved /\ a[k - 1] \in Int /\ saved \in Int /\ levels[k] \in Level
        BY <1>1, <1>5, <1>11, <4>1
      <4>4. s[k] = s[k - 1] + t[k] /\ s[k - 1] \in Int /\ t[k] \in Int
        BY <1>14, <1>15, <1>17, <4>1
      <4>5. stop * s[k] = x + y /\ x \in Int /\ y \in Int
        BY <4>4, StopTimes
      <4> HIDE DEF x, y, saved
      <4>6. v[k] = stop * s[k] - a[k]
        BY <4>2, <4>3, <4>5
      <4> QED
        BY <4>6 DEF k
    <3> QED
      BY <1>1, <3>1
  <2> HIDE DEF S
  <2>4. n \in S
    BY <1>1, <2>2, <2>3, SetInduction
  <2> QED
    BY <1>1, <1>11, <1>14, <2>4 DEF S
<1>21. IsLeast(levels, key, stop, quantity, t)
  BY <1>15, <1>16, <1>19, <1>20 DEF IsLeast, IsTaking, g
<1> QED
  BY <1>21

\* Two lists of levels offer the same, perhaps in another order.
SameOffers(levels, raw) ==
  \A g \in [Level -> Int] :
    (\A l \in Level : l \notin Offers => g[l] = 0) => AmountOf(levels, g) = AmountOf(raw, g)

\* Sorting the offers of a payload keeps them all.
LEMMA SortedOffers ==
  ASSUME NEW key \in [Level -> Int], NEW raw \in Seq(Level), NEW levels,
         levels = Select(raw, Offers), NEW f, SortedUpTo(levels, Offers, key, f)
  PROVE  /\ f[Len(levels)] \in Seq(Offers) /\ InOrder(f[Len(levels)], key)
         /\ SameOffers(f[Len(levels)], raw)
<1>1. levels \in Seq(Level \intersect Offers) /\ Level \intersect Offers = Offers
  BY SelectType DEF Offers
<1>2. levels \in Seq(Offers) /\ Offers \in SUBSET Level
  BY <1>1 DEF Offers
<1> DEFINE n == Len(levels)
           sorted == f[n]
<1>3. sorted \in Seq(Offers) /\ InOrder(sorted, key)
  <2>1. n \in 0..Len(levels)
    BY <1>2
  <2> QED
    BY <2>1 DEF SortedUpTo, SortedBy
<1>4. ASSUME NEW g \in [Level -> Int], \A l \in Level : l \notin Offers => g[l] = 0
      PROVE  AmountOf(sorted, g) = AmountOf(raw, g)
  <2>1. \A l \in Level : g[l] \in Int
    OBVIOUS
  <2>3. AmountOf(sorted, g) = AmountOf(levels, g)
    <3>1. levels \in Seq(Offers) /\ Offers \in SUBSET Level /\ SortedUpTo(levels, Offers, key, f)
      BY <1>2
    <3>2. Numbers(key, Offers) /\ Numbers(g, Offers)
      BY <3>1 DEF Numbers
    <3>3. AmountOf(f[Len(levels)], g) = AmountOf(levels, g)
      BY <3>1, <3>2, SortAmount
    <3> QED
      BY <3>3
  <2>4. AmountOf(Select(raw, Offers), g) = AmountOf(raw, g)
    BY <1>4, <2>1, SelectAmount
  <2> QED
    BY <2>3, <2>4
<1>5. SameOffers(sorted, raw)
  BY <1>4 DEF SameOffers
<1> QED
  BY <1>3, <1>5

\* Sorted either way, the offers have the same depth.
LEMMA SameDepth ==
  ASSUME NEW levels \in Seq(Offers), NEW raw, SameOffers(levels, raw)
  PROVE  Depth(levels) = AmountOf(raw, Sizes)
<1>1. Sizes \in [Level -> Int] /\ \A l \in Level : l \notin Offers => Sizes[l] = 0
  BY DEF Sizes, Level
<1>2. AmountOf(levels, Sizes) = AmountOf(raw, Sizes)
  BY <1>1 DEF SameOffers
<1> QED
  BY <1>2, DepthIsAmount

\* What a taking is worth, by price and by price downwards.
IsWorth(raw, t, value) ==
  value = SumFunctionOnSet([k \in 1..Len(raw) |-> t[k] * raw[k].price], 1..Len(raw))

HasWorth(raw, t, value) ==
  /\ value \in Int
  /\ \E v : WorthUpTo(raw, ByPrice, t, v) /\ v[Len(raw)] = value
  /\ \E v : WorthUpTo(raw, ByPriceDown, t, v) /\ v[Len(raw)] = 0 - value

\* What a taking is worth is a sum over its levels.
LEMMA WorthExists ==
  ASSUME NEW raw \in Seq(Level), NEW t, IsTaking(raw, t), NEW value, IsWorth(raw, t, value)
  PROVE  HasWorth(raw, t, value)
<1> DEFINE n == Len(raw)
           h == [k \in 1..n |-> t[k] * raw[k].price]
<1>1. /\ n \in Nat
      /\ \A k \in 1..n : raw[k] \in Level /\ t[k] \in Int
  BY DEF IsTaking
<1>2. \A k \in 1..n : /\ raw[k].price \in Nat /\ ByPrice[raw[k]] = raw[k].price
                      /\ ByPriceDown[raw[k]] = 0 - raw[k].price
  BY <1>1, KeysType
<1>3. ASSUME NEW k \in 1..n
      PROVE  h[k] \in Int /\ h[k] = t[k] * ByPrice[raw[k]] /\ t[k] * ByPriceDown[raw[k]] = 0 - h[k]
  <2>1. raw[k].price \in Nat /\ t[k] \in Int /\ h[k] = t[k] * raw[k].price
    BY <1>1, <1>2
  <2>2. t[k] * (0 - raw[k].price) = 0 - t[k] * raw[k].price
    BY <2>1
  <2> QED
    BY <1>2, <2>1, <2>2
<1>4. value = SumFunctionOnSet(h, 1..n)
  BY DEF IsWorth
<1> HIDE DEF h, n
<1>5. Numbers(h, 1..n)
  BY <1>3 DEF Numbers
<1>6. PICK u : RunningSum(h, n, u) /\ u[n] = value
  BY <1>1, <1>4, <1>5, RunningSumExists
<1>7. u \in [0..n -> Int] /\ u[0] = 0 /\ \A k \in 1..n : u[k] = u[k - 1] + h[k]
  BY <1>6 DEF RunningSum
<1>8. n \in 0..n /\ 0 \in 0..n /\ \A k \in 1..n : k \in 0..n /\ k - 1 \in 0..n
  BY <1>1
<1>9. WorthUpTo(raw, ByPrice, t, u)
  BY <1>3, <1>7 DEF WorthUpTo, n
<1> DEFINE w == [k \in 0..n |-> 0 - u[k]]
<1>10. w \in [0..n -> Int] /\ w[0] = 0 /\ w[n] = 0 - value
  BY <1>6, <1>7, <1>8
<1>11. ASSUME NEW k \in 1..n PROVE w[k] = w[k - 1] + t[k] * ByPriceDown[raw[k]]
  <2>1. w[k] = 0 - u[k] /\ w[k - 1] = 0 - u[k - 1] /\ u[k - 1] \in Int
    BY <1>7, <1>8
  <2>2. u[k] = u[k - 1] + h[k] /\ h[k] \in Int /\ t[k] * ByPriceDown[raw[k]] = 0 - h[k]
    BY <1>3, <1>7
  <2> HIDE DEF w
  <2> QED
    BY <2>1, <2>2
<1> HIDE DEF w
<1>12. WorthUpTo(raw, ByPriceDown, t, w)
  BY <1>10, <1>11 DEF WorthUpTo, n
<1> QED
  BY <1>6, <1>7, <1>8, <1>9, <1>10, <1>12 DEF n, HasWorth

\* What a walk costs, by price and by price downwards.
LEMMA CostsExist ==
  ASSUME NEW levels \in Seq(Level), NEW quantity \in Nat, NEW d, DepthUpTo(levels, d)
  PROVE  /\ WalkQuantity(levels, quantity).cost \in Nat
         /\ \E c : /\ CostsUpTo(levels, ByPrice, quantity, d, c)
                   /\ c[Len(levels)] = WalkQuantity(levels, quantity).cost
         /\ \E c : /\ CostsUpTo(levels, ByPriceDown, quantity, d, c)
                   /\ c[Len(levels)] = 0 - WalkQuantity(levels, quantity).cost
<1> DEFINE n == Len(levels)
<1>1. PICK f : /\ TakenUpTo(levels, quantity, f)
               /\ WalkQuantity(levels, quantity) =
                     [quantity |-> quantity - f[n].remaining, cost |-> f[n].cost,
                      full |-> f[n].remaining = 0, consumed |-> f[n].consumed]
  BY WalkTrace
<1>2. /\ n \in Nat /\ n \in 0..n /\ 0 \in 0..n
      /\ \A k \in 1..n : levels[k] \in Level /\ k \in 0..n /\ k - 1 \in 0..n
  OBVIOUS
<1>3. WalkQuantity(levels, quantity).cost = f[n].cost
  BY <1>1
<1>4. /\ \A k \in 0..n : f[k].cost \in Nat
      /\ f[0].cost = 0
  BY <1>1 DEF TakenUpTo, Walking
<1>5. \A k \in 1..n : LevelCosts(levels, quantity, f, d, k)
  BY <1>1, WalkCosts
<1> DEFINE c == [k \in 0..n |-> f[k].cost]
           w == [k \in 0..n |-> 0 - f[k].cost]
<1>6. c \in [0..n -> Int] /\ c[0] = 0 /\ w \in [0..n -> Int] /\ w[0] = 0
      /\ c[n] = f[n].cost /\ w[n] = 0 - f[n].cost
  BY <1>2, <1>4
<1>7. ASSUME NEW k \in 1..n
      PROVE  LET take == Taken(quantity, d, k) - Taken(quantity, d, k - 1)
             IN  /\ c[k] = c[k - 1] + take * ByPrice[levels[k]]
                 /\ w[k] = w[k - 1] + take * ByPriceDown[levels[k]]
  <2> DEFINE take == Taken(quantity, d, k) - Taken(quantity, d, k - 1)
             p == levels[k].price
             x == f[k - 1].cost
             y == f[k].cost
  <2>1. p \in Nat /\ x \in Nat /\ y \in Nat /\ take \in Nat /\ y = x + take * p
    BY <1>5 DEF LevelCosts
  <2>2. ByPrice[levels[k]] = p /\ ByPriceDown[levels[k]] = 0 - p
    BY <1>2, KeysType
  <2>3. c[k] = y /\ c[k - 1] = x /\ w[k] = 0 - y /\ w[k - 1] = 0 - x
    BY <1>2
  <2> HIDE DEF take, p, x, y, c, w
  <2>4. take * (0 - p) = 0 - take * p /\ take * p \in Int
    BY <2>1
  <2>5. c[k] = c[k - 1] + take * ByPrice[levels[k]]
    BY <2>1, <2>2, <2>3
  <2>6. w[k] = w[k - 1] + take * ByPriceDown[levels[k]]
    BY <2>1, <2>2, <2>3, <2>4
  <2> QED
    BY <2>5, <2>6 DEF take
<1> HIDE DEF c, w
<1>8. CostsUpTo(levels, ByPrice, quantity, d, c)
  BY <1>6, <1>7 DEF CostsUpTo
<1>9. CostsUpTo(levels, ByPriceDown, quantity, d, w)
  BY <1>6, <1>7 DEF CostsUpTo
<1> QED
  BY <1>2, <1>3, <1>4, <1>6, <1>8, <1>9

\* A walk costs no more than any other taking of as many shares, and some taking costs as much.
IsLeastCost(raw, key, quantity, cost) ==
  /\ \E t \in [1..Len(raw) -> Int] :
       /\ IsTaking(raw, t) /\ SumFunctionOnSet(t, 1..Len(raw)) = quantity
       /\ \A v : WorthUpTo(raw, key, t, v) => v[Len(raw)] = cost
  /\ \A t : IsTaking(raw, t) /\ SumFunctionOnSet(t, 1..Len(raw)) = quantity =>
       \A v : WorthUpTo(raw, key, t, v) => v[Len(raw)] >= cost

\* A walk costs no more than any taking of as many shares.
LEMMA WalkIsLeast ==
  ASSUME NEW key \in [Level -> Int], NEW levels \in Seq(Offers), InOrder(levels, key),
         NEW raw \in Seq(Level), SameOffers(levels, raw),
         NEW quantity \in Nat, NEW d, DepthUpTo(levels, d),
         NEW c, CostsUpTo(levels, key, quantity, d, c)
  PROVE  IsLeastCost(raw, key, Taken(quantity, d, Len(levels)), c[Len(levels)])
<1> DEFINE Q == Taken(quantity, d, Len(levels))
           m == Len(raw)
<1>1. levels \in Seq(Level) /\ m \in Nat
  BY OffersAreLevels
<1>2. PICK stop : StopsAt(levels, key, quantity, d, stop)
  BY <1>1, StopExists
<1>3. stop \in Int
  BY <1>2 DEF StopsAt
<1> DEFINE b == Below(key, stop)
           h == AtStop(key, stop)
           g == Saving(key, stop)
<1>4. ASSUME NEW l \in Level
      PROVE  /\ b[l] \in Int /\ h[l] \in Int /\ g[l] \in Int
             /\ l \notin Offers => b[l] = 0 /\ h[l] = 0 /\ g[l] = 0
  <2>1. Below(key, stop)[l] \in Nat /\ AtStop(key, stop)[l] \in Nat /\ Saving(key, stop)[l] \in Nat
    BY <1>3, AmountsType
  <2>2. l \notin Offers => Below(key, stop)[l] = 0 /\ AtStop(key, stop)[l] = 0 /\ Saving(key, stop)[l] = 0
    BY DEF Below, AtStop, Saving
  <2> QED
    BY <2>1, <2>2
<1>5. b \in [Level -> Int] /\ h \in [Level -> Int] /\ g \in [Level -> Int]
  <2>1. b = [l \in Level |-> b[l]] /\ h = [l \in Level |-> h[l]] /\ g = [l \in Level |-> g[l]]
    BY DEF Below, AtStop, Saving
  <2> HIDE DEF b, h, g
  <2> QED
    BY <1>4, <2>1
<1>6. /\ AmountOf(levels, b) = AmountOf(raw, b)
      /\ AmountOf(levels, h) = AmountOf(raw, h)
      /\ AmountOf(levels, g) = AmountOf(raw, g)
  <2> HIDE DEF b, h, g
  <2> QED
    BY <1>4, <1>5 DEF SameOffers
<1>7. c[Len(levels)] = stop * Q - AmountOf(levels, g)
  BY <1>2, CostIs
<1>8. AmountOf(levels, b) <= Q /\ Q <= AmountOf(levels, b) + AmountOf(levels, h)
  BY <1>2, StopBounds
<1>9. Q \in Int
  <2>1. d[Len(levels)] \in Nat
    BY <1>1 DEF DepthUpTo
  <2> QED
    BY <2>1 DEF Taken, Smaller
<1> HIDE DEF Q
<1>10. PICK t : IsLeast(raw, key, stop, Q, t)
  <2>1. /\ AmountOf(raw, Below(key, stop)) <= Q
        /\ Q <= AmountOf(raw, Below(key, stop)) + AmountOf(raw, AtStop(key, stop))
    BY <1>6, <1>8
  <2> QED
    BY <1>3, <1>9, <2>1, LeastTaking
<1>11. \E u \in [1..Len(raw) -> Int] :
         /\ IsTaking(raw, u) /\ SumFunctionOnSet(u, 1..Len(raw)) = Q
         /\ \A v : WorthUpTo(raw, key, u, v) => v[Len(raw)] = c[Len(levels)]
  <2>1. t \in [1..Len(raw) -> Int]
    BY <1>10 DEF IsLeast
  <2>2. IsTaking(raw, t) /\ SumFunctionOnSet(t, 1..Len(raw)) = Q
    BY <1>10 DEF IsLeast
  <2>3. \A v : WorthUpTo(raw, key, t, v) => v[Len(raw)] = c[Len(levels)]
    BY <1>6, <1>7, <1>10 DEF IsLeast
  <2> QED
    BY <2>1, <2>2, <2>3
<1>12. ASSUME NEW u, IsTaking(raw, u), SumFunctionOnSet(u, 1..Len(raw)) = Q,
              NEW v, WorthUpTo(raw, key, u, v)
       PROVE  v[Len(raw)] >= c[Len(levels)]
  <2>1. Numbers(u, 1..Len(raw))
    BY <1>12 DEF Numbers, IsTaking
  <2>2. PICK s : RunningSum(u, Len(raw), s) /\ s[Len(raw)] = Q
    BY <1>1, <1>12, <2>1, RunningSumExists
  <2>3. v[Len(raw)] >= stop * s[Len(raw)] - AmountOf(raw, Saving(key, stop))
    BY <1>3, <1>12, <2>2, TakingCosts
  <2> QED
    BY <1>6, <1>7, <2>2, <2>3
<1> QED
  BY <1>11, <1>12 DEF IsLeastCost, Q

-----------------------------------------------------------------------------
(***************************************************************************)
(* The walks of a payload.                                                 *)
(***************************************************************************)
\* What has been added so far is a list of levels, of the sizes there are.
IsPayload ==
  /\ payload \in Seq(Level)
  /\ \A i \in 1..Len(payload) : payload[i].size \in 0..MaxSize

\* The sides of a book are the offers of the payload, the best first.
LEMMA SidesOfPayload ==
  ASSUME IsPayload
  PROVE  /\ asks \in Seq(Offers) /\ InOrder(asks, ByPrice) /\ SameOffers(asks, payload)
         /\ bids \in Seq(Offers) /\ InOrder(bids, ByPriceDown) /\ SameOffers(bids, payload)
<1> DEFINE levels == Select(payload, Offers)
<1>1. payload \in Seq(Level) /\ Offers \in SUBSET Level /\ Level \intersect Offers = Offers
  BY DEF IsPayload, Offers
<1>2. levels \in Seq(Offers)
  <2>1. levels \in Seq(Level \intersect Offers)
    BY <1>1, SelectType
  <2> QED
    BY <1>1, <2>1
<1>3. ParseLevels(payload) = levels
  BY DEF ParseLevels, Offers
<1>4. asks = StableSort(levels, ByPrice) /\ bids = StableSort(levels, ByPriceDown)
  BY <1>3 DEF asks, bids, OrderBook
<1>5. levels = Select(payload, Offers)
  OBVIOUS
<1> HIDE DEF levels
<1>11. Numbers(ByPrice, Offers) /\ Numbers(ByPriceDown, Offers)
  BY <1>1, KeysType DEF Numbers
<1>6. PICK f : /\ SortedUpTo(levels, Offers, ByPrice, f)
               /\ StableSort(levels, ByPrice) = f[Len(levels)]
  BY <1>1, <1>2, <1>11, SortTrace
<1>7. PICK g : /\ SortedUpTo(levels, Offers, ByPriceDown, g)
               /\ StableSort(levels, ByPriceDown) = g[Len(levels)]
  BY <1>1, <1>2, <1>11, SortTrace
<1>8. asks \in Seq(Offers) /\ InOrder(asks, ByPrice) /\ SameOffers(asks, payload)
  BY <1>1, <1>4, <1>5, <1>6, KeysType, SortedOffers
<1>9. bids \in Seq(Offers) /\ InOrder(bids, ByPriceDown) /\ SameOffers(bids, payload)
  BY <1>1, <1>4, <1>5, <1>7, KeysType, SortedOffers
<1> QED
  BY <1>8, <1>9

\* The asks are the cheapest first.
LEMMA AsksOfPayload ==
  ASSUME IsPayload
  PROVE  asks \in Seq(Offers) /\ Ascending(asks)
<1>1. ParseLevels(payload) \in Seq(Level \intersect Offers)
  BY SelectType DEF IsPayload, ParseLevels, Offers
<1>2. Level \intersect Offers = Offers /\ Offers \in SUBSET Level
  BY DEF Offers
<1>3. ParseLevels(payload) \in Seq(Offers)
  BY <1>1, <1>2
<1>4. asks = StableSort(ParseLevels(payload), ByPrice)
  BY DEF asks, OrderBook
<1> QED
  BY <1>2, <1>3, <1>4, AsksSorted

(***************************************************************************)
(* A payload is a list of levels, whatever levels are added to it.         *)
(***************************************************************************)
LEMMA AddLevelType ==
  ASSUME IsPayload, NextPayload
  PROVE  IsPayload'
<1>1. PICK l \in [price : 0..MaxPrice, size : 0..MaxSize] : AddLevel(l)
  BY DEF NextPayload
<1>2. l \in Level /\ l.size \in 0..MaxSize
  BY BoundsAssumption DEF Level
<1>3. payload \in Seq(Level) /\ payload' = Append(payload, l)
  BY <1>1 DEF IsPayload, AddLevel
<1>4. payload' \in Seq(Level) /\ Len(payload') = Len(payload) + 1 /\ payload'[Len(payload) + 1] = l
      /\ \A i \in 1..Len(payload) : payload'[i] = payload[i]
  BY <1>2, <1>3
<1>5. \A i \in 1..Len(payload') : payload'[i].size \in 0..MaxSize
  <2> SUFFICES ASSUME NEW i \in 1..Len(payload') PROVE payload'[i].size \in 0..MaxSize
    OBVIOUS
  <2>1. i = Len(payload) + 1 \/ i \in 1..Len(payload)
    BY <1>3, <1>4
  <2> QED
    BY <1>2, <1>4, <2>1 DEF IsPayload
<1> QED
  BY <1>4, <1>5 DEF IsPayload

\* In every state the payload is a list of levels.
LEMMA PayloadType == Spec => []IsPayload
<1>1. Init => IsPayload
  BY DEF Init, Empty, InitPayload, IsPayload
<1>2. IsPayload /\ [Next]_<<inputs, subject>> => IsPayload'
  BY AddLevelType DEF IsPayload, Next, inputs
<1> QED
  BY <1>1, <1>2, PTL DEF Spec

(***************************************************************************)
(* A smaller trade never pays a higher average price.                      *)
(***************************************************************************)
THEOREM SmallerNeverDearer == Spec => []SmallerIsNoDearer
<1>1. IsPayload => SmallerIsNoDearer
  <2> SUFFICES ASSUME IsPayload, NEW q \in Amounts, NEW k \in Amounts,
                      k <= q, WalkAsks(asks, q).full
               PROVE  /\ WalkAsks(asks, k).full
                      /\ WalkAsks(asks, k).cost * q <= WalkBook(asks, q).cost * k
    BY DEF SmallerIsNoDearer
  <2>1. asks \in Seq(Level) /\ Ascending(asks)
    BY AsksOfPayload, OffersAreLevels
  <2>2. q \in Nat /\ k \in Nat
    BY DEF Amounts
  <2>3. WalkQuantity(asks, q).full
    BY DEF WalkAsks
  <2>4. /\ WalkQuantity(asks, k).full
        /\ WalkQuantity(asks, k).cost * q <= WalkQuantity(asks, q).cost * k
    BY <2>1, <2>2, <2>3, SmallerWalk
  <2> QED
    BY <2>4 DEF WalkAsks, WalkBook
<1> QED
  BY <1>1, PayloadType, PTL

(***************************************************************************)
(* What a budget buys costs what was spent, and one share more would cost  *)
(* more than the budget.                                                   *)
(***************************************************************************)
THEOREM BudgetAlwaysBuysTheMost == Spec => []BudgetBuysTheMost
<1>1. IsPayload => BudgetBuysTheMost
  <2> SUFFICES ASSUME IsPayload, NEW b \in Budgets
               PROVE  LET spend == WalkForNotional(asks, b)
                          more == spend.quantity + 1
                      IN  /\ WalkAsks(asks, spend.quantity).cost = spend.cost
                          /\ spend.full => spend.cost = b
                          /\ more <= Depth(asks) => WalkAsks(asks, more).cost > b
    BY DEF BudgetBuysTheMost
  <2>1. asks \in Seq(Offers) /\ asks \in Seq(Level) /\ Ascending(asks)
    BY AsksOfPayload, OffersAreLevels
  <2>2. b \in Nat
    BY DEF Budgets
  <2> DEFINE spend == WalkForNotional(asks, b)
             Q == spend.quantity
  <2>3. Q = WalkForNotional(asks, b).quantity
    OBVIOUS
  <2>4. spend.full => spend.cost = b
    BY <2>1, <2>2, SpendType
  <2> HIDE DEF Q
  <2>5. /\ WalkQuantity(asks, Q).cost = WalkForNotional(asks, b).cost
        /\ Q + 1 <= Depth(asks) => WalkQuantity(asks, Q + 1).cost > b
    BY <2>1, <2>2, <2>3, BudgetWalk
  <2> QED
    BY <2>4, <2>5 DEF Q, WalkAsks
<1> QED
  BY <1>1, PayloadType, PTL

(***************************************************************************)
(* What a taking of the model is, and what it is worth.                    *)
(***************************************************************************)
LEMMA TakingsType ==
  ASSUME IsPayload, NEW quantity
  PROVE  /\ \A t \in Takings(quantity) :
              IsTaking(payload, t) /\ SumFunctionOnSet(t, 1..Len(payload)) = quantity
         /\ \A t \in [1..Len(payload) -> Int] :
              IsTaking(payload, t) /\ SumFunctionOnSet(t, 1..Len(payload)) = quantity =>
                t \in Takings(quantity)
         /\ \A t : Value(t) = SumFunctionOnSet([i \in 1..Len(payload) |-> t[i] * payload[i].price],
                                              1..Len(payload))
<1> DEFINE n == Len(payload)
<1>1. /\ DOMAIN payload = 1..n
      /\ \A i \in 1..n : payload[i].size \in 0..MaxSize /\ payload[i].size \in Nat
  BY DEF IsPayload, Level
<1> HIDE DEF n
<1>2. ASSUME NEW t \in Takings(quantity)
      PROVE  IsTaking(payload, t) /\ SumFunctionOnSet(t, 1..n) = quantity
  <2>1. /\ t \in [1..n -> 0..MaxSize]
        /\ \A i \in 1..n : t[i] <= payload[i].size
        /\ \A i \in 1..n : payload[i].price = 0 => t[i] = 0
        /\ SumFunction(t) = quantity
    BY <1>1 DEF Takings
  <2>2. \A i \in 1..n : t[i] \in 0..payload[i].size /\ t[i] \in Int
    BY <1>1, <2>1
  <2>3. SumFunctionOnSet(t, 1..n) = quantity
    BY <2>1 DEF SumFunction
  <2> QED
    BY <2>1, <2>2, <2>3 DEF IsTaking, n
<1>3. ASSUME NEW t \in [1..n -> Int], IsTaking(payload, t), SumFunctionOnSet(t, 1..n) = quantity
      PROVE  t \in Takings(quantity)
  <2>1. /\ \A i \in 1..n : t[i] \in 0..payload[i].size
        /\ \A i \in 1..n : payload[i].price = 0 => t[i] = 0
    BY <1>3 DEF IsTaking, n
  <2>2. \A i \in 1..n : t[i] \in 0..MaxSize /\ t[i] <= payload[i].size
    BY <1>1, <2>1, BoundsAssumption
  <2>3. t \in [1..n -> 0..MaxSize]
    BY <2>2
  <2>4. SumFunction(t) = quantity
    BY <1>3 DEF SumFunction
  <2> QED
    BY <1>1, <2>1, <2>2, <2>3, <2>4 DEF Takings
<1>4. ASSUME NEW t
      PROVE  Value(t) = SumFunctionOnSet([i \in 1..n |-> t[i] * payload[i].price], 1..n)
  BY <1>1 DEF Value, SumFunction
<1> QED
  BY <1>2, <1>3, <1>4 DEF n

\* What a taking of the payload is worth.
LEMMA TakingWorth ==
  ASSUME IsPayload, NEW t, IsTaking(payload, t)
  PROVE  HasWorth(payload, t, Value(t))
<1>1. payload \in Seq(Level)
  BY DEF IsPayload
<1>2. IsWorth(payload, t, Value(t))
  BY TakingsType DEF IsWorth
<1> QED
  BY <1>1, <1>2, WorthExists

\* Buying costs the least any taking of as many shares costs.
LEMMA BestBuy ==
  ASSUME IsPayload, NEW quantity \in Nat
  PROVE  LET buy == WalkQuantity(asks, quantity)
         IN  /\ \E t \in Takings(buy.quantity) : Value(t) = buy.cost
             /\ \A t \in Takings(buy.quantity) : Value(t) >= buy.cost
<1>1. /\ asks \in Seq(Offers) /\ InOrder(asks, ByPrice) /\ SameOffers(asks, payload)
      /\ asks \in Seq(Level) /\ payload \in Seq(Level)
  BY SidesOfPayload, OffersAreLevels DEF IsPayload
<1> DEFINE Q == WalkQuantity(asks, quantity).quantity
           cost == WalkQuantity(asks, quantity).cost
<1>2. PICK d : DepthUpTo(asks, d) /\ Depth(asks) = d[Len(asks)]
  BY <1>1, DepthTrace
<1>3. Q = Taken(quantity, d, Len(asks))
  BY <1>1, <1>2, WalkType DEF Taken
<1>4. PICK c : CostsUpTo(asks, ByPrice, quantity, d, c) /\ c[Len(asks)] = cost
  BY <1>1, <1>2, CostsExist
<1>5. IsLeastCost(payload, ByPrice, Taken(quantity, d, Len(asks)), c[Len(asks)])
  BY <1>1, <1>2, <1>4, KeysType, WalkIsLeast
<1>6. IsLeastCost(payload, ByPrice, Q, cost)
  BY <1>3, <1>4, <1>5
<1> HIDE DEF Q, cost
<1>7. \E t \in Takings(Q) : Value(t) = cost
  <2>1. PICK t \in [1..Len(payload) -> Int] :
           /\ IsTaking(payload, t) /\ SumFunctionOnSet(t, 1..Len(payload)) = Q
           /\ \A v : WorthUpTo(payload, ByPrice, t, v) => v[Len(payload)] = cost
    BY <1>6 DEF IsLeastCost
  <2>2. t \in Takings(Q)
    BY <2>1, TakingsType
  <2>3. PICK v : WorthUpTo(payload, ByPrice, t, v) /\ v[Len(payload)] = Value(t)
    BY <2>1, TakingWorth DEF HasWorth
  <2> QED
    BY <2>1, <2>2, <2>3
<1>8. ASSUME NEW t \in Takings(Q) PROVE Value(t) >= cost
  <2>1. IsTaking(payload, t) /\ SumFunctionOnSet(t, 1..Len(payload)) = Q
    BY <1>8, TakingsType
  <2>2. PICK v : WorthUpTo(payload, ByPrice, t, v) /\ v[Len(payload)] = Value(t)
    BY <2>1, TakingWorth DEF HasWorth
  <2> QED
    BY <1>6, <2>1, <2>2 DEF IsLeastCost
<1> QED
  BY <1>7, <1>8 DEF Q, cost

\* Selling brings the most.
LEMMA BestSale ==
  ASSUME IsPayload, NEW quantity \in Nat
  PROVE  LET sell == WalkQuantity(bids, quantity)
         IN  \A t \in Takings(sell.quantity) : Value(t) <= sell.cost
<1>1. /\ bids \in Seq(Offers) /\ InOrder(bids, ByPriceDown) /\ SameOffers(bids, payload)
      /\ bids \in Seq(Level) /\ payload \in Seq(Level)
  BY SidesOfPayload, OffersAreLevels DEF IsPayload
<1> DEFINE Q == WalkQuantity(bids, quantity).quantity
           cost == WalkQuantity(bids, quantity).cost
<1>2. PICK d : DepthUpTo(bids, d) /\ Depth(bids) = d[Len(bids)]
  BY <1>1, DepthTrace
<1>3. Q = Taken(quantity, d, Len(bids))
  BY <1>1, <1>2, WalkType DEF Taken
<1>4. PICK c : CostsUpTo(bids, ByPriceDown, quantity, d, c) /\ c[Len(bids)] = 0 - cost
  BY <1>1, <1>2, CostsExist
<1>5. cost \in Nat
  BY <1>1, <1>2, CostsExist
<1>6. IsLeastCost(payload, ByPriceDown, Taken(quantity, d, Len(bids)), c[Len(bids)])
  BY <1>1, <1>2, <1>4, KeysType, WalkIsLeast
<1>7. IsLeastCost(payload, ByPriceDown, Q, 0 - cost)
  BY <1>3, <1>4, <1>6
<1> HIDE DEF Q, cost
<1>8. ASSUME NEW t \in Takings(Q) PROVE Value(t) <= cost
  <2>1. IsTaking(payload, t) /\ SumFunctionOnSet(t, 1..Len(payload)) = Q
    BY <1>8, TakingsType
  <2>2. PICK v : WorthUpTo(payload, ByPriceDown, t, v) /\ v[Len(payload)] = 0 - Value(t)
    BY <2>1, TakingWorth DEF HasWorth
  <2>3. Value(t) \in Int
    BY <2>1, TakingWorth DEF HasWorth
  <2>4. 0 - Value(t) >= 0 - cost
    BY <1>7, <2>1, <2>2 DEF IsLeastCost
  <2> QED
    BY <1>5, <2>3, <2>4
<1> QED
  BY <1>8 DEF Q, cost

(***************************************************************************)
(* A walk executes as well as the payload allows, and falls short only     *)
(* when it takes the whole side (arb.walk_asks, edge.walk_book,            *)
(* follower.walk_bids).                                                    *)
(***************************************************************************)
THEOREM WalksAlwaysExecuteBest == Spec => []BestExecution
<1>1. IsPayload => BestExecution
  <2> SUFFICES ASSUME IsPayload, NEW q \in Amounts
               PROVE  LET buy == WalkAsks(asks, q)
                          sell == WalkBids(bids, q)
                      IN  /\ buy.quantity = Smaller(q, Depth(asks))
                          /\ sell.quantity = Smaller(q, Depth(bids))
                          /\ buy.full <=> q <= Depth(asks)
                          /\ \E t \in Takings(buy.quantity) : Value(t) = buy.cost
                          /\ \A t \in Takings(buy.quantity) :
                               Value(t) >= buy.cost /\ Value(t) <= sell.cost
    BY DEF BestExecution
  <2>1. q \in Nat
    BY DEF Amounts
  <2>2. /\ asks \in Seq(Offers) /\ asks \in Seq(Level) /\ SameOffers(asks, payload)
        /\ bids \in Seq(Offers) /\ bids \in Seq(Level) /\ SameOffers(bids, payload)
    BY SidesOfPayload, OffersAreLevels
  <2> DEFINE buy == WalkQuantity(asks, q)
             sell == WalkQuantity(bids, q)
  <2>3. /\ buy.quantity = Smaller(q, Depth(asks)) /\ sell.quantity = Smaller(q, Depth(bids))
        /\ buy.full <=> q <= Depth(asks)
    BY <2>1, <2>2, WalkType
  <2>4. Depth(asks) = Depth(bids)
    BY <2>2, SameDepth
  <2>5. /\ \E t \in Takings(buy.quantity) : Value(t) = buy.cost
        /\ \A t \in Takings(buy.quantity) : Value(t) >= buy.cost
    BY <2>1, BestBuy
  <2>6. \A t \in Takings(sell.quantity) : Value(t) <= sell.cost
    BY <2>1, BestSale
  <2>7. sell.quantity = buy.quantity
    BY <2>3, <2>4
  <2>8. WalkAsks(asks, q) = buy /\ WalkBids(bids, q) = sell
    BY DEF WalkAsks, WalkBids
  <2> HIDE DEF buy, sell
  <2> QED
    BY <2>3, <2>5, <2>6, <2>7, <2>8
<1> QED
  BY <1>1, PayloadType, PTL

-----------------------------------------------------------------------------
(***************************************************************************)
(* The counts of a wallet.                                                 *)
(***************************************************************************)
\* What an analysis is made of: numbers where there are any.
Sound(R) == \A a \in R : IsActivity(a)

\* The activities with a time.
WithTime(R) == {a \in R : a.time # None}

\* The dated activities are those with a time, which is a number.
LEMMA DatedType ==
  ASSUME NEW R, Sound(R), NEW items \in Seq(R)
  PROVE  /\ Dated(items) \in Seq(WithTime(R)) /\ Len(Dated(items)) \in Nat
         /\ \A a \in WithTime(R) : a.time \in Nat
<1> DEFINE S == {a \in Range(items) : a.time # None}
<1>1. Select(items, S) \in Seq(R \intersect S)
  BY SelectType
<1>2. R \intersect S \subseteq WithTime(R)
  BY DEF WithTime
<1>3. Dated(items) = Select(items, S)
  BY DEF Dated
<1> HIDE DEF S
<1>4. Dated(items) \in Seq(WithTime(R))
  BY <1>1, <1>2, <1>3, SeqMonotonic
<1>5. \A a \in WithTime(R) : a.time \in Nat
  BY DEF WithTime, Sound, IsActivity
<1> QED
  BY <1>4, <1>5

\* The local hours of the activities with a time.
HoursOf(items) == [i \in DOMAIN Dated(items) |-> LocalHour(Dated(items)[i].time)]

\* Every dated activity has one local hour.
LEMMA HoursType ==
  ASSUME NEW R, Sound(R), NEW items \in Seq(R)
  PROVE  /\ HoursOf(items) \in Seq(0..23) /\ Len(HoursOf(items)) = Len(Dated(items))
         /\ DOMAIN HoursOf(items) = DOMAIN Dated(items)
<1>1. \A t \in Nat : LocalHour(t) \in 0..23
  <2> SUFFICES ASSUME NEW t \in Nat PROVE LocalHour(t) \in 0..23
    OBVIOUS
  <2>1. t \div TicksPerHour \in Int
    BY WalletAssumption
  <2> DEFINE q == t \div TicksPerHour
  <2> HIDE DEF q
  <2>2. (q + OffsetHours) % 24 \in 0..23
    BY <2>1, WalletAssumption DEF q
  <2> QED
    BY <2>2 DEF LocalHour, q
<1> DEFINE dated == Dated(items)
<1>2. dated \in Seq(WithTime(R)) /\ \A a \in WithTime(R) : a.time \in Nat
  BY DatedType
<1> HIDE DEF dated
<1>3. DOMAIN dated = 1..Len(dated) /\ Len(dated) \in Nat
  BY <1>2
<1>4. \A i \in 1..Len(dated) : LocalHour(dated[i].time) \in 0..23
  <2> SUFFICES ASSUME NEW i \in 1..Len(dated) PROVE LocalHour(dated[i].time) \in 0..23
    OBVIOUS
  <2>1. dated[i] \in WithTime(R)
    BY <1>2, <1>3
  <2>2. dated[i].time \in Nat
    BY <1>2, <2>1
  <2> QED
    BY <1>1, <2>2
<1>5. HoursOf(items) = [i \in 1..Len(dated) |-> LocalHour(dated[i].time)]
  BY <1>3 DEF HoursOf, dated
<1> QED
  BY <1>3, <1>4, <1>5 DEF dated

\* What analyze_wallet says of hours.
LEMMA AnalysisOfHours ==
  ASSUME NEW R, Sound(R), NEW items \in Seq(R)
  PROVE  /\ AnalyzeWallet(items).hourLocal = ToBag(HoursOf(items))
         /\ AnalyzeWallet(items).dated = Len(HoursOf(items))
<1>1. Len(HoursOf(items)) = Len(Dated(items))
  BY HoursType
<1> QED
  BY <1>1 DEF AnalyzeWallet, HoursOf

\* How many of the hours are in a window.
Inside(times, start, end) == {i \in DOMAIN times : HourInWindow(times[i], start, end)}

\* The count of a window is the number of trades whose hour is in it.
LEMMA InsideIs ==
  ASSUME NEW times \in Seq(0..23), NEW wallet, wallet.hourLocal = ToBag(times), NEW start, NEW end
  PROVE  /\ InsideCount(wallet, start, end) = Cardinality(Inside(times, start, end))
         /\ IsFiniteSet(Inside(times, start, end))
<1> DEFINE D == DOMAIN times
           K == {h \in DOMAIN ToBag(times) : HourInWindow(h, start, end)}
<1>1. /\ IsFiniteSet(DOMAIN ToBag(times)) /\ DOMAIN ToBag(times) = Range(times)
      /\ Counts(ToBag(times), times, D, Range(times))
  BY BagOfSequence
<1>2. IsFiniteSet(D)
  <2>1. D = 1..Len(times) /\ Len(times) \in Nat
    OBVIOUS
  <2> QED
    BY <2>1, FS_Interval
<1>3. IsFiniteSet(K)
  BY <1>1, FS_Subset
<1>4. Counts(ToBag(times), times, D, K)
  BY <1>1 DEF Counts
<1>5. {i \in D : times[i] \in K} = Inside(times, start, end)
  BY <1>1 DEF Inside, Range
<1>6. InsideCount(wallet, start, end) = SumFunctionOnSet(ToBag(times), K)
  BY DEF InsideCount
<1>7. IsFiniteSet(Inside(times, start, end))
  BY <1>2, FS_Subset DEF Inside
<1> HIDE DEF D, K
<1> QED
  BY <1>2, <1>3, <1>4, <1>5, <1>6, <1>7, ClassesAddUp

\* An hour is in a window or in the hours outside it.
LEMMA HoursPart ==
  ASSUME NEW h \in 0..23, NEW start \in 0..23, NEW end \in 0..23, (end + 1) % 24 # start
  PROVE  HourInWindow(h, start, end) <=> ~HourInWindow(h, (end + 1) % 24, (start + 23) % 24)
<1>1. (end + 1) % 24 = IF end = 23 THEN 0 ELSE end + 1
  OBVIOUS
<1>2. (start + 23) % 24 = IF start = 0 THEN 23 ELSE start - 1
  OBVIOUS
<1> QED
  BY <1>1, <1>2 DEF HourInWindow

\* A window and the hours outside it have all the trades between them.
LEMMA WindowsPart ==
  ASSUME NEW times \in Seq(0..23), NEW wallet, wallet.hourLocal = ToBag(times),
         NEW start \in 0..23, NEW end \in 0..23, (end + 1) % 24 # start
  PROVE  InsideCount(wallet, start, end)
           + InsideCount(wallet, (end + 1) % 24, (start + 23) % 24) = Len(times)
<1> DEFINE A == Inside(times, start, end)
           B == Inside(times, (end + 1) % 24, (start + 23) % 24)
<1>1. /\ InsideCount(wallet, start, end) = Cardinality(A) /\ IsFiniteSet(A)
      /\ InsideCount(wallet, (end + 1) % 24, (start + 23) % 24) = Cardinality(B) /\ IsFiniteSet(B)
  BY InsideIs
<1>2. \A i \in DOMAIN times : times[i] \in 0..23
  OBVIOUS
<1>3. \A i \in DOMAIN times : i \in A <=> i \notin B
  BY <1>2, HoursPart DEF Inside
<1>4. A \cup B = 1..Len(times) /\ A \cap B = {}
  BY <1>3 DEF Inside
<1> HIDE DEF A, B
<1>5. Cardinality(A \cup B) = Cardinality(A) + Cardinality(B) - Cardinality(A \cap B)
  BY <1>1, FS_Union
<1>6. Cardinality(A) \in Nat /\ Cardinality(B) \in Nat /\ Cardinality(A \cap B) = 0
  BY <1>1, <1>4, FS_CardinalityType, FS_EmptySet
<1>7. Len(times) \in Nat
  OBVIOUS
<1>8. Cardinality(1..Len(times)) = Len(times)
  BY <1>7, CountTo
<1>9. Cardinality(A \cup B) = Len(times)
  BY <1>4, <1>8
<1>10. Cardinality(A) + Cardinality(B) = Len(times)
  BY <1>5, <1>6, <1>7, <1>9
<1> QED
  BY <1>1, <1>10

(***************************************************************************)
(* Buckets.                                                                *)
(***************************************************************************)
\* Every amount below the last edge is in the bucket that Bucket names.
Bucketed(amount, edges, b) ==
  /\ b \in 1..(Len(edges) - 1) /\ edges[b] <= amount /\ amount < edges[b + 1]

\* A bucket that an amount fits is the one it is counted in.
LEMMA BucketIs ==
  ASSUME NEW amount, NEW edges, NEW b, Bucketed(amount, edges, b)
  PROVE  Bucketed(amount, edges, Bucket(amount, edges))
<1> DEFINE fits == {k \in 1..(Len(edges) - 1) : edges[k] <= amount /\ amount < edges[k + 1]}
<1>1. b \in fits
  BY DEF Bucketed
<1>2. Bucket(amount, edges) = CHOOSE k \in fits : TRUE
  BY <1>1 DEF Bucket
<1>3. Bucket(amount, edges) \in fits
  BY <1>1, <1>2
<1> QED
  BY <1>3 DEF Bucketed

\* The price buckets are ten, of ten hundredths each.
LEMMA PriceEdgesAre ==
  /\ Len(PriceEdges) = 11 /\ PriceEdges[11] = 101
  /\ \A b \in 1..10 : PriceEdges[b] = 10 * (b - 1)
BY SMT DEF PriceEdges

\* There are six notional buckets, and the first begins at nothing.
LEMMA NotionalEdgesAre ==
  /\ Len(NotionalEdges) = 7 /\ NotionalEdges[1] = 0
  /\ \A b \in 1..7 : NotionalEdges[b] \in Nat
BY SMT DEF NotionalEdges

\* Every price of 0 to 100 hundredths is in a bucket.
LEMMA PriceBucket ==
  ASSUME NEW price \in 0..100
  PROVE  Bucketed(price, PriceEdges, Bucket(price, PriceEdges))
<1> DEFINE b == IF price = 100 THEN 10 ELSE price \div 10 + 1
<1>1. b \in 1..10 /\ 10 * (b - 1) <= price /\ price <= 100 /\ (b < 10 => price < 10 * b)
  OBVIOUS
<1> HIDE DEF b
<1>2. Bucketed(price, PriceEdges, b)
  <2>1. CASE b < 10
    <3>1. b + 1 \in 1..10 /\ 10 * ((b + 1) - 1) = 10 * b
      BY <1>1, <2>1
    <3> QED
      BY <1>1, <2>1, <3>1, PriceEdgesAre DEF Bucketed
  <2>2. CASE b = 10
    BY <1>1, <2>2, PriceEdgesAre DEF Bucketed
  <2> QED
    BY <1>1, <2>1, <2>2
<1> QED
  BY <1>2, BucketIs

\* And so is every amount of money below the last edge.
LEMMA NotionalBucket ==
  ASSUME NEW usdc \in Nat, usdc < NotionalEdges[Len(NotionalEdges)]
  PROVE  Bucketed(usdc, NotionalEdges, Bucket(usdc, NotionalEdges))
<1> DEFINE above == {b \in 1..7 : usdc < NotionalEdges[b]}
<1>1. 7 \in above /\ above \in SUBSET Nat
  BY NotionalEdgesAre
<1>2. PICK m \in above : \A y \in above : m <= y
  <2> HIDE DEF above
  <2> QED
    BY <1>1, LeastOf
<1>3. m \in 1..7 /\ usdc < NotionalEdges[m] /\ m # 1
  BY <1>2, NotionalEdgesAre
<1>4. m - 1 \in 1..6 /\ m - 1 \notin above /\ (m - 1) + 1 = m
  BY <1>2, <1>3
<1>5. m - 1 \in 1..7 /\ ~(usdc < NotionalEdges[m - 1]) /\ NotionalEdges[m - 1] \in Nat
  BY <1>4, NotionalEdgesAre
<1>6. Bucketed(usdc, NotionalEdges, m - 1)
  BY <1>3, <1>4, <1>5, NotionalEdgesAre DEF Bucketed
<1> QED
  BY <1>6, BucketIs

\* The buckets together have every activity that states the field.
LEMMA FilledAddsUp ==
  ASSUME NEW R, NEW items \in Seq(R), NEW field, NEW edges, Len(edges) \in Nat,
         \A a \in R : a[field] # None => Bucket(a[field], edges) \in 1..(Len(edges) - 1)
  PROVE  /\ SumFunction(Filled(items, field, edges))
              = Cardinality({i \in DOMAIN items : items[i][field] # None})
         /\ DOMAIN Filled(items, field, edges) = 1..(Len(edges) - 1)
<1> DEFINE K == 1..(Len(edges) - 1)
           D == {i \in DOMAIN items : items[i][field] # None}
           c == [i \in D |-> Bucket(items[i][field], edges)]
           f == Filled(items, field, edges)
<1>1. IsFiniteSet(K)
  BY FS_Interval
<1>2. IsFiniteSet(D)
  <2>1. DOMAIN items = 1..Len(items) /\ Len(items) \in Nat
    OBVIOUS
  <2>2. IsFiniteSet(1..Len(items))
    BY <2>1, CountTo
  <2> QED
    BY <2>1, <2>2, FS_Subset
<1>3. f = [b \in K |-> Cardinality({i \in DOMAIN items :
                          items[i][field] # None /\ Bucket(items[i][field], edges) = b})]
  BY DEF Filled
<1>4. Counts(f, c, D, K)
  <2> SUFFICES ASSUME NEW k \in K PROVE f[k] = Cardinality({i \in D : c[i] = k})
    BY DEF Counts
  <2>1. {i \in D : c[i] = k} = {i \in DOMAIN items :
                          items[i][field] # None /\ Bucket(items[i][field], edges) = k}
    OBVIOUS
  <2> QED
    BY <1>3, <2>1
<1>5. {i \in D : c[i] \in K} = D
  <2>1. \A i \in DOMAIN items : items[i] \in R
    OBVIOUS
  <2> QED
    BY <2>1
<1>6. SumFunction(f) = SumFunctionOnSet(f, K) /\ DOMAIN f = K
  BY <1>3 DEF SumFunction
<1> HIDE DEF f, c, K, D
<1>7. SumFunctionOnSet(f, K) = Cardinality(D)
  BY <1>1, <1>2, <1>4, <1>5, ClassesAddUp
<1> QED
  BY <1>6, <1>7 DEF D, f, K

-----------------------------------------------------------------------------
(***************************************************************************)
(* The wallets of the run.                                                 *)
(***************************************************************************)
LEMMA ActivitiesAreSound == Sound(Activities)
BY InputsAssumption DEF Sound

\* The inputs but the payload: trades, hours, and ticks.
IsInput ==
  /\ feed \in Seq(Activities)
  /\ DOMAIN hours = {9, 12} /\ hours[9] \in Nat /\ hours[12] \in Nat
  /\ points \in Seq(Points)

\* In every state the inputs are what the analyses are made for.
LEMMA InputType == Spec => []IsInput
<1>1. Init => IsInput
  BY DEF Init, Empty, IsInput
<1>2. IsInput /\ [Next]_<<inputs, subject>> => IsInput'
  <2> SUFFICES ASSUME IsInput, [Next]_<<inputs, subject>> PROVE IsInput'
    OBVIOUS
  <2>1. ASSUME NEW a \in Activities, feed' = Append(feed, a), UNCHANGED <<hours, points>> PROVE IsInput'
    BY <2>1 DEF IsInput
  <2>2. ASSUME NEW h \in DOMAIN hours, hours' = [hours EXCEPT ![h] = @ + 1], UNCHANGED <<feed, points>>
        PROVE  IsInput'
    BY <2>2 DEF IsInput
  <2>3. ASSUME NEW p \in Points, points' = Append(points, p), UNCHANGED <<feed, hours>> PROVE IsInput'
    BY <2>3 DEF IsInput
  <2>4. ASSUME UNCHANGED <<feed, hours, points>> PROVE IsInput'
    BY <2>4 DEF IsInput
  <2> QED
    BY <2>1, <2>2, <2>3, <2>4 DEF Next, inputs
<1> QED
  BY <1>1, <1>2, PTL DEF Spec

-----------------------------------------------------------------------------
\* Hour by hour, weekday by weekday, bucket by bucket: the tables add up.
LEMMA TradesCountedOnce ==
  ASSUME IsInput
  PROVE  EveryTradeCountedOnce
<1> DEFINE wallet == analysis
           dated == Dated(feed)
<1>1. feed \in Seq(Activities) /\ Sound(Activities)
  BY ActivitiesAreSound DEF IsInput
<1>2. wallet = AnalyzeWallet(feed)
  BY DEF analysis
<1>3. /\ HoursOf(feed) \in Seq(0..23) /\ wallet.hourLocal = ToBag(HoursOf(feed))
      /\ wallet.dated = Len(HoursOf(feed)) /\ Len(HoursOf(feed)) = Len(dated)
  BY <1>1, <1>2, HoursType, AnalysisOfHours
<1>4. dated \in Seq(WithTime(Activities)) /\ Len(dated) \in Nat
  BY <1>1, DatedType
<1>5. /\ wallet.hourUtc = ToBag([i \in DOMAIN dated |-> Hour(dated[i].time)])
      /\ wallet.weekday = ToBag([i \in DOMAIN dated |-> Weekday(dated[i].time)])
      /\ wallet.prices = Filled(feed, "price", PriceEdges)
      /\ wallet.notionals = Filled(feed, "usdc", NotionalEdges)
  BY <1>2 DEF AnalyzeWallet
<1> HIDE DEF wallet, dated
<1>6. SumFunction(wallet.hourLocal) = wallet.dated
  BY <1>3, BagOfSequence
<1>7. SumFunction(wallet.hourUtc) = wallet.dated
  <2> DEFINE s == [i \in DOMAIN dated |-> Hour(dated[i].time)]
  <2>1. s \in Seq(Range(s)) /\ Len(s) = Len(dated)
    <3>1. DOMAIN dated = 1..Len(dated)
      BY <1>4
    <3> QED
      BY <1>4, <3>1 DEF Range
  <2> HIDE DEF s
  <2>2. SumFunction(ToBag(s)) = Len(s)
    BY <2>1, BagOfSequence
  <2> QED
    BY <1>3, <1>5, <2>1, <2>2 DEF s
<1>8. SumFunction(wallet.weekday) = wallet.dated
  <2> DEFINE s == [i \in DOMAIN dated |-> Weekday(dated[i].time)]
  <2>1. s \in Seq(Range(s)) /\ Len(s) = Len(dated)
    <3>1. DOMAIN dated = 1..Len(dated)
      BY <1>4
    <3> QED
      BY <1>4, <3>1 DEF Range
  <2> HIDE DEF s
  <2>2. SumFunction(ToBag(s)) = Len(s)
    BY <2>1, BagOfSequence
  <2> QED
    BY <1>3, <1>5, <2>1, <2>2 DEF s
<1>9. ASSUME NEW w \in Windows, (w[2] + 1) % 24 # w[1]
      PROVE  InsideCount(wallet, w[1], w[2])
               + InsideCount(wallet, (w[2] + 1) % 24, (w[1] + 23) % 24) = wallet.dated
  <2>1. w[1] \in 0..23 /\ w[2] \in 0..23
    BY DEF Windows, ClaimWindows
  <2> QED
    BY <1>3, <1>9, <2>1, WindowsPart
<1>10. SumFunction(wallet.prices) = Cardinality({i \in DOMAIN feed : feed[i].price # None})
  <2>1. ASSUME NEW a \in Activities, a.price # None
        PROVE  Bucket(a.price, PriceEdges) \in 1..(Len(PriceEdges) - 1)
    BY <1>1, <2>1, PriceBucket DEF Sound, IsActivity, Bucketed
  <2>2. Len(PriceEdges) \in Nat
    BY PriceEdgesAre
  <2>3. SumFunction(Filled(feed, "price", PriceEdges))
          = Cardinality({i \in DOMAIN feed : feed[i]["price"] # None})
    BY <1>1, <2>1, <2>2, FilledAddsUp
  <2> QED
    BY <1>5, <2>3
<1>11. SumFunction(wallet.notionals) = Cardinality({i \in DOMAIN feed : feed[i].usdc # None})
  <2>1. ASSUME NEW a \in Activities, a.usdc # None
        PROVE  Bucket(a.usdc, NotionalEdges) \in 1..(Len(NotionalEdges) - 1)
    BY <1>1, <2>1, NotionalBucket DEF Sound, IsActivity, Bucketed
  <2>2. Len(NotionalEdges) \in Nat
    BY NotionalEdgesAre
  <2>3. SumFunction(Filled(feed, "usdc", NotionalEdges))
          = Cardinality({i \in DOMAIN feed : feed[i]["usdc"] # None})
    BY <1>1, <2>1, <2>2, FilledAddsUp
  <2> QED
    BY <1>5, <2>3
<1> QED
  BY <1>6, <1>7, <1>8, <1>9, <1>10, <1>11 DEF EveryTradeCountedOnce, wallet

(***************************************************************************)
(* Of a wallet's activity, however long, every dated trade is counted in   *)
(* one hour and one weekday and in one of a window and the hours outside   *)
(* it, and every priced one in one bucket (wallet.analyze_wallet,          *)
(* window_share).                                                          *)
(***************************************************************************)
THEOREM TradesAlwaysCountedOnce == Spec => []EveryTradeCountedOnce
<1>1. IsInput => EveryTradeCountedOnce
  BY TradesCountedOnce
<1> QED
  BY <1>1, InputType, PTL

-----------------------------------------------------------------------------
(***************************************************************************)
(* The windows of a day.                                                   *)
(***************************************************************************)
\* Two shares that make up a whole are rounded to percentages that do.
LEMMA SharesMakeAWhole ==
  ASSUME NEW share \in Int
  PROVE  RoundHalfEven(share, 10) + RoundHalfEven(10000 - share, 10) = 1000
<1> DEFINE q == share \div 10
           r == share % 10
           p == (10000 - share) \div 10
           s == (10000 - share) % 10
<1>1. q \in Int /\ r \in 0..9 /\ share = 10 * q + r
  OBVIOUS
<1>2. p \in Int /\ s \in 0..9 /\ 10000 - share = 10 * p + s
  OBVIOUS
<1>3. (r = 0 /\ s = 0 /\ p = 1000 - q) \/ (r # 0 /\ s = 10 - r /\ p = 999 - q)
  BY <1>1, <1>2
<1>4. p = 999 - q => (q % 2 = 1 <=> p % 2 # 1)
  BY <1>1, <1>2
<1>5. RoundHalfEven(share, 10) = IF r > 5 \/ (r = 5 /\ q % 2 = 1) THEN q + 1 ELSE q
  BY <1>1 DEF RoundHalfEven
<1>6. RoundHalfEven(10000 - share, 10) = IF s > 5 \/ (s = 5 /\ p % 2 = 1) THEN p + 1 ELSE p
  BY <1>2 DEF RoundHalfEven
<1> HIDE DEF q, r, p, s
<1> QED
  BY <1>1, <1>2, <1>3, <1>4, <1>5, <1>6

\* A share is a number, also where nothing is dated.
LEMMA ShareType ==
  ASSUME NEW inside \in Int, NEW dated \in Nat
  PROVE  Share(inside, dated) \in Int
<1>1. CASE dated = 0
  BY <1>1 DEF Share
<1>2. CASE dated # 0
  <2> DEFINE n == 10000 * inside
             q == n \div dated
  <2>1. n \in Int /\ q \in Int
    BY <1>2
  <2> HIDE DEF n
  <2>2. RoundHalfEven(n, dated) = q \/ RoundHalfEven(n, dated) = q + 1
    BY DEF RoundHalfEven
  <2> HIDE DEF q
  <2>3. RoundHalfEven(n, dated) \in Int
    BY <2>1, <2>2
  <2> QED
    BY <1>2, <2>3 DEF Share, n
<1> QED
  BY <1>1, <1>2

\* The hours of a claim make percentages of a whole.
LEMMA PercentagesAddUp ==
  ASSUME IsInput
  PROVE  ClaimPercentagesAddUp
<1> DEFINE wallet == tallied
           K == {h \in DOMAIN hours : HourInWindow(h, 9, 9)}
           inside == InsideCount(wallet, 9, 9)
           share == Share(inside, wallet.dated)
<1>1. wallet.dated \in Nat /\ wallet.hourLocal = hours /\ Numbers(hours, K) /\ IsFiniteSet(K)
  <2>1. IsFiniteSet({9} \cup {12})
    BY FS_Singleton, FS_AddElement
  <2>2. K \in SUBSET ({9} \cup {12})
    BY DEF IsInput
  <2>3. IsFiniteSet(K)
    <3> HIDE DEF K
    <3> QED
      BY <2>1, <2>2, FS_Subset
  <2>4. \A h \in DOMAIN hours : hours[h] \in Int
    BY DEF IsInput
  <2> QED
    BY <2>3, <2>4 DEF IsInput, Numbers, tallied
<1>2. inside = SumFunctionOnSet(hours, K)
  BY <1>1 DEF InsideCount
<1> HIDE DEF K
<1>3. inside \in Int
  BY <1>1, <1>2, SumType
<1>4. /\ WindowClaim(wallet, 9, 9).insidePct = RoundHalfEven(share, 10)
      /\ WindowClaim(wallet, 9, 9).outsidePct = RoundHalfEven(10000 - share, 10)
  BY DEF WindowClaim
<1> HIDE DEF inside, wallet
<1>5. share \in Int
  BY <1>1, <1>3, ShareType
<1> HIDE DEF share
<1>6. WindowClaim(wallet, 9, 9).insidePct + WindowClaim(wallet, 9, 9).outsidePct = 1000
  BY <1>4, <1>5, SharesMakeAWhole
<1> QED
  BY <1>6 DEF ClaimPercentagesAddUp, wallet

-----------------------------------------------------------------------------
\* Of numbers in a row, one is the first of the largest.
IsBusiest(count, n, s) ==
  \A r \in 0..n : count[r] < count[s] \/ (count[r] = count[s] /\ s <= r)

\* Of the windows of a day there is one with the most trades.
LEMMA BusiestExists ==
  ASSUME NEW n \in Nat, NEW count, \A r \in 0..n : count[r] \in Int
  PROVE  \E s \in 0..n : IsBusiest(count, n, s)
<1> DEFINE S == {m \in Nat : m <= n => \E s \in 0..m : IsBusiest(count, m, s)}
<1>1. 0 \in S
  BY DEF IsBusiest
<1>2. ASSUME NEW m \in Nat, m \in S PROVE m + 1 \in S
  <2> SUFFICES ASSUME m + 1 <= n PROVE \E s \in 0..(m + 1) : IsBusiest(count, m + 1, s)
    OBVIOUS
  <2>1. PICK s \in 0..m : IsBusiest(count, m, s)
    BY <1>2
  <2>2. count[s] \in Int /\ count[m + 1] \in Int /\ s \in 0..(m + 1) /\ m + 1 \in 0..(m + 1)
    OBVIOUS
  <2>3. \A r \in 0..(m + 1) : (r = m + 1 \/ r \in 0..m) /\ count[r] \in Int
    OBVIOUS
  <2>4. CASE count[m + 1] > count[s]
    <3>1. IsBusiest(count, m + 1, m + 1)
      BY <2>1, <2>2, <2>3, <2>4 DEF IsBusiest
    <3> QED
      BY <2>2, <3>1
  <2>5. CASE ~(count[m + 1] > count[s])
    <3>1. IsBusiest(count, m + 1, s)
      BY <2>1, <2>2, <2>3, <2>5 DEF IsBusiest
    <3> QED
      BY <2>2, <3>1
  <2> QED
    BY <2>4, <2>5
<1> HIDE DEF S
<1>3. n \in S
  BY <1>1, <1>2, SetInduction
<1> QED
  BY <1>3 DEF S

\* The window of three hours from start on: its hours, and which of them one is.
HourAt(start, i) == (start + i - 1) % 24
PlaceIn(start, h) == ((h + 24 - start) % 24) + 1

\* The three hours from a start are those of the window that ends two hours later.
LEMMA WindowFrom ==
  ASSUME NEW h \in 0..23, NEW start \in 0..23
  PROVE  /\ \A i \in 1..3 : PlaceIn(start, h) = i <=> h = HourAt(start, i)
         /\ PlaceIn(start, h) \in 1..3 <=> HourInWindow(h, start, (start + 2) % 24)
<1>1. (h + 24 - start) % 24 = IF h >= start THEN h - start ELSE h + 24 - start
  OBVIOUS
<1>2. \A i \in 1..3 : (start + i - 1) % 24 = IF start + i - 1 >= 24 THEN start + i - 25 ELSE start + i - 1
  OBVIOUS
<1>3. (start + 2) % 24 = IF start >= 22 THEN start - 22 ELSE start + 2
  OBVIOUS
<1>4. ASSUME NEW i \in 1..3
      PROVE  PlaceIn(start, h) = i <=> h = HourAt(start, i)
  BY <1>1, <1>2 DEF PlaceIn, HourAt
<1>5. PlaceIn(start, h) \in 1..3 <=> HourInWindow(h, start, (start + 2) % 24)
  BY <1>1, <1>3 DEF HourInWindow, PlaceIn
<1> QED
  BY <1>4, <1>5

\* The trades of a window of three hours are those a claim of it counts.
LEMMA InWindowIs ==
  ASSUME NEW times \in Seq(0..23), NEW start \in 0..23
  PROVE  InWindow(ToBag(times), start) = Cardinality(Inside(times, start, (start + 2) % 24))
<1> DEFINE D == DOMAIN times
           bag == ToBag(times)
           g == [i \in 1..3 |-> CopiesOf(bag, HourAt(start, i))]
           c == [j \in D |-> PlaceIn(start, times[j])]
<1>1. IsFiniteSet(D) /\ IsFiniteSet(1..3) /\ \A j \in D : times[j] \in 0..23
  <2>1. D = 1..Len(times) /\ Len(times) \in Nat
    OBVIOUS
  <2>2. IsFiniteSet(1..Len(times)) /\ IsFiniteSet(1..3)
    BY <2>1, CountTo
  <2>3. \A j \in D : times[j] \in 0..23
    OBVIOUS
  <2> HIDE DEF D
  <2> QED
    BY <2>1, <2>2, <2>3
<1>2. DOMAIN bag = Range(times) /\ Counts(bag, times, D, Range(times))
  BY BagOfSequence
<1> HIDE DEF bag
<1>3. ASSUME NEW h PROVE CopiesOf(bag, h) = Cardinality({j \in D : times[j] = h})
  <2>1. CASE h \in Range(times)
    BY <1>2, <2>1 DEF CopiesOf, Counts
  <2>2. CASE h \notin Range(times)
    <3>1. {j \in D : times[j] = h} = {}
      BY <2>2 DEF Range
    <3> QED
      BY <1>2, <2>2, <3>1, FS_EmptySet DEF CopiesOf
  <2> QED
    BY <2>1, <2>2
<1>4. Counts(g, c, D, 1..3)
  <2> SUFFICES ASSUME NEW i \in 1..3 PROVE g[i] = Cardinality({j \in D : c[j] = i})
    BY DEF Counts
  <2>1. ASSUME NEW j \in D PROVE c[j] = i <=> times[j] = HourAt(start, i)
    <3>1. c[j] = PlaceIn(start, times[j]) /\ times[j] \in 0..23
      BY <1>1
    <3>2. PlaceIn(start, times[j]) = i <=> times[j] = HourAt(start, i)
      BY <3>1, WindowFrom
    <3> QED
      BY <3>1, <3>2
  <2>2. {j \in D : c[j] = i} = {j \in D : times[j] = HourAt(start, i)}
    BY <2>1
  <2> QED
    BY <1>3, <2>2
<1>5. {j \in D : c[j] \in 1..3} = Inside(times, start, (start + 2) % 24)
  <2>1. ASSUME NEW j \in D PROVE c[j] \in 1..3 <=> HourInWindow(times[j], start, (start + 2) % 24)
    <3>1. c[j] = PlaceIn(start, times[j]) /\ times[j] \in 0..23
      BY <1>1
    <3> QED
      BY <3>1, WindowFrom
  <2> QED
    BY <2>1 DEF Inside
<1>6. InWindow(bag, start) = SumFunctionOnSet(g, 1..3)
  BY DEF InWindow, SumFunction, Width, HourAt
<1> HIDE DEF g, c, D
<1>7. SumFunctionOnSet(g, 1..3) = Cardinality({j \in D : c[j] \in 1..3})
  BY <1>1, <1>4, ClassesAddUp
<1> QED
  BY <1>5, <1>6, <1>7 DEF bag

\* A share rounded once, and rounded finer and then again, are at most a tenth of
\* a percent apart.
LEMMA RoundedTwice ==
  ASSUME NEW k \in Int, NEW n \in Nat, n > 0
  PROVE  Distance(RoundHalfEven(1000 * k, n), RoundHalfEven(RoundHalfEven(10000 * k, n), 10)) <= 1
<1>1. PICK c \in Int : /\ c = RoundHalfEven(1000 * k, n)
                       /\ 2 * (c * n) <= 2000 * k + n /\ 2 * (c * n) >= 2000 * k - n
  <2>1. PICK a \in Int : a = 1000 * k /\ 2 * a = 2000 * k
    OBVIOUS
  <2>2. /\ RoundHalfEven(a, n) \in Int
        /\ 2 * (RoundHalfEven(a, n) * n) <= 2 * a + n /\ 2 * (RoundHalfEven(a, n) * n) >= 2 * a - n
    BY HalfEvenIs
  <2> QED
    BY <2>1, <2>2
<1>2. PICK s \in Int : /\ s = RoundHalfEven(10000 * k, n)
                       /\ 2 * (s * n) <= 20000 * k + n /\ 2 * (s * n) >= 20000 * k - n
  <2>1. PICK a \in Int : a = 10000 * k /\ 2 * a = 20000 * k
    OBVIOUS
  <2>2. /\ RoundHalfEven(a, n) \in Int
        /\ 2 * (RoundHalfEven(a, n) * n) <= 2 * a + n /\ 2 * (RoundHalfEven(a, n) * n) >= 2 * a - n
    BY HalfEvenIs
  <2> QED
    BY <2>1, <2>2
<1>3. PICK p \in Int : p = RoundHalfEven(s, 10) /\ 20 * p <= 2 * s + 10 /\ 20 * p >= 2 * s - 10
  <2>1. 10 \in Nat /\ 10 > 0
    OBVIOUS
  <2>2. /\ RoundHalfEven(s, 10) \in Int
        /\ 2 * (RoundHalfEven(s, 10) * 10) <= 2 * s + 10 /\ 2 * (RoundHalfEven(s, 10) * 10) >= 2 * s - 10
    BY <2>1, HalfEvenIs
  <2> QED
    BY <2>2
<1>4. PICK cn \in Int, sn \in Int, pn \in Int : cn = c * n /\ sn = s * n /\ pn = p * n
  OBVIOUS
<1>5. 20 * pn <= 2 * sn + 10 * n /\ 20 * pn >= 2 * sn - 10 * n
  <2>1. (20 * p) * n <= (2 * s + 10) * n /\ (2 * s - 10) * n <= (20 * p) * n
    <3>1. 20 * p \in Int /\ 2 * s + 10 \in Int /\ 2 * s - 10 \in Int /\ 2 * s - 10 <= 20 * p
      BY <1>3
    <3> QED
      BY <1>3, <3>1, Cancel
  <2>2. (20 * p) * n = 20 * pn /\ (2 * s + 10) * n = 2 * sn + 10 * n /\ (2 * s - 10) * n = 2 * sn - 10 * n
    BY <1>4
  <2> QED
    BY <2>1, <2>2
<1>6. 20 * (pn - cn) <= 21 * n /\ 20 * (cn - pn) <= 21 * n
  BY <1>1, <1>2, <1>4, <1>5
<1>7. ~(c + 2 <= p)
  <2>1. c + 2 <= p => (c + 2) * n <= p * n
    BY Cancel
  <2>2. (c + 2) * n = cn + 2 * n
    BY <1>4
  <2> QED
    BY <1>4, <1>6, <2>1, <2>2
<1>8. ~(p + 2 <= c)
  <2>1. p + 2 <= c => (p + 2) * n <= c * n
    BY Cancel
  <2>2. (p + 2) * n = pn + 2 * n
    BY <1>4
  <2> QED
    BY <1>4, <1>6, <2>1, <2>2
<1>9. Distance(c, p) <= 1
  BY <1>7, <1>8 DEF Distance
<1> QED
  BY <1>1, <1>2, <1>3, <1>9

\* What a window and a claim of it count are the same number.
CountsAlike(wallet) ==
  \A s \in 0..23 : /\ InWindow(wallet.hourLocal, s) \in Int
                   /\ InWindow(wallet.hourLocal, s) = InsideCount(wallet, s, (s + 2) % 24)

\* The busiest window has the coverage of its claim, and no window has more.
LEMMA BusiestOf ==
  ASSUME NEW wallet, wallet.dated \in Nat, CountsAlike(wallet)
  PROVE  IsBusiestClaim(wallet)
<1> DEFINE count == [s \in Starts |-> InWindow(wallet.hourLocal, s)]
           start == CHOOSE s \in Starts :
                      \A r \in Starts : count[r] < count[s] \/ (count[r] = count[s] /\ s <= r)
<1>1. ASSUME NEW s \in 0..23
      PROVE  count[s] = InsideCount(wallet, s, (s + 2) % 24) /\ count[s] \in Int
  BY DEF CountsAlike, Starts
<1>2. BusiestWindow(wallet.hourLocal, wallet.dated)
        = IF wallet.dated = 0 THEN None
          ELSE [start |-> start, end |-> (start + 2) % 24,
                coverage |-> RoundHalfEven(1000 * count[start], wallet.dated)]
  <2>1. \A s : (s + Width - 1) % 24 = (s + 3 - 1) % 24
    BY DEF Width
  <2> QED
    BY DEF BusiestWindow, Width
<1> HIDE DEF count
<1>3. start \in 0..23 /\ IsBusiest(count, 23, start)
  <2>1. \E s \in 0..23 : IsBusiest(count, 23, s)
    BY <1>1, BusiestExists
  <2> QED
    BY <2>1 DEF IsBusiest, Starts
<1> HIDE DEF start
<1>4. ASSUME wallet.dated > 0, NEW busiest, busiest = BusiestWindow(wallet.hourLocal, wallet.dated),
             NEW claim, claim = WindowClaim(wallet, busiest.start, busiest.end)
      PROVE  /\ Distance(busiest.coverage, claim.insidePct) <= 1
             /\ \A s \in 0..23 : WindowClaim(wallet, s, (s + 2) % 24).inside <= claim.inside
  <2>1. /\ busiest.start = start /\ busiest.end = (start + 2) % 24
        /\ busiest.coverage = RoundHalfEven(1000 * count[start], wallet.dated)
    BY <1>2, <1>4
  <2>2. /\ claim.inside = InsideCount(wallet, start, (start + 2) % 24)
        /\ claim.insidePct = RoundHalfEven(Share(claim.inside, wallet.dated), 10)
    BY <1>4, <2>1 DEF WindowClaim
  <2>3. PICK inside \in Int : inside = claim.inside /\ inside = count[start]
    BY <1>1, <1>3, <2>2
  <2>4. claim.insidePct = RoundHalfEven(RoundHalfEven(10000 * inside, wallet.dated), 10)
    BY <1>4, <2>2, <2>3 DEF Share
  <2>5. Distance(busiest.coverage, claim.insidePct) <= 1
    BY <1>4, <2>1, <2>3, <2>4, RoundedTwice
  <2>6. ASSUME NEW s \in 0..23 PROVE WindowClaim(wallet, s, (s + 2) % 24).inside <= claim.inside
    <3>1. count[s] \in Int /\ count[s] = InsideCount(wallet, s, (s + 2) % 24)
      BY <1>1
    <3>2. count[s] <= count[start]
      BY <1>3, <2>3, <3>1 DEF IsBusiest
    <3>3. WindowClaim(wallet, s, (s + 2) % 24).inside = InsideCount(wallet, s, (s + 2) % 24)
      BY DEF WindowClaim
    <3> QED
      BY <2>3, <3>1, <3>2, <3>3
  <2> QED
    BY <2>5, <2>6
<1> QED
  BY <1>4 DEF IsBusiestClaim

\* The hours of an activity are counted alike.
LEMMA AnalysisAlike ==
  ASSUME IsInput
  PROVE  analysis.dated \in Nat /\ CountsAlike(analysis)
<1> DEFINE wallet == analysis
           times == HoursOf(feed)
<1>1. feed \in Seq(Activities) /\ Sound(Activities)
  BY ActivitiesAreSound DEF IsInput
<1>2. wallet = AnalyzeWallet(feed)
  BY DEF analysis
<1>3. /\ times \in Seq(0..23) /\ wallet.hourLocal = ToBag(times) /\ wallet.dated = Len(times)
  BY <1>1, <1>2, HoursType, AnalysisOfHours
<1> HIDE DEF wallet, times
<1>4. ASSUME NEW s \in 0..23
      PROVE  /\ InWindow(wallet.hourLocal, s) = InsideCount(wallet, s, (s + 2) % 24)
             /\ InWindow(wallet.hourLocal, s) \in Int
  <2>1. InWindow(wallet.hourLocal, s) = Cardinality(Inside(times, s, (s + 2) % 24))
    BY <1>3, InWindowIs
  <2>2. /\ InsideCount(wallet, s, (s + 2) % 24) = Cardinality(Inside(times, s, (s + 2) % 24))
        /\ IsFiniteSet(Inside(times, s, (s + 2) % 24))
    BY <1>3, InsideIs
  <2>3. Cardinality(Inside(times, s, (s + 2) % 24)) \in Nat
    BY <2>2, FS_CardinalityType
  <2> QED
    BY <2>1, <2>2, <2>3
<1> QED
  BY <1>3, <1>4 DEF CountsAlike, wallet

\* So are two hours far apart.
LEMMA TalliedAlike ==
  ASSUME IsInput
  PROVE  tallied.dated \in Nat /\ CountsAlike(tallied)
<1>1. PICK m \in Nat, n \in Nat : m = hours[9] /\ n = hours[12]
  BY DEF IsInput
<1>2. tallied.hourLocal = hours /\ tallied.dated = m + n /\ DOMAIN hours = {9, 12}
  BY <1>1 DEF tallied, IsInput
<1>3. ASSUME NEW h PROVE CopiesOf(hours, h) = (IF h = 9 THEN m ELSE 0) + (IF h = 12 THEN n ELSE 0)
  BY <1>1, <1>2 DEF CopiesOf
<1>4. ASSUME NEW K \in SUBSET {9, 12}
      PROVE  SumFunctionOnSet(hours, K) = (IF 9 \in K THEN m ELSE 0) + (IF 12 \in K THEN n ELSE 0)
  <2>1. IsFiniteSet(K)
    <3>1. IsFiniteSet({9} \cup {12}) /\ K \in SUBSET ({9} \cup {12})
      BY FS_Singleton, FS_AddElement
    <3> QED
      BY <3>1, FS_Subset
  <2> DEFINE J == K \ {9}
             I == J \ {12}
  <2>2. IsFiniteSet(J) /\ I = {} /\ J \in SUBSET {12} /\ (12 \in J <=> 12 \in K)
    <3>1. J \subseteq K
      OBVIOUS
    <3>2. IsFiniteSet(J)
      BY <2>1, <3>1, FS_Subset
    <3> QED
      BY <3>2
  <2>3. Numbers(hours, K) /\ Numbers(hours, J)
    BY <1>1 DEF Numbers
  <2>4. SumFunctionOnSet(hours, {}) = 0
    BY SumEmpty
  <2>5. SumFunctionOnSet(hours, J) = IF 12 \in K THEN n ELSE 0
    <3>1. CASE 12 \in J
      <4>1. SumFunctionOnSet(hours, J) = hours[12] + SumFunctionOnSet(hours, I)
        BY <2>2, <2>3, <3>1, SumWithout
      <4> HIDE DEF I, J
      <4> QED
        BY <1>1, <2>2, <2>4, <3>1, <4>1
    <3>2. CASE 12 \notin J
      <4>1. J = {}
        BY <2>2, <3>2
      <4> HIDE DEF J
      <4> QED
        BY <2>2, <2>4, <3>2, <4>1
    <3> QED
      BY <3>1, <3>2
  <2>6. SumFunctionOnSet(hours, K) = (IF 9 \in K THEN m ELSE 0) + SumFunctionOnSet(hours, J)
    <3>1. CASE 9 \in K
      <4>1. SumFunctionOnSet(hours, K) = hours[9] + SumFunctionOnSet(hours, J)
        BY <2>1, <2>3, <3>1, SumWithout
      <4> HIDE DEF J
      <4> QED
        BY <1>1, <3>1, <4>1
    <3>2. CASE 9 \notin K
      <4>1. J = K
        BY <3>2
      <4> HIDE DEF J
      <4>2. SumFunctionOnSet(hours, J) \in Int
        BY <1>1, <2>5
      <4> QED
        BY <3>2, <4>1, <4>2
    <3> QED
      BY <3>1, <3>2
  <2> HIDE DEF J, I
  <2> QED
    BY <2>5, <2>6
<1>5. ASSUME NEW s \in 0..23
      PROVE  /\ InWindow(hours, s) \in Int
             /\ InWindow(hours, s) = InsideCount(tallied, s, (s + 2) % 24)
  <2> DEFINE g == [i \in 1..3 |-> CopiesOf(hours, HourAt(s, i))]
             K == {h \in DOMAIN hours : HourInWindow(h, s, (s + 2) % 24)}
             p == PlaceIn(s, 9)
             r == PlaceIn(s, 12)
  <2>1. InWindow(hours, s) = SumFunctionOnSet(g, 1..3) /\ InsideCount(tallied, s, (s + 2) % 24) = SumFunctionOnSet(hours, K)
    BY <1>2 DEF InWindow, SumFunction, Width, HourAt, InsideCount
  <2>2. ASSUME NEW i \in 1..3
        PROVE  g[i] = (IF p = i THEN m ELSE 0) + (IF r = i THEN n ELSE 0)
    <3>1. 9 \in 0..23 /\ 12 \in 0..23
      OBVIOUS
    <3>2. (p = i <=> 9 = HourAt(s, i)) /\ (r = i <=> 12 = HourAt(s, i))
      BY <3>1, WindowFrom
    <3> HIDE DEF p, r
    <3> QED
      BY <1>3, <3>2
  <2>3. (9 \in K <=> p \in 1..3) /\ (12 \in K <=> r \in 1..3) /\ K \in SUBSET {9, 12}
    <3>1. 9 \in 0..23 /\ 12 \in 0..23
      OBVIOUS
    <3>2. (p \in 1..3 <=> HourInWindow(9, s, (s + 2) % 24)) /\ (r \in 1..3 <=> HourInWindow(12, s, (s + 2) % 24))
      BY <3>1, WindowFrom
    <3> HIDE DEF p, r
    <3> QED
      BY <1>2, <3>2
  <2>4. SumFunctionOnSet(hours, K) = (IF p \in 1..3 THEN m ELSE 0) + (IF r \in 1..3 THEN n ELSE 0)
    <3> HIDE DEF K, p, r
    <3> QED
      BY <1>4, <2>3
  <2> HIDE DEF g, K, p, r
  <2>5. Numbers(g, 1..3)
    BY <2>2 DEF Numbers
  <2>6. PICK a : RunningSum(g, 3, a) /\ a[3] = SumFunctionOnSet(g, 1..3)
    BY <2>5, RunningSumExists
  <2>7. /\ 1 \in 1..3 /\ 2 \in 1..3 /\ 3 \in 1..3 /\ 1 - 1 = 0 /\ 2 - 1 = 1 /\ 3 - 1 = 2
    OBVIOUS
  <2>8. a[0] = 0 /\ a[1] = a[0] + g[1] /\ a[2] = a[1] + g[2] /\ a[3] = a[2] + g[3]
    BY <2>6, <2>7 DEF RunningSum
  <2>9. PICK x \in Int, y \in Int, z \in Int : /\ x = g[1] /\ y = g[2] /\ z = g[3]
                                              /\ x = (IF p = 1 THEN m ELSE 0) + (IF r = 1 THEN n ELSE 0)
                                              /\ y = (IF p = 2 THEN m ELSE 0) + (IF r = 2 THEN n ELSE 0)
                                              /\ z = (IF p = 3 THEN m ELSE 0) + (IF r = 3 THEN n ELSE 0)
    BY <2>2, <2>7
  <2>10. SumFunctionOnSet(g, 1..3) = x + y + z
    BY <2>6, <2>8, <2>9
  <2>11. p \in 1..3 <=> p = 1 \/ p = 2 \/ p = 3
    OBVIOUS
  <2>12. r \in 1..3 <=> r = 1 \/ r = 2 \/ r = 3
    OBVIOUS
  <2>13. x + y + z = (IF p \in 1..3 THEN m ELSE 0) + (IF r \in 1..3 THEN n ELSE 0)
    BY <2>9, <2>11, <2>12
  <2> QED
    BY <2>1, <2>4, <2>10, <2>13
<1> QED
  BY <1>2, <1>5 DEF CountsAlike

\* Neither rounding nor counting sets the busiest window apart from its claim.
LEMMA BusiestIsAClaim ==
  ASSUME IsInput
  PROVE  BusiestWindowIsAClaim
<1>1. IsBusiestClaim(analysis)
  BY AnalysisAlike, BusiestOf
<1>2. IsBusiestClaim(tallied)
  BY TalliedAlike, BusiestOf
<1> QED
  BY <1>1, <1>2 DEF BusiestWindowIsAClaim

\* A row of a cohort has the share of the claim.
LEMMA CohortsTell ==
  CohortTellsTheSame
<1> DEFINE wallet == analysis
<1> SUFFICES ASSUME NEW w \in Windows, NEW share, share = Cohort(<<feed>>, w)[1].windowShare
             PROVE  IF wallet.dated = 0 THEN share = None
                    ELSE share = WindowClaim(wallet, w[1], w[2]).share
  BY DEF CohortTellsTheSame
<1>1. Cohort(<<feed>>, w)[1] = CohortRow(wallet, w)
  BY DEF Cohort, analysis
<1> HIDE DEF wallet
<1>2. share = IF wallet.dated = 0 THEN None ELSE CohortShare(wallet, w)
  BY <1>1 DEF CohortRow
<1> QED
  BY <1>2 DEF CohortShare, WindowClaim, Share

(***************************************************************************)
(* The percentages of a claim make a whole, whatever is rounded            *)
(* (wallet.window_claim).                                                  *)
(***************************************************************************)
THEOREM PercentagesAlwaysAddUp == Spec => []ClaimPercentagesAddUp
<1>1. IsInput => ClaimPercentagesAddUp
  BY PercentagesAddUp
<1> QED
  BY <1>1, InputType, PTL

(***************************************************************************)
(* The busiest window, a claim of it and a cohort cover the same trades:   *)
(* the coverage is the claim's percentage to a tenth of a percent, the     *)
(* cohort's share the claim's (reverse_engineer._busiest_window,           *)
(* wallet.window_claim, cohort.build_cohort).                              *)
(***************************************************************************)
THEOREM WindowsAlwaysAgree == Spec => []WindowsAgree
<1>1. IsInput => WindowsAgree
  BY BusiestIsAClaim, CohortsTell DEF WindowsAgree
<1> QED
  BY <1>1, InputType, PTL

-----------------------------------------------------------------------------
(***************************************************************************)
(* The patterns of the purchases, and what they are found on.              *)
(***************************************************************************)
\* The purchases an analysis can use, and when each was made.
IsUsable(a) == a.side = "BUY" /\ a.time # None /\ a.price # None
Usable == {a \in Activities : IsUsable(a)}
TimeOf == [a \in Activities |-> a.time]

\* The purchases of an activity, in the order of time.
Bought(items) == StableSort(Select(items, Usable), TimeOf)

\* The times of dated purchases are numbers.
LEMMA TimesAreNumbers ==
  Numbers(TimeOf, Usable) /\ Numbers(TimeOf, WithTime(Activities))
BY ActivitiesAreSound DEF Numbers, TimeOf, Usable, IsUsable, WithTime, Sound, IsActivity

\* Select by a test on the rows there are, and on all there may be.
LEMMA SelectByTest ==
  ASSUME NEW R, NEW rows \in Seq(R), NEW S, NEW T, \A r \in R : r \in Range(rows) => (r \in S <=> r \in T)
  PROVE  Select(rows, S) = Select(rows, T)
<1>1. \A k \in 1..Len(rows) : rows[k] \in R /\ rows[k] \in Range(rows)
  BY DEF Range
<1>2. SameRows(rows, S, rows, T)
  BY <1>1 DEF SameRows
<1> QED
  BY <1>2, SelectSame

\* The purchases of an analysis are the usable ones, in the order of time.
LEMMA PurchasesAre ==
  ASSUME NEW items \in Seq(Activities)
  PROVE  /\ Purchases(items) = Bought(items) /\ Bought(items) \in Seq(Usable)
         /\ InOrder(Bought(items), TimeOf) /\ Len(Bought(items)) = Tally(items, Usable)
<1> DEFINE P == Range(items)
           S == {a \in P : a.time # None}
           W == WithTime(Activities)
           R == P \intersect S
           B == {a \in Activities : a.side = "BUY" /\ a.price # None}
           D == Select(items, W)
           key == [a \in P |-> a.time]
<1>1. items \in Seq(P) /\ P \subseteq Activities
  <2>1. \A i \in 1..Len(items) : items[i] \in P
    BY DEF Range
  <2>2. P \subseteq Activities
    BY DEF Range
  <2> HIDE DEF P
  <2> QED
    BY <2>1, <2>2
<1>2. Dated(items) = Select(items, S)
  BY DEF Dated
<1>3. Select(items, S) = D
  <2>1. \A a \in Activities : a \in Range(items) => (a \in S <=> a \in W)
    BY DEF WithTime
  <2> HIDE DEF S, W, P
  <2> QED
    BY <2>1, SelectByTest
<1>4. D \in Seq(R)
  <2> HIDE DEF P, S, D
  <2> QED
    BY <1>1, <1>3, SelectType
<1>5. Numbers(TimeOf, R) /\ \A r \in R : key[r] = TimeOf[r]
  <2>1. R \subseteq W
    BY <1>1 DEF WithTime
  <2>2. Numbers(TimeOf, W)
    BY TimesAreNumbers
  <2>3. \A r \in R : key[r] = TimeOf[r]
    BY <1>1 DEF TimeOf
  <2> HIDE DEF R, W, key
  <2> QED
    BY <2>1, <2>2, <2>3 DEF Numbers
<1>6. Chronological(items) = StableSort(D, TimeOf) /\ StableSort(D, TimeOf) \in Seq(R)
  <2>1. Chronological(items) = StableSort(D, key)
    BY <1>2, <1>3 DEF Chronological
  <2> HIDE DEF R, D, key
  <2> QED
    BY <1>4, <1>5, <2>1, SortByKeys, SortType
<1>7. Purchases(items) = Select(StableSort(D, TimeOf), B)
  <2> DEFINE C == StableSort(D, TimeOf)
             T == {a \in P : a.side = "BUY" /\ a.price # None}
  <2>1. Purchases(items) = Select(C, T)
    BY <1>6 DEF Purchases
  <2>2. \A r \in R : r \in Range(C) => (r \in T <=> r \in B)
    BY <1>1
  <2>3. C \in Seq(R)
    BY <1>6
  <2> HIDE DEF C, T, B, R
  <2>4. Select(C, T) = Select(C, B)
    BY <2>2, <2>3, SelectByTest
  <2> QED
    BY <2>1, <2>4 DEF C
<1>8. Select(StableSort(D, TimeOf), B) = StableSort(Select(D, B), TimeOf)
  <2> HIDE DEF R, D, B
  <2> QED
    BY <1>4, <1>5, SortSelect
<1>9. Select(D, B) = Select(items, Usable)
  <2>1. Select(D, B) = Select(items, W \intersect B)
    <3> HIDE DEF W, B
    <3> QED
      BY SelectSelect
  <2>2. W \intersect B = Usable
    BY DEF WithTime, Usable, IsUsable
  <2> QED
    BY <2>1, <2>2
<1>10. Purchases(items) = Bought(items)
  BY <1>7, <1>8, <1>9 DEF Bought
<1> HIDE DEF D, B, R, W, S, key, P
<1> DEFINE u == Select(items, Usable)
<1>11. u \in Seq(Usable)
  <2>1. u \in Seq(Activities \intersect Usable)
    BY SelectType
  <2>2. Activities \intersect Usable = Usable
    BY DEF Usable
  <2> QED
    BY <2>1, <2>2
<1>12. Len(u) = Tally(items, Usable)
  BY SelectLength
<1>13. Bought(items) = StableSort(u, TimeOf)
  BY DEF Bought
<1> HIDE DEF u
<1>14. /\ StableSort(u, TimeOf) \in Seq(Usable) /\ InOrder(StableSort(u, TimeOf), TimeOf)
       /\ Len(StableSort(u, TimeOf)) = Len(u)
  BY <1>11, TimesAreNumbers, SortType, SortLength
<1> QED
  BY <1>10, <1>12, <1>13, <1>14

\* Where the purchases are divided.
Half(items) == IF Len(Bought(items)) < 4 THEN 0 ELSE Len(Bought(items)) \div 2

\* The halves of the purchases, as long as each other or the later one longer by one.
LEMMA HalvesAre ==
  ASSUME NEW items \in Seq(Activities)
  PROVE  /\ Segments(items).discovery = SubSeq(Bought(items), 1, Half(items))
         /\ Segments(items).validation = IF Half(items) = 0 THEN <<>>
              ELSE SubSeq(Bought(items), Half(items) + 1, Len(Bought(items)))
         /\ Half(items) \in 0..Len(Bought(items))
         /\ Half(items) # 0 => Len(Bought(items)) - Half(items) - Half(items) \in 0..1
         /\ Len(Bought(items)) >= 4 => Half(items) # 0
<1>1. Purchases(items) = Bought(items) /\ Bought(items) \in Seq(Usable)
  BY PurchasesAre
<1>2. Len(Bought(items)) \in Nat
  BY <1>1
<1>3. /\ Segments(items).discovery = SubSeq(Bought(items), 1, Half(items))
      /\ Segments(items).validation = IF Half(items) = 0 THEN <<>>
              ELSE SubSeq(Bought(items), Half(items) + 1, Len(Bought(items)))
  BY <1>1 DEF Segments, Half
<1> DEFINE n == Len(Bought(items))
<1>4. n \in Nat
  BY <1>2
<1> HIDE DEF n
<1>5. n >= 4 => n \div 2 \in 1..n /\ n - n \div 2 - n \div 2 \in 0..1
  BY <1>4
<1> QED
  BY <1>3, <1>4, <1>5 DEF Half, n

\* The halves are all purchases, and none of the earlier is after one of the later.
LEMMA SplitChronological ==
  ASSUME IsInput
  PROVE  SplitIsChronological
<1> DEFINE buys == Bought(feed)
           n == Len(buys)
           mid == Half(feed)
           early == segments.discovery
           late == segments.validation
           usable == Select(feed, {a \in Range(feed) : a.side = "BUY" /\ a.time # None /\ a.price # None})
<1>1. feed \in Seq(Activities)
  BY DEF IsInput
<1>2. /\ buys \in Seq(Usable) /\ InOrder(buys, TimeOf)
      /\ early = SubSeq(buys, 1, mid) /\ late = IF mid = 0 THEN <<>> ELSE SubSeq(buys, mid + 1, n)
      /\ mid \in 0..n /\ (mid # 0 => n - mid - mid \in 0..1) /\ (n >= 4 => mid # 0)
  BY <1>1, PurchasesAre, HalvesAre DEF segments
<1>3. usable = Select(feed, Usable)
  <2> DEFINE T == {a \in Range(feed) : a.side = "BUY" /\ a.time # None /\ a.price # None}
  <2>1. \A a \in Activities : a \in Range(feed) => (a \in T <=> a \in Usable)
    BY DEF Usable, IsUsable
  <2> HIDE DEF T
  <2>2. Select(feed, T) = Select(feed, Usable)
    BY <1>1, <2>1, SelectByTest
  <2> QED
    BY <2>2 DEF T
<1>4. usable \in Seq(Usable) /\ buys = StableSort(usable, TimeOf)
  <2>1. Select(feed, Usable) \in Seq(Activities \intersect Usable)
    BY <1>1, SelectType
  <2>2. Activities \intersect Usable = Usable
    BY DEF Usable
  <2> QED
    BY <1>3, <2>1, <2>2 DEF Bought
<1> HIDE DEF buys, mid, early, late, usable
<1>5. n \in Nat /\ DOMAIN buys = 1..n /\ \A i \in 1..n : buys[i] \in Usable
  BY <1>2
<1>5a. mid \in 0..n /\ (mid # 0 => n - mid - mid \in 0..1) /\ (n >= 4 => mid # 0)
  BY <1>2
<1>5b. early = SubSeq(buys, 1, mid) /\ late = IF mid = 0 THEN <<>> ELSE SubSeq(buys, mid + 1, n)
  BY <1>2
<1> HIDE DEF n
<1>5c. mid \in Nat /\ mid <= n
  BY <1>5, <1>5a
<1>6. /\ Len(early) = mid /\ DOMAIN early = 1..mid /\ \A i \in 1..mid : early[i] = buys[i]
      /\ Len(late) = IF mid = 0 THEN 0 ELSE n - mid
      /\ DOMAIN late = 1..Len(late) /\ \A j \in 1..Len(late) : mid # 0 /\ late[j] = buys[mid + j]
  <2>1. ASSUME NEW l \in Nat, NEW m \in Nat, m <= n
        PROVE  /\ SubSeq(buys, l + 1, m) \in Seq(Usable)
               /\ Len(SubSeq(buys, l + 1, m)) = IF l + 1 <= m THEN m - (l + 1) + 1 ELSE 0
               /\ \A i \in 1..(m - (l + 1) + 1) : SubSeq(buys, l + 1, m)[i] = buys[l + 1 + i - 1]
    <3>1. \A i \in (l + 1)..m : buys[i] \in Usable
      BY <1>5, <2>1
    <3>2. l + 1 \in Int /\ m \in Int
      BY <2>1
    <3> QED
      BY <3>1, <3>2, SubSeqProperties
  <2>2. mid \in Nat /\ mid <= n
    BY <1>5c
  <2>3. Len(early) = mid /\ early \in Seq(Usable) /\ \A i \in 1..mid : early[i] = buys[i]
    <3>1. /\ SubSeq(buys, 0 + 1, mid) \in Seq(Usable)
          /\ Len(SubSeq(buys, 0 + 1, mid)) = IF 0 + 1 <= mid THEN mid - (0 + 1) + 1 ELSE 0
          /\ \A i \in 1..(mid - (0 + 1) + 1) : SubSeq(buys, 0 + 1, mid)[i] = buys[0 + 1 + i - 1]
      BY <2>1, <2>2
    <3>2. early = SubSeq(buys, 0 + 1, mid) /\ mid - (0 + 1) + 1 = mid
      BY <1>5b, <2>2
    <3>3. \A i \in 1..mid : 0 + 1 + i - 1 = i
      BY <2>2
    <3> QED
      BY <2>2, <3>1, <3>2, <3>3
  <2>4. CASE mid = 0
    BY <1>5b, <2>3, <2>4
  <2>5. CASE mid # 0
    <3>1. /\ SubSeq(buys, mid + 1, n) \in Seq(Usable)
          /\ Len(SubSeq(buys, mid + 1, n)) = IF mid + 1 <= n THEN n - (mid + 1) + 1 ELSE 0
          /\ \A i \in 1..(n - (mid + 1) + 1) : SubSeq(buys, mid + 1, n)[i] = buys[mid + 1 + i - 1]
      BY <1>5, <2>1, <2>2
    <3>2. late = SubSeq(buys, mid + 1, n) /\ n - (mid + 1) + 1 = n - mid
      BY <1>5, <1>5b, <2>2, <2>5
    <3>3. Len(late) = n - mid
      <4>1. mid + 1 <= n
        BY <1>5, <1>5a, <2>2, <2>5
      <4> QED
        BY <3>1, <3>2, <4>1
    <3>4. \A i \in 1..(n - mid) : mid + 1 + i - 1 = mid + i
      BY <1>5, <2>2
    <3>5. \A i \in 1..(n - mid) : late[i] = buys[mid + i]
      BY <3>1, <3>2, <3>4
    <3>6. DOMAIN late = 1..Len(late)
      BY <3>1, <3>2
    <3> QED
      BY <2>3, <2>5, <3>3, <3>5, <3>6
  <2> QED
    BY <2>4, <2>5
<1>7. ASSUME NEW i \in DOMAIN early, NEW j \in DOMAIN late PROVE early[i].time <= late[j].time
  <2>1. i \in 1..mid /\ j \in 1..(n - mid) /\ early[i] = buys[i] /\ late[j] = buys[mid + j]
    BY <1>6, <1>7
  <2>2. i \in 1..n /\ mid + j \in 1..n /\ i < mid + j
    BY <1>5, <1>5c, <2>1
  <2>3. TimeOf[buys[i]] <= TimeOf[buys[mid + j]]
    BY <1>2, <1>5, <2>2 DEF InOrder
  <2>4. TimeOf[buys[i]] = buys[i].time /\ TimeOf[buys[mid + j]] = buys[mid + j].time
    BY <1>5, <2>2 DEF TimeOf, Usable
  <2> QED
    BY <2>1, <2>3, <2>4
<1>8. Len(late) - Len(early) \in 0..1
  <2>1. Len(early) = mid /\ Len(late) = IF mid = 0 THEN 0 ELSE n - mid
    BY <1>6
  <2> QED
    BY <1>5, <1>5a, <1>5c, <2>1
<1>9. ASSUME Len(usable) >= 4 PROVE ToBag(early \o late) = ToBag(usable)
  <2>1. n = Len(usable) /\ ToBag(buys) = ToBag(usable)
    BY <1>4, TimesAreNumbers, SortLength, SortBag DEF n
  <2>2. mid # 0 /\ mid \in 0..n
    BY <1>5a, <1>9, <2>1
  <2>3. early \o late = buys
    <3>1. 1 \in 1..(n + 1) /\ mid \in (1 - 1)..n /\ n \in mid..n /\ n = Len(buys)
      BY <1>5, <2>2 DEF n
    <3>2. SubSeq(buys, 1, mid) \o SubSeq(buys, mid + 1, n) = SubSeq(buys, 1, n)
      BY <1>2, <3>1, ConcatAdjacentSubSeq
    <3>3. SubSeq(buys, 1, n) = buys
      BY <1>2, SubSeqFull DEF n
    <3> QED
      BY <1>5b, <2>2, <3>2, <3>3
  <2> QED
    BY <2>1, <2>3
<1> QED
  BY <1>7, <1>8, <1>9 DEF SplitIsChronological, early, late, usable

\* a is what is selected of the rows s up to x, and the first m rows of both are the same.
KeptUpTo(a, s, R, key, x) == a = Select(s, UpTo(R, key, x))
BothBegin(s, a, m) == m <= Len(a) => SubSeq(s, 1, m) = SubSeq(a, 1, m)
FoundBy(x, s, a, m) == m \in 1..Len(s) /\ s[m] = x => m <= Len(a)

\* What is selected up to x of rows in order is how they begin.
LEMMA BeginningUpTo ==
  ASSUME NEW R, NEW key, Numbers(key, R), NEW s \in Seq(R), InOrder(s, key), NEW x \in R,
         NEW a, KeptUpTo(a, s, R, key, x), NEW m \in Nat
  PROVE  BothBegin(s, a, m) /\ FoundBy(x, s, a, m)
<1>0. a = Select(s, UpTo(R, key, x))
  BY DEF KeptUpTo
<1> DEFINE L == UpTo(R, key, x)
           B == Beyond(R, key, x)
<1>1. PICK c, b : Splits(s, R, key, x, c, b)
  BY SortedSplits
<1>2. c \in Seq(L) /\ b \in Seq(B) /\ s = c \o b
  BY <1>1 DEF Splits
<1>3. L \subseteq R /\ B \subseteq R /\ L \intersect B = {} /\ key[x] \in Int
      /\ \A r \in B : key[x] < key[r]
  BY DEF UpTo, Beyond, Numbers
<1>4. c \in Seq(R) /\ b \in Seq(R)
  BY <1>2, <1>3, SeqMonotonic
<1> HIDE DEF L, B
<1>5. Select(c, L) = c /\ Select(b, L) = <<>>
  <2>1. Select(c, L) = c
    BY <1>2, SelectAll
  <2>2. B \intersect L = {}
    BY <1>3
  <2> QED
    BY <1>2, <2>1, <2>2, SelectNone
<1>6. a = c
  <2>1. Select(s, L) = Select(c, L) \o Select(b, L)
    BY <1>2, <1>4, SelectConcat
  <2>2. c \o <<>> = c
    BY <1>4, ConcatEmptySeq
  <2> QED
    BY <1>0, <1>5, <2>1, <2>2 DEF L
<1>7. /\ Len(c) \in Nat /\ Len(s) = Len(c) + Len(b) /\ Len(b) \in Nat
      /\ \A i \in 1..(Len(c) + Len(b)) : s[i] = IF i <= Len(c) THEN c[i] ELSE b[i - Len(c)]
  BY <1>2, <1>4, ConcatProperties
<1>8. ASSUME m <= Len(c) PROVE SubSeq(s, 1, m) = SubSeq(c, 1, m)
  <2>1. CASE m = 0
    <3>1. SubSeq(s, 1, 0) = <<>> /\ SubSeq(c, 1, 0) = <<>>
      BY SubSeqEmpty
    <3> QED
      BY <2>1, <3>1
  <2>2. CASE m # 0
    <3>1. 1 \in 1..Len(c) /\ m \in 1..Len(c)
      BY <1>7, <1>8, <2>2
    <3>2. SubSeq(c \o b, 1, m) = SubSeq(c, 1, m)
      BY <1>4, <3>1, SubSeqOfConcat1
    <3> QED
      BY <1>2, <3>2
  <2> QED
    BY <2>1, <2>2
<1>9. ASSUME m \in 1..Len(s), s[m] = x, ~(m <= Len(c)) PROVE FALSE
  <2>1. s[m] = b[m - Len(c)] /\ m - Len(c) \in 1..Len(b)
    BY <1>7, <1>9
  <2>2. b[m - Len(c)] \in B
    BY <1>2, <2>1
  <2>3. key[x] < key[x]
    BY <1>3, <1>9, <2>1, <2>2
  <2> QED
    BY <1>3, <2>3
<1> QED
  BY <1>6, <1>8, <1>9 DEF BothBegin, FoundBy

\* Activities that differ only in purchases after x.
DifferAfter(items, other, x) ==
  /\ Len(items) = Len(other)
  /\ \A k \in 1..Len(items) :
       items[k] = other[k] \/ \A a \in {items[k], other[k]} : IsUsable(a) /\ a.time > x.time

\* A change after the last purchase of the earlier half leaves that half as it is.
LEMMA SameDiscovery ==
  ASSUME NEW items \in Seq(Activities), NEW other \in Seq(Activities), Half(items) # 0,
         NEW x, x = Bought(items)[Half(items)], DifferAfter(items, other, x)
  PROVE  Segments(items).discovery = Segments(other).discovery
<1> DEFINE s == Bought(items)
           t == Bought(other)
           mid == Half(items)
           L == UpTo(Usable, TimeOf, x)
<1>1. /\ s \in Seq(Usable) /\ InOrder(s, TimeOf) /\ Len(s) = Tally(items, Usable)
      /\ t \in Seq(Usable) /\ InOrder(t, TimeOf) /\ Len(t) = Tally(other, Usable)
  BY PurchasesAre
<1>2. /\ Segments(items).discovery = SubSeq(s, 1, mid)
      /\ Segments(other).discovery = SubSeq(t, 1, Half(other))
      /\ mid \in 0..Len(s)
  BY HalvesAre
<1>3. Usable \subseteq Activities /\ Numbers(TimeOf, Usable)
      /\ (\A a \in Usable : TimeOf[a] = a.time /\ IsUsable(a)) /\ \A a \in Activities : IsUsable(a) <=> a \in Usable
  BY TimesAreNumbers DEF Usable, TimeOf
<1>4. \A k \in 1..Len(items) : items[k] \in Activities /\ other[k] \in Activities
  BY DEF DifferAfter
<1>5. {i \in DOMAIN items : items[i] \in Usable} = {i \in DOMAIN other : other[i] \in Usable}
  <2>1. DOMAIN items = 1..Len(items) /\ DOMAIN other = 1..Len(items)
    BY DEF DifferAfter
  <2>2. \A k \in 1..Len(items) : items[k] \in Usable <=> other[k] \in Usable
    BY <1>3, <1>4 DEF DifferAfter
  <2> QED
    BY <2>1, <2>2
<1>6. Len(s) = Len(t)
  BY <1>1, <1>5 DEF Tally
<1>7. Half(other) = mid
  BY <1>6 DEF Half
<1> HIDE DEF s, t, mid
<1>8. mid \in 1..Len(s) /\ s[mid] = x /\ x \in Usable
  <2>1. Len(s) \in Nat /\ mid # 0 /\ s[mid] = x
    BY <1>1 DEF s, mid
  <2>2. mid \in 1..Len(s)
    BY <1>2, <2>1
  <2> QED
    BY <1>1, <2>1, <2>2
<1>9. ASSUME NEW u \in Seq(Activities)
      PROVE  Select(Bought(u), L) = StableSort(Select(u, L), TimeOf)
  <2> DEFINE v == Select(u, Usable)
  <2>1. v \in Seq(Usable)
    <3>1. v \in Seq(Activities \intersect Usable)
      BY SelectType
    <3>2. Activities \intersect Usable = Usable
      BY <1>3
    <3> QED
      BY <3>1, <3>2
  <2>2. Select(v, L) = Select(u, L)
    <3>1. Usable \intersect L = L
      BY DEF UpTo
    <3>2. Select(Select(u, Usable), L) = Select(u, Usable \intersect L)
      <4> HIDE DEF L
      <4> QED
        BY SelectSelect
    <3> QED
      BY <3>1, <3>2
  <2> HIDE DEF v, L
  <2>3. Select(StableSort(v, TimeOf), L) = StableSort(Select(v, L), TimeOf)
    BY <1>3, <2>1, SortSelect
  <2> QED
    BY <2>2, <2>3 DEF Bought, v
<1>10. Select(items, L) = Select(other, L)
  <2>1. TimeOf[x] = x.time
    BY <1>3, <1>8
  <2>2. \A a \in Usable : a.time > x.time => a \notin L
    <3>1. \A a \in Usable : a.time \in Int /\ x.time \in Int
      BY <1>3, <1>8 DEF Numbers
    <3> QED
      BY <1>3, <2>1, <3>1 DEF UpTo
  <2>3. SameRows(items, L, other, L)
    <3>1. ASSUME NEW k \in 1..Len(items), items[k] # other[k]
          PROVE  items[k] \notin L /\ other[k] \notin L
      <4>1. /\ IsUsable(items[k]) /\ items[k].time > x.time
            /\ IsUsable(other[k]) /\ other[k].time > x.time
        BY <3>1 DEF DifferAfter
      <4>2. items[k] \in Usable /\ other[k] \in Usable
        BY <1>3, <1>4, <4>1
      <4> HIDE DEF L
      <4> QED
        BY <2>2, <4>1, <4>2
    <3> HIDE DEF L
    <3> QED
      BY <3>1 DEF SameRows, DifferAfter
  <2> HIDE DEF L
  <2> QED
    BY <2>3, SelectSame
<1>11. Select(s, L) = Select(t, L)
  BY <1>9, <1>10 DEF s, t
<1> DEFINE a == Select(s, L)
<1>12. KeptUpTo(a, s, Usable, TimeOf, x) /\ KeptUpTo(a, t, Usable, TimeOf, x)
  BY <1>11 DEF KeptUpTo
<1> HIDE DEF a, L
<1>13. mid \in Nat
  BY <1>8
<1>14. BothBegin(s, a, mid) /\ FoundBy(x, s, a, mid)
  BY <1>1, <1>3, <1>8, <1>12, <1>13, BeginningUpTo
<1>15. BothBegin(t, a, mid)
  BY <1>1, <1>3, <1>8, <1>12, <1>13, BeginningUpTo
<1>16. mid <= Len(a)
  BY <1>8, <1>14 DEF FoundBy
<1> QED
  BY <1>2, <1>7, <1>14, <1>15, <1>16 DEF BothBegin

\* What is found, from what it is found on.
FoundOn(early) ==
  LET ranked == MostCommon(KeysOf(early), TopPatterns)
  IN  {[pattern |-> ranked[i].value, support |-> ranked[i].count,
        coverage |-> Coverage(ranked[i].count, early)] : i \in DOMAIN ranked}

\* What is found is read off the earlier half alone.
LEMMA FoundIs ==
  ASSUME NEW items
  PROVE  {[pattern |-> c.pattern, support |-> c.support, coverage |-> c.coverage] :
            c \in Range(Candidates(items))} = FoundOn(Segments(items).discovery)
<1> DEFINE early == Segments(items).discovery
           late == Segments(items).validation
           ranked == MostCommon(KeysOf(early), TopPatterns)
           cs == Candidates(items)
<1>1. DOMAIN cs = DOMAIN ranked /\ \A i \in DOMAIN ranked :
        /\ cs[i].pattern = ranked[i].value /\ cs[i].support = ranked[i].count
        /\ cs[i].coverage = Coverage(ranked[i].count, early)
  BY DEF Candidates, Ranked
<1>2. Range(cs) = {cs[i] : i \in DOMAIN ranked}
  BY <1>1 DEF Range
<1> HIDE DEF cs
<1>3. {[pattern |-> c.pattern, support |-> c.support, coverage |-> c.coverage] : c \in Range(cs)}
        = {[pattern |-> cs[i].pattern, support |-> cs[i].support, coverage |-> cs[i].coverage] :
             i \in DOMAIN ranked}
  BY <1>2
<1>4. FoundOn(early)
        = {[pattern |-> ranked[i].value, support |-> ranked[i].count,
            coverage |-> Coverage(ranked[i].count, early)] : i \in DOMAIN ranked}
  BY DEF FoundOn
<1> HIDE DEF early, ranked
<1>5. {[pattern |-> cs[i].pattern, support |-> cs[i].support, coverage |-> cs[i].coverage] :
             i \in DOMAIN ranked}
       = {[pattern |-> ranked[i].value, support |-> ranked[i].count,
            coverage |-> Coverage(ranked[i].count, early)] : i \in DOMAIN ranked}
  BY <1>1
<1> QED
  BY <1>3, <1>4, <1>5 DEF cs, early

\* With a later purchase changed, the same patterns are found.
LEMMA IgnoresTheFuture ==
  ASSUME IsInput
  PROVE  PatternsIgnoreTheFuture
<1> DEFINE found(items) == {[pattern |-> c.pattern, support |-> c.support, coverage |-> c.coverage] :
                              c \in Range(Candidates(items))}
           early == segments.discovery
           Later(a) == a.side = "BUY" /\ a.time # None /\ a.price # None
                         /\ a.time > early[Len(early)].time
<1> SUFFICES ASSUME early # <<>>, NEW i \in DOMAIN feed, NEW a \in Activities, Later(feed[i]), Later(a)
             PROVE  found([feed EXCEPT ![i] = a]) = found(feed)
  BY DEF PatternsIgnoreTheFuture
<1>1. feed \in Seq(Activities)
  BY DEF IsInput
<1>2. segments = Segments(feed)
  BY DEF segments
<1> DEFINE x == Bought(feed)[Half(feed)]
           other == [feed EXCEPT ![i] = a]
<1>3. Half(feed) # 0 /\ early[Len(early)] = x
  <2>1. early = SubSeq(Bought(feed), 1, Half(feed)) /\ Half(feed) \in 0..Len(Bought(feed))
        /\ Bought(feed) \in Seq(Usable)
    BY <1>1, <1>2, HalvesAre, PurchasesAre
  <2> DEFINE buys == Bought(feed)
             mid == Half(feed)
  <2>2. mid \in Nat /\ mid <= Len(buys) /\ Len(buys) \in Nat
    BY <2>1
  <2> HIDE DEF buys, mid
  <2>3. \A k \in 1..mid : buys[k] \in Usable
    BY <2>1, <2>2 DEF buys
  <2>4. /\ Len(SubSeq(buys, 1, mid)) = IF 1 <= mid THEN mid - 1 + 1 ELSE 0
        /\ SubSeq(buys, 1, mid) \in Seq(Usable)
        /\ \A k \in 1..(mid - 1 + 1) : SubSeq(buys, 1, mid)[k] = buys[1 + k - 1]
    BY <2>2, <2>3, SubSeqProperties
  <2>5. Len(SubSeq(buys, 1, mid)) = mid /\ \A k \in 1..mid : SubSeq(buys, 1, mid)[k] = buys[k]
    <3>1. mid - 1 + 1 = mid /\ \A k \in 1..mid : 1 + k - 1 = k
      BY <2>2
    <3> QED
      BY <2>2, <2>4, <3>1
  <2>6. mid # 0
    <3>1. SubSeq(buys, 1, mid) # <<>>
      BY <2>1 DEF buys, mid
    <3>2. Len(SubSeq(buys, 1, mid)) # 0
      BY <2>4, <3>1, EmptySeq
    <3> QED
      BY <2>5, <3>2
  <2>7. mid \in 1..mid
    BY <2>2, <2>6
  <2>8. early = SubSeq(buys, 1, mid)
    BY <2>1 DEF buys, mid
  <2> HIDE DEF early
  <2>9. early[Len(early)] = buys[mid]
    BY <2>5, <2>7, <2>8
  <2> QED
    BY <2>6, <2>9 DEF buys, mid
<1>4. other \in Seq(Activities) /\ Len(other) = Len(feed)
      /\ \A j \in 1..Len(feed) : other[j] = IF j = i THEN a ELSE feed[j]
  BY <1>1, ExceptSeq
<1>5. Later(feed[i]) /\ Later(a)
  OBVIOUS
<1>6. IsUsable(feed[i]) /\ feed[i].time > x.time /\ IsUsable(a) /\ a.time > x.time
  BY <1>3, <1>5 DEF IsUsable
<1> HIDE DEF other, early, x, Later
<1>7. DifferAfter(feed, other, x)
  BY <1>1, <1>4, <1>6 DEF DifferAfter
<1>8. Segments(feed).discovery = Segments(other).discovery
  BY <1>1, <1>3, <1>4, <1>7, SameDiscovery DEF x
<1>9. found(feed) = FoundOn(Segments(feed).discovery) /\ found(other) = FoundOn(Segments(other).discovery)
  BY FoundIs
<1> QED
  BY <1>8, <1>9 DEF other

(***************************************************************************)
(* Patterns are found on the earlier half of the purchases, and the same   *)
(* ones whatever comes after it (reverse_engineer, "discovered on an       *)
(* earlier segment and evaluated on a later one").                         *)
(***************************************************************************)
THEOREM NeverLooksAhead == Spec => []NoLookAhead
<1>1. IsInput => NoLookAhead
  BY SplitChronological, IgnoresTheFuture DEF NoLookAhead
<1> QED
  BY <1>1, InputType, PTL

-----------------------------------------------------------------------------
\* The patterns against the tables of the analysis.

\* The values met, each once; f[k] has those of the first k.
Meet(d, v) == IF Contains(d, v) THEN d ELSE Append(d, v)

Met(values) == FoldLeft(LAMBDA d, v : IF Contains(d, v) THEN d ELSE Append(d, v), <<>>, values)

\* Only values are met.
LEMMA MetType ==
  ASSUME NEW V, NEW values \in Seq(V)
  PROVE  Met(values) \in Seq(V)
<1> DEFINE n == Len(values)
           T == Seq(V)
           turn == [p \in T \X Nat |-> IF p[2] \in 1..n THEN Meet(p[1], values[p[2]]) ELSE p[1]]
           Eq(iter) == iter = [t \in SUBSET DOMAIN values |->
                         IF t = {} THEN <<>> ELSE Meet(iter[t \ {Max(t)}], values[Max(t)])]
           chosen == CHOOSE iter : Eq(iter)
<1>1. n \in Nat /\ DOMAIN values = 1..n /\ \A k \in 1..n : values[k] \in V
  OBVIOUS
<1>2. Met(values) = chosen[DOMAIN values]
  BY DEF Met, FoldLeft, MapThenFoldSet, Max, Meet
<1>3. <<>> \in T
  OBVIOUS
<1>4. ASSUME NEW d \in T, NEW v \in V PROVE Meet(d, v) \in T
  BY DEF Meet
<1> HIDE DEF T
<1>5. turn \in [T \X Nat -> T]
  BY <1>1, <1>4
<1>6. ASSUME NEW x \in T, NEW k \in 1..n PROVE turn[<<x, k>>] = Meet(x, values[k])
  BY <1>1
<1> HIDE DEF turn, n
<1>7. PICK iter \in [SUBSET (1..n) -> T] : Folds(iter, <<>>, turn, n)
  BY <1>1, <1>3, <1>5, FoldExists
<1>8. Eq(iter)
  <2>1. ASSUME NEW t \in SUBSET (1..n), t # {}
        PROVE  turn[<<iter[t \ {Max(t)}], Max(t)>>] = Meet(iter[t \ {Max(t)}], values[Max(t)])
    <3>1. Max(t) \in 1..n
      BY <2>1, <1>1, MaxOf
    <3>2. iter[t \ {Max(t)}] \in T
      BY <1>7
    <3> QED
      BY <3>1, <3>2, <1>6
  <2> QED
    BY <1>1, <1>7, <2>1 DEF Folds
<1>9. Eq(chosen)
  BY <1>8
<1> HIDE DEF chosen
<1>10. StepsLikeFold(chosen, T, <<>>, turn, n)
  <2>1. chosen[{}] = <<>>
    BY <1>9
  <2>2. ASSUME NEW t \in SUBSET (1..n), t # {}, chosen[t \ {Max(t)}] \in T
        PROVE  chosen[t] = turn[<<chosen[t \ {Max(t)}], Max(t)>>]
    <3>1. Max(t) \in 1..n
      BY <2>2, <1>1, MaxOf
    <3>2. chosen[t] = Meet(chosen[t \ {Max(t)}], values[Max(t)])
      BY <1>1, <1>9, <2>2
    <3> QED
      BY <3>1, <3>2, <2>2, <1>6
  <2> QED
    BY <1>1, <1>3, <1>5, <2>1, <2>2 DEF StepsLikeFold
<1> HIDE DEF Eq
<1>11. PICK f : Traces(f, T, <<>>, turn, n) /\ f[n] = chosen[1..n]
  BY <1>10, FoldTraces
<1>12. f[n] \in T
  BY <1>1, <1>11 DEF Traces
<1> QED
  BY <1>1, <1>2, <1>11, <1>12 DEF T

\* What is most common is a value, with the number of times it is there.
LEMMA MostCommonIs ==
  ASSUME NEW V, NEW values \in Seq(V), NEW top \in Nat
  PROVE  LET common == MostCommon(values, top)
         IN  \A i \in DOMAIN common : /\ common[i].value \in Range(values)
                                      /\ common[i].count = ToBag(values)[common[i].value]
<1> DEFINE R == Range(values)
           met == Met(values)
           count == ToBag(values)
           key == [v \in Range(met) |-> 0 - count[v]]
           ranked == StableSort(met, key)
<1>1. values \in Seq(R)
  <2>1. \A i \in DOMAIN values : values[i] \in R
    BY DEF Range
  <2> HIDE DEF R
  <2> QED
    BY <2>1
<1>2. met \in Seq(R)
  BY <1>1, MetType
<1>3. \A v \in R : count[v] \in Int
  <2>1. Counts(count, values, DOMAIN values, R)
    BY BagOfSequence
  <2>2. IsFiniteSet(DOMAIN values)
    <3>1. DOMAIN values = 1..Len(values) /\ Len(values) \in Nat
      OBVIOUS
    <3> QED
      BY <3>1, CountTo
  <2>3. \A v \in R : Cardinality({i \in DOMAIN values : values[i] = v}) \in Nat
    BY <2>2, FS_Subset, FS_CardinalityType
  <2> HIDE DEF R, count
  <2> SUFFICES ASSUME NEW v \in R PROVE count[v] \in Int
    OBVIOUS
  <2>4. count[v] = Cardinality({i \in DOMAIN values : values[i] = v})
    BY <2>1 DEF Counts
  <2> QED
    BY <2>3, <2>4
<1> DEFINE M == Range(met)
<1> HIDE DEF met, R
<1>4. met \in Seq(M) /\ M \subseteq R
  <2>1. \A i \in DOMAIN met : met[i] \in M
    BY DEF Range
  <2>2. M \subseteq R
    BY <1>2 DEF Range
  <2> HIDE DEF M
  <2> QED
    BY <1>2, <2>1, <2>2
<1>5. Numbers(key, M)
  <2> HIDE DEF count
  <2> QED
    BY <1>3, <1>4 DEF Numbers
<1> HIDE DEF key, M
<1>6. ranked \in Seq(M)
  BY <1>4, <1>5, SortType
<1>7. MostCommon(values, top)
        = [i \in 1..Smaller(top, Len(ranked)) |-> [value |-> ranked[i], count |-> count[ranked[i]]]]
  BY DEF MostCommon, Met, met, ranked, key
<1> HIDE DEF ranked, count
<1>8. ASSUME NEW i \in 1..Smaller(top, Len(ranked)) PROVE ranked[i] \in R
  <2>1. i \in 1..Len(ranked)
    BY <1>6 DEF Smaller
  <2> QED
    BY <1>4, <1>6, <2>1
<1> QED
  BY <1>7, <1>8 DEF R, count

\* One after the other, sequences count together.
LEMMA TallyConcat ==
  ASSUME NEW R, NEW s \in Seq(R), NEW t \in Seq(R), NEW V
  PROVE  Tally(s \o t, V) = Tally(s, V) + Tally(t, V)
<1> DEFINE a == Select(s, V)
           b == Select(t, V)
<1>1. a \in Seq(R \intersect V) /\ b \in Seq(R \intersect V)
  BY SelectType
<1>2. s \o t \in Seq(R) /\ Select(s \o t, V) = a \o b
  BY SelectConcat
<1>3. Len(a) = Tally(s, V) /\ Len(b) = Tally(t, V)
  BY SelectLength
<1>4. Len(Select(s \o t, V)) = Tally(s \o t, V)
  BY <1>2, SelectLength
<1> HIDE DEF a, b
<1>5. Len(a \o b) = Len(a) + Len(b)
  BY <1>1
<1> QED
  BY <1>2, <1>3, <1>4, <1>5

\* There are no more rows of a part than of the whole.
LEMMA TallyPart ==
  ASSUME NEW R, NEW rows \in Seq(R), NEW V, NEW W, \A r \in R : r \in V => r \in W
  PROVE  Tally(rows, V) <= Tally(rows, W)
<1> DEFINE A == {i \in DOMAIN rows : rows[i] \in V}
           B == {i \in DOMAIN rows : rows[i] \in W}
<1>1. A \subseteq B
  OBVIOUS
<1>2. IsFiniteSet(B)
  <2>1. DOMAIN rows = 1..Len(rows) /\ Len(rows) \in Nat
    OBVIOUS
  <2>2. IsFiniteSet(1..Len(rows))
    BY <2>1, CountTo
  <2> QED
    BY <2>1, <2>2, FS_Subset
<1>3. Cardinality(A) <= Cardinality(B)
  <2> HIDE DEF A, B
  <2> QED
    BY <1>1, <1>2, FS_Subset
<1> QED
  BY <1>3 DEF Tally

\* The purchases of a pattern.
OfPattern(k) == {a \in Usable : Key(a) = k}

\* The support of a pattern is how many of the purchases are of it.
LEMMA SupportIs ==
  ASSUME NEW buys \in Seq(Usable), NEW k
  PROVE  /\ Support(k, buys) = Tally(buys, OfPattern(k))
         /\ k \in Range(KeysOf(buys)) => Support(k, buys) = ToBag(KeysOf(buys))[k]
<1> DEFINE keys == KeysOf(buys)
           V == {Key(a) : a \in Usable}
<1>1. DOMAIN buys = 1..Len(buys) /\ Len(buys) \in Nat /\ \A i \in 1..Len(buys) : buys[i] \in Usable
  OBVIOUS
<1>2. keys \in Seq(V) /\ DOMAIN keys = DOMAIN buys /\ \A i \in DOMAIN buys : keys[i] = Key(buys[i])
  <2>1. keys = [i \in 1..Len(buys) |-> Key(buys[i])]
    BY <1>1 DEF KeysOf
  <2>2. \A i \in 1..Len(buys) : Key(buys[i]) \in V
    BY <1>1
  <2> HIDE DEF keys, V
  <2> QED
    BY <1>1, <2>1, <2>2
<1> HIDE DEF keys, V
<1>3. DOMAIN ToBag(keys) = Range(keys) /\ Counts(ToBag(keys), keys, DOMAIN keys, Range(keys))
  BY <1>2, BagOfSequence
<1>4. {i \in DOMAIN keys : keys[i] = k} = {i \in DOMAIN buys : buys[i] \in OfPattern(k)}
  BY <1>1, <1>2 DEF OfPattern
<1>5. CASE k \in Range(keys)
  <2>1. ToBag(keys)[k] = Cardinality({i \in DOMAIN keys : keys[i] = k})
    BY <1>3, <1>5 DEF Counts
  <2> QED
    BY <1>3, <1>4, <1>5, <2>1 DEF Support, CopiesOf, Tally, keys
<1>6. CASE k \notin Range(keys)
  <2>1. {i \in DOMAIN keys : keys[i] = k} = {}
    BY <1>6 DEF Range
  <2>2. Tally(buys, OfPattern(k)) = 0
    BY <1>4, <2>1, FS_EmptySet DEF Tally
  <2> QED
    BY <1>3, <1>6, <2>2 DEF Support, CopiesOf, keys
<1> QED
  BY <1>5, <1>6

\* The halves, one after the other, are the purchases.
LEMMA HalvesMakeWhole ==
  ASSUME NEW items \in Seq(Activities), NEW early, NEW late, Half(items) # 0,
         early = Segments(items).discovery, late = Segments(items).validation
  PROVE  early \in Seq(Usable) /\ late \in Seq(Usable) /\ early \o late = Bought(items)
<1> DEFINE buys == Bought(items)
           mid == Half(items)
           n == Len(buys)
<1>1. /\ buys \in Seq(Usable) /\ n \in Nat /\ mid \in 0..n /\ mid # 0
      /\ early = SubSeq(buys, 1, mid) /\ late = SubSeq(buys, mid + 1, n)
  <2>1. buys \in Seq(Usable)
    BY PurchasesAre
  <2>2. mid \in 0..n /\ early = SubSeq(buys, 1, mid) /\ late = SubSeq(buys, mid + 1, n)
    BY HalvesAre
  <2> HIDE DEF buys, mid
  <2>3. n \in Nat
    BY <2>1
  <2> QED
    BY <2>1, <2>2, <2>3 DEF mid
<1> HIDE DEF buys, mid
<1>2. \A i \in 1..n : buys[i] \in Usable
  BY <1>1
<1> HIDE DEF n
<1>3. mid \in Nat /\ mid <= n
  BY <1>1
<1>4. early \in Seq(Usable)
  <2>1. \A i \in 1..mid : buys[i] \in Usable
    BY <1>1, <1>2, <1>3
  <2> QED
    BY <1>1, <1>3, <2>1, SubSeqProperties
<1>5. late \in Seq(Usable)
  <2>1. \A i \in (mid + 1)..n : buys[i] \in Usable
    BY <1>1, <1>2, <1>3
  <2>2. mid + 1 \in Int /\ n \in Int
    BY <1>1, <1>3
  <2> QED
    BY <1>1, <2>1, <2>2, SubSeqProperties
<1>6. early \o late = buys
  <2>1. 1 \in 1..(Len(buys) + 1) /\ mid \in (1 - 1)..Len(buys) /\ n \in mid..Len(buys)
    BY <1>1, <1>3 DEF n
  <2>2. SubSeq(buys, 1, mid) \o SubSeq(buys, mid + 1, n) = SubSeq(buys, 1, n)
    BY <1>1, <2>1, ConcatAdjacentSubSeq
  <2>3. SubSeq(buys, 1, n) = buys
    BY <1>1, SubSeqFull DEF n
  <2> QED
    BY <1>1, <2>2, <2>3
<1> QED
  BY <1>4, <1>5, <1>6 DEF buys

\* The purchases are as many, of any kind, as the activity has.
LEMMA TallyBought ==
  ASSUME NEW items \in Seq(Activities), NEW V, V \subseteq Usable
  PROVE  Tally(Bought(items), V) = Tally(items, V)
<1> DEFINE kept == Select(items, Usable)
<1>1. kept \in Seq(Usable)
  <2>1. kept \in Seq(Activities \intersect Usable)
    BY SelectType
  <2>2. Activities \intersect Usable = Usable
    BY DEF Usable
  <2> QED
    BY <2>1, <2>2
<1>2. Tally(kept, V) = Tally(items, V)
  <2>1. IsBoth(V, Usable, V)
    BY DEF IsBoth
  <2> QED
    BY <2>1, TallySelect
<1> HIDE DEF kept
<1>3. Tally(StableSort(kept, TimeOf), V) = Tally(kept, V)
  BY <1>1, TimesAreNumbers, TallySort
<1> QED
  BY <1>2, <1>3 DEF Bought, kept

\* A candidate counts the purchases of its pattern, which some purchase has.
LEMMA CandidateCounts ==
  ASSUME NEW items \in Seq(Activities), NEW c \in Range(Candidates(items))
  PROVE  /\ c.support + c.validation = Tally(items, OfPattern(c.pattern))
         /\ \E a \in Usable : c.pattern = Key(a)
<1> DEFINE early == Segments(items).discovery
           late == Segments(items).validation
           ranked == MostCommon(KeysOf(early), TopPatterns)
<1>1. PICK i \in DOMAIN ranked :
        /\ c.pattern = ranked[i].value /\ c.support = ranked[i].count
        /\ c.validation = Support(ranked[i].value, late)
  <2> DEFINE cs == Candidates(items)
  <2>1. DOMAIN cs = DOMAIN ranked /\ \A j \in DOMAIN ranked :
          /\ cs[j].pattern = ranked[j].value /\ cs[j].support = ranked[j].count
          /\ cs[j].validation = Support(ranked[j].value, late)
    BY DEF Candidates, Ranked
  <2>2. PICK j \in DOMAIN cs : c = cs[j]
    BY DEF Range
  <2> HIDE DEF cs, ranked
  <2> QED
    BY <2>1, <2>2
<1>2. early \in Seq(Usable)
  <2>1. CASE Half(items) = 0
    <3>1. early = SubSeq(Bought(items), 1, 0)
      BY <2>1, HalvesAre
    <3>2. SubSeq(Bought(items), 1, 0) = <<>>
      BY SubSeqEmpty
    <3> QED
      BY <3>1, <3>2
  <2>2. CASE Half(items) # 0
    BY <2>2, HalvesMakeWhole
  <2> QED
    BY <2>1, <2>2
<1> HIDE DEF early, late
<1>3. DOMAIN early = 1..Len(early) /\ Len(early) \in Nat /\ \A j \in 1..Len(early) : early[j] \in Usable
  BY <1>2
<1> DEFINE keys == KeysOf(early)
           V == {Key(a) : a \in Usable}
<1>4. DOMAIN keys = DOMAIN early /\ (\A j \in DOMAIN early : keys[j] = Key(early[j])) /\ keys \in Seq(V)
  <2>1. keys = [j \in 1..Len(early) |-> Key(early[j])]
    BY <1>3 DEF KeysOf
  <2>2. \A j \in 1..Len(early) : Key(early[j]) \in V
    BY <1>3
  <2> HIDE DEF keys, V
  <2> QED
    BY <1>3, <2>1, <2>2
<1>5. c.pattern \in Range(keys) /\ c.support = ToBag(keys)[c.pattern]
  <2>1. TopPatterns \in Nat
    BY PatternsAssumption
  <2> HIDE DEF V, keys
  <2>2. \A j \in DOMAIN MostCommon(keys, TopPatterns) :
          /\ MostCommon(keys, TopPatterns)[j].value \in Range(keys)
          /\ MostCommon(keys, TopPatterns)[j].count = ToBag(keys)[MostCommon(keys, TopPatterns)[j].value]
    BY <1>4, <2>1, MostCommonIs
  <2>3. ranked = MostCommon(keys, TopPatterns)
    BY DEF keys
  <2> HIDE DEF ranked
  <2> QED
    BY <1>1, <2>2, <2>3
<1>6. PICK j \in DOMAIN early : c.pattern = Key(early[j])
  <2> HIDE DEF keys
  <2> QED
    BY <1>4, <1>5 DEF Range
<1>7. Half(items) # 0
  <2> SUFFICES ASSUME Half(items) = 0 PROVE FALSE
    OBVIOUS
  <2>1. early = SubSeq(Bought(items), 1, 0)
    BY HalvesAre DEF early
  <2>2. early = <<>>
    BY <2>1, SubSeqEmpty
  <2> QED
    BY <1>3, <1>6, <2>2
<1>8. late \in Seq(Usable) /\ early \o late = Bought(items)
  BY <1>7, HalvesMakeWhole DEF early, late
<1>9. c.support = Tally(early, OfPattern(c.pattern)) /\ c.validation = Tally(late, OfPattern(c.pattern))
  <2>1. c.support = Support(c.pattern, early) /\ c.validation = Support(c.pattern, late)
    BY <1>1, <1>2, <1>5, SupportIs
  <2> QED
    BY <1>2, <1>8, <2>1, SupportIs
<1>10. Tally(Bought(items), OfPattern(c.pattern))
         = Tally(early, OfPattern(c.pattern)) + Tally(late, OfPattern(c.pattern))
  <2> DEFINE P == OfPattern(c.pattern)
  <2> HIDE DEF P
  <2>1. Tally(early \o late, P) = Tally(early, P) + Tally(late, P)
    BY <1>2, <1>8, TallyConcat
  <2> QED
    BY <1>8, <2>1 DEF P
<1>11. Tally(Bought(items), OfPattern(c.pattern)) = Tally(items, OfPattern(c.pattern))
  BY TallyBought DEF OfPattern
<1> QED
  BY <1>3, <1>6, <1>9, <1>10, <1>11

\* The hour of a purchase is in the window that its band is.
LEMMA HourOfBand ==
  ASSUME NEW a \in Usable, NEW start, start = Key(a).band * Width
  PROVE  HourInWindow(LocalHour(a.time), start, start + Width - 1)
<1> DEFINE h == LocalHour(a.time)
           q == a.time \div TicksPerHour
<1>1. a.time \in Nat
  BY ActivitiesAreSound DEF Sound, IsActivity, Usable, IsUsable
<1>2. q \in Int
  BY <1>1, WalletAssumption
<1>3. h = (q + OffsetHours) % 24
  BY DEF LocalHour
<1> HIDE DEF q
<1>4. h \in 0..23
  BY <1>2, <1>3, WalletAssumption
<1>5. start = 3 * (h \div 3)
  <2>1. Key(a).band = h \div 3 /\ Width = 3
    BY DEF Key, Width
  <2> HIDE DEF h
  <2> QED
    BY <1>4, <2>1
<1> HIDE DEF h
<1>6. start <= h /\ h <= start + 2 /\ start \in Int
  BY <1>4, <1>5
<1>7. HourInWindow(h, start, start + 3 - 1)
  BY <1>4, <1>6 DEF HourInWindow
<1> QED
  BY <1>7 DEF Width, h

\* The edges of the bands of prices.
LEMMA BandEdgesAre ==
  /\ Len(BandEdges) = 7 /\ BandEdges[1] = 0 /\ BandEdges[2] = 10 /\ BandEdges[3] = 30
  /\ BandEdges[4] = 50 /\ BandEdges[5] = 70 /\ BandEdges[6] = 90 /\ BandEdges[7] = 101
BY SMT DEF BandEdges

\* The coarse bucket of a price is that of the edge of its finer bucket.
LEMMA FinerBucket ==
  ASSUME NEW price \in 0..100, NEW b, b = Bucket(price, PriceEdges)
  PROVE  b \in 1..10 /\ Bucket(PriceEdges[b], BandEdges) = Bucket(price, BandEdges)
<1> DEFINE edge == PriceEdges[b]
<1>1. b \in 1..10 /\ edge = 10 * (b - 1) /\ edge <= price /\ price < PriceEdges[b + 1]
  BY PriceBucket, PriceEdgesAre DEF Bucketed
<1>2. b < 10 => price < 10 * b
  <2>1. b < 10 => PriceEdges[b + 1] = 10 * ((b + 1) - 1)
    BY <1>1, PriceEdgesAre
  <2> QED
    BY <1>1, <2>1
<1> HIDE DEF edge
<1>3. edge \in 0..90
  BY <1>1
<1>4. \A k \in 1..7 : BandEdges[k] <= edge <=> BandEdges[k] <= price
  <2>1. \A m \in {0, 1, 3, 5, 7, 9} : 10 * m <= edge <=> 10 * m <= price
    BY <1>1, <1>2
  <2>2. ~(101 <= edge) /\ ~(101 <= price)
    BY <1>3
  <2>3. \A k \in 1..7 : BandEdges[k] = 101 \/ \E m \in {0, 1, 3, 5, 7, 9} : BandEdges[k] = 10 * m
    <3> TAKE k \in 1..7
    <3>1. k \in {1, 2, 3, 4, 5, 6, 7}
      OBVIOUS
    <3> QED
      BY <3>1, BandEdgesAre
  <2> QED
    BY <2>1, <2>2, <2>3
<1>5. \A k \in 1..7 : BandEdges[k] \in Int
  <2> TAKE k \in 1..7
  <2>1. k \in {1, 2, 3, 4, 5, 6, 7}
    OBVIOUS
  <2> QED
    BY <2>1, BandEdgesAre
<1>6. ASSUME NEW k \in 1..6
      PROVE  BandEdges[k] <= edge /\ edge < BandEdges[k + 1] <=> BandEdges[k] <= price /\ price < BandEdges[k + 1]
  <2>1. k \in 1..7 /\ k + 1 \in 1..7
    OBVIOUS
  <2>2. BandEdges[k] \in Int /\ BandEdges[k + 1] \in Int /\ edge \in Int /\ price \in Int
    BY <1>3, <1>5, <2>1
  <2>3. /\ BandEdges[k] <= edge <=> BandEdges[k] <= price
        /\ BandEdges[k + 1] <= edge <=> BandEdges[k + 1] <= price
    BY <1>4, <2>1
  <2> QED
    BY <2>2, <2>3
<1>7. {k \in 1..6 : BandEdges[k] <= edge /\ edge < BandEdges[k + 1]}
        = {k \in 1..6 : BandEdges[k] <= price /\ price < BandEdges[k + 1]}
  BY <1>6
<1>8. 1..(Len(BandEdges) - 1) = 1..6
  BY BandEdgesAre
<1> DEFINE fits(x) == {k \in 1..(Len(BandEdges) - 1) : BandEdges[k] <= x /\ x < BandEdges[k + 1]}
<1>9. Bucket(edge, BandEdges) = Bucket(price, BandEdges)
  <2>1. fits(edge) = fits(price)
    BY <1>7, <1>8
  <2>2. \A x : Bucket(x, BandEdges) = IF fits(x) = {} THEN 0 ELSE CHOOSE k \in fits(x) : TRUE
    BY DEF Bucket
  <2> HIDE DEF fits
  <2>3. /\ Bucket(edge, BandEdges) = IF fits(edge) = {} THEN 0 ELSE CHOOSE k \in fits(edge) : TRUE
        /\ Bucket(price, BandEdges) = IF fits(price) = {} THEN 0 ELSE CHOOSE k \in fits(price) : TRUE
    BY <2>2
  <2> QED
    BY <2>1, <2>3
<1> QED
  BY <1>1, <1>9 DEF edge

\* The trades of a window of hours are those of the activity with such a time.
LEMMA InsideIsTally ==
  ASSUME NEW items \in Seq(Activities), NEW wallet, wallet = AnalyzeWallet(items), NEW start, NEW end
  PROVE  InsideCount(wallet, start, end)
           = Tally(items, {a \in Activities : a.time # None /\ HourInWindow(LocalHour(a.time), start, end)})
<1> DEFINE W == {a \in Activities : a.time # None /\ HourInWindow(LocalHour(a.time), start, end)}
           S == {a \in Range(items) : a.time # None}
           L == WithTime(Activities)
           dated == Dated(items)
<1>1. HoursOf(items) \in Seq(0..23) /\ wallet.hourLocal = ToBag(HoursOf(items))
      /\ DOMAIN HoursOf(items) = DOMAIN dated /\ dated \in Seq(L)
  BY ActivitiesAreSound, HoursType, AnalysisOfHours, DatedType
<1>2. InsideCount(wallet, start, end) = Cardinality(Inside(HoursOf(items), start, end))
  BY <1>1, InsideIs
<1>3. Inside(HoursOf(items), start, end)
        = {i \in DOMAIN dated : HourInWindow(LocalHour(dated[i].time), start, end)}
  BY <1>1 DEF Inside, HoursOf
<1>4. \A i \in DOMAIN dated : dated[i] \in L
  BY <1>1
<1>5. {i \in DOMAIN dated : HourInWindow(LocalHour(dated[i].time), start, end)}
        = {i \in DOMAIN dated : dated[i] \in W}
  BY <1>4 DEF WithTime
<1>6. dated = Select(items, L)
  <2>1. \A a \in Activities : a \in Range(items) => (a \in S <=> a \in L)
    BY DEF WithTime
  <2>2. dated = Select(items, S)
    BY DEF Dated
  <2> HIDE DEF S, L, dated
  <2>3. Select(items, S) = Select(items, L)
    BY <2>1, SelectByTest
  <2> QED
    BY <2>2, <2>3
<1>7. IsBoth(W, L, W)
  BY DEF IsBoth, WithTime
<1> HIDE DEF W, L, dated
<1>8. Tally(dated, W) = Tally(items, W)
  BY <1>6, <1>7, TallySelect
<1> QED
  BY <1>2, <1>3, <1>5, <1>8 DEF Tally, W

\* And those of finer buckets are those with such a price.
LEMMA FilledIsTally ==
  ASSUME NEW items \in Seq(Activities), NEW wallet, wallet = AnalyzeWallet(items),
         NEW finer \in SUBSET DOMAIN wallet.prices
  PROVE  SumFunctionOnSet(wallet.prices, finer)
           = Tally(items, {a \in Activities : a.price # None /\ Bucket(a.price, PriceEdges) \in finer})
<1> DEFINE K == 1..(Len(PriceEdges) - 1)
           D == {i \in DOMAIN items : items[i].price # None}
           c == [i \in D |-> Bucket(items[i].price, PriceEdges)]
           f == Filled(items, "price", PriceEdges)
           W == {a \in Activities : a.price # None /\ Bucket(a.price, PriceEdges) \in finer}
<1>1. wallet.prices = f
  BY DEF AnalyzeWallet
<1>2. f = [b \in K |-> Cardinality({i \in DOMAIN items :
                          items[i].price # None /\ Bucket(items[i].price, PriceEdges) = b})]
  BY DEF Filled
<1>3. finer \subseteq K
  BY <1>1, <1>2
<1>4. IsFiniteSet(finer) /\ IsFiniteSet(D)
  <2>1. DOMAIN items = 1..Len(items) /\ Len(items) \in Nat
    OBVIOUS
  <2>2. IsFiniteSet(1..Len(items))
    BY <2>1, CountTo
  <2>3. IsFiniteSet(K)
    <3>1. Len(PriceEdges) - 1 = 10
      BY PriceEdgesAre
    <3>2. IsFiniteSet(1..10)
      BY CountTo
    <3> QED
      BY <3>1, <3>2
  <2> HIDE DEF K
  <2> QED
    BY <1>3, <2>1, <2>2, <2>3, FS_Subset
<1>5. Counts(f, c, D, finer)
  <2> SUFFICES ASSUME NEW k \in finer PROVE f[k] = Cardinality({i \in D : c[i] = k})
    BY DEF Counts
  <2>1. {i \in D : c[i] = k} = {i \in DOMAIN items :
                          items[i].price # None /\ Bucket(items[i].price, PriceEdges) = k}
    OBVIOUS
  <2>2. k \in K
    BY <1>3
  <2> QED
    BY <1>2, <2>1, <2>2
<1>6. {i \in D : c[i] \in finer} = {i \in DOMAIN items : items[i] \in W}
  <2>1. \A i \in DOMAIN items : items[i] \in Activities
    OBVIOUS
  <2> QED
    BY <2>1
<1> HIDE DEF f, c, K, D, W
<1>7. SumFunctionOnSet(f, finer) = Cardinality({i \in D : c[i] \in finer})
  BY <1>4, <1>5, ClassesAddUp
<1> QED
  BY <1>1, <1>6, <1>7 DEF Tally, W

\* The purchases of a candidate are in the tables of the same activity.
LEMMA PatternsInTables ==
  ASSUME IsInput
  PROVE  PatternsAreInTheTables
<1> DEFINE wallet == analysis
<1>1. feed \in Seq(Activities) /\ wallet = AnalyzeWallet(feed)
  BY DEF IsInput, analysis
<1> HIDE DEF wallet
<1> SUFFICES ASSUME NEW c \in Range(Candidates(feed)), NEW start, start = c.pattern.band * Width,
                    NEW finer, finer = {b \in DOMAIN wallet.prices :
                                          Bucket(PriceEdges[b], BandEdges) = c.pattern.bucket}
             PROVE  /\ c.support + c.validation <= InsideCount(wallet, start, start + Width - 1)
                    /\ c.support + c.validation <= SumFunctionOnSet(wallet.prices, finer)
  BY DEF PatternsAreInTheTables, wallet
<1> DEFINE V == OfPattern(c.pattern)
           end == start + Width - 1
           W == {a \in Activities : a.time # None /\ HourInWindow(LocalHour(a.time), start, end)}
           P == {a \in Activities : a.price # None /\ Bucket(a.price, PriceEdges) \in finer}
<1>2. c.support + c.validation = Tally(feed, V)
  BY <1>1, CandidateCounts
<1>3. InsideCount(wallet, start, end) = Tally(feed, W)
  BY <1>1, InsideIsTally
<1>4. SumFunctionOnSet(wallet.prices, finer) = Tally(feed, P)
  <2>1. finer \in SUBSET DOMAIN wallet.prices
    OBVIOUS
  <2> QED
    BY <1>1, <2>1, FilledIsTally
<1>5. ASSUME NEW a \in Activities, a \in V PROVE a \in W /\ a \in P
  <2>1. a \in Usable /\ Key(a) = c.pattern /\ a.time # None /\ a.price # None
    BY <1>5 DEF OfPattern, Usable, IsUsable
  <2>2. a \in W
    BY <2>1, HourOfBand
  <2>3. a.price \in 0..100
    BY <2>1, ActivitiesAreSound DEF Sound, IsActivity
  <2>4. /\ Bucket(a.price, PriceEdges) \in 1..10
        /\ Bucket(PriceEdges[Bucket(a.price, PriceEdges)], BandEdges) = c.pattern.bucket
    BY <2>1, <2>3, FinerBucket DEF Key
  <2>5. DOMAIN wallet.prices = 1..10
    <3>1. wallet.prices = Filled(feed, "price", PriceEdges)
      BY <1>1 DEF AnalyzeWallet
    <3>2. DOMAIN Filled(feed, "price", PriceEdges) = 1..(Len(PriceEdges) - 1)
      BY DEF Filled
    <3> QED
      BY <3>1, <3>2, PriceEdgesAre
  <2> QED
    BY <2>1, <2>2, <2>4, <2>5
<1> HIDE DEF V, W, P, end
<1>6. Tally(feed, V) <= Tally(feed, W) /\ Tally(feed, V) <= Tally(feed, P)
  BY <1>1, <1>5, TallyPart
<1> QED
  BY <1>2, <1>3, <1>4, <1>6 DEF end

\* The windows and the patterns agree: the purchases of a candidate, in either half,
\* are among the trades of the hours of its band and of the finer buckets of its
\* prices, in the tables the analysis makes of the same activity.
THEOREM PatternsAlwaysInTheTables == Spec => []PatternsAreInTheTables
<1>1. IsInput => PatternsAreInTheTables
  BY PatternsInTables
<1> QED
  BY <1>1, InputType, PTL

-----------------------------------------------------------------------------
(***************************************************************************)
(* The falls of a series of prices.                                        *)
(***************************************************************************)
\* Of two shares a of b and n of q the first is no more than the second.
NoMore(a, b, n, q) == a * q <= n * b

\* Shares that are no more than each other in turn: the first no more than the last.
LEMMA SharesCompare ==
  ASSUME NEW a \in Int, NEW q \in Nat, NEW n \in Int, NEW b \in Nat, NEW e \in Int, NEW f \in Nat,
         q > 0, NoMore(a, b, n, q), NoMore(n, q, e, f)
  PROVE  NoMore(a, b, e, f)
<1> SUFFICES a * f <= e * b
  BY DEF NoMore
<1>0. a * q <= n * b /\ n * f <= e * q
  BY DEF NoMore
<1> DEFINE aq == a * q
           nb == n * b
           nf == n * f
           eq == e * q
           af == a * f
           eb == e * b
<1>1. aq * f <= nb * f
  <2>1. aq \in Int /\ nb \in Int /\ aq <= nb
    BY <1>0
  <2> HIDE DEF aq, nb
  <2> QED
    BY <2>1, ProductGrows
<1>2. nf * b <= eq * b
  <2>1. nf \in Int /\ eq \in Int /\ nf <= eq
    BY <1>0
  <2> HIDE DEF nf, eq
  <2> QED
    BY <2>1, ProductGrows
<1>3. aq * f = af * q /\ nb * f = nf * b /\ eq * b = eb * q
  OBVIOUS
<1>4. af \in Int /\ eb \in Int /\ nf * b \in Int
  OBVIOUS
<1>5. af * q <= eb * q
  <2> HIDE DEF af, eb, aq, nb, nf, eq
  <2> QED
    BY <1>1, <1>2, <1>3, <1>4
<1> HIDE DEF af, eb, aq, nb, nf, eq
<1>6. ASSUME ~(af <= eb) PROVE FALSE
  <2>1. eb + 1 <= af /\ eb + 1 \in Int
    BY <1>4, <1>6
  <2>2. (eb + 1) * q <= af * q
    BY <1>4, <2>1, ProductGrows
  <2>3. (eb + 1) * q = eb * q + q
    BY <1>4
  <2>4. eb * q \in Int /\ af * q \in Int
    BY <1>4
  <2> QED
    BY <1>5, <2>2, <2>3, <2>4
<1> QED
  BY <1>6 DEF af, eb

\* A fall from a higher price to the same one is no smaller a share.
LEMMA HigherFallsMore ==
  ASSUME NEW x \in Nat, NEW z \in Nat, NEW p \in Nat, x <= z
  PROVE  NoMore(x - p, x, z - p, z)
<1>1. p * x <= p * z
  BY ProductGrows
<1>2. (x - p) * z = x * z - p * z /\ (z - p) * x = x * z - p * x
  OBVIOUS
<1>3. p * x \in Int /\ p * z \in Int /\ x * z \in Int
  OBVIOUS
<1>4. (x - p) * z <= (z - p) * x
  BY <1>1, <1>2, <1>3
<1> QED
  BY <1>4 DEF NoMore

\* The walk of _max_drawdown over prices, one price further.
Stretch(d, p) ==
  LET peak == Series!Peak(d.peak, p)
      fall == <<peak - p, peak>>
  IN  [peak |-> peak,
       worst |-> IF peak > 0 /\ Series!Greater(fall, d.worst) THEN fall ELSE d.worst]

Stretches == [peak : Nat, worst : Int \X Nat]

\* f[k] is the walk after the first k prices.
FallsUpTo(s, f) ==
  /\ f \in [0..Len(s) -> Stretches] /\ f[0] = [peak |-> s[1], worst |-> <<0, 1>>]
  /\ \A k \in 1..Len(s) : f[k] = Stretch(f[k - 1], s[k])

\* The peak is one of the two prices, and neither is above it.
LEMMA PeakIs ==
  ASSUME NEW x \in Nat, NEW p \in Nat
  PROVE  Series!Peak(x, p) \in {x, p} /\ x <= Series!Peak(x, p) /\ p <= Series!Peak(x, p)
BY DEF Series!Peak, Series!Higher

\* The drawdown is read off the last step of the walk.
LEMMA FallsTrace ==
  ASSUME NEW s \in Seq(Nat), s # <<>>
  PROVE  \E f : FallsUpTo(s, f) /\ Series!MaxDrawdown(s) = f[Len(s)].worst
<1> DEFINE n == Len(s)
           T == Stretches
           base == [peak |-> s[1], worst |-> <<0, 1>>]
           turn == [p \in T \X Nat |-> IF p[2] \in 1..n THEN Stretch(p[1], s[p[2]]) ELSE p[1]]
           Eq(iter) == iter = [t \in SUBSET DOMAIN s |->
                         IF t = {} THEN base ELSE Stretch(iter[t \ {Max(t)}], s[Max(t)])]
           chosen == CHOOSE iter : Eq(iter)
<1>1. n \in Nat /\ DOMAIN s = 1..n /\ \A k \in 1..n : s[k] \in Nat
  OBVIOUS
<1>2. Series!MaxDrawdown(s) = chosen[DOMAIN s].worst
  BY DEF Series!MaxDrawdown, Series!FoldLeft, Series!MapThenFoldSet, Series!Max, Max, Stretch
<1>3. base \in T
  BY <1>1 DEF Stretches
<1>4. ASSUME NEW d \in T, NEW p \in Nat PROVE Stretch(d, p) \in T
  <2> DEFINE peak == Series!Peak(d.peak, p)
  <2>1. d.peak \in Nat /\ d.worst \in Int \X Nat
    BY DEF Stretches
  <2>2. peak \in Nat
    BY <2>1, PeakIs
  <2> HIDE DEF peak
  <2>3. <<peak - p, peak>> \in Int \X Nat
    BY <2>2
  <2> QED
    BY <2>1, <2>2, <2>3 DEF Stretch, Stretches, peak
<1> HIDE DEF T, base
<1>5. turn \in [T \X Nat -> T]
  BY <1>1, <1>4
<1>6. ASSUME NEW x \in T, NEW k \in 1..n PROVE turn[<<x, k>>] = Stretch(x, s[k])
  BY <1>1
<1> HIDE DEF turn, n
<1>7. PICK iter \in [SUBSET (1..n) -> T] : Folds(iter, base, turn, n)
  BY <1>1, <1>3, <1>5, FoldExists
<1>8. Eq(iter)
  <2>1. ASSUME NEW t \in SUBSET (1..n), t # {}
        PROVE  turn[<<iter[t \ {Max(t)}], Max(t)>>] = Stretch(iter[t \ {Max(t)}], s[Max(t)])
    <3>1. Max(t) \in 1..n
      BY <2>1, <1>1, MaxOf
    <3>2. iter[t \ {Max(t)}] \in T
      BY <1>7
    <3> QED
      BY <3>1, <3>2, <1>6
  <2> QED
    BY <1>1, <1>7, <2>1 DEF Folds
<1>9. Eq(chosen)
  BY <1>8
<1> HIDE DEF chosen
<1>10. StepsLikeFold(chosen, T, base, turn, n)
  <2>1. chosen[{}] = base
    BY <1>9
  <2>2. ASSUME NEW t \in SUBSET (1..n), t # {}, chosen[t \ {Max(t)}] \in T
        PROVE  chosen[t] = turn[<<chosen[t \ {Max(t)}], Max(t)>>]
    <3>1. Max(t) \in 1..n
      BY <2>2, <1>1, MaxOf
    <3>2. chosen[t] = Stretch(chosen[t \ {Max(t)}], s[Max(t)])
      BY <1>1, <1>9, <2>2
    <3> QED
      BY <3>1, <3>2, <2>2, <1>6
  <2> QED
    BY <1>1, <1>3, <1>5, <2>1, <2>2 DEF StepsLikeFold
<1> HIDE DEF Eq
<1>11. PICK f : Traces(f, T, base, turn, n) /\ f[n] = chosen[1..n]
  BY <1>10, FoldTraces
<1>12. FallsUpTo(s, f)
  <2>1. f \in [0..n -> T] /\ f[0] = base
    BY <1>11 DEF Traces
  <2>2. ASSUME NEW k \in 1..n PROVE f[k] = Stretch(f[k - 1], s[k])
    <3>1. f[k] = turn[<<f[k - 1], k>>]
      BY <1>11 DEF Traces
    <3>2. f[k - 1] \in T
      BY <2>1, <1>1
    <3> QED
      BY <3>1, <3>2, <1>6
  <2> QED
    BY <2>1, <2>2 DEF FallsUpTo, n, T, base
<1> QED
  BY <1>1, <1>2, <1>11, <1>12 DEF n

\* What the walk knows after k prices: the peak is the highest of them and one
\* of them, and the worst is no smaller than any fall and one of the falls.
Measured(s, k, d) ==
  /\ d.peak \in Nat /\ d.worst[1] \in Int /\ d.worst[2] \in Nat /\ d.worst[2] > 0
  /\ \A i \in 1..k : s[i] <= d.peak
  /\ \E i \in 1..Len(s) : i <= k + 1 /\ s[i] = d.peak
  /\ \A i, j \in 1..k : i <= j /\ s[i] > 0 => (s[i] - s[j]) * d.worst[2] <= d.worst[1] * s[i]
  /\ \/ d.worst = <<0, 1>>
     \/ \E i, j \in 1..k : i <= j /\ s[i] > 0 /\ d.worst = <<s[i] - s[j], s[i]>>

\* A price more leaves the worst fall the worst.
LEMMA StretchMeasures ==
  ASSUME NEW s \in Seq(Nat), NEW k \in Nat, k + 1 <= Len(s), NEW d \in Stretches, Measured(s, k, d)
  PROVE  Measured(s, k + 1, Stretch(d, s[k + 1]))
<1> DEFINE p == s[k + 1]
           peak == Series!Peak(d.peak, p)
           w == d.worst
           d2 == Stretch(d, p)
<1>1. /\ p \in Nat /\ k + 1 \in 1..Len(s) /\ \A i \in 1..(k + 1) : s[i] \in Nat
      /\ \A i \in 1..(k + 1) : i \in 1..k \/ i = k + 1
      /\ \A i \in 1..k : i \in 1..(k + 1)
  OBVIOUS
<1>2. /\ d.peak \in Nat /\ w[1] \in Int /\ w[2] \in Nat /\ w[2] > 0
      /\ \A i \in 1..k : s[i] <= d.peak
      /\ \A i, j \in 1..k : i <= j /\ s[i] > 0 => (s[i] - s[j]) * w[2] <= w[1] * s[i]
  BY DEF Measured
<1>3. peak \in {d.peak, p} /\ d.peak <= peak /\ p <= peak /\ peak \in Nat
  BY <1>1, <1>2, PeakIs
<1>4. /\ d2.peak = peak
      /\ d2.worst = IF peak > 0 /\ (peak - p) * w[2] > w[1] * peak THEN <<peak - p, peak>> ELSE w
  BY DEF Stretch, Series!Greater
<1> HIDE DEF d2, peak, p
<1>5. ASSUME NEW i \in 1..(k + 1) PROVE s[i] <= peak /\ s[i] \in Nat
  <2>1. s[i] \in Nat /\ (i \in 1..k => s[i] <= d.peak) /\ (i \in 1..k \/ s[i] = p)
    BY <1>1, <1>2 DEF p
  <2> QED
    BY <1>2, <1>3, <2>1
<1>6. \E i \in 1..Len(s) : i <= k + 1 /\ s[i] = peak
  <2>1. PICK i \in 1..Len(s) : i <= k + 1 /\ s[i] = d.peak
    BY DEF Measured
  <2> QED
    BY <1>1, <1>3, <2>1 DEF p
\* A fall to the new price is no larger than that from the peak.
<1>7. ASSUME NEW i \in 1..(k + 1) PROVE NoMore(s[i] - p, s[i], peak - p, peak)
  BY <1>1, <1>3, <1>5, HigherFallsMore DEF p
<1>8. CASE peak > 0 /\ (peak - p) * w[2] > w[1] * peak
  <2>1. d2.worst = <<peak - p, peak>> /\ d2.worst[1] = peak - p /\ d2.worst[2] = peak
    BY <1>4, <1>8
  <2>2. w[1] * peak <= (peak - p) * w[2]
    <3>1. w[1] * peak \in Int /\ (peak - p) * w[2] \in Int
      BY <1>1, <1>2, <1>3
    <3> QED
      BY <1>8, <3>1
  <2>3. ASSUME NEW i \in 1..(k + 1), NEW j \in 1..(k + 1), i <= j, s[i] > 0
        PROVE  (s[i] - s[j]) * peak <= (peak - p) * s[i]
    <3>1. CASE j = k + 1
      BY <1>7, <3>1 DEF p, NoMore
    <3>2. CASE j # k + 1
      <4>1. i \in 1..k /\ j \in 1..k
        BY <1>1, <2>3, <3>2
      <4>2. (s[i] - s[j]) * w[2] <= w[1] * s[i]
        BY <1>2, <2>3, <4>1
      <4> DEFINE a == s[i] - s[j]
                 e == peak - p
      <4>3. a \in Int /\ e \in Int /\ s[i] \in Nat
        BY <1>1, <1>3, <1>5
      <4>4. NoMore(a, s[i], w[1], w[2]) /\ NoMore(w[1], w[2], e, peak)
        BY <2>2, <4>2 DEF NoMore
      <4> HIDE DEF a, e
      <4>5. NoMore(a, s[i], e, peak)
        BY <1>2, <1>3, <4>3, <4>4, SharesCompare
      <4> QED
        BY <4>5 DEF a, e, NoMore
    <3> QED
      BY <3>1, <3>2
  <2>4. \E i, j \in 1..(k + 1) : i <= j /\ s[i] > 0 /\ d2.worst = <<s[i] - s[j], s[i]>>
    <3>1. PICK i \in 1..Len(s) : i <= k + 1 /\ s[i] = peak
      BY <1>6
    <3>2. i \in 1..(k + 1) /\ k + 1 \in 1..(k + 1)
      BY <3>1
    <3>3. d2.worst = <<s[i] - s[k + 1], s[i]>>
      BY <2>1, <3>1 DEF p
    <3> QED
      BY <1>8, <3>1, <3>2, <3>3
  <2>5. peak - p \in Int /\ \E i \in 1..Len(s) : i <= (k + 1) + 1 /\ s[i] = peak
    BY <1>1, <1>3, <1>6
  <2> QED
    BY <1>3, <1>4, <1>5, <1>8, <2>1, <2>3, <2>4, <2>5 DEF Measured, d2, p
<1>9. CASE ~(peak > 0 /\ (peak - p) * w[2] > w[1] * peak)
  <2>1. d2.worst = w
    BY <1>4, <1>9
  <2>2. ASSUME NEW i \in 1..(k + 1), NEW j \in 1..(k + 1), i <= j, s[i] > 0
        PROVE  (s[i] - s[j]) * w[2] <= w[1] * s[i]
    <3>1. CASE j = k + 1
      <4>1. peak > 0 /\ s[i] \in Nat
        BY <1>3, <1>5, <2>2
      <4> DEFINE a == s[i] - p
                 e == peak - p
      <4>2. a \in Int /\ e \in Int /\ peak \in Int
        BY <1>1, <1>3, <1>5
      <4>3. e * w[2] \in Int /\ w[1] * peak \in Int
        BY <1>2, <4>2
      <4>4. e * w[2] <= w[1] * peak
        BY <1>9, <4>1, <4>3
      <4>5. NoMore(a, s[i], e, peak) /\ NoMore(e, peak, w[1], w[2])
        BY <1>7, <4>4 DEF NoMore
      <4> DEFINE b == s[i]
                 n == w[1]
                 m == w[2]
      <4>6. a \in Int /\ peak \in Nat /\ e \in Int /\ b \in Nat /\ n \in Int /\ m \in Nat /\ peak > 0
        BY <1>2, <1>3, <4>1, <4>2
      <4>7. NoMore(a, b, e, peak) /\ NoMore(e, peak, n, m)
        BY <4>5
      <4> HIDE DEF a, e, b, n, m
      <4>8. NoMore(a, b, n, m)
        BY <4>6, <4>7, SharesCompare
      <4> QED
        BY <3>1, <4>8 DEF a, b, n, m, p, NoMore
    <3>2. CASE j # k + 1
      <4>1. i \in 1..k /\ j \in 1..k
        BY <1>1, <2>2, <3>2
      <4> QED
        BY <1>2, <2>2, <4>1
    <3> QED
      BY <3>1, <3>2
  <2>3. w = <<0, 1>> \/ \E i, j \in 1..(k + 1) : i <= j /\ s[i] > 0 /\ w = <<s[i] - s[j], s[i]>>
    BY <1>1 DEF Measured
  <2>4. \E i \in 1..Len(s) : i <= (k + 1) + 1 /\ s[i] = peak
    BY <1>6
  <2> QED
    BY <1>2, <1>3, <1>4, <1>5, <2>1, <2>2, <2>3, <2>4 DEF Measured, d2, p
<1> QED
  BY <1>8, <1>9 DEF d2, p

\* The drawdown of prices is no smaller than any fall and, unless it is none, one of them.
LEMMA DrawdownMeasures ==
  ASSUME NEW s \in Seq(Nat), s # <<>>, NEW w, w = Series!MaxDrawdown(s)
  PROVE  \E d \in Stretches : Measured(s, Len(s), d) /\ d.worst = w
<1>1. PICK f : FallsUpTo(s, f) /\ Series!MaxDrawdown(s) = f[Len(s)].worst
  BY FallsTrace
<1>2. /\ f \in [0..Len(s) -> Stretches] /\ f[0] = [peak |-> s[1], worst |-> <<0, 1>>]
      /\ \A k \in 1..Len(s) : f[k] = Stretch(f[k - 1], s[k])
  BY <1>1 DEF FallsUpTo
<1>3. Len(s) \in Nat /\ 1 \in 1..Len(s) /\ s[1] \in Nat
  OBVIOUS
<1> DEFINE S == {k \in Nat : k <= Len(s) => Measured(s, k, f[k])}
<1>4. 0 \in S
  <2>1. f[0].peak = s[1] /\ f[0].worst = <<0, 1>> /\ f[0].worst[1] = 0 /\ f[0].worst[2] = 1
    BY <1>2
  <2>2. Measured(s, 0, f[0])
    BY <1>3, <2>1 DEF Measured
  <2> QED
    BY <2>2
<1>5. ASSUME NEW k \in Nat, k \in S PROVE k + 1 \in S
  <2>1. CASE k + 1 <= Len(s)
    <3>1. k + 1 \in 1..Len(s) /\ (k + 1) - 1 = k /\ k \in 0..Len(s) /\ Measured(s, k, f[k])
      BY <1>3, <1>5, <2>1
    <3>2. f[k + 1] = Stretch(f[k], s[k + 1]) /\ f[k] \in Stretches
      BY <1>2, <3>1
    <3>3. Measured(s, k + 1, Stretch(f[k], s[k + 1]))
      BY <2>1, <3>1, <3>2, StretchMeasures
    <3> QED
      BY <3>2, <3>3
  <2> QED
    BY <1>3, <2>1
<1> HIDE DEF S
<1>6. Len(s) \in S
  BY <1>3, <1>4, <1>5, SetInduction
<1>7. Measured(s, Len(s), f[Len(s)]) /\ Len(s) \in 0..Len(s) /\ f[Len(s)] \in Stretches
  BY <1>2, <1>3, <1>6 DEF S
<1> QED
  BY <1>1, <1>7

\* The helpers of the instance are those of the modules it is made of.
LEMMA SeriesHelpers ==
  ASSUME NEW rows, NEW S, NEW key
  PROVE  /\ Series!Select(rows, S) = Select(rows, S)
         /\ Series!StableSort(rows, key) = StableSort(rows, key)
         /\ Series!Range(rows) = Range(rows)
<1>1. Series!Select(rows, S) = Select(rows, S)
  BY DEF Series!Select, Select, Series!FoldLeft, FoldLeft, Series!MapThenFoldSet, MapThenFoldSet,
         Series!Max, Max
<1>2. Series!StableSort(rows, key) = StableSort(rows, key)
  BY DEF Series!StableSort, StableSort, Series!FoldLeft, FoldLeft, Series!MapThenFoldSet,
         MapThenFoldSet, Series!Max, Max, Series!InsertAt, InsertAt
<1>3. Series!Range(rows) = Range(rows)
  BY DEF Series!Range, Range
<1> QED
  BY <1>1, <1>2, <1>3

\* A history has points of its rows.
LEMMA HistoryType ==
  ASSUME NEW R, NEW rows \in Seq(R), \A p \in R : p.time \in Nat
  PROVE  Series!History(rows) \in Seq(R)
<1> DEFINE S == {p \in Range(rows) : p.time # None /\ p.price # None}
           key == Series!ByTime(rows)
           P == Range(rows)
           kept == Select(rows, S)
<1>1. Series!History(rows) = StableSort(kept, key)
  BY SeriesHelpers DEF Series!History, Series!ByTime
<1>2. rows \in Seq(P) /\ P \subseteq R
  <2>1. \A i \in DOMAIN rows : rows[i] \in P
    BY DEF Range
  <2>2. P \subseteq R
    BY DEF Range
  <2> HIDE DEF P
  <2> QED
    BY <2>1, <2>2
<1>3. Numbers(key, P)
  BY <1>2, SeriesHelpers DEF Numbers, Series!ByTime
<1> HIDE DEF P, S, key
<1>4. kept \in Seq(P)
  BY <1>2, SelectType
<1> HIDE DEF kept
<1>5. StableSort(kept, key) \in Seq(P)
  BY <1>3, <1>4, TallySort
<1> QED
  BY <1>1, <1>2, <1>5, SeqMonotonic

\* The drawdown of a history is the worst of its falls.
LEMMA FallsAreMeasured ==
  ASSUME IsInput
  PROVE  FallsMeasured
<1> DEFINE s == prices
           stats == Series!Summarize(history)
<1>1. history \in Seq(Points) /\ \A p \in Points : p.price \in Nat
  <2>1. points \in Seq(Points) /\ \A p \in Points : p.time \in Nat /\ p.price \in Nat
    BY InputsAssumption DEF IsInput
  <2> QED
    BY <2>1, HistoryType DEF history
<1>2. s = [i \in DOMAIN history |-> history[i].price]
  BY DEF prices, Series!Prices
<1>3. s \in Seq(Nat) /\ DOMAIN s = 1..Len(s)
  <2>1. DOMAIN history = 1..Len(history) /\ Len(history) \in Nat
        /\ \A i \in 1..Len(history) : history[i].price \in Nat
    BY <1>1
  <2> HIDE DEF s
  <2> QED
    BY <1>2, <2>1
<1>4. ASSUME s # <<>> PROVE stats.maxDrawdown = Series!MaxDrawdown(s)
  <2>1. Series!Prices(history) = s
    BY DEF prices
  <2>2. Len(s) # 0
    BY <1>3, <1>4
  <2> HIDE DEF s
  <2> QED
    BY <2>1, <2>2 DEF Series!Summarize
<1> HIDE DEF s, stats
<1>5. ASSUME s # <<>>, NEW w, w = stats.maxDrawdown
      PROVE  /\ \A i, j \in 1..Len(s) : i <= j /\ s[i] > 0 =>
                   ~Series!Greater(<<s[i] - s[j], s[i]>>, w)
             /\ \/ w[1] = 0
                \/ \E i, j \in 1..Len(s) : i <= j /\ s[i] > 0 /\ <<s[i] - s[j], s[i]>> = w
  <2>1. PICK d \in Stretches : Measured(s, Len(s), d) /\ d.worst = w
    BY <1>3, <1>4, <1>5, DrawdownMeasures
  <2>2. /\ w[1] \in Int /\ w[2] \in Nat /\ \A i \in 1..Len(s) : s[i] \in Nat
        /\ \A i, j \in 1..Len(s) : i <= j /\ s[i] > 0 => (s[i] - s[j]) * w[2] <= w[1] * s[i]
        /\ \/ w = <<0, 1>>
           \/ \E i, j \in 1..Len(s) : i <= j /\ s[i] > 0 /\ w = <<s[i] - s[j], s[i]>>
    BY <1>3, <2>1 DEF Measured
  <2>3. ASSUME NEW i \in 1..Len(s), NEW j \in 1..Len(s), i <= j, s[i] > 0
        PROVE  ~((s[i] - s[j]) * w[2] > w[1] * s[i])
    <3>1. (s[i] - s[j]) * w[2] \in Int /\ w[1] * s[i] \in Int
      BY <2>2
    <3> QED
      BY <2>2, <2>3, <3>1
  <2> QED
    BY <2>2, <2>3 DEF Series!Greater
<1> DEFINE Fall(i, j) == <<s[i] - s[j], s[i]>>
           Falls == {f \in (DOMAIN s) \X (DOMAIN s) : f[1] <= f[2] /\ s[f[1]] > 0}
<1>6. ASSUME s # <<>>, NEW w, w = stats.maxDrawdown
      PROVE  /\ \A f \in Falls : ~Series!Greater(Fall(f[1], f[2]), w)
             /\ w[1] = 0 \/ \E f \in Falls : Fall(f[1], f[2]) = w
  <2>1. ASSUME NEW f \in Falls PROVE ~Series!Greater(Fall(f[1], f[2]), w)
    <3>1. f[1] \in 1..Len(s) /\ f[2] \in 1..Len(s) /\ f[1] <= f[2] /\ s[f[1]] > 0
      BY <1>3
    <3> QED
      BY <1>5, <1>6, <3>1
  <2>2. ASSUME NEW i \in 1..Len(s), NEW j \in 1..Len(s), i <= j, s[i] > 0, Fall(i, j) = w
        PROVE  \E f \in Falls : Fall(f[1], f[2]) = w
    <3>1. <<i, j>> \in Falls /\ Fall(<<i, j>>[1], <<i, j>>[2]) = w
      BY <1>3, <2>2
    <3> QED
      BY <3>1
  <2> QED
    BY <1>5, <1>6, <2>1, <2>2
<1> QED
  BY <1>6 DEF FallsMeasured, s, stats

(***************************************************************************)
(* The drawdown is the worst fall from any price to a later one            *)
(* (price_series._max_drawdown).                                           *)
(***************************************************************************)
THEOREM FallsAlwaysMeasured == Spec => []FallsMeasured
<1>1. IsInput => FallsMeasured
  BY FallsAreMeasured
<1> QED
  BY <1>1, InputType, PTL

-----------------------------------------------------------------------------
\* The scans.

\* The prices and the signals that markets of M may have.
QuotesOf(M) == {[asset |-> m.asset, positive |-> m.positive, of |-> m.id] : m \in M}
SignalsOf(M) ==
  {[id |-> m.id, asset |-> m.asset, score |-> m.score, price |-> q.of] : m \in M, q \in QuotesOf(M)}

Scans(M) ==
  [prices : Seq(QuotesOf(M)), asked : Seq({m.asset : m \in M}),
   signals : Seq(SignalsOf(M)), raised : BOOLEAN]

\* What a visit finds out, by the prices there are.
KnownIn(quoted, asset) == \E i \in DOMAIN quoted : quoted[i].asset = asset
QuoteOf(m) == [asset |-> m.asset, positive |-> m.positive, of |-> m.id]
QuoteFor(quoted, m) ==
  IF KnownIn(quoted, m.asset) THEN quoted[CHOOSE i \in DOMAIN quoted : quoted[i].asset = m.asset]
  ELSE QuoteOf(m)
IsPriced(quoted, m) == KnownIn(quoted, m.asset) \/ m.fails # "price"
Raises(quoted, m) == IsPriced(quoted, m) /\ m.opening /\ ~QuoteFor(quoted, m).positive
SignalOf(quoted, m) ==
  [id |-> m.id, asset |-> m.asset, score |-> m.score, price |-> QuoteFor(quoted, m).of]
PricesAfter(quoted, m) ==
  IF KnownIn(quoted, m.asset) \/ m.fails = "price" THEN quoted ELSE Append(quoted, QuoteOf(m))

\* The scan v is s after a visit to m.
IsVisited(v, s, m) ==
  IF s.raised \/ m.fails \in {"market", "book"} THEN v = s
  ELSE /\ v.prices = PricesAfter(s.prices, m)
       /\ v.asked = IF KnownIn(s.prices, m.asset) THEN s.asked ELSE Append(s.asked, m.asset)
       /\ v.raised <=> Raises(s.prices, m)
       /\ v.signals = IF IsPriced(s.prices, m) /\ ~Raises(s.prices, m)
                        THEN Append(s.signals, SignalOf(s.prices, m)) ELSE s.signals

\* The price a visit goes by.
LEMMA QuoteType ==
  ASSUME NEW M, NEW quoted \in Seq(QuotesOf(M)), NEW m \in M
  PROVE  /\ QuoteFor(quoted, m) \in QuotesOf(M) /\ QuoteFor(quoted, m).asset = m.asset
         /\ SignalOf(quoted, m) \in SignalsOf(M)
         /\ PricesAfter(quoted, m) \in Seq(QuotesOf(M))
         /\ KnownIn(quoted, m.asset) => \E i \in DOMAIN quoted : quoted[i] = QuoteFor(quoted, m)
<1> DEFINE Q == QuotesOf(M)
           at == CHOOSE i \in DOMAIN quoted : quoted[i].asset = m.asset
<1>1. QuoteOf(m) \in Q /\ QuoteOf(m).asset = m.asset
  BY DEF QuotesOf, QuoteOf
<1>2. KnownIn(quoted, m.asset) => at \in DOMAIN quoted /\ quoted[at].asset = m.asset
  BY DEF KnownIn
<1>3. QuoteFor(quoted, m) = IF KnownIn(quoted, m.asset) THEN quoted[at] ELSE QuoteOf(m)
  BY DEF QuoteFor
<1>0. \A i \in DOMAIN quoted : quoted[i] \in Q
  OBVIOUS
<1> HIDE DEF at
<1>4. QuoteFor(quoted, m) \in Q /\ QuoteFor(quoted, m).asset = m.asset
  <2> HIDE DEF Q
  <2> QED
    BY <1>0, <1>1, <1>2, <1>3
<1>5. SignalOf(quoted, m) \in SignalsOf(M)
  BY <1>4 DEF SignalOf, SignalsOf
<1>6. PricesAfter(quoted, m) \in Seq(Q)
  <2> HIDE DEF Q
  <2> QED
    BY <1>1 DEF PricesAfter, Q
<1> QED
  BY <1>2, <1>3, <1>4, <1>5, <1>6

\* The prices of a scan that has asked.
LEMMA AskIs ==
  ASSUME NEW M, NEW s \in Scans(M), NEW m \in M, NEW after, after = AskPrice(s, m)
  PROVE  /\ after \in Scans(M) /\ after.prices = PricesAfter(s.prices, m)
         /\ after.asked = IF KnownIn(s.prices, m.asset) THEN s.asked ELSE Append(s.asked, m.asset)
         /\ after.signals = s.signals /\ after.raised = s.raised
         /\ Known(after, m.asset) <=> IsPriced(s.prices, m)
         /\ Known(after, m.asset) => PriceOf(after, m.asset) = QuoteFor(s.prices, m)
<1> DEFINE Q == QuotesOf(M)
           A == {x.asset : x \in M}
           G == SignalsOf(M)
           p == PricesAfter(s.prices, m)
<1>1. /\ s = [prices |-> s.prices, asked |-> s.asked, signals |-> s.signals, raised |-> s.raised]
      /\ s.prices \in Seq(Q) /\ s.asked \in Seq(A) /\ s.signals \in Seq(G) /\ s.raised \in BOOLEAN
      /\ m.asset \in A
  BY DEF Scans
<1>2. p \in Seq(Q)
  BY <1>1, QuoteType
<1>3. ASSUME NEW x \in Seq(Q), NEW y \in Seq(A), NEW z \in Seq(G), NEW r \in BOOLEAN
      PROVE  [prices |-> x, asked |-> y, signals |-> z, raised |-> r] \in Scans(M)
  BY DEF Scans
<1> HIDE DEF Q, A, G
<1>4. after = [prices |-> p,
               asked |-> IF KnownIn(s.prices, m.asset) THEN s.asked ELSE Append(s.asked, m.asset),
               signals |-> s.signals, raised |-> s.raised]
  <2>1. CASE KnownIn(s.prices, m.asset)
    BY <1>1, <2>1 DEF AskPrice, Known, KnownIn, PricesAfter
  <2>2. CASE ~KnownIn(s.prices, m.asset)
    <3>1. p = IF m.fails = "price" THEN s.prices ELSE Append(s.prices, QuoteOf(m))
      BY <2>2 DEF PricesAfter
    <3>2. ~Known(s, m.asset)
      BY <2>2 DEF Known, KnownIn
    <3> HIDE DEF p
    <3> QED
      BY <1>1, <2>2, <3>1, <3>2 DEF AskPrice, QuoteOf
  <2> QED
    BY <2>1, <2>2
<1>5. Append(s.asked, m.asset) \in Seq(A)
  BY <1>1
<1>6. after \in Scans(M)
  BY <1>1, <1>2, <1>3, <1>4, <1>5
<1> HIDE DEF p
<1>7. after.prices = p /\ after.signals = s.signals /\ after.raised = s.raised
  BY <1>4
<1>8. /\ Known(after, m.asset) <=> IsPriced(s.prices, m)
      /\ Known(after, m.asset) => PriceOf(after, m.asset) = QuoteFor(s.prices, m)
  <2>1. CASE KnownIn(s.prices, m.asset)
    <3>1. p = s.prices
      BY <2>1 DEF p, PricesAfter
    <3> QED
      BY <1>7, <2>1, <3>1 DEF Known, KnownIn, PriceOf, QuoteFor, IsPriced
  <2>2. CASE ~KnownIn(s.prices, m.asset) /\ m.fails = "price"
    <3>1. p = s.prices
      BY <2>2 DEF p, PricesAfter
    <3> QED
      BY <1>7, <2>2, <3>1 DEF Known, KnownIn, PriceOf, QuoteFor, IsPriced
  <2>3. CASE ~KnownIn(s.prices, m.asset) /\ m.fails # "price"
    <3> DEFINE n == Len(s.prices)
               q == QuoteOf(m)
    <3>1. p = Append(s.prices, q) /\ q.asset = m.asset
      BY <2>3 DEF p, PricesAfter, QuoteOf
    <3> HIDE DEF q
    <3>2. DOMAIN p = 1..(n + 1) /\ p[n + 1] = q /\ n \in Nat /\ \A i \in 1..n : p[i] = s.prices[i]
      BY <1>1, <3>1
    <3>3. \A i \in 1..n : s.prices[i].asset # m.asset
      BY <1>1, <2>3 DEF KnownIn
    <3> HIDE DEF n
    <3>4. n + 1 \in DOMAIN p /\ p[n + 1].asset = m.asset /\ \A i \in DOMAIN p : p[i].asset = m.asset => i = n + 1
      BY <3>1, <3>2, <3>3
    <3>5. (CHOOSE i \in DOMAIN p : p[i].asset = m.asset) = n + 1
      BY <3>4
    <3> QED
      BY <1>7, <2>3, <3>2, <3>4, <3>5 DEF Known, KnownIn, PriceOf, QuoteFor, IsPriced, q
  <2> QED
    BY <2>1, <2>2, <2>3
<1> QED
  BY <1>4, <1>6, <1>7, <1>8 DEF p

\* A visit leaves a scan of such markets, as follows.
LEMMA VisitIs ==
  ASSUME NEW M, NEW s \in Scans(M), NEW m \in M
  PROVE  Visit(s, m) \in Scans(M) /\ IsVisited(Visit(s, m), s, m)
<1>1. CASE s.raised \/ m.fails \in {"market", "book"}
  BY <1>1 DEF Visit, IsVisited
<1>2. CASE ~(s.raised \/ m.fails \in {"market", "book"})
  <2> DEFINE after == AskPrice(s, m)
             q == PriceOf(after, m.asset)
             g == Append(after.signals, [id |-> m.id, asset |-> m.asset, score |-> m.score, price |-> q.of])
  <2>1. Visit(s, m) = IF ~Known(after, m.asset) THEN after
                      ELSE IF m.opening /\ ~q.positive THEN [after EXCEPT !.raised = TRUE]
                      ELSE [after EXCEPT !.signals = g]
    BY <1>2 DEF Visit
  <2> HIDE DEF after
  <2>2. /\ after \in Scans(M) /\ after.prices = PricesAfter(s.prices, m)
        /\ after.asked = IF KnownIn(s.prices, m.asset) THEN s.asked ELSE Append(s.asked, m.asset)
        /\ after.signals = s.signals /\ after.raised = s.raised
        /\ Known(after, m.asset) <=> IsPriced(s.prices, m)
        /\ Known(after, m.asset) => q = QuoteFor(s.prices, m)
    BY AskIs DEF after
  <2>3. IsPriced(s.prices, m) => g = Append(s.signals, SignalOf(s.prices, m))
    BY <2>2 DEF SignalOf
  <2>4. s.prices \in Seq(QuotesOf(M)) /\ s.signals \in Seq(SignalsOf(M)) /\ ~s.raised
    BY <1>2 DEF Scans
  <2>5. SignalOf(s.prices, m) \in SignalsOf(M)
    BY <2>4, QuoteType
  <2> HIDE DEF q, g
  <2>6. IsPriced(s.prices, m) => g \in Seq(SignalsOf(M))
    BY <2>3, <2>4, <2>5
  <2>7. CASE ~IsPriced(s.prices, m)
    <3>1. Visit(s, m) = after /\ ~Raises(s.prices, m)
      BY <2>1, <2>2, <2>7 DEF Raises
    <3> QED
      BY <1>2, <2>2, <2>4, <2>7, <3>1 DEF IsVisited
  <2>8. CASE IsPriced(s.prices, m) /\ Raises(s.prices, m)
    <3>1. Visit(s, m) = [after EXCEPT !.raised = TRUE]
      BY <2>1, <2>2, <2>8 DEF Raises
    <3>2. Visit(s, m) \in Scans(M) /\ Visit(s, m).prices = after.prices /\ Visit(s, m).asked = after.asked
          /\ Visit(s, m).signals = after.signals /\ Visit(s, m).raised
      BY <2>2, <3>1 DEF Scans
    <3> QED
      BY <1>2, <2>2, <2>8, <3>2 DEF IsVisited
  <2>9. CASE IsPriced(s.prices, m) /\ ~Raises(s.prices, m)
    <3>1. Visit(s, m) = [after EXCEPT !.signals = g]
      BY <2>1, <2>2, <2>9 DEF Raises
    <3>2. Visit(s, m) \in Scans(M) /\ Visit(s, m).prices = after.prices /\ Visit(s, m).asked = after.asked
          /\ Visit(s, m).signals = g /\ Visit(s, m).raised = after.raised
      BY <2>2, <2>6, <2>9, <3>1 DEF Scans
    <3> QED
      BY <1>2, <2>2, <2>3, <2>4, <2>9, <3>2 DEF IsVisited
  <2> QED
    BY <2>7, <2>8, <2>9
<1> QED
  BY <1>1, <1>2

\* What the scan has after the markets so far.
Scanned(markets) == FoldLeft(Visit, NoSignals, markets)

ScannedUpTo(markets, M, f) ==
  /\ f \in [0..Len(markets) -> Scans(M)] /\ f[0] = NoSignals
  /\ \A k \in 1..Len(markets) : f[k] = Visit(f[k - 1], markets[k])

\* The fold of the visits, market by market.
LEMMA ScanTrace ==
  ASSUME NEW M, NEW markets \in Seq(M)
  PROVE  \E f : ScannedUpTo(markets, M, f) /\ Scanned(markets) = f[Len(markets)]
<1> DEFINE n == Len(markets)
           T == Scans(M)
           turn == [p \in T \X Nat |-> IF p[2] \in 1..n THEN Visit(p[1], markets[p[2]]) ELSE p[1]]
           Eq(iter) == iter = [t \in SUBSET DOMAIN markets |->
                         IF t = {} THEN NoSignals ELSE Visit(iter[t \ {Max(t)}], markets[Max(t)])]
           chosen == CHOOSE iter : Eq(iter)
<1>1. n \in Nat /\ DOMAIN markets = 1..n /\ \A k \in 1..n : markets[k] \in M
  OBVIOUS
<1>2. Scanned(markets) = chosen[DOMAIN markets]
  BY DEF Scanned, FoldLeft, MapThenFoldSet, Max
<1>3. NoSignals \in T
  BY DEF NoSignals, Scans
<1>4. ASSUME NEW s \in T, NEW m \in M PROVE Visit(s, m) \in T
  BY VisitIs
<1> HIDE DEF T
<1>5. turn \in [T \X Nat -> T]
  BY <1>1, <1>4
<1>6. ASSUME NEW x \in T, NEW k \in 1..n PROVE turn[<<x, k>>] = Visit(x, markets[k])
  BY <1>1
<1> HIDE DEF turn, n
<1>7. PICK iter \in [SUBSET (1..n) -> T] : Folds(iter, NoSignals, turn, n)
  BY <1>1, <1>3, <1>5, FoldExists
<1>8. Eq(iter)
  <2>1. ASSUME NEW t \in SUBSET (1..n), t # {}
        PROVE  turn[<<iter[t \ {Max(t)}], Max(t)>>] = Visit(iter[t \ {Max(t)}], markets[Max(t)])
    <3>1. Max(t) \in 1..n
      BY <2>1, <1>1, MaxOf
    <3>2. iter[t \ {Max(t)}] \in T
      BY <1>7
    <3> QED
      BY <3>1, <3>2, <1>6
  <2> QED
    BY <1>1, <1>7, <2>1 DEF Folds
<1>9. Eq(chosen)
  BY <1>8
<1> HIDE DEF chosen
<1>10. StepsLikeFold(chosen, T, NoSignals, turn, n)
  <2>1. chosen[{}] = NoSignals
    BY <1>9
  <2>2. ASSUME NEW t \in SUBSET (1..n), t # {}, chosen[t \ {Max(t)}] \in T
        PROVE  chosen[t] = turn[<<chosen[t \ {Max(t)}], Max(t)>>]
    <3>1. Max(t) \in 1..n
      BY <2>2, <1>1, MaxOf
    <3>2. chosen[t] = Visit(chosen[t \ {Max(t)}], markets[Max(t)])
      BY <1>1, <1>9, <2>2
    <3> QED
      BY <3>1, <3>2, <2>2, <1>6
  <2> QED
    BY <1>1, <1>3, <1>5, <2>1, <2>2 DEF StepsLikeFold
<1> HIDE DEF Eq
<1>11. PICK f : Traces(f, T, NoSignals, turn, n) /\ f[n] = chosen[1..n]
  BY <1>10, FoldTraces
<1>12. ScannedUpTo(markets, M, f)
  <2>1. f \in [0..n -> T] /\ f[0] = NoSignals
    BY <1>11 DEF Traces
  <2>2. ASSUME NEW k \in 1..n PROVE f[k] = Visit(f[k - 1], markets[k])
    <3>1. f[k] = turn[<<f[k - 1], k>>]
      BY <1>11 DEF Traces
    <3>2. f[k - 1] \in T
      BY <2>1, <1>1
    <3> QED
      BY <3>1, <3>2, <1>6
  <2> QED
    BY <2>1, <2>2 DEF ScannedUpTo, n, T
<1> QED
  BY <1>1, <1>2, <1>11, <1>12 DEF n

\* One market more is one visit more.
LEMMA ScanAppend ==
  ASSUME NEW M, NEW markets \in Seq(M), NEW m \in M
  PROVE  Scanned(Append(markets, m)) = Visit(Scanned(markets), m)
<1> DEFINE more == Append(markets, m)
           n == Len(markets)
<1>1. more \in Seq(M) /\ Len(more) = n + 1 /\ n \in Nat /\ more[n + 1] = m
      /\ \A k \in 1..n : more[k] = markets[k]
  OBVIOUS
<1> HIDE DEF more
<1>2. PICK f : ScannedUpTo(markets, M, f) /\ Scanned(markets) = f[n]
  BY ScanTrace
<1>3. PICK g : ScannedUpTo(more, M, g) /\ Scanned(more) = g[Len(more)]
  BY <1>1, ScanTrace
<1> DEFINE S == {k \in Nat : k <= n => g[k] = f[k]}
<1> HIDE DEF n
<1>4. 0 \in S
  BY <1>2, <1>3 DEF ScannedUpTo
<1>5. ASSUME NEW k \in Nat, k \in S PROVE k + 1 \in S
  <2> SUFFICES ASSUME k + 1 <= n PROVE g[k + 1] = f[k + 1]
    OBVIOUS
  <2>1. k + 1 \in 1..n /\ k + 1 \in 1..Len(more) /\ (k + 1) - 1 = k /\ g[k] = f[k]
    BY <1>1, <1>5
  <2>2. f[k + 1] = Visit(f[k], markets[k + 1])
    BY <1>2, <2>1 DEF ScannedUpTo, n
  <2>3. g[k + 1] = Visit(g[k], more[k + 1])
    BY <1>3, <2>1 DEF ScannedUpTo
  <2> QED
    BY <1>1, <2>1, <2>2, <2>3
<1>6. n \in S
  BY <1>1, <1>4, <1>5, SetInduction
<1>7. g[n + 1] = Visit(g[n], more[n + 1])
  <2>1. n + 1 \in 1..Len(more) /\ (n + 1) - 1 = n
    BY <1>1
  <2> QED
    BY <1>3, <2>1 DEF ScannedUpTo
<1> QED
  BY <1>1, <1>2, <1>3, <1>6, <1>7 DEF more, n

\* A scan of no market has nothing.
LEMMA ScanEmpty == Scanned(<<>>) = NoSignals
<1>1. <<>> \in Seq({}) /\ Len(<<>>) = 0
  OBVIOUS
<1> DEFINE none == <<>>
<1> HIDE DEF none
<1>2. none \in Seq({}) /\ Len(none) = 0
  BY <1>1 DEF none
<1>3. PICK f : ScannedUpTo(none, {}, f) /\ Scanned(none) = f[Len(none)]
  BY <1>2, ScanTrace
<1> QED
  BY <1>2, <1>3 DEF ScannedUpTo, none

\* A scan is of such markets.
LEMMA ScanType ==
  ASSUME NEW M, NEW markets \in Seq(M)
  PROVE  Scanned(markets) \in Scans(M)
<1>1. PICK f : ScannedUpTo(markets, M, f) /\ Scanned(markets) = f[Len(markets)]
  BY ScanTrace
<1>2. Len(markets) \in 0..Len(markets)
  OBVIOUS
<1> QED
  BY <1>1, <1>2 DEF ScannedUpTo

\* A scan that has raised stays so.
LEMMA RaisedStays ==
  ASSUME NEW M, NEW markets \in Seq(M), NEW f, ScannedUpTo(markets, M, f), ~f[Len(markets)].raised
  PROVE  \A k \in 0..Len(markets) : ~f[k].raised
<1> DEFINE n == Len(markets)
           S == {d \in Nat : d <= n => ~f[n - d].raised}
<1>1. n \in Nat
  OBVIOUS
<1>2. \A k \in 1..n : f[k] = Visit(f[k - 1], markets[k])
  BY DEF ScannedUpTo
<1>3. 0 \in S
  BY <1>1
<1> HIDE DEF n
<1>4. ASSUME NEW d \in Nat, d \in S PROVE d + 1 \in S
  <2> SUFFICES ASSUME d + 1 <= n, f[n - (d + 1)].raised PROVE FALSE
    OBVIOUS
  <2>1. n - d \in 1..n /\ (n - d) - 1 = n - (d + 1) /\ ~f[n - d].raised
    BY <1>1, <1>4
  <2>2. f[n - d] = Visit(f[n - (d + 1)], markets[n - d])
    BY <1>2, <2>1
  <2>3. f[n - d] = f[n - (d + 1)]
    BY <2>2 DEF Visit
  <2> QED
    BY <2>1, <2>3
<1>5. Nat \subseteq S
  BY <1>3, <1>4, SetInduction
<1> SUFFICES ASSUME NEW k \in 0..n PROVE ~f[k].raised
  BY DEF n
<1>6. n - k \in Nat /\ n - k <= n /\ n - (n - k) = k
  BY <1>1
<1>7. n - k \in S
  BY <1>5, <1>6
<1> QED
  BY <1>6, <1>7

-----------------------------------------------------------------------------
\* Two scans that differ by the signal of a market alone.
Others(M, id) == {g \in SignalsOf(M) : g.id # id}

AlikeBut(M, id, s, t) ==
  /\ ~s.raised /\ ~t.raised /\ s.prices = t.prices
  /\ Select(s.signals, Others(M, id)) = Select(t.signals, Others(M, id))

\* The next visit finds the same.
LEMMA VisitAlike ==
  ASSUME NEW M, NEW s \in Scans(M), NEW t \in Scans(M), NEW m \in M, NEW id,
         AlikeBut(M, id, s, t), ~Visit(s, m).raised
  PROVE  AlikeBut(M, id, Visit(s, m), Visit(t, m))
<1> DEFINE p == s.prices
           x == SignalOf(p, m)
           O == Others(M, id)
           G == SignalsOf(M)
<1>1. /\ ~s.raised /\ ~t.raised /\ t.prices = p /\ Select(s.signals, O) = Select(t.signals, O)
      /\ p \in Seq(QuotesOf(M)) /\ s.signals \in Seq(G) /\ t.signals \in Seq(G)
  BY DEF AlikeBut, Scans
<1>2. IsVisited(Visit(s, m), s, m) /\ IsVisited(Visit(t, m), t, m)
  BY VisitIs
<1>3. x \in G
  BY <1>1, QuoteType
<1>4. Select(Append(s.signals, x), O) = Select(Append(t.signals, x), O)
  <2> HIDE DEF O, G, x
  <2>1. ASSUME NEW g \in Seq(G)
        PROVE  Select(Append(g, x), O) = IF x \in O THEN Append(Select(g, O), x) ELSE Select(g, O)
    BY <1>3, SelectAppend
  <2> QED
    BY <1>1, <2>1
<1> DEFINE v == Visit(s, m)
           w == Visit(t, m)
<1> HIDE DEF p, O, v, w
<1>5. CASE m.fails \in {"market", "book"}
  BY <1>1, <1>2, <1>5 DEF IsVisited, AlikeBut, O, p, v, w
<1>6. CASE m.fails \notin {"market", "book"}
  <2>1. ~Raises(p, m) /\ ~v.raised /\ ~w.raised
    BY <1>1, <1>2, <1>6 DEF IsVisited, p, v, w
  <2>2. v.prices = PricesAfter(p, m) /\ w.prices = PricesAfter(p, m)
    BY <1>1, <1>2, <1>6 DEF IsVisited, p, v, w
  <2>3. /\ v.signals = IF IsPriced(p, m) THEN Append(s.signals, x) ELSE s.signals
        /\ w.signals = IF IsPriced(p, m) THEN Append(t.signals, x) ELSE t.signals
    BY <1>1, <1>2, <1>6, <2>1 DEF IsVisited, p, v, w
  <2>4. Select(v.signals, O) = Select(w.signals, O)
    BY <1>1, <1>4, <2>3
  <2> QED
    BY <2>1, <2>2, <2>4 DEF AlikeBut, O, v, w
<1> QED
  BY <1>5, <1>6

\* A visit that fails is as good as none.
LEMMA FailedVisit ==
  ASSUME NEW M, NEW s \in Scans(M), NEW m \in M, m.fails # "none",
         m.fails \in {"none", "market", "book", "price"}, ~Visit(s, m).raised
  PROVE  AlikeBut(M, m.id, Visit(s, m), s)
<1> DEFINE O == Others(M, m.id)
           v == Visit(s, m)
           x == SignalOf(s.prices, m)
           G == SignalsOf(M)
<1>1. s.prices \in Seq(QuotesOf(M)) /\ s.signals \in Seq(G) /\ IsVisited(v, s, m)
  BY VisitIs DEF Scans
<1>2. x \in G /\ x \notin O
  BY <1>1, QuoteType DEF Others, SignalOf
<1>3. Select(Append(s.signals, x), O) = Select(s.signals, O)
  <2> HIDE DEF x, O, G
  <2> QED
    BY <1>1, <1>2, SelectAppend
<1>4. ~s.raised
  BY DEF Visit
<1> HIDE DEF O, v, x
<1>5. v.prices = s.prices
  BY <1>1 DEF IsVisited, PricesAfter
<1>6. v.signals = s.signals \/ v.signals = Append(s.signals, x)
  BY <1>1 DEF IsVisited, x
<1>7. ~v.raised
  BY DEF v
<1> QED
  BY <1>3, <1>4, <1>5, <1>6, <1>7 DEF AlikeBut, O, v

\* The same of a scan without a market that failed.
Rest(markets, i) == RemoveAt(markets, i)

\* What is left, in its places.
LEMMA RestIs ==
  ASSUME NEW M, NEW markets \in Seq(M), NEW i \in 1..Len(markets)
  PROVE  /\ Rest(markets, i) \in Seq(M) /\ Len(Rest(markets, i)) = Len(markets) - 1
         /\ \A k \in 1..(Len(markets) - 1) :
              Rest(markets, i)[k] = IF k < i THEN markets[k] ELSE markets[k + 1]
<1> DEFINE n == Len(markets)
           a == SubSeq(markets, 1, i - 1)
           b == SubSeq(markets, i + 1, n)
<1>1. n \in Nat /\ i \in 1..n /\ \A k \in 1..n : markets[k] \in M
  OBVIOUS
<1> HIDE DEF n
<1>2. a \in Seq(M) /\ Len(a) = i - 1 /\ \A k \in 1..(i - 1) : a[k] = markets[k]
  <2>1. \A k \in 1..(i - 1) : markets[k] \in M
    BY <1>1
  <2> QED
    BY <1>1, <2>1, SubSeqProperties
<1>3. b \in Seq(M) /\ Len(b) = n - i /\ \A k \in 1..(n - i) : b[k] = markets[i + k]
  <2>1. \A k \in (i + 1)..n : markets[k] \in M
    BY <1>1
  <2> QED
    BY <1>1, <2>1, SubSeqProperties
<1>4. Rest(markets, i) = a \o b
  BY DEF Rest, RemoveAt, n
<1> HIDE DEF a, b
<1>5. /\ a \o b \in Seq(M) /\ Len(a \o b) = Len(a) + Len(b)
      /\ \A k \in 1..(Len(a) + Len(b)) : (a \o b)[k] = IF k <= Len(a) THEN a[k] ELSE b[k - Len(a)]
  BY <1>2, <1>3, ConcatProperties
<1>6. Len(a) + Len(b) = n - 1
  BY <1>1, <1>2, <1>3
<1>7. ASSUME NEW k \in 1..(n - 1)
      PROVE  (a \o b)[k] = IF k < i THEN markets[k] ELSE markets[k + 1]
  <2>1. CASE k < i
    <3>1. k \in 1..(i - 1) /\ k <= Len(a) /\ k \in 1..(Len(a) + Len(b))
      BY <1>1, <1>2, <1>6, <2>1
    <3> QED
      BY <1>2, <1>5, <2>1, <3>1
  <2>2. CASE ~(k < i)
    <3>1. k - (i - 1) \in 1..(n - i) /\ ~(k <= i - 1) /\ k \in 1..(Len(a) + Len(b)) /\ i + (k - (i - 1)) = k + 1
      BY <1>1, <1>6, <2>2
    <3>2. (a \o b)[k] = b[k - (i - 1)]
      BY <1>2, <1>5, <3>1
    <3>3. b[k - (i - 1)] = markets[i + (k - (i - 1))]
      BY <1>3, <3>1
    <3> QED
      BY <2>2, <3>1, <3>2, <3>3
  <2> QED
    BY <2>1, <2>2
<1> QED
  BY <1>4, <1>5, <1>6, <1>7 DEF n

\* What a request of a market does.
Outcomes == {"none", "market", "book", "price"}

\* A market that failed is missed by no other.
LEMMA FailureIsAlone ==
  ASSUME NEW M, NEW markets \in Seq(M), NEW i \in 1..Len(markets),
         markets[i].fails \in Outcomes \ {"none"}, ~Scanned(markets).raised
  PROVE  AlikeBut(M, markets[i].id, Scanned(markets), Scanned(Rest(markets, i)))
<1> DEFINE n == Len(markets)
           rest == Rest(markets, i)
           id == markets[i].id
<1>1. n \in Nat /\ i \in 1..n /\ \A k \in 1..n : markets[k] \in M
  OBVIOUS
<1>2. /\ rest \in Seq(M) /\ Len(rest) = n - 1
      /\ \A k \in 1..(n - 1) : rest[k] = IF k < i THEN markets[k] ELSE markets[k + 1]
  BY RestIs
<1> HIDE DEF rest
<1>3. PICK f : ScannedUpTo(markets, M, f) /\ Scanned(markets) = f[n]
  BY ScanTrace
<1>4. PICK g : ScannedUpTo(rest, M, g) /\ Scanned(rest) = g[Len(rest)]
  BY <1>2, ScanTrace
<1>5. \A k \in 0..n : ~f[k].raised
  BY <1>3, RaisedStays
<1>6. /\ \A k \in 0..n : f[k] \in Scans(M)
      /\ \A k \in 1..n : f[k] = Visit(f[k - 1], markets[k])
      /\ \A k \in 0..(n - 1) : g[k] \in Scans(M)
      /\ \A k \in 1..(n - 1) : g[k] = Visit(g[k - 1], rest[k])
      /\ f[0] = g[0]
  BY <1>2, <1>3, <1>4 DEF ScannedUpTo
<1> HIDE DEF n
<1> DEFINE S == {k \in Nat : k < i => f[k] = g[k]}
<1>7. 0 \in S
  BY <1>6
<1>8. ASSUME NEW k \in Nat, k \in S PROVE k + 1 \in S
  <2> SUFFICES ASSUME k + 1 < i PROVE f[k + 1] = g[k + 1]
    OBVIOUS
  <2>1. k + 1 \in 1..n /\ k + 1 \in 1..(n - 1) /\ (k + 1) - 1 = k /\ f[k] = g[k]
    BY <1>1, <1>8
  <2>2. rest[k + 1] = markets[k + 1]
    BY <1>2, <2>1
  <2>3. f[k + 1] = Visit(f[k], markets[k + 1]) /\ g[k + 1] = Visit(g[k], rest[k + 1])
    BY <1>6, <2>1
  <2> QED
    BY <2>1, <2>2, <2>3
<1>9. f[i - 1] = g[i - 1]
  <2>1. Nat \subseteq S
    BY <1>7, <1>8, SetInduction
  <2>2. i - 1 \in Nat /\ i - 1 < i
    BY <1>1
  <2> QED
    BY <2>1, <2>2
<1> DEFINE A == {d \in Nat : i + d <= n => AlikeBut(M, id, f[i + d], g[(i + d) - 1])}
<1>10. 0 \in A
  <2> DEFINE m == markets[i]
  <2>1. m \in M /\ f[i - 1] \in Scans(M) /\ f[i] = Visit(f[i - 1], m) /\ ~f[i].raised /\ i + 0 = i
        /\ m.id = id /\ m.fails # "none" /\ m.fails \in {"none", "market", "book", "price"}
    BY <1>1, <1>5, <1>6 DEF Outcomes
  <2> HIDE DEF m, id
  <2>2. AlikeBut(M, m.id, Visit(f[i - 1], m), f[i - 1])
    BY <2>1, FailedVisit
  <2> QED
    BY <1>9, <2>1, <2>2
<1>11. ASSUME NEW d \in Nat, d \in A PROVE d + 1 \in A
  <2> DEFINE k == i + d
  <2> SUFFICES ASSUME k + 1 <= n PROVE AlikeBut(M, id, f[k + 1], g[k])
    <3>1. i + (d + 1) = k + 1 /\ (i + (d + 1)) - 1 = k
      BY <1>1
    <3> HIDE DEF k, id
    <3> QED
      BY <3>1
  <2>1. k \in 1..(n - 1) /\ k + 1 \in 1..n /\ k + 1 \in 0..n /\ k \in 0..n /\ k - 1 \in 0..(n - 1)
        /\ (k + 1) - 1 = k /\ ~(k < i)
    BY <1>1
  <2>2. AlikeBut(M, id, f[k], g[k - 1])
    BY <1>1, <1>11
  <2> DEFINE m == markets[k + 1]
  <2> HIDE DEF k
  <2>3. m \in M /\ rest[k] = m
    BY <1>1, <1>2, <2>1
  <2> HIDE DEF m, id
  <2>4. f[k] \in Scans(M) /\ g[k - 1] \in Scans(M)
    BY <1>6, <2>1
  <2>5. f[k + 1] = Visit(f[k], m) /\ ~f[k + 1].raised
    BY <1>5, <1>6, <2>1 DEF m
  <2>6. g[k] = Visit(g[k - 1], m)
    BY <1>6, <2>1, <2>3
  <2> QED
    BY <2>2, <2>3, <2>4, <2>5, <2>6, VisitAlike
<1>12. n - i \in A
  <2>1. Nat \subseteq A
    BY <1>10, <1>11, SetInduction
  <2>2. n - i \in Nat
    BY <1>1
  <2> QED
    BY <2>1, <2>2
<1>13. i + (n - i) = n /\ n <= n
  BY <1>1
<1> HIDE DEF id
<1>14. AlikeBut(M, id, f[n], g[n - 1])
  BY <1>12, <1>13
<1> QED
  BY <1>2, <1>3, <1>4, <1>14 DEF n, id, rest

\* A ranking is by the same key whatever there is to rank.
ByScore(R) == [r \in R |-> 0 - r.score]
AreRanked(R) == \A r \in R : r.score \in Int

\* StableSort never asks for another key.
LEMMA RankingIs ==
  ASSUME NEW R, AreRanked(R), NEW rows \in Seq(R)
  PROVE  Numbers(ByScore(R), R) /\ StableSort(rows, HighestFirst(rows)) = StableSort(rows, ByScore(R))
<1> DEFINE S == Range(rows)
           key == HighestFirst(rows)
<1>1. Numbers(ByScore(R), R)
  BY DEF Numbers, ByScore, AreRanked
<1>2. rows \in Seq(S) /\ S \subseteq R
  <2>1. \A k \in DOMAIN rows : rows[k] \in S /\ rows[k] \in R
    BY DEF Range
  <2>2. S \subseteq R
    BY <2>1 DEF Range
  <2> HIDE DEF S
  <2> QED
    BY <2>1, <2>2
<1>3. \A r \in S : key[r] = ByScore(R)[r]
  BY <1>2 DEF HighestFirst, ByScore
<1>4. Numbers(ByScore(R), S)
  BY <1>1, <1>2 DEF Numbers
<1> HIDE DEF S, key
<1>5. StableSort(rows, key) = StableSort(rows, ByScore(R))
  BY <1>2, <1>3, <1>4, SortByKeys
<1> QED
  BY <1>1, <1>5 DEF key

\* The signals of both, ranked, are the same.
Ranks(M) == ByScore(SignalsOf(M))

\* Without a market, the ranking is that of the signals of the others.
LEMMA RankedOthers ==
  ASSUME NEW M, AreRanked(M), NEW signals \in Seq(SignalsOf(M)), NEW id,
         NEW ranked, ranked = StableSort(signals, HighestFirst(signals))
  PROVE  /\ ranked \in Seq(SignalsOf(M))
         /\ ToBag(ranked) = ToBag(signals) /\ Range(ranked) = Range(signals)
         /\ OtherThan(id, ranked) = StableSort(Select(signals, Others(M, id)), Ranks(M))
<1> DEFINE G == SignalsOf(M)
           O == Others(M, id)
           N == {s \in Range(ranked) : s.id # id}
<1>1. AreRanked(G)
  BY DEF AreRanked, SignalsOf
<1> HIDE DEF G
<1>5. ranked = StableSort(signals, Ranks(M)) /\ Numbers(Ranks(M), G)
  BY <1>1, RankingIs DEF Ranks, G
<1>6. ranked \in Seq(G)
  BY <1>5, SortType DEF G
<1>7. ToBag(ranked) = ToBag(signals)
  BY <1>5, SortBag DEF G
<1>8. Range(ranked) = Range(signals)
  <2>1. DOMAIN ToBag(ranked) = Range(ranked) /\ DOMAIN ToBag(signals) = Range(signals)
    <3>1. DOMAIN ToBag(ranked) = Range(ranked)
      BY <1>6, BagOfSequence
    <3>2. DOMAIN ToBag(signals) = Range(signals)
      BY BagOfSequence
    <3> QED
      BY <3>1, <3>2
  <2> QED
    BY <1>7, <2>1
<1>9. Select(ranked, N) = Select(ranked, O)
  <2>1. \A r \in G : r \in Range(ranked) => (r \in N <=> r \in O)
    BY DEF Others, G
  <2> HIDE DEF N, O
  <2> QED
    BY <1>6, <2>1, SelectByTest
<1>10. Select(ranked, O) = StableSort(Select(signals, O), Ranks(M))
  <2> HIDE DEF O
  <2> QED
    BY <1>5, SortSelect DEF G
<1> QED
  BY <1>6, <1>7, <1>8, <1>9, <1>10 DEF OtherThan, G

-----------------------------------------------------------------------------
\* Every market that answers has a signal.
Tells(s, markets) ==
  \A i \in DOMAIN markets : markets[i].fails = "none" =>
    \E j \in DOMAIN s.signals : s.signals[j].id = markets[i].id

\* A scan has a price of an asset once, and its signals tell of those.
Honest(s) ==
  /\ \A i, j \in DOMAIN s.prices : s.prices[i].asset = s.prices[j].asset => i = j
  /\ \A k \in DOMAIN s.signals : \E i \in DOMAIN s.prices :
       s.prices[i].asset = s.signals[k].asset /\ s.prices[i].of = s.signals[k].price

Failing(M, asset) == {m \in M : m.asset = asset /\ m.fails = "price"}

\* And it has asked for it once, and once for every time this failed.
Patient(s, markets, M, asset) ==
  Tally(s.asked, {asset})
    <= Tally(markets, Failing(M, asset)) + (IF KnownIn(s.prices, asset) THEN 1 ELSE 0)

\* One row more counts for one.
LEMMA TallyAppend ==
  ASSUME NEW R, NEW s \in Seq(R), NEW x \in R, NEW V
  PROVE  /\ Tally(Append(s, x), V) = Tally(s, V) + (IF x \in V THEN 1 ELSE 0)
         /\ Tally(s, V) \in Nat
<1>1. Append(s, x) \in Seq(R)
  OBVIOUS
<1>2. Tally(Append(s, x), V) = AmountOf(Append(s, x), Each(R, V))
  BY <1>1, TallyIsAmount
<1>3. Tally(s, V) = AmountOf(s, Each(R, V)) /\ Tally(s, V) \in Nat
  BY TallyIsAmount
<1>4. \A l \in R : Each(R, V)[l] \in Int
  BY DEF Each
<1>5. AmountOf(Append(s, x), Each(R, V)) = AmountOf(s, Each(R, V)) + Each(R, V)[x]
  BY <1>4, AppendAmount
<1>6. Each(R, V)[x] = IF x \in V THEN 1 ELSE 0
  BY DEF Each
<1> QED
  BY <1>2, <1>3, <1>5, <1>6

\* A visit leaves a signal of a market that answers.
LEMMA VisitTells ==
  ASSUME NEW M, NEW markets \in Seq(M), NEW m \in M, NEW s \in Scans(M), NEW v, v = Visit(s, m),
         ~s.raised => Tells(s, markets), ~v.raised
  PROVE  Tells(v, Append(markets, m))
<1> DEFINE n == Len(markets)
           more == Append(markets, m)
           x == SignalOf(s.prices, m)
           k == Len(s.signals)
<1>1. /\ DOMAIN more = 1..(n + 1) /\ n \in Nat /\ more[n + 1] = m /\ DOMAIN markets = 1..n
      /\ \A i \in 1..n : more[i] = markets[i]
  OBVIOUS
<1>2. IsVisited(v, s, m) /\ s.signals \in Seq(SignalsOf(M)) /\ s.prices \in Seq(QuotesOf(M))
  BY VisitIs DEF Scans
<1>3. ~s.raised /\ Tells(s, markets)
  <2>1. ~s.raised
    BY <1>2 DEF IsVisited
  <2> QED
    BY <2>1
<1>4. x \in SignalsOf(M) /\ x.id = m.id
  BY <1>2, QuoteType DEF SignalOf
<1> HIDE DEF x
<1>5. v.signals = s.signals \/ v.signals = Append(s.signals, x)
  BY <1>2 DEF IsVisited, x
<1>6. m.fails = "none" => v.signals = Append(s.signals, x)
  BY <1>2, <1>3 DEF IsVisited, IsPriced, x
<1>7. \A j \in DOMAIN s.signals : j \in DOMAIN v.signals /\ v.signals[j] = s.signals[j]
  <2>1. \A j \in DOMAIN s.signals : j \in DOMAIN Append(s.signals, x) /\ Append(s.signals, x)[j] = s.signals[j]
    BY <1>2, <1>4
  <2> QED
    BY <1>5, <2>1
<1>8. m.fails = "none" => k + 1 \in DOMAIN v.signals /\ v.signals[k + 1].id = m.id
  BY <1>2, <1>4, <1>6
<1> HIDE DEF more, k, n
<1> SUFFICES ASSUME NEW i \in 1..(n + 1), more[i].fails = "none"
             PROVE  \E j \in DOMAIN v.signals : v.signals[j].id = more[i].id
  BY <1>1 DEF Tells, more
<1>9. CASE i = n + 1
  BY <1>1, <1>8, <1>9
<1>10. CASE i # n + 1
  <2>1. i \in 1..n /\ more[i] = markets[i]
    BY <1>1, <1>10
  <2>2. PICK j \in DOMAIN s.signals : s.signals[j].id = markets[i].id
    BY <1>1, <1>3, <2>1 DEF Tells
  <2> QED
    BY <1>7, <2>1, <2>2
<1> QED
  BY <1>9, <1>10

\* A visit keeps one price per asset.
LEMMA VisitHonest ==
  ASSUME NEW M, NEW m \in M, NEW s \in Scans(M), NEW v, v = Visit(s, m), Honest(s)
  PROVE  Honest(v)
<1> DEFINE p == s.prices
           g == s.signals
           q == QuoteFor(p, m)
           x == SignalOf(p, m)
<1>1. IsVisited(v, s, m) /\ p \in Seq(QuotesOf(M)) /\ g \in Seq(SignalsOf(M))
  BY VisitIs DEF Scans
<1>2. /\ q \in QuotesOf(M) /\ q.asset = m.asset /\ x \in SignalsOf(M)
      /\ KnownIn(p, m.asset) => \E i \in DOMAIN p : p[i] = q
      /\ ~KnownIn(p, m.asset) => q = QuoteOf(m)
  <2>1. ~KnownIn(p, m.asset) => q = QuoteOf(m)
    BY DEF QuoteFor
  <2> QED
    BY <1>1, <2>1, QuoteType
<1>3. x.asset = m.asset /\ x.price = q.of
  BY DEF SignalOf
<1>4. CASE v = s
  BY <1>4
<1>5. CASE v # s
  <2>1. /\ v.prices = PricesAfter(p, m)
        /\ v.signals = g \/ (IsPriced(p, m) /\ v.signals = Append(g, x))
    BY <1>1, <1>5 DEF IsVisited
  <2> HIDE DEF q, x
  <2>2. v.prices = p \/ (~KnownIn(p, m.asset) /\ v.prices = Append(p, q))
    BY <1>2, <2>1 DEF PricesAfter
  <2>3. /\ \A i \in DOMAIN p : i \in DOMAIN v.prices /\ v.prices[i] = p[i]
        /\ IsPriced(p, m) => \E i \in DOMAIN v.prices : v.prices[i] = q
    <3>1. CASE KnownIn(p, m.asset)
      BY <1>2, <2>2, <3>1
    <3>2. CASE ~KnownIn(p, m.asset)
      <4>1. IsPriced(p, m) => v.prices = Append(p, q)
        BY <1>2, <2>1, <3>2 DEF PricesAfter, IsPriced
      <4>2. \A i \in DOMAIN p : i \in DOMAIN Append(p, q) /\ Append(p, q)[i] = p[i]
        BY <1>1
      <4>3. Len(p) + 1 \in DOMAIN Append(p, q) /\ Append(p, q)[Len(p) + 1] = q
        BY <1>1
      <4> QED
        BY <2>2, <4>1, <4>2, <4>3
    <3> QED
      BY <3>1, <3>2
  <2>4. \A i, j \in DOMAIN v.prices : v.prices[i].asset = v.prices[j].asset => i = j
    <3>1. CASE v.prices = p
      BY <3>1 DEF Honest
    <3>2. CASE ~KnownIn(p, m.asset) /\ v.prices = Append(p, q)
      <4> DEFINE w == Append(p, q)
      <4>1. DOMAIN w = 1..(Len(p) + 1) /\ w[Len(p) + 1] = q /\ Len(p) \in Nat /\ DOMAIN p = 1..Len(p)
            /\ \A i \in 1..Len(p) : w[i] = p[i]
        BY <1>1
      <4> HIDE DEF w
      <4>2. \A i \in 1..Len(p) : w[i].asset # q.asset
        BY <1>2, <3>2, <4>1 DEF KnownIn
      <4>3. \A i, j \in 1..Len(p) : w[i].asset = w[j].asset => i = j
        BY <4>1 DEF Honest
      <4> QED
        BY <3>2, <4>1, <4>2, <4>3 DEF w
    <3> QED
      BY <2>2, <3>1, <3>2
  <2>5. ASSUME NEW k \in DOMAIN v.signals
        PROVE  \E i \in DOMAIN v.prices :
                 v.prices[i].asset = v.signals[k].asset /\ v.prices[i].of = v.signals[k].price
    <3>1. CASE k \in DOMAIN g /\ v.signals[k] = g[k]
      <4>1. PICK i \in DOMAIN p : p[i].asset = g[k].asset /\ p[i].of = g[k].price
        BY <3>1 DEF Honest
      <4> QED
        BY <2>3, <3>1, <4>1
    <3>2. CASE IsPriced(p, m) /\ v.signals[k] = x
      BY <1>2, <1>3, <2>3, <3>2
    <3>3. (k \in DOMAIN g /\ v.signals[k] = g[k]) \/ (IsPriced(p, m) /\ v.signals[k] = x)
      BY <1>1, <1>2, <2>1
    <3> QED
      BY <3>1, <3>2, <3>3
  <2> QED
    BY <2>4, <2>5 DEF Honest
<1> QED
  BY <1>4, <1>5

\* A visit asks again only for what failed.
LEMMA VisitPatient ==
  ASSUME NEW M, NEW markets \in Seq(M), NEW m \in M, NEW s \in Scans(M), NEW v, v = Visit(s, m),
         NEW asset, Patient(s, markets, M, asset)
  PROVE  Patient(v, Append(markets, m), M, asset)
<1> DEFINE p == s.prices
           A == {x.asset : x \in M}
           F == Failing(M, asset)
           known(quoted) == IF KnownIn(quoted, asset) THEN 1 ELSE 0
<1>1. IsVisited(v, s, m) /\ p \in Seq(QuotesOf(M)) /\ s.asked \in Seq(A) /\ m.asset \in A
  BY VisitIs DEF Scans
<1>2. Tally(Append(markets, m), F) = Tally(markets, F) + (IF m \in F THEN 1 ELSE 0)
      /\ Tally(markets, F) \in Nat
  <2> HIDE DEF F
  <2> QED
    BY TallyAppend
<1>3. Tally(Append(s.asked, m.asset), {asset})
        = Tally(s.asked, {asset}) + (IF m.asset = asset THEN 1 ELSE 0)
      /\ Tally(s.asked, {asset}) \in Nat
  <2> HIDE DEF A
  <2> QED
    BY <1>1, TallyAppend
<1>4. KnownIn(p, asset) => KnownIn(PricesAfter(p, m), asset)
  <2>1. QuoteOf(m) \in QuotesOf(M)
    BY DEF QuoteOf, QuotesOf
  <2>2. \A i \in DOMAIN p : i \in DOMAIN Append(p, QuoteOf(m)) /\ Append(p, QuoteOf(m))[i] = p[i]
    BY <1>1, <2>1
  <2> QED
    BY <2>2 DEF KnownIn, PricesAfter
<1>5. m.asset = asset /\ m.fails # "price" => KnownIn(PricesAfter(p, m), asset)
  <2>1. QuoteOf(m) \in QuotesOf(M) /\ QuoteOf(m).asset = m.asset
    BY DEF QuoteOf, QuotesOf
  <2>2. Len(p) + 1 \in DOMAIN Append(p, QuoteOf(m)) /\ Append(p, QuoteOf(m))[Len(p) + 1] = QuoteOf(m)
    BY <1>1, <2>1
  <2> QED
    BY <2>1, <2>2 DEF KnownIn, PricesAfter
<1>6. m.asset = asset /\ m.fails = "price" => m \in F
  BY DEF Failing
<1> DEFINE a == Tally(s.asked, {asset})
           b == Tally(markets, F)
           c == Tally(v.asked, {asset})
           d == Tally(Append(markets, m), F)
<1>7. a <= b + known(p) /\ d >= b /\ a \in Nat /\ b \in Nat /\ d \in Nat
  BY <1>2, <1>3 DEF Patient
<1>8. CASE v = s
  <2>1. d >= b /\ c = a /\ v.prices = p
    BY <1>7, <1>8
  <2> HIDE DEF a, b, c, d
  <2>2. c <= d + known(v.prices)
    BY <1>7, <2>1
  <2> QED
    BY <2>2 DEF Patient, c, d
<1>9. CASE v # s
  <2>1. /\ v.prices = PricesAfter(p, m)
        /\ v.asked = IF KnownIn(p, m.asset) THEN s.asked ELSE Append(s.asked, m.asset)
    BY <1>1, <1>9 DEF IsVisited
  <2>2. CASE KnownIn(p, m.asset) \/ m.asset # asset
    <3>1. c = a
      BY <1>3, <2>1, <2>2
    <3>2. known(v.prices) >= known(p) /\ known(v.prices) \in Nat /\ known(p) \in Nat
      BY <1>4, <2>1
    <3> HIDE DEF a, b, c, d, known
    <3>3. c <= d + known(v.prices)
      BY <1>7, <3>1, <3>2
    <3> QED
      BY <3>3 DEF Patient, c, d, known
  <2>3. CASE ~KnownIn(p, m.asset) /\ m.asset = asset
    <3>1. c = a + 1 /\ known(p) = 0
      BY <1>3, <2>1, <2>3
    <3>2. (m \in F /\ d = b + 1) \/ known(v.prices) = 1
      BY <1>2, <1>5, <1>6, <2>1, <2>3
    <3>3. known(v.prices) \in Nat
      OBVIOUS
    <3> HIDE DEF a, b, c, d, known, F
    <3>4. c <= d + known(v.prices)
      BY <1>7, <3>1, <3>2, <3>3
    <3> QED
      BY <3>4 DEF Patient, c, d, known, F
  <2> QED
    BY <2>2, <2>3
<1> QED
  BY <1>8, <1>9

\* All of it, of every scan.
IsScanOf(s, markets, M) ==
  /\ s \in Scans(M) /\ Honest(s) /\ \A asset : Patient(s, markets, M, asset)
  /\ ~s.raised => Tells(s, markets)

\* By induction on the markets.
LEMMA ScanIs ==
  ASSUME NEW M, NEW markets \in Seq(M)
  PROVE  IsScanOf(Scanned(markets), markets, M)
<1> DEFINE S == {ms \in Seq(M) : IsScanOf(Scanned(ms), ms, M)}
<1>1. <<>> \in S
  <2> DEFINE none == <<>>
  <2>1. none \in Seq(M) /\ DOMAIN none = {}
    OBVIOUS
  <2>2. Scanned(none) = [prices |-> none, asked |-> none, signals |-> none, raised |-> FALSE]
    BY ScanEmpty DEF NoSignals
  <2>3. Tells(Scanned(none), none) /\ Honest(Scanned(none))
    BY <2>2, <2>1 DEF Tells, Honest
  <2>4. Scanned(none) \in Scans(M)
    BY <2>1, ScanType
  <2>5. \A V : Tally(none, V) = 0
    <3>1. \A V : {i \in DOMAIN none : none[i] \in V} = {}
      BY <2>1
    <3> HIDE DEF none
    <3> QED
      BY <3>1, FS_EmptySet DEF Tally
  <2>6. ASSUME NEW asset PROVE Patient(Scanned(none), none, M, asset)
    <3>1. Scanned(none).asked = none /\ Scanned(none).prices = none
      BY <2>2
    <3> HIDE DEF none
    <3> QED
      BY <2>5, <3>1 DEF Patient
  <2> HIDE DEF none
  <2>7. none \in S
    BY <2>1, <2>3, <2>4, <2>6 DEF IsScanOf
  <2> QED
    BY <2>7 DEF none
<1>2. ASSUME NEW ms \in Seq(M), NEW m \in M, ms \in S PROVE Append(ms, m) \in S
  <2> DEFINE s == Scanned(ms)
             v == Visit(s, m)
  <2>1. Scanned(Append(ms, m)) = v /\ Append(ms, m) \in Seq(M)
    BY ScanAppend
  <2>2. s \in Scans(M) /\ Honest(s) /\ (\A asset : Patient(s, ms, M, asset))
        /\ (~s.raised => Tells(s, ms))
    BY <1>2 DEF IsScanOf
  <2> HIDE DEF s
  <2>3. v \in Scans(M)
    BY <2>2, VisitIs
  <2>4. Honest(v)
    BY <2>2, VisitHonest
  <2>5. \A asset : Patient(v, Append(ms, m), M, asset)
    BY <2>2, VisitPatient
  <2>6. ~v.raised => Tells(v, Append(ms, m))
    BY <2>2, VisitTells
  <2> HIDE DEF v
  <2> QED
    BY <2>1, <2>3, <2>4, <2>5, <2>6 DEF IsScanOf
<1> HIDE DEF S
<1>3. Seq(M) \subseteq S
  BY <1>1, <1>2, SequenceInduction
<1> QED
  BY <1>3 DEF S

-----------------------------------------------------------------------------
\* The markets listed are those the run has, under an id each.
Listed == {UnderId(m, n) : m \in LiveMarkets \union OpenMarkets, n \in Nat}

IsListing == listed \in Seq(Listed)

\* Ranks are numbers, and requests fail or not.
LEMMA ListedAreMarkets == \A m \in Listed : m.score \in Int /\ m.fails \in Outcomes
<1> SUFFICES ASSUME NEW m \in LiveMarkets \union OpenMarkets, NEW n \in Nat, NEW l, l = UnderId(m, n)
             PROVE  l.score \in Int /\ l.fails \in Outcomes
  BY DEF Listed
<1>1. {"score", "fails"} \subseteq DOMAIN m /\ m.score \in Int /\ m.fails \in Outcomes
  BY InputsAssumption DEF IsMarket, Outcomes
<1>2. l.score = m.score /\ l.fails = m.fails
  BY <1>1 DEF UnderId
<1> QED
  BY <1>1, <1>2

\* In every state the list is of such markets.
LEMMA ListingType == Spec => []IsListing
<1>1. Init => IsListing
  BY DEF Init, Empty, IsListing
<1>2. IsListing /\ [Next]_<<inputs, subject>> => IsListing'
  <2> SUFFICES ASSUME IsListing, [Next]_<<inputs, subject>> PROVE IsListing'
    OBVIOUS
  <2>1. ASSUME NEW m \in LiveMarkets \union OpenMarkets, List(m) PROVE IsListing'
    <3>1. Len(listed) + 1 \in Nat
      BY DEF IsListing
    <3>2. UnderId(m, Len(listed) + 1) \in Listed
      BY <3>1 DEF Listed
    <3> QED
      BY <2>1, <3>2 DEF List, IsListing
  <2>2. ASSUME UNCHANGED listed PROVE IsListing'
    BY <2>2 DEF IsListing
  <2> QED
    BY <2>1, <2>2 DEF Next, inputs
<1> QED
  BY <1>1, <1>2, PTL DEF Spec

\* What a scan discovers is among what is listed.
LEMMA LiveType ==
  ASSUME IsListing
  PROVE  live \in Seq(Listed)
<1> DEFINE n == Smaller(MaxListed, Len(listed))
           part == SubSeq(listed, 1, n)
           M == Listed
<1>1. listed \in Seq(M) /\ Len(listed) \in Nat /\ n \in 0..Len(listed)
  BY InputsAssumption DEF IsListing, Smaller
<1> HIDE DEF n, M
<1>2. part \in Seq(M)
  <2>1. n \in Nat /\ n <= Len(listed)
    BY <1>1
  <2>2. \A i \in 1..n : listed[i] \in M
    BY <1>1, <2>1
  <2> QED
    BY <1>1, <2>1, <2>2, SubSeqProperties
<1> HIDE DEF part
<1>3. ASSUME NEW S PROVE Select(part, S) \in Seq(M)
  BY <1>2, SelectType
<1>4. <<>> \in Seq(M)
  OBVIOUS
<1> QED
  BY <1>3, <1>4 DEF live, Discover, part, n, M

\* The scan of the run is that scan, ranked.
LEMMA ScanOfRun ==
  ASSUME NEW ms \in Seq(Listed), NEW s, s = Scanned(ms), NEW signals, signals = ScanSignals(ms).signals
  PROVE  /\ ScanSignals(ms).raised = s.raised /\ ScanSignals(ms).asked = s.asked
         /\ s \in Scans(Listed) /\ signals \in Seq(SignalsOf(Listed)) /\ Range(signals) = Range(s.signals)
         /\ \A id : OtherThan(id, signals) = StableSort(Select(s.signals, Others(Listed, id)), Ranks(Listed))
<1>1. s \in Scans(Listed)
  BY ScanType
<1>2. ScanSignals(ms) = [s EXCEPT !.signals = StableSort(s.signals, HighestFirst(s.signals))]
  BY DEF ScanSignals, Scanned
<1>3. /\ ScanSignals(ms).raised = s.raised /\ ScanSignals(ms).asked = s.asked
      /\ signals = StableSort(s.signals, HighestFirst(s.signals))
  BY <1>1, <1>2 DEF Scans
<1>4. s.signals \in Seq(SignalsOf(Listed))
  BY <1>1 DEF Scans
<1>5. AreRanked(Listed)
  BY ListedAreMarkets DEF AreRanked
<1>6. signals \in Seq(SignalsOf(Listed)) /\ Range(signals) = Range(s.signals)
  BY <1>3, <1>4, <1>5, RankedOthers
<1>7. ASSUME NEW id
      PROVE  OtherThan(id, signals) = StableSort(Select(s.signals, Others(Listed, id)), Ranks(Listed))
  BY <1>3, <1>4, <1>5, RankedOthers
<1> QED
  BY <1>1, <1>3, <1>6, <1>7

\* The three parts of the property.
LEMMA FailureCostsOne ==
  ASSUME IsListing
  PROVE  FailureCostsItsMarketOnly
<1> DEFINE s == Scanned(live)
<1>1. live \in Seq(Listed) /\ scan = ScanSignals(live)
  BY LiveType DEF scan
<1> SUFFICES ASSUME ~scan.raised, NEW i \in DOMAIN live
             PROVE  /\ live[i].fails # "none" =>
                         OtherThan(live[i].id, scan.signals)
                           = OtherThan(live[i].id, ScanSignals(RemoveAt(live, i)).signals)
                    /\ live[i].fails = "none" => \E j \in DOMAIN scan.signals : scan.signals[j].id = live[i].id
  BY DEF FailureCostsItsMarketOnly
<1>2. i \in 1..Len(live) /\ live[i] \in Listed /\ live[i].fails \in Outcomes
  BY <1>1, ListedAreMarkets
<1>3. ~s.raised /\ Range(scan.signals) = Range(s.signals) /\ s \in Scans(Listed)
      /\ \A id : OtherThan(id, scan.signals) = StableSort(Select(s.signals, Others(Listed, id)), Ranks(Listed))
  BY <1>1, ScanOfRun
<1>4. ASSUME live[i].fails # "none"
      PROVE  OtherThan(live[i].id, scan.signals) = OtherThan(live[i].id, ScanSignals(RemoveAt(live, i)).signals)
  <2> DEFINE rest == RemoveAt(live, i)
             id == live[i].id
             t == Scanned(rest)
  <2>1. rest \in Seq(Listed) /\ rest = Rest(live, i)
    <3>1. rest = Rest(live, i)
      BY DEF Rest
    <3> QED
      BY <1>1, <1>2, <3>1, RestIs
  <2>2. AlikeBut(Listed, id, s, t)
    <3>1. AlikeBut(Listed, id, s, Scanned(Rest(live, i)))
      BY <1>1, <1>2, <1>3, <1>4, FailureIsAlone
    <3> QED
      BY <2>1, <3>1
  <2> HIDE DEF rest
  <2>3. \A x : OtherThan(x, ScanSignals(rest).signals) = StableSort(Select(t.signals, Others(Listed, x)), Ranks(Listed))
    BY <2>1, ScanOfRun
  <2> HIDE DEF s, t, id
  <2> QED
    BY <1>3, <2>2, <2>3 DEF AlikeBut, id, rest
<1>5. ASSUME live[i].fails = "none"
      PROVE  \E j \in DOMAIN scan.signals : scan.signals[j].id = live[i].id
  <2>1. Tells(s, live)
    BY <1>1, <1>3, ScanIs DEF IsScanOf
  <2> HIDE DEF s
  <2>2. PICK j \in DOMAIN s.signals : s.signals[j].id = live[i].id
    BY <1>5, <2>1 DEF Tells
  <2>3. s.signals[j] \in Range(scan.signals)
    BY <1>3, <2>2 DEF Range
  <2> QED
    BY <2>2, <2>3 DEF Range
<1> QED
  BY <1>4, <1>5

\* All signals of an asset are about its one price.
LEMMA OnePrice ==
  ASSUME IsListing
  PROVE  OnePricePerAsset
<1> DEFINE s == Scanned(live)
<1>1. live \in Seq(Listed) /\ scan = ScanSignals(live)
  BY LiveType DEF scan
<1>2. scan.asked = s.asked /\ Range(scan.signals) = Range(s.signals) /\ s \in Scans(Listed)
  BY <1>1, ScanOfRun
<1>3. Honest(s) /\ \A asset : Patient(s, live, Listed, asset)
  BY <1>1, ScanIs DEF IsScanOf
<1> HIDE DEF s
<1> SUFFICES ASSUME NEW asset
             PROVE  /\ \A x, y \in Range(scan.signals) : x.asset = asset /\ y.asset = asset => x.price = y.price
                    /\ Cardinality({i \in DOMAIN scan.asked : scan.asked[i] = asset})
                         <= 1 + Cardinality({i \in DOMAIN live : live[i].asset = asset /\ live[i].fails = "price"})
  BY DEF OnePricePerAsset
<1>4. ASSUME NEW x \in Range(scan.signals), NEW y \in Range(scan.signals), x.asset = asset, y.asset = asset
      PROVE  x.price = y.price
  <2>1. PICK k \in DOMAIN s.signals, l \in DOMAIN s.signals : x = s.signals[k] /\ y = s.signals[l]
    BY <1>2 DEF Range
  <2>2. PICK i \in DOMAIN s.prices : s.prices[i].asset = x.asset /\ s.prices[i].of = x.price
    BY <1>3, <2>1 DEF Honest
  <2>3. PICK j \in DOMAIN s.prices : s.prices[j].asset = y.asset /\ s.prices[j].of = y.price
    BY <1>3, <2>1 DEF Honest
  <2>4. i = j
    BY <1>3, <1>4, <2>2, <2>3 DEF Honest
  <2> QED
    BY <2>2, <2>3, <2>4
<1>5. Cardinality({i \in DOMAIN scan.asked : scan.asked[i] = asset})
        <= 1 + Cardinality({i \in DOMAIN live : live[i].asset = asset /\ live[i].fails = "price"})
  <2>1. {i \in DOMAIN scan.asked : scan.asked[i] = asset} = {i \in DOMAIN s.asked : s.asked[i] \in {asset}}
    BY <1>2
  <2>2. \A i \in DOMAIN live : live[i] \in Listed
    BY <1>1
  <2>3. {i \in DOMAIN live : live[i].asset = asset /\ live[i].fails = "price"}
          = {i \in DOMAIN live : live[i] \in Failing(Listed, asset)}
    BY <2>2 DEF Failing
  <2>4. Tally(s.asked, {asset}) \in Nat /\ Tally(live, Failing(Listed, asset)) \in Nat
    <3>1. s.asked \in Seq({m.asset : m \in Listed})
      BY <1>2 DEF Scans
    <3>2. Tally(s.asked, {asset}) \in Nat
      BY <3>1, TallyIsAmount
    <3>3. Tally(live, Failing(Listed, asset)) \in Nat
      BY <1>1, TallyIsAmount
    <3> QED
      BY <3>2, <3>3
  <2>5. Tally(s.asked, {asset}) <= 1 + Tally(live, Failing(Listed, asset))
    BY <1>3, <2>4 DEF Patient
  <2> QED
    BY <2>1, <2>3, <2>5 DEF Tally
<1> QED
  BY <1>4, <1>5

-----------------------------------------------------------------------------
\* The markets of the list that scan-arbs has quotes of.
Quotable(M) == {m \in M : m.binary /\ m.accepting /\ m.fails = "none"}

QuotedOf(ms) == Select(Scannable(ms), {m \in Range(Scannable(ms)) : m.fails = "none"})

\* They are those that are scannable and answer.
LEMMA QuotedIs ==
  ASSUME NEW M, NEW ms \in Seq(M)
  PROVE  QuotedOf(ms) = Select(ms, Quotable(M)) /\ QuotedOf(ms) \in Seq(M)
<1> DEFINE B == {m \in M : m.binary /\ m.accepting}
           F == {m \in M : m.fails = "none"}
           some == {m \in Range(ms) : m.binary /\ m.accepting}
           scanned == Scannable(ms)
           fine == {m \in Range(scanned) : m.fails = "none"}
<1>1. \A m \in M : m \in Range(ms) => (m \in some <=> m \in B)
  OBVIOUS
<1>2. \A m \in M : m \in Range(scanned) => (m \in fine <=> m \in F)
  OBVIOUS
<1>3. scanned = Select(ms, some)
  BY DEF Scannable
<1>4. Quotable(M) = B \intersect F
  BY DEF Quotable
<1> HIDE DEF B, F, some, fine, scanned
<1>5. scanned = Select(ms, B) /\ scanned \in Seq(M)
  <2>1. Select(ms, some) = Select(ms, B)
    BY <1>1, SelectByTest
  <2>2. Select(ms, B) \in Seq(M)
    BY SelectType
  <2> QED
    BY <1>3, <2>1, <2>2
<1>6. Select(scanned, fine) = Select(scanned, F)
  BY <1>2, <1>5, SelectByTest
<1>7. Select(Select(ms, B), F) = Select(ms, B \intersect F)
  BY SelectSelect
<1>8. Select(ms, B \intersect F) \in Seq(M)
  BY SelectType
<1>9. QuotedOf(ms) = Select(scanned, fine)
  BY DEF QuotedOf, scanned, fine
<1> QED
  BY <1>4, <1>5, <1>6, <1>7, <1>8, <1>9

\* A market that is not selected is not missed.
LEMMA SelectRest ==
  ASSUME NEW M, NEW ms \in Seq(M), NEW i \in 1..Len(ms), NEW S, ms[i] \notin S
  PROVE  Select(Rest(ms, i), S) = Select(ms, S)
<1> DEFINE n == Len(ms)
           a == SubSeq(ms, 1, i - 1)
           x == SubSeq(ms, i, i)
           b == SubSeq(ms, i + 1, n)
<1>1. n \in Nat /\ i \in 1..n /\ \A k \in 1..n : ms[k] \in M
  OBVIOUS
<1>2. a \o x = SubSeq(ms, 1, i) /\ SubSeq(ms, 1, i) \o b = SubSeq(ms, 1, n) /\ SubSeq(ms, 1, n) = ms
  <2>1. 1 \in 1..(Len(ms) + 1) /\ i - 1 \in (1 - 1)..Len(ms) /\ i \in (i - 1)..Len(ms)
    BY <1>1
  <2>2. SubSeq(ms, 1, i - 1) \o SubSeq(ms, (i - 1) + 1, i) = SubSeq(ms, 1, i)
    BY <2>1, ConcatAdjacentSubSeq
  <2>3. i \in (1 - 1)..Len(ms) /\ n \in i..Len(ms)
    BY <1>1
  <2>4. SubSeq(ms, 1, i) \o SubSeq(ms, i + 1, n) = SubSeq(ms, 1, n)
    BY <2>1, <2>3, ConcatAdjacentSubSeq
  <2>5. SubSeq(ms, 1, n) = ms
    BY SubSeqFull
  <2>6. (i - 1) + 1 = i
    BY <1>1
  <2> QED
    BY <2>2, <2>4, <2>5, <2>6
<1>3. Rest(ms, i) = a \o b
  BY DEF Rest, RemoveAt
<1> HIDE DEF n
<1>4. a \in Seq(M)
  <2>1. \A k \in 1..(i - 1) : ms[k] \in M
    BY <1>1
  <2> QED
    BY <1>1, <2>1, SubSeqProperties
<1>5. b \in Seq(M)
  <2>1. \A k \in (i + 1)..n : ms[k] \in M
    BY <1>1
  <2> QED
    BY <1>1, <2>1, SubSeqProperties
<1>6. x \in Seq({ms[i]}) /\ x \in Seq(M) /\ SubSeq(ms, 1, i) \in Seq(M)
  <2>1. \A k \in i..i : ms[k] \in {ms[i]} /\ ms[k] \in M
    BY <1>1
  <2>2. \A k \in 1..i : ms[k] \in M
    BY <1>1
  <2>3. x \in Seq({ms[i]})
    BY <1>1, <2>1, SubSeqProperties
  <2>4. x \in Seq(M)
    BY <1>1, <2>1, SubSeqProperties
  <2>5. SubSeq(ms, 1, i) \in Seq(M)
    BY <1>1, <2>2, SubSeqProperties
  <2> QED
    BY <2>3, <2>4, <2>5
<1> HIDE DEF a, b, x
<1>7. Select(x, S) = <<>>
  <2>1. {ms[i]} \intersect S = {}
    OBVIOUS
  <2> QED
    BY <1>6, <2>1, SelectNone
<1>8. Select(a \o b, S) = Select(a, S) \o Select(b, S)
  BY <1>4, <1>5, SelectConcat
<1>9. Select(a \o x, S) = Select(a, S) \o Select(x, S)
  BY <1>4, <1>6, SelectConcat
<1>10. Select((a \o x) \o b, S) = Select(a \o x, S) \o Select(b, S)
  <2> DEFINE ax == a \o x
  <2>1. ax \in Seq(M)
    BY <1>2, <1>6
  <2> HIDE DEF ax
  <2>2. Select(ax \o b, S) = Select(ax, S) \o Select(b, S)
    BY <1>5, <2>1, SelectConcat
  <2> QED
    BY <2>2 DEF ax
<1>11. Select(a, S) \o <<>> = Select(a, S)
  <2>1. Select(a, S) \in Seq(M)
    BY <1>4, SelectType
  <2> QED
    BY <2>1, ConcatEmptySeq
<1>12. Select(a \o x, S) = Select(a, S)
  BY <1>7, <1>9, <1>11
<1> QED
  BY <1>2, <1>3, <1>8, <1>10, <1>12

\* Without a market that failed, scan-arbs comes to the same.
LEMMA ArbsGoOn ==
  ASSUME IsListing
  PROVE  ArbScanGoesOn
<1> DEFINE open == IF subject = "open" THEN listed ELSE <<>>
           M == Listed
           arbs == ScanArbs(open, 2)
           quoted == QuotedOf(open)
           results == StableSort(quoted, HighestFirst(quoted))
           key == ByScore(M)
           C == {m \in M : m.candidate}
           some == {r \in Range(results) : r.candidate}
           found == Select(results, some)
           shown == Range(arbs.candidates)
<1>1. open \in Seq(M)
  BY DEF IsListing
<1>2. AreRanked(M)
  BY ListedAreMarkets DEF AreRanked
<1>3. \A ms : ScanArbs(ms, 2).results = StableSort(QuotedOf(ms), HighestFirst(QuotedOf(ms)))
  BY DEF ScanArbs, QuotedOf
<1>4. arbs.candidates = SubSeq(found, 1, Smaller(2, Len(found)))
  BY DEF ScanArbs, QuotedOf
<1> HIDE DEF open, M, arbs
<1>5. ASSUME NEW i \in DOMAIN open, open[i].fails # "none"
      PROVE  ScanArbs(RemoveAt(open, i), 2).results = arbs.results
  <2> DEFINE rest == RemoveAt(open, i)
  <2>1. i \in 1..Len(open) /\ open[i] \notin Quotable(M)
    BY <1>1, <1>5 DEF Quotable
  <2>2. rest = Rest(open, i)
    BY DEF Rest
  <2> HIDE DEF rest
  <2>3. rest \in Seq(M)
    BY <1>1, <2>1, <2>2, RestIs
  <2>4. Select(rest, Quotable(M)) = Select(open, Quotable(M))
    BY <1>1, <2>1, <2>2, SelectRest
  <2>5. QuotedOf(rest) = QuotedOf(open)
    BY <1>1, <2>3, <2>4, QuotedIs
  <2> QED
    BY <1>3, <2>5 DEF rest, arbs
<1>6. quoted \in Seq(M)
  BY <1>1, QuotedIs
<1> HIDE DEF quoted
<1>7. results = StableSort(quoted, key) /\ Numbers(key, M)
  BY <1>2, <1>6, RankingIs
<1>8. results \in Seq(M)
  BY <1>6, <1>7, SortType
<1>9. found = StableSort(Select(quoted, C), key)
  <2>1. \A r \in M : r \in Range(results) => (r \in some <=> r \in C)
    OBVIOUS
  <2> HIDE DEF results, some, C, key
  <2>2. found = Select(results, C)
    BY <1>8, <2>1, SelectByTest
  <2>3. Select(StableSort(quoted, key), C) = StableSort(Select(quoted, C), key)
    BY <1>6, <1>7, SortSelect
  <2> QED
    BY <1>7, <2>2, <2>3
<1>10. found \in Seq(M) /\ InOrder(found, key)
  <2> HIDE DEF C, key, found
  <2>1. Select(quoted, C) \in Seq(M)
    BY <1>6, SelectType
  <2> QED
    BY <1>7, <1>9, <2>1, SortType
<1>11. ASSUME NEW r \in Range(results), r.candidate
       PROVE  r \in Range(found)
  <2> HIDE DEF results
  <2>1. r \in M
    BY <1>8 DEF Range
  <2>2. Tally(results, {r}) # 0
    BY <1>8, TallyOfOne
  <2>3. Tally(found, {r}) = Tally(results, {r})
    <3>1. IsBoth({r}, some, {r})
      BY <1>11 DEF IsBoth
    <3> HIDE DEF some
    <3> QED
      BY <1>8, <3>1, TallySelect
  <2> HIDE DEF found
  <2> QED
    BY <1>10, <2>2, <2>3, TallyOfOne
<1> HIDE DEF found, some
<1>12. /\ Len(found) \in Nat /\ DOMAIN found = 1..Len(found)
       /\ \A k \in DOMAIN found : found[k] \in M
  BY <1>10
<1> DEFINE n == Len(found)
           top == Smaller(2, n)
<1>13. n \in Nat /\ top \in Nat /\ top <= n /\ (n >= 2 => top = 2) /\ (n < 2 => top = n)
       /\ \A k : k \in DOMAIN found <=> k \in 1..n
  BY <1>12 DEF Smaller
<1> HIDE DEF top, n
<1>14. /\ Len(arbs.candidates) = top /\ DOMAIN arbs.candidates = 1..top
       /\ \A k \in 1..top : arbs.candidates[k] = found[k]
  <2>1. \A k \in 1..top : found[k] \in M
    <3>1. \A k \in 1..top : k \in 1..n
      BY <1>13
    <3> QED
      BY <1>12, <1>13, <3>1
  <2> DEFINE c == SubSeq(found, 1, top)
  <2>2. c \in Seq(M) /\ Len(c) = (IF 1 <= top THEN top - 1 + 1 ELSE 0)
        /\ \A k \in 1..(top - 1 + 1) : c[k] = found[1 + k - 1]
    BY <1>10, <1>13, <2>1, SubSeqProperties
  <2> HIDE DEF c
  <2>3. (\A k \in 1..top : 1 + k - 1 = k) /\ top - 1 + 1 = top /\ (~(1 <= top) => top = 0)
    BY <1>13
  <2>4. Len(c) = top /\ DOMAIN c = 1..Len(c) /\ \A k \in 1..top : c[k] = found[k]
    BY <2>2, <2>3
  <2>5. arbs.candidates = c
    BY <1>4 DEF top, n, c
  <2> QED
    BY <2>4, <2>5
<1>15. ASSUME NEW r \in Range(results), r.candidate, r \notin shown
       PROVE  Len(arbs.candidates) = 2 /\ \A s \in shown : s.score >= r.score
  <2>1. PICK k \in DOMAIN found : r = found[k]
    BY <1>11, <1>15 DEF Range
  <2>2. k \notin 1..top
    BY <1>14, <1>15, <2>1 DEF Range
  <2>3. k \in 1..n /\ k > top /\ top = 2
    <3>1. k \in 1..n
      BY <1>13, <2>1
    <3> QED
      BY <1>13, <2>2, <3>1
  <2>4. ASSUME NEW s \in shown PROVE s.score >= r.score
    <3>1. PICK j \in 1..top : s = found[j]
      BY <1>14 DEF Range
    <3>2. j \in DOMAIN found /\ j < k
      <4>1. j \in 1..n /\ j < k
        BY <1>13, <2>3, <3>1
      <4> QED
        BY <1>13, <4>1
    <3>3. key[found[j]] <= key[found[k]]
      BY <1>10, <2>1, <3>2 DEF InOrder
    <3>4. s \in M /\ r \in M /\ s.score \in Int /\ r.score \in Int
      BY <1>2, <1>12, <2>1, <3>1, <3>2 DEF AreRanked
    <3>5. key[s] = 0 - s.score /\ key[r] = 0 - r.score
      BY <3>4 DEF ByScore
    <3> HIDE DEF key
    <3> QED
      BY <2>1, <3>1, <3>3, <3>4, <3>5
  <2> QED
    BY <1>14, <2>3, <2>4
<1>16. arbs.results = results
  BY <1>3 DEF arbs, quoted
<1> HIDE DEF results
<1> QED
  BY <1>5, <1>15, <1>16 DEF ArbScanGoesOn, open, arbs

\* All three.
LEMMA FailuresLocal ==
  ASSUME IsListing
  PROVE  FailuresStayLocal
BY FailureCostsOne, OnePrice, ArbsGoOn DEF FailuresStayLocal

(***************************************************************************)
(* A failing market costs either scan that market only: the others keep    *)
(* their signals, prices, results and places (service.scan_signals, "a     *)
(* single market failing is skipped"; cli.scan_arbs_cmd).                  *)
(***************************************************************************)
THEOREM FailuresAlwaysLocal == Spec => []FailuresStayLocal
<1>1. IsListing => FailuresStayLocal
  BY FailuresLocal
<1> QED
  BY <1>1, ListingType, PTL

-----------------------------------------------------------------------------
\* The volatility of a series.

\* The points a series may have, those that count and how these differ.
SoundPoints(P) ==
  /\ \A p \in P : p.time \in Nat /\ p.price \in Nat
  /\ \A p, q \in P : p.price > 0 /\ q.price > 0 =>
       Log(p.price) \in Int /\ (Log(p.price) = Log(q.price) => p.price = q.price)
Sold(P) == {p \in P : p.price > 0}
Moved == {m \in [time : Int, log : Int, square : Int] : m.square = m.log * m.log}

\* The moves i and i + 1 of the ticks make, in the words of the points.
MovesBy(moves, ticks) ==
  /\ moves \in Seq(Moved) /\ Len(moves) = Len(ticks) - 1
  /\ \A i \in 1..Len(moves) :
       /\ moves[i].time = ticks[i + 1].time - ticks[i].time
       /\ moves[i].log = Log(ticks[i + 1].price) - Log(ticks[i].price)

\* Moves are differences of neighbours.
LEMMA MovesAre ==
  ASSUME NEW P, SoundPoints(P), NEW ticks \in Seq(Sold(P)), Len(ticks) > 0
  PROVE  MovesBy(Series!Moves(ticks), ticks)
<1> DEFINE n == Len(ticks) - 1
           Move(i) == LET r == Log(ticks[i + 1].price) - Log(ticks[i].price)
                      IN  [time |-> ticks[i + 1].time - ticks[i].time, log |-> r, square |-> r * r]
           moves == Series!Moves(ticks)
<1>1. n \in Nat /\ Len(ticks) \in Nat /\ \A i \in 1..(n + 1) : ticks[i] \in Sold(P)
  OBVIOUS
<1>2. moves = [i \in 1..n |-> Move(i)]
  BY DEF Series!Moves, Series!LogReturn
<1>3. ASSUME NEW i \in 1..n
      PROVE  /\ Move(i) \in Moved /\ Move(i).time = ticks[i + 1].time - ticks[i].time
             /\ Move(i).log = Log(ticks[i + 1].price) - Log(ticks[i].price)
  <2>1. i \in 1..(n + 1) /\ i + 1 \in 1..(n + 1)
    BY <1>1
  <2>2. /\ ticks[i].time \in Int /\ ticks[i + 1].time \in Int
        /\ Log(ticks[i].price) \in Int /\ Log(ticks[i + 1].price) \in Int
    BY <1>1, <2>1 DEF Sold, SoundPoints
  <2>3. PICK r \in Int : r = Log(ticks[i + 1].price) - Log(ticks[i].price)
    BY <2>2
  <2>4. PICK d \in Int : d = ticks[i + 1].time - ticks[i].time
    BY <2>2
  <2>5. Move(i) = [time |-> d, log |-> r, square |-> r * r]
    BY <2>3, <2>4
  <2>6. r * r \in Int
    OBVIOUS
  <2> HIDE DEF Move
  <2> QED
    BY <2>3, <2>4, <2>5, <2>6 DEF Moved
<1> HIDE DEF Move, moves, n
<1>4. moves \in Seq(Moved) /\ Len(moves) = n /\ \A i \in 1..n : moves[i] = Move(i)
  BY <1>1, <1>2, <1>3
<1> QED
  BY <1>3, <1>4 DEF MovesBy, moves, n

\* The instance's own definitions, in the helpers of the proofs.
LEMMA SeriesAre ==
  ASSUME NEW s
  PROVE  /\ Series!Positive(s) = Select(s, {p \in Range(s) : p.price > 0})
         /\ Series!ByTime(s) = [p \in Range(s) |-> p.time]
         /\ Series!Ticks(s) = StableSort(Series!Positive(s), Series!ByTime(s))
BY SeriesHelpers DEF Series!Positive, Series!ByTime, Series!Ticks

\* Its totals are those of the proofs.
LEMMA SeriesTotal ==
  ASSUME NEW rows, NEW field
  PROVE  Series!TotalOf(rows, field) = TotalOf(rows, field)
BY DEF Series!TotalOf, TotalOf, Series!FoldLeft, FoldLeft, Series!MapThenFoldSet, MapThenFoldSet,
       Series!Max, Max

\* The moves that took time.
Timed(moves) == Select(moves, {m \in Range(moves) : m.time > 0})

\* A volatility is a fraction of two totals.
LEMMA VolatilityIs ==
  ASSUME NEW s, NEW ticks, ticks = Series!Ticks(s), NEW timed, timed = Timed(Series!Moves(ticks))
  PROVE  Series!SeriesVolatility(s)
           = IF Len(ticks) < 3 \/ TotalOf(timed, "time") <= 0 THEN None
             ELSE <<TotalOf(timed, "square"), TotalOf(timed, "time")>>
<1> DEFINE moves == Series!Moves(ticks)
           S == {m \in Range(moves) : m.time > 0}
<1>1. Series!Select(moves, S) = timed /\ Series!Range(moves) = Range(moves)
  BY SeriesHelpers DEF Timed
<1>2. /\ Series!TotalOf(timed, "time") = TotalOf(timed, "time")
      /\ Series!TotalOf(timed, "square") = TotalOf(timed, "square")
  BY SeriesTotal
<1> QED
  BY <1>1, <1>2 DEF Series!SeriesVolatility

\* If every move took time, none is left out.
LEMMA TimedType ==
  ASSUME NEW moves \in Seq(Moved)
  PROVE  /\ Timed(moves) \in Seq({m \in Moved : m.time > 0})
         /\ TotalOf(Timed(moves), "square") \in Nat /\ TotalOf(Timed(moves), "time") \in Nat
         /\ (\A i \in 1..Len(moves) : moves[i].time > 0) => Timed(moves) = moves
<1> DEFINE T == {m \in Moved : m.time > 0}
           S == {m \in Range(moves) : m.time > 0}
           timed == Timed(moves)
<1>1. DOMAIN moves = 1..Len(moves) /\ \A i \in 1..Len(moves) : moves[i] \in Moved
  OBVIOUS
<1>2. Range(moves) \subseteq Moved
  BY <1>1 DEF Range
<1>3. timed \in Seq(T)
  <2>1. Select(moves, S) \in Seq(Moved \intersect S)
    BY SelectType
  <2>2. Moved \intersect S \subseteq T
    OBVIOUS
  <2>3. Select(moves, S) \in Seq(T)
    BY <2>1, <2>2, SeqMonotonic
  <2> QED
    BY <2>3 DEF Timed
<1>4. \A m \in T : m["square"] \in Nat /\ m["time"] \in Nat
  <2>1. \A y \in Int : y * y \in Nat
    OBVIOUS
  <2> QED
    BY <2>1 DEF Moved
<1>5. ASSUME \A i \in 1..Len(moves) : moves[i].time > 0 PROVE timed = moves
  <2>1. Range(moves) \subseteq S
    BY <1>1, <1>5 DEF Range
  <2>2. moves \in Seq(Range(moves))
    <3>1. \A i \in 1..Len(moves) : moves[i] \in Range(moves)
      BY <1>1 DEF Range
    <3> QED
      BY <3>1
  <2> HIDE DEF S
  <2>3. Select(moves, S) = moves
    BY <2>1, <2>2, SelectAll
  <2> QED
    BY <2>3 DEF Timed, S
<1> HIDE DEF timed, T, S
<1>6. TotalOf(timed, "square") \in Nat
  BY <1>3, <1>4, TotalOfAmounts
<1>7. TotalOf(timed, "time") \in Nat
  BY <1>3, <1>4, TotalOfAmounts
<1> QED
  BY <1>3, <1>5, <1>6, <1>7 DEF T, timed

\* What a series has that counts, and its ticks.
LEMMA TicksType ==
  ASSUME NEW P, SoundPoints(P), NEW s \in Seq(P), NEW good, good = Series!Positive(s)
  PROVE  /\ good \in Seq(Sold(P)) /\ Series!Ticks(s) \in Seq(Sold(P))
         /\ Len(Series!Ticks(s)) = Len(good)
         /\ Numbers(Series!ByTime(s), Range(good)) /\ good \in Seq(Range(good))
         /\ \A p \in Range(good) : Series!ByTime(s)[p] = p.time
<1> DEFINE S == {p \in Range(s) : p.price > 0}
           key == Series!ByTime(s)
           ticks == Series!Ticks(s)
           R == Range(good)
<1>1. good = Select(s, S) /\ key = [p \in Range(s) |-> p.time] /\ ticks = StableSort(good, key)
  BY SeriesAre
<1>2. good \in Seq(P \intersect S)
  BY <1>1, SelectType
<1>3. good \in Seq(Sold(P)) /\ good \in Seq(S)
  <2>1. P \intersect S \subseteq Sold(P) /\ P \intersect S \subseteq S
    BY DEF Sold
  <2>2. good \in Seq(Sold(P))
    BY <1>2, <2>1, SeqMonotonic
  <2>3. good \in Seq(S)
    BY <1>2, <2>1, SeqMonotonic
  <2> QED
    BY <2>2, <2>3
<1>4. DOMAIN good = 1..Len(good) /\ Len(good) \in Nat /\ \A i \in 1..Len(good) : good[i] \in S /\ good[i] \in Sold(P)
  BY <1>3
<1>5. R \subseteq Sold(P) /\ R \subseteq Range(s)
  BY <1>4 DEF Range
<1>6. good \in Seq(R)
  <2>1. \A i \in 1..Len(good) : good[i] \in R
    BY <1>4 DEF Range
  <2> HIDE DEF R
  <2> QED
    BY <1>3, <2>1
<1>7. \A p \in R : key[p] = p.time /\ p.time \in Int
  BY <1>1, <1>5 DEF Sold, SoundPoints
<1>8. Numbers(key, R)
  BY <1>7 DEF Numbers
<1> HIDE DEF R, key, S, ticks
<1>9. ticks \in Seq(R)
  BY <1>1, <1>6, <1>8, SortType
<1>10. Len(ticks) = Len(good)
  BY <1>1, <1>6, <1>8, SortLength
<1>11. ticks \in Seq(Sold(P))
  BY <1>5, <1>9, SeqMonotonic
<1> QED
  BY <1>3, <1>6, <1>7, <1>8, <1>10, <1>11 DEF R, key, ticks

\* Three ticks have a volatility, and fewer have none.
LEMMA VolatilityDefined ==
  ASSUME NEW P, SoundPoints(P), NEW s \in Seq(P), NEW v, v = Series!Volatility(s, 1)
  PROVE  IF Len(Series!Positive(s)) < 3 THEN v = None ELSE v[1] >= 0 /\ v[2] > 0
<1> DEFINE good == Series!Positive(s)
           ticks == Series!Ticks(s)
           moves == Series!Moves(ticks)
           timed == Timed(moves)
           quick == Series!SeriesVolatility(s)
           slow == Series!ClosesVolatility(s, 1)
<1>1. good \in Seq(Sold(P)) /\ ticks \in Seq(Sold(P)) /\ Len(ticks) = Len(good) /\ Len(good) \in Nat
  BY TicksType
<1>2. v = IF quick # None THEN quick ELSE slow
  BY DEF Series!Volatility
<1>3. quick = IF Len(ticks) < 3 \/ TotalOf(timed, "time") <= 0 THEN None
              ELSE <<TotalOf(timed, "square"), TotalOf(timed, "time")>>
  BY VolatilityIs
<1>4. CASE Len(good) < 3
  <2>1. quick = None
    BY <1>1, <1>3, <1>4
  <2>2. Series!Closes(s) = <<>>
    BY <1>4 DEF Series!Closes
  <2>3. slow = None
    BY <2>2 DEF Series!ClosesVolatility
  <2> HIDE DEF good, quick, slow
  <2> QED
    BY <1>2, <1>4, <2>1, <2>3 DEF good
<1>5. CASE Len(good) >= 3 /\ quick # None
  <2>1. MovesBy(moves, ticks)
    BY <1>1, <1>5, MovesAre
  <2>2. moves \in Seq(Moved)
    BY <2>1 DEF MovesBy
  <2>3. TotalOf(timed, "square") \in Nat /\ TotalOf(timed, "time") \in Nat
    BY <2>2, TimedType
  <2>4. v = <<TotalOf(timed, "square"), TotalOf(timed, "time")>> /\ ~(TotalOf(timed, "time") <= 0)
    BY <1>2, <1>3, <1>5
  <2> HIDE DEF timed, good
  <2>5. v[1] >= 0 /\ v[2] > 0
    BY <2>3, <2>4
  <2> QED
    BY <1>1, <1>5, <2>5 DEF good
<1>6. CASE Len(good) >= 3 /\ quick = None
  <2> DEFINE closes == Series!Closes(s)
             m == Series!Moves(closes)
             n == Len(m)
             sum == TotalOf(m, "log")
             squares == TotalOf(m, "square")
  <2>1. closes = good /\ closes # <<>>
    <3>1. closes = good
      BY <1>1, <1>6 DEF Series!Closes
    <3>2. Len(good) # 0
      BY <1>1, <1>6
    <3> QED
      BY <3>1, <3>2
  <2>2. slow = <<n * squares - sum * sum, n * (n - 1) * 1>>
    BY <2>1, SeriesTotal DEF Series!ClosesVolatility
  <2>3. closes \in Seq(Sold(P)) /\ Len(closes) > 0
    BY <1>1, <1>6, <2>1
  <2> HIDE DEF closes
  <2>4. MovesBy(m, closes)
    BY <2>3, MovesAre
  <2>5. m \in Seq(Moved) /\ n \in Nat /\ n >= 2
    BY <1>1, <1>6, <2>1, <2>4 DEF MovesBy
  <2>6. IsSquared(Moved, "log", "square")
    BY DEF IsSquared, Moved
  <2> HIDE DEF m
  <2>7. n * squares - sum * sum >= 0
    BY <2>5, <2>6, SquaresBound
  <2> HIDE DEF n, squares, sum
  <2>8. n * (n - 1) * 1 > 0
    <3>1. \A a, b \in Int : a >= 2 /\ b >= 1 => a * b * 1 > 0
      OBVIOUS
    <3> QED
      BY <2>5, <3>1
  <2>9. v = <<n * squares - sum * sum, n * (n - 1) * 1>>
    BY <1>2, <1>6, <2>2
  <2>10. v[1] >= 0 /\ v[2] > 0
    BY <2>7, <2>8, <2>9
  <2> HIDE DEF good
  <2> QED
    BY <1>1, <1>6, <2>10 DEF good
<1> QED
  BY <1>1, <1>4, <1>5, <1>6

\* A walk that never moves stays where it began.
LEMMA StaysPut ==
  ASSUME NEW V, NEW ticks \in Seq(V), \A i \in 1..(Len(ticks) - 1) : ticks[i + 1].price = ticks[i].price
  PROVE  \A i \in 1..Len(ticks) : ticks[i].price = ticks[1].price
<1> DEFINE S == {k \in Nat : k + 1 <= Len(ticks) => ticks[k + 1].price = ticks[1].price}
<1>0. Len(ticks) \in Nat
  OBVIOUS
<1>1. 0 \in S
  OBVIOUS
<1>2. ASSUME NEW k \in Nat, k \in S PROVE k + 1 \in S
  <2>1. CASE (k + 1) + 1 <= Len(ticks)
    <3>1. k + 1 \in 1..(Len(ticks) - 1) /\ ticks[k + 1].price = ticks[1].price
      BY <1>0, <1>2, <2>1
    <3>2. ticks[(k + 1) + 1].price = ticks[k + 1].price
      BY <3>1
    <3> QED
      BY <3>1, <3>2
  <2> QED
    BY <1>0, <2>1
<1> HIDE DEF S
<1>3. Nat \subseteq S
  BY <1>1, <1>2, SetInduction
<1>4. ASSUME NEW i \in 1..Len(ticks) PROVE ticks[i].price = ticks[1].price
  <2>1. PICK k \in Nat : k + 1 = i
    BY <1>0
  <2>2. k \in S /\ k + 1 <= Len(ticks)
    BY <1>0, <1>3, <2>1
  <2>3. ticks[k + 1].price = ticks[1].price
    BY <2>2 DEF S
  <2> QED
    BY <2>1, <2>3
<1> QED
  BY <1>4

\* The squares of the moves add up to nothing only if the price never moved.
LEMMA StillIsZero ==
  ASSUME NEW P, SoundPoints(P), NEW ticks \in Seq(Sold(P)), Len(ticks) > 0,
         NEW moves, MovesBy(moves, ticks)
  PROVE  TotalOf(moves, "square") = 0 <=> \A i \in 1..Len(ticks) : ticks[i].price = ticks[1].price
<1> DEFINE n == Len(moves)
<1>1. /\ moves \in Seq(Moved) /\ n \in Nat /\ n = Len(ticks) - 1 /\ Len(ticks) \in Nat
      /\ \A i \in 1..n : i \in 1..Len(ticks) /\ i + 1 \in 1..Len(ticks) /\ moves[i] \in Moved
      /\ \A i \in 1..Len(ticks) : ticks[i] \in Sold(P)
  BY DEF MovesBy
<1>2. \A m \in Moved : m["square"] \in Nat
  <2>1. \A y \in Int : y * y \in Nat
    OBVIOUS
  <2> QED
    BY <2>1 DEF Moved
<1>3. TotalOf(moves, "square") = 0 <=> \A i \in 1..n : moves[i]["square"] = 0
  BY <1>1, <1>2, TotalOfAmounts
<1>4. ASSUME NEW i \in 1..n
      PROVE  moves[i]["square"] = 0 <=> ticks[i + 1].price = ticks[i].price
  <2>1. ticks[i] \in P /\ ticks[i].price > 0 /\ ticks[i + 1] \in P /\ ticks[i + 1].price > 0
    BY <1>1 DEF Sold
  <2>2. PICK a \in Int : a = Log(ticks[i].price)
    BY <2>1 DEF SoundPoints
  <2>3. PICK b \in Int : b = Log(ticks[i + 1].price)
    BY <2>1 DEF SoundPoints
  <2>4. moves[i].log = b - a /\ moves[i].square = (b - a) * (b - a)
    BY <1>1, <2>2, <2>3 DEF MovesBy, Moved
  <2>5. (b - a) * (b - a) = 0 <=> a = b
    <3>1. \A y \in Int : y * y = 0 <=> y = 0
      OBVIOUS
    <3>2. b - a \in Int /\ (b - a = 0 <=> a = b)
      OBVIOUS
    <3> QED
      BY <3>1, <3>2
  <2>6. a = b => ticks[i].price = ticks[i + 1].price
    BY <2>1, <2>2, <2>3 DEF SoundPoints
  <2> QED
    BY <2>2, <2>3, <2>4, <2>5, <2>6
<1>5. ASSUME \A i \in 1..n : ticks[i + 1].price = ticks[i].price
      PROVE  \A i \in 1..Len(ticks) : ticks[i].price = ticks[1].price
  BY <1>1, <1>5, StaysPut
<1>6. ASSUME \A i \in 1..Len(ticks) : ticks[i].price = ticks[1].price
      PROVE  \A i \in 1..n : ticks[i + 1].price = ticks[i].price
  BY <1>1, <1>6
<1> QED
  BY <1>3, <1>4, <1>5, <1>6

\* Ticks at times of their own, in whatever order they came.
LEMMA TicksInOrder ==
  ASSUME NEW P, SoundPoints(P), NEW s \in Seq(P), NEW good, good = Series!Positive(s),
         \A i, j \in 1..Len(good) : good[i].time = good[j].time => i = j
  PROVE  /\ Strictly(Series!Ticks(s), Series!ByTime(s)) /\ Range(Series!Ticks(s)) = Range(good)
         /\ Series!Ticks(s) \in Seq(Range(good))
<1> DEFINE key == Series!ByTime(s)
           R == Range(good)
<1>1. /\ Numbers(key, R) /\ good \in Seq(R)
      /\ \A p \in R : key[p] = p.time
  BY TicksType
<1>2. \A i \in 1..Len(good) : good[i] \in R
  BY <1>1
<1>3. Series!Ticks(s) = StableSort(good, key)
  BY SeriesAre
<1> HIDE DEF key, R
<1>4. KeysApart(good, key)
  BY <1>1, <1>2 DEF KeysApart
<1>5. /\ StableSort(good, key) \in Seq(R) /\ Strictly(StableSort(good, key), key)
      /\ Range(StableSort(good, key)) = Range(good)
  BY <1>1, <1>4, SortStrictly
<1> QED
  BY <1>3, <1>5 DEF key, R

\* Turned round, a series has the same ticks.
LEMMA TicksReversed ==
  ASSUME NEW P, SoundPoints(P), NEW s \in Seq(P), NEW good, good = Series!Positive(s),
         \A i, j \in 1..Len(good) : good[i].time = good[j].time => i = j
  PROVE  Series!Ticks(Reverse(s)) = Series!Ticks(s)
<1> DEFINE t == Reverse(s)
           doog == Series!Positive(t)
           key == Series!ByTime(s)
           R == Range(good)
           one == Series!Ticks(s)
           other == Series!Ticks(t)
<1>1. t \in Seq(P) /\ Len(t) = Len(s) /\ Len(s) \in Nat
      /\ \A i \in 1..Len(s) : t[i] = s[(Len(s) - i) + 1]
  BY ReverseType
<1>2. Range(t) = Range(s)
  <2>1. DOMAIN s = 1..Len(s) /\ DOMAIN t = 1..Len(s)
    BY <1>1
  <2>2. ASSUME NEW i \in 1..Len(s)
        PROVE  (Len(s) - i) + 1 \in 1..Len(s) /\ t[(Len(s) - i) + 1] = s[i]
    <3>1. PICK j \in 1..Len(s) : j = (Len(s) - i) + 1 /\ (Len(s) - j) + 1 = i
      BY <1>1
    <3> QED
      BY <1>1, <3>1
  <2> HIDE DEF t
  <2>3. \A i \in 1..Len(s) : s[i] \in Range(t)
    BY <2>1, <2>2 DEF Range
  <2>4. \A i \in 1..Len(s) : t[i] \in Range(s)
    BY <1>1, <2>1, <2>2 DEF Range
  <2>5. Range(s) \subseteq Range(t)
    BY <2>1, <2>3 DEF Range
  <2>6. Range(t) \subseteq Range(s)
    BY <2>1, <2>4 DEF Range
  <2> QED
    BY <2>5, <2>6
<1>3. Series!ByTime(t) = key
  <2>1. Series!ByTime(t) = [p \in Range(t) |-> p.time]
    BY SeriesAre
  <2>2. key = [p \in Range(s) |-> p.time]
    BY SeriesAre
  <2> QED
    BY <1>2, <2>1, <2>2
<1>4. doog = Reverse(good)
  <2> DEFINE S == {p \in Range(s) : p.price > 0}
  <2>1. doog = Select(t, S)
    BY <1>2, SeriesAre
  <2>2. good = Select(s, S)
    BY SeriesAre
  <2> HIDE DEF S
  <2>3. Select(Reverse(s), S) = Reverse(Select(s, S))
    BY SelectReversed
  <2> QED
    BY <2>1, <2>2, <2>3
<1>5. good \in Seq(R) /\ Len(one) = Len(good) /\ Numbers(key, R)
  BY TicksType
<1>6. /\ doog \in Seq(R) /\ Len(doog) = Len(good) /\ Len(good) \in Nat
      /\ \A i \in 1..Len(good) : doog[i] = good[(Len(good) - i) + 1]
  <2> HIDE DEF doog, R
  <2>1. Len(good) \in Nat
    BY <1>5
  <2> QED
    BY <1>4, <1>5, <2>1, ReverseType
<1> HIDE DEF t, doog, key, R, one, other
<1>7. \A i \in 1..Len(good) : (Len(good) - i) + 1 \in 1..Len(good)
  BY <1>6
<1>8. \A i, j \in 1..Len(doog) : doog[i].time = doog[j].time => i = j
  <2> SUFFICES ASSUME NEW i \in 1..Len(good), NEW j \in 1..Len(good), doog[i].time = doog[j].time
               PROVE  i = j
    BY <1>6
  <2>1. PICK k \in 1..Len(good) : k = (Len(good) - i) + 1
    BY <1>7
  <2>2. PICK l \in 1..Len(good) : l = (Len(good) - j) + 1
    BY <1>7
  <2>3. good[k].time = good[l].time
    BY <1>6, <2>1, <2>2
  <2>4. k = l
    BY <2>3
  <2> QED
    BY <1>6, <2>1, <2>2, <2>4
<1>9. /\ Strictly(one, key) /\ Range(one) = R /\ one \in Seq(R)
  BY TicksInOrder DEF one, key, R
<1>10. /\ Strictly(other, key) /\ Range(other) = Range(doog) /\ other \in Seq(Range(doog))
  BY <1>1, <1>3, <1>8, TicksInOrder DEF other, doog, key
<1>11. Len(other) = Len(doog)
  BY <1>1, TicksType DEF other, doog
<1>12. Range(doog) = R
  <2>1. DOMAIN good = 1..Len(good) /\ DOMAIN doog = 1..Len(good)
    BY <1>5, <1>6
  <2>2. ASSUME NEW i \in 1..Len(good) PROVE good[i] \in Range(doog)
    <3>1. PICK j \in 1..Len(good) : j = (Len(good) - i) + 1 /\ (Len(good) - j) + 1 = i
      BY <1>6
    <3>2. doog[j] = good[i]
      BY <1>6, <3>1
    <3> QED
      BY <2>1, <3>2 DEF Range
  <2>3. ASSUME NEW i \in 1..Len(good) PROVE doog[i] \in R
    BY <1>6
  <2>4. R \subseteq Range(doog)
    BY <2>1, <2>2 DEF R, Range
  <2>5. Range(doog) \subseteq R
    BY <2>1, <2>3 DEF Range
  <2> QED
    BY <2>4, <2>5
<1>13. other \in Seq(R) /\ Range(one) = Range(other) /\ Len(one) = Len(other)
  BY <1>5, <1>6, <1>9, <1>10, <1>11, <1>12
<1>14. one = other
  BY <1>5, <1>9, <1>10, <1>13, OneStrictOrder
<1> QED
  BY <1>14 DEF one, other, t

\* What the volatility of a series with times of its own is.
LEMMA VolatilityMoves ==
  ASSUME NEW P, SoundPoints(P), NEW s \in Seq(P), NEW good, good = Series!Positive(s),
         \A i, j \in 1..Len(good) : good[i].time = good[j].time => i = j,
         Len(good) >= 3, None \notin Int \X Int
  PROVE  LET v == Series!Volatility(s, 1)
         IN  /\ v # None /\ v = Series!Volatility(Reverse(s), 1)
             /\ v[1] = 0 <=> \A i \in 1..Len(good) : good[i].price = good[1].price
<1> DEFINE ticks == Series!Ticks(s)
           key == Series!ByTime(s)
           moves == Series!Moves(ticks)
           timed == Timed(moves)
           v == Series!Volatility(s, 1)
           w == Series!Volatility(Reverse(s), 1)
           squares == TotalOf(moves, "square")
           time == TotalOf(moves, "time")
<1>1. /\ ticks \in Seq(Sold(P)) /\ Len(ticks) = Len(good) /\ Len(good) \in Nat
      /\ \A p \in Range(good) : key[p] = p.time
      /\ DOMAIN good = 1..Len(good)
  BY TicksType
<1>2. Strictly(ticks, key) /\ Range(ticks) = Range(good) /\ ticks \in Seq(Range(good))
  BY TicksInOrder
<1>3. Series!Ticks(Reverse(s)) = ticks
  BY TicksReversed
<1>4. MovesBy(moves, ticks)
  BY <1>1, MovesAre
<1>5. /\ Series!SeriesVolatility(s)
           = IF Len(ticks) < 3 \/ TotalOf(timed, "time") <= 0 THEN None
             ELSE <<TotalOf(timed, "square"), TotalOf(timed, "time")>>
  BY VolatilityIs
<1>6. /\ Series!SeriesVolatility(Reverse(s))
           = IF Len(ticks) < 3 \/ TotalOf(timed, "time") <= 0 THEN None
             ELSE <<TotalOf(timed, "square"), TotalOf(timed, "time")>>
  <2>1. timed = Timed(Series!Moves(ticks)) /\ ticks = Series!Ticks(Reverse(s))
    BY <1>3
  <2> HIDE DEF ticks, timed
  <2> QED
    BY <2>1, VolatilityIs
<1>7. /\ v = IF Series!SeriesVolatility(s) # None THEN Series!SeriesVolatility(s)
             ELSE Series!ClosesVolatility(s, 1)
      /\ w = IF Series!SeriesVolatility(Reverse(s)) # None THEN Series!SeriesVolatility(Reverse(s))
             ELSE Series!ClosesVolatility(Reverse(s), 1)
  BY DEF Series!Volatility
<1> HIDE DEF ticks, key, moves, timed, v, w
<1>8. moves \in Seq(Moved) /\ Len(moves) \in Nat /\ Len(moves) = Len(ticks) - 1
      /\ \A i \in 1..Len(moves) : moves[i].time = ticks[i + 1].time - ticks[i].time
  BY <1>4 DEF MovesBy
<1>9. ASSUME NEW i \in 1..Len(moves) PROVE moves[i].time > 0
  <2>1. i \in 1..Len(ticks) /\ i + 1 \in 1..Len(ticks) /\ i < i + 1
    BY <1>1, <1>8
  <2>2. ticks[i] \in Range(good) /\ ticks[i + 1] \in Range(good)
    BY <1>2, <2>1
  <2>3. key[ticks[i]] < key[ticks[i + 1]]
    BY <1>2, <2>1 DEF Strictly
  <2>4. ticks[i] \in Sold(P) /\ ticks[i + 1] \in Sold(P)
    BY <1>1, <2>1
  <2>5. ticks[i].time \in Int /\ ticks[i + 1].time \in Int /\ ticks[i].time < ticks[i + 1].time
    BY <1>1, <2>2, <2>3, <2>4 DEF Sold, SoundPoints
  <2> QED
    BY <1>8, <2>5
<1>10. timed = moves /\ squares \in Nat /\ time \in Nat
  BY <1>8, <1>9, TimedType DEF timed
<1>11. time > 0
  <2> DEFINE T == {m \in Moved : m.time > 0}
  <2>1. moves \in Seq(T)
    BY <1>8, <1>10, TimedType DEF timed
  <2>2. \A m \in T : m["time"] \in Nat
    BY DEF Moved
  <2>3. 1 \in 1..Len(moves) /\ moves[1]["time"] # 0
    <3>1. 1 \in 1..Len(moves)
      BY <1>1, <1>8
    <3> QED
      BY <1>9, <3>1
  <2> HIDE DEF T
  <2>4. time = 0 <=> \A i \in 1..Len(moves) : moves[i]["time"] = 0
    BY <2>1, <2>2, TotalOfAmounts
  <2> QED
    BY <1>10, <2>3, <2>4
<1> HIDE DEF squares, time
<1>12. v = <<squares, time>> /\ w = <<squares, time>> /\ v # None
  <2>1. <<squares, time>> \in Int \X Int
    BY <1>10
  <2>2. <<squares, time>> # None
    BY <2>1
  <2>3. ~(Len(ticks) < 3 \/ time <= 0)
    BY <1>1, <1>10, <1>11
  <2>4. /\ Series!SeriesVolatility(s) = <<squares, time>>
        /\ Series!SeriesVolatility(Reverse(s)) = <<squares, time>>
    BY <1>5, <1>6, <1>10, <2>3 DEF squares, time
  <2> QED
    BY <1>7, <2>2, <2>4
<1>13. squares = 0 <=> \A i \in 1..Len(ticks) : ticks[i].price = ticks[1].price
  <2>1. Len(ticks) > 0
    BY <1>1
  <2> QED
    BY <1>1, <1>4, <2>1, StillIsZero DEF squares
<1>14. (\A i \in 1..Len(ticks) : ticks[i].price = ticks[1].price)
         <=> \A i \in 1..Len(good) : good[i].price = good[1].price
  <2>1. DOMAIN ticks = 1..Len(ticks) /\ 1 \in 1..Len(ticks) /\ 1 \in 1..Len(good)
    BY <1>1
  <2>2. \A i \in 1..Len(ticks) : \E j \in 1..Len(good) : good[j] = ticks[i]
    BY <1>1, <1>2, <2>1 DEF Range
  <2>3. ASSUME NEW i \in 1..Len(good) PROVE \E j \in 1..Len(ticks) : ticks[j] = good[i]
    <3>1. good[i] \in Range(good)
      BY <1>1 DEF Range
    <3>2. good[i] \in Range(ticks)
      BY <1>2, <3>1
    <3> QED
      BY <2>1, <3>2 DEF Range
  <2>4. ASSUME \A i \in 1..Len(ticks) : ticks[i].price = ticks[1].price
        PROVE  \A i \in 1..Len(good) : good[i].price = good[1].price
    <3>1. \A i \in 1..Len(good) : good[i].price = ticks[1].price
      BY <2>3, <2>4
    <3> QED
      BY <2>1, <3>1
  <2>5. ASSUME \A i \in 1..Len(good) : good[i].price = good[1].price
        PROVE  \A i \in 1..Len(ticks) : ticks[i].price = ticks[1].price
    <3>1. \A i \in 1..Len(ticks) : ticks[i].price = good[1].price
      BY <2>2, <2>5
    <3> QED
      BY <2>1, <3>1
  <2> QED
    BY <2>4, <2>5
<1>15. v[1] = squares
  BY <1>12
<1> QED
  BY <1>12, <1>13, <1>14, <1>15 DEF v, w

\* The volatility of what a run may feed is measured.
LEMMA VolatilitiesMeasured ==
  ASSUME IsInput
  PROVE  VolatilityMeasured
<1> DEFINE good == Series!Positive(points)
           v == Series!Volatility(points, 1)
<1>1. SoundPoints(Points) /\ points \in Seq(Points) /\ None \notin Int \X Int
  <2>1. points \in Seq(Points)
    BY DEF IsInput
  <2>2. \A p \in Points : p.time \in Nat /\ p.price \in Nat
    BY InputsAssumption
  <2>3. \A m, n \in {p.price : p \in Points} \ {0} :
          Log(m) \in Int /\ (Log(m) = Log(n) => m = n)
    BY InputsAssumption
  <2>4. SoundPoints(Points)
    BY <2>2, <2>3 DEF SoundPoints
  <2> QED
    BY <2>1, <2>4, InputsAssumption
<1>2. VolatilityIsDefined
  <2>1. IF Len(Series!Positive(points)) < 3 THEN v = None ELSE v[1] >= 0 /\ v[2] > 0
    BY <1>1, VolatilityDefined
  <2> QED
    BY <2>1 DEF VolatilityIsDefined
<1>3. DOMAIN good = 1..Len(good)
  <2>1. good \in Seq(Sold(Points))
    BY <1>1, TicksType
  <2> QED
    BY <2>1
<1>4. ASSUME \A i, j \in 1..Len(good) : good[i].time = good[j].time => i = j, Len(good) >= 3
      PROVE  /\ v # None /\ v = Series!Volatility(Reverse(points), 1)
             /\ v[1] = 0 <=> \A i \in 1..Len(good) : good[i].price = good[1].price
  BY <1>1, <1>4, VolatilityMoves
<1>5. VolatilityOfEveryMove
  BY <1>3, <1>4 DEF VolatilityOfEveryMove
<1> QED
  BY <1>2, <1>5 DEF VolatilityMeasured

(***************************************************************************)
(* The volatility is that of every move, wherever there is one, and no     *)
(* division by zero (probability.volatility_per_sqrt_sec_from_series,      *)
(* volatility_from_closes).                                                *)
(***************************************************************************)
THEOREM VolatilityAlwaysMeasured == Spec => []VolatilityMeasured
<1>1. IsInput => VolatilityMeasured
  BY VolatilitiesMeasured
<1> QED
  BY <1>1, InputType, PTL

-----------------------------------------------------------------------------
\* The searches for a complete set.

\* f[k] is 2 to the k.
Doubling(f) ==
  /\ f \in [0..Halvings -> Nat] /\ f[0] = 1
  /\ \A k \in 1..Halvings : f[k] = 2 * f[k - 1]

\* A quantum is as fine as it can be halved.
LEMMA FineIs ==
  \E f : Doubling(f) /\ Fine = f[Halvings]
<1> DEFINE n == Halvings
           step == [p \in Nat \X Nat |-> 2 * p[1]]
           Eq(iter) == iter = [s \in SUBSET DOMAIN Rounds |->
                         IF s = {} THEN 1 ELSE 2 * iter[s \ {Max(s)}]]
           chosen == CHOOSE iter : Eq(iter)
<1>1. n \in Nat /\ DOMAIN Rounds = 1..n
  BY SearchAssumption DEF Rounds
<1>2. Fine = chosen[DOMAIN Rounds]
  BY DEF Fine, FoldLeft, MapThenFoldSet
<1>3. step \in [Nat \X Nat -> Nat] /\ 1 \in Nat
  OBVIOUS
<1>4. ASSUME NEW x \in Nat, NEW k \in 1..n PROVE step[<<x, k>>] = 2 * x
  BY <1>1
<1> HIDE DEF step, n
<1>5. PICK iter \in [SUBSET (1..n) -> Nat] : Folds(iter, 1, step, n)
  BY <1>1, <1>3, FoldExists
<1>6. Eq(iter)
  <2>1. ASSUME NEW s \in SUBSET (1..n), s # {}
        PROVE  step[<<iter[s \ {Max(s)}], Max(s)>>] = 2 * iter[s \ {Max(s)}]
    <3>1. Max(s) \in 1..n
      BY <2>1, <1>1, MaxOf
    <3>2. iter[s \ {Max(s)}] \in Nat
      BY <1>5
    <3> QED
      BY <3>1, <3>2, <1>4
  <2> QED
    BY <1>1, <1>5, <2>1 DEF Folds
<1>7. Eq(chosen)
  BY <1>6
<1> HIDE DEF chosen
<1>8. StepsLikeFold(chosen, Nat, 1, step, n)
  <2>1. chosen[{}] = 1
    BY <1>7
  <2>2. ASSUME NEW s \in SUBSET (1..n), s # {}, chosen[s \ {Max(s)}] \in Nat
        PROVE  chosen[s] = step[<<chosen[s \ {Max(s)}], Max(s)>>]
    <3>1. Max(s) \in 1..n
      BY <2>2, <1>1, MaxOf
    <3>2. chosen[s] = 2 * chosen[s \ {Max(s)}]
      BY <1>1, <1>7, <2>2
    <3> QED
      BY <3>1, <3>2, <2>2, <1>4
  <2> QED
    BY <1>1, <1>3, <2>1, <2>2 DEF StepsLikeFold
<1> HIDE DEF Eq
<1>9. PICK f : Traces(f, Nat, 1, step, n) /\ f[n] = chosen[1..n]
  BY <1>8, FoldTraces
<1>10. ASSUME NEW k \in 1..n PROVE f[k] = 2 * f[k - 1]
  <2>1. f[k] = step[<<f[k - 1], k>>] /\ f[k - 1] \in Nat
    BY <1>1, <1>9 DEF Traces
  <2> QED
    BY <2>1, <1>4
<1>11. Doubling(f)
  BY <1>9, <1>10 DEF Doubling, Traces, n
<1> QED
  BY <1>1, <1>2, <1>9, <1>11 DEF n

\* What a round leaves of the interval that is searched.
Interval == [lo : Nat, hi : Nat]
Halved(r, good) ==
  LET mid == (r.lo + r.hi) \div 2
  IN  IF mid \in good THEN [r EXCEPT !.lo = mid] ELSE [r EXCEPT !.hi = mid]

\* A round leaves an interval.
LEMMA HalvedType ==
  ASSUME NEW r \in Interval, NEW good
  PROVE  Halved(r, good) \in Interval
<1>1. (r.lo + r.hi) \div 2 \in Nat
  <2>1. \A x \in Nat : x \div 2 \in Nat
    OBVIOUS
  <2>2. r.lo + r.hi \in Nat
    BY DEF Interval
  <2> QED
    BY <2>1, <2>2
<1> QED
  BY <1>1 DEF Halved, Interval

\* f[k] is the interval after k rounds.
HalvedUpTo(low, high, good, f) ==
  /\ f \in [0..Halvings -> Interval] /\ f[0] = [lo |-> low, hi |-> high]
  /\ \A k \in 1..Halvings : f[k] = Halved(f[k - 1], good)

\* A search ends with the lower end of the last interval.
LEMMA BisectTrace ==
  ASSUME NEW low \in Nat, NEW high \in Nat, NEW good
  PROVE  \E f : HalvedUpTo(low, high, good, f) /\ Bisect(low, high, good) = f[Halvings].lo
<1> DEFINE n == Halvings
           base == [lo |-> low, hi |-> high]
           step == [p \in Interval \X Nat |-> Halved(p[1], good)]
           Eq(iter) == iter = [s \in SUBSET DOMAIN Rounds |->
                         IF s = {} THEN base ELSE Halved(iter[s \ {Max(s)}], good)]
           chosen == CHOOSE iter : Eq(iter)
<1>1. n \in Nat /\ DOMAIN Rounds = 1..n
  BY SearchAssumption DEF Rounds
<1>2. Bisect(low, high, good) = chosen[DOMAIN Rounds].lo
  BY DEF Bisect, FoldLeft, MapThenFoldSet, Halved
<1>3. step \in [Interval \X Nat -> Interval] /\ base \in Interval
  <2>1. base \in Interval
    BY DEF Interval
  <2> QED
    BY <2>1, HalvedType
<1>4. ASSUME NEW x \in Interval, NEW k \in 1..n PROVE step[<<x, k>>] = Halved(x, good)
  BY <1>1
<1> HIDE DEF step, n, base
<1>5. PICK iter \in [SUBSET (1..n) -> Interval] : Folds(iter, base, step, n)
  BY <1>1, <1>3, FoldExists
<1>6. Eq(iter)
  <2>1. ASSUME NEW s \in SUBSET (1..n), s # {}
        PROVE  step[<<iter[s \ {Max(s)}], Max(s)>>] = Halved(iter[s \ {Max(s)}], good)
    <3>1. Max(s) \in 1..n
      BY <2>1, <1>1, MaxOf
    <3>2. iter[s \ {Max(s)}] \in Interval
      BY <1>5
    <3> QED
      BY <3>1, <3>2, <1>4
  <2> QED
    BY <1>1, <1>5, <2>1 DEF Folds
<1>7. Eq(chosen)
  BY <1>6
<1> HIDE DEF chosen
<1>8. StepsLikeFold(chosen, Interval, base, step, n)
  <2>1. chosen[{}] = base
    BY <1>7
  <2>2. ASSUME NEW s \in SUBSET (1..n), s # {}, chosen[s \ {Max(s)}] \in Interval
        PROVE  chosen[s] = step[<<chosen[s \ {Max(s)}], Max(s)>>]
    <3>1. Max(s) \in 1..n
      BY <2>2, <1>1, MaxOf
    <3>2. chosen[s] = Halved(chosen[s \ {Max(s)}], good)
      BY <1>1, <1>7, <2>2
    <3> QED
      BY <3>1, <3>2, <2>2, <1>4
  <2> QED
    BY <1>1, <1>3, <2>1, <2>2 DEF StepsLikeFold
<1> HIDE DEF Eq
<1>9. PICK f : Traces(f, Interval, base, step, n) /\ f[n] = chosen[1..n]
  BY <1>8, FoldTraces
<1>10. ASSUME NEW k \in 1..n PROVE f[k] = Halved(f[k - 1], good)
  <2>1. f[k] = step[<<f[k - 1], k>>] /\ f[k - 1] \in Interval
    BY <1>1, <1>9 DEF Traces
  <2> QED
    BY <2>1, <1>4
<1>11. HalvedUpTo(low, high, good, f)
  BY <1>9, <1>10 DEF HalvedUpTo, Traces, n, base
<1> QED
  BY <1>1, <1>2, <1>9, <1>11 DEF n

\* After k rounds: the lower end is good, the upper one is not, and what lies
\* between them is `width` as often as the rest of the rounds can halve it.
Closing(r, good, width, part) ==
  /\ r.lo \in good /\ r.hi \notin good /\ r.hi = r.lo + width * part

\* One round more halves it.
LEMMA Closer ==
  ASSUME NEW r \in Interval, NEW good, NEW width \in Nat, NEW part \in Nat,
         Closing(r, good, width, 2 * part)
  PROVE  Closing(Halved(r, good), good, width, part)
<1> DEFINE w == width * part
           mid == (r.lo + r.hi) \div 2
<1>1. w \in Nat /\ width * (2 * part) = 2 * w /\ r.lo \in Nat
  BY DEF Interval
<1> HIDE DEF w
<1>2. mid = r.lo + w /\ r.hi = mid + w
  BY <1>1 DEF Closing
<1>3. CASE mid \in good
  <2>1. Halved(r, good) = [r EXCEPT !.lo = mid]
    BY <1>3 DEF Halved
  <2> HIDE DEF mid
  <2>2. Halved(r, good).lo = mid /\ Halved(r, good).hi = r.hi
    BY <2>1 DEF Interval
  <2> QED
    BY <1>2, <1>3, <2>2 DEF Closing, w
<1>4. CASE mid \notin good
  <2>1. Halved(r, good) = [r EXCEPT !.hi = mid]
    BY <1>4 DEF Halved
  <2> HIDE DEF mid
  <2>2. Halved(r, good).lo = r.lo /\ Halved(r, good).hi = mid
    BY <2>1 DEF Interval
  <2> QED
    BY <1>2, <1>4, <2>2 DEF Closing, w
<1> QED
  BY <1>3, <1>4

\* A search that starts between a good end and a bad one, so many quanta away,
\* ends with a good quantity that is bad when as much as these quanta, in the
\* finest unit, is added.
LEMMA BisectEnds ==
  ASSUME NEW low \in Nat, NEW high \in Nat, NEW good, NEW width \in Nat,
         high = low + width * Fine, low \in good, high \notin good
  PROVE  LET q == Bisect(low, high, good) IN q \in Nat /\ q \in good /\ q + width \notin good
<1> DEFINE n == Halvings
<1>0. n \in Nat
  BY SearchAssumption
<1>1. PICK p : Doubling(p) /\ Fine = p[n]
  BY FineIs
<1>2. PICK f : HalvedUpTo(low, high, good, f) /\ Bisect(low, high, good) = f[n].lo
  BY BisectTrace
<1> DEFINE S == {k \in Nat : k <= n => Closing(f[k], good, width, p[n - k])}
<1>3. 0 \in S
  <2>1. f[0] = [lo |-> low, hi |-> high] /\ n - 0 = n
    BY <1>0, <1>2 DEF HalvedUpTo
  <2>2. f[0].lo = low /\ f[0].hi = high
    BY <2>1
  <2>3. Closing(f[0], good, width, p[n])
    BY <1>1, <2>2 DEF Closing
  <2> QED
    BY <2>1, <2>3
<1>4. ASSUME NEW k \in Nat, k \in S PROVE k + 1 \in S
  <2>1. CASE k + 1 <= n
    <3>1. PICK m \in 0..n : m = n - (k + 1)
      BY <1>0, <2>1
    <3>2. k + 1 \in 1..n /\ (k + 1) - 1 = k /\ n - k \in 1..n /\ (n - k) - 1 = m /\ k \in 0..n
      BY <1>0, <2>1, <3>1
    <3>3. f[k + 1] = Halved(f[k], good) /\ f[k] \in Interval
      BY <1>2, <3>2 DEF HalvedUpTo
    <3>4. p[n - k] = 2 * p[m] /\ p[m] \in Nat
      BY <1>1, <3>1, <3>2 DEF Doubling
    <3>5. Closing(f[k], good, width, 2 * p[m])
      BY <1>4, <2>1, <3>2, <3>4
    <3>6. Closing(f[k + 1], good, width, p[m])
      BY <3>3, <3>4, <3>5, Closer
    <3> QED
      BY <3>1, <3>6
  <2> QED
    BY <1>0, <2>1
<1> HIDE DEF S
<1>5. n \in S
  BY <1>0, <1>3, <1>4, SetInduction
<1>6. Closing(f[n], good, width, p[0]) /\ p[0] = 1 /\ f[n] \in Interval
  <2>1. n \in 0..n /\ n - n = 0
    BY <1>0
  <2>2. Closing(f[n], good, width, p[0])
    BY <1>0, <1>5, <2>1 DEF S
  <2> QED
    BY <1>1, <1>2, <2>1, <2>2 DEF Doubling, HalvedUpTo
<1> HIDE DEF n
<1>7. f[n].lo \in Nat /\ f[n].hi = f[n].lo + width
  BY <1>6 DEF Closing, Interval
<1> QED
  BY <1>2, <1>6, <1>7 DEF Closing

\* There is a finest unit.
LEMMA FinePositive == Fine \in Nat /\ Fine > 0
<1>0. Halvings \in Nat
  BY SearchAssumption
<1>1. PICK p : Doubling(p) /\ Fine = p[Halvings]
  BY FineIs
<1> DEFINE S == {k \in Nat : k <= Halvings => p[k] \in Nat /\ p[k] > 0}
<1>2. 0 \in S
  BY <1>1 DEF Doubling
<1>3. ASSUME NEW k \in Nat, k \in S PROVE k + 1 \in S
  <2>1. CASE k + 1 <= Halvings
    <3>1. k + 1 \in 1..Halvings /\ (k + 1) - 1 = k /\ p[k] \in Nat /\ p[k] > 0
      BY <1>0, <1>3, <2>1
    <3>2. p[k + 1] = 2 * p[k]
      BY <1>1, <3>1 DEF Doubling
    <3> QED
      BY <3>1, <3>2
  <2> QED
    BY <1>0, <2>1
<1> HIDE DEF S
<1>4. Halvings \in S
  BY <1>0, <1>2, <1>3, SetInduction
<1> QED
  BY <1>0, <1>1, <1>4 DEF S

\* A number of quanta, in the finest unit.
LEMMA Quanta ==
  ASSUME NEW F \in Nat, F > 0, NEW m \in Nat, NEW k \in Nat
  PROVE  m * F \in Nat /\ (m <= k <=> m * F <= k * F) /\ (m = 0 <=> m * F = 0)
         /\ Smaller(m * F, k * F) = Smaller(m, k) * F
<1>1. m * F \in Nat /\ k * F \in Nat
  OBVIOUS
<1>2. m <= k => m * F <= k * F
  OBVIOUS
<1>3. ASSUME ~(m <= k) PROVE ~(m * F <= k * F)
  <2>1. PICK d \in Nat : m = k + d /\ d > 0
    BY <1>3
  <2>2. m * F = k * F + d * F /\ d * F > 0
    BY <2>1
  <2> QED
    BY <1>1, <2>2
<1>4. m = 0 <=> m * F = 0
  OBVIOUS
<1> QED
  BY <1>1, <1>2, <1>3, <1>4 DEF Smaller

\* Refined levels are levels again, in the same order.
LEMMA RefinedIs ==
  ASSUME NEW levels \in Seq(Level)
  PROVE  /\ Refined(levels) \in Seq(Level) /\ Len(Refined(levels)) = Len(levels)
         /\ \A k \in 1..Len(levels) :
              /\ Refined(levels)[k].price = levels[k].price
              /\ Refined(levels)[k].size = levels[k].size * Fine
         /\ Ascending(levels) => Ascending(Refined(levels))
<1> DEFINE R == Refined(levels)
           fine(l) == [l EXCEPT !.size = @ * Fine]
<1>1. DOMAIN levels = 1..Len(levels) /\ Len(levels) \in Nat
  OBVIOUS
<1>2. R = [k \in 1..Len(levels) |-> fine(levels[k])]
  BY <1>1 DEF Refined
<1>3. ASSUME NEW l \in Level
      PROVE  fine(l) \in Level /\ fine(l).price = l.price /\ fine(l).size = l.size * Fine
  <2>1. l.size * Fine \in Nat
    <3>1. l.size \in Nat /\ Fine \in Nat
      BY FinePositive DEF Level
    <3> QED
      BY <3>1
  <2> QED
    BY <2>1 DEF Level
<1>4. \A k \in 1..Len(levels) : levels[k] \in Level
  OBVIOUS
<1> HIDE DEF R, fine
<1>5. R \in Seq(Level) /\ Len(R) = Len(levels) /\ \A k \in 1..Len(levels) : R[k] = fine(levels[k])
  BY <1>1, <1>2, <1>3, <1>4
<1>6. \A k \in 1..Len(levels) : R[k].price = levels[k].price /\ R[k].size = levels[k].size * Fine
  BY <1>3, <1>4, <1>5
<1>7. Ascending(levels) => Ascending(R)
  <2>1. DOMAIN R = 1..Len(levels)
    BY <1>5
  <2> QED
    BY <1>1, <1>6, <2>1 DEF Ascending
<1> QED
  BY <1>5, <1>6, <1>7 DEF R

\* Everything counted in a finer unit: what remains and what it cost.
IsFiner(g, f, F) == g.remaining = f.remaining * F /\ g.cost = f.cost * F

\* A turn of the walk in the finer unit.
LEMMA FinerTurn ==
  ASSUME NEW F \in Nat, F > 0, NEW q \in Nat, NEW Q \in Nat,
         NEW f \in Walking(q), NEW g \in Walking(Q),
         NEW l \in Level, NEW m \in Level, m.price = l.price, m.size = l.size * F, IsFiner(g, f, F)
  PROVE  IsFiner(TakeFrom(g, m), TakeFrom(f, l), F)
<1>1. PICK r \in Nat, c \in Nat, s \in Nat, p \in Nat :
        r = f.remaining /\ c = f.cost /\ s = l.size /\ p = l.price
  BY DEF Walking, Level
<1>2. g.remaining = r * F /\ g.cost = c * F /\ m.size = s * F /\ m.price = p
  BY <1>1 DEF IsFiner
<1>3. (r = 0 <=> r * F = 0) /\ Smaller(r * F, s * F) = Smaller(r, s) * F
  BY Quanta
<1>4. CASE r = 0
  BY <1>1, <1>2, <1>3, <1>4 DEF TakeFrom, IsFiner
<1>5. CASE r # 0
  <2>1. PICK take \in Nat : take = Smaller(r, s) /\ take <= r
    BY DEF Smaller
  <2>2. /\ TakeFrom(f, l).remaining = r - take /\ TakeFrom(f, l).cost = c + take * p
    BY <1>1, <1>5, <2>1 DEF TakeFrom
  <2>3. /\ TakeFrom(g, m).remaining = r * F - take * F
        /\ TakeFrom(g, m).cost = c * F + (take * F) * p
    BY <1>2, <1>3, <1>5, <2>1 DEF TakeFrom
  <2>4. r * F - take * F = (r - take) * F /\ c * F + (take * F) * p = (c + take * p) * F
    OBVIOUS
  <2> QED
    BY <2>2, <2>3, <2>4 DEF IsFiner
<1> QED
  BY <1>4, <1>5

\* A walk in the finer unit is the same walk.
LEMMA FinerWalk ==
  ASSUME NEW levels \in Seq(Level), NEW q \in Nat
  PROVE  /\ Depth(Refined(levels)) = Depth(levels) * Fine
         /\ WalkQuantity(Refined(levels), q * Fine).cost = WalkQuantity(levels, q).cost * Fine
<1> DEFINE fine == Refined(levels)
           n == Len(levels)
           Q == q * Fine
<1>1. /\ fine \in Seq(Level) /\ Len(fine) = n /\ n \in Nat
      /\ \A k \in 1..n : fine[k].price = levels[k].price /\ fine[k].size = levels[k].size * Fine
      /\ \A k \in 1..n : levels[k] \in Level
  BY RefinedIs
<1>2. Fine \in Nat /\ Fine > 0 /\ Q \in Nat
  BY FinePositive
<1> HIDE DEF fine, Q, n
<1>12. \A k \in 1..n : fine[k] \in Level
  BY <1>1
<1>3. PICK f : /\ TakenUpTo(levels, q, f)
               /\ WalkQuantity(levels, q) =
                     [quantity |-> q - f[n].remaining, cost |-> f[n].cost,
                      full |-> f[n].remaining = 0, consumed |-> f[n].consumed]
  BY WalkTrace DEF n
<1>4. PICK g : /\ TakenUpTo(fine, Q, g)
               /\ WalkQuantity(fine, Q) =
                     [quantity |-> Q - g[n].remaining, cost |-> g[n].cost,
                      full |-> g[n].remaining = 0, consumed |-> g[n].consumed]
  BY <1>1, <1>2, WalkTrace
<1>5. PICK d : DepthUpTo(levels, d) /\ Depth(levels) = d[n]
  BY DepthTrace DEF n
<1>6. PICK e : DepthUpTo(fine, e) /\ Depth(fine) = e[n]
  BY <1>1, DepthTrace
<1> DEFINE S == {k \in Nat : k <= n => IsFiner(g[k], f[k], Fine) /\ e[k] = d[k] * Fine}
<1>7. 0 \in S
  <2>1. f[0] = [remaining |-> q, cost |-> 0, consumed |-> 0]
        /\ g[0] = [remaining |-> Q, cost |-> 0, consumed |-> 0]
    BY <1>3, <1>4 DEF TakenUpTo
  <2>2. IsFiner(g[0], f[0], Fine)
    BY <1>2, <2>1 DEF IsFiner, Q
  <2>3. d[0] = 0 /\ e[0] = 0
    BY <1>5, <1>6 DEF DepthUpTo
  <2> QED
    BY <1>2, <2>2, <2>3
<1>8. ASSUME NEW k \in Nat, k \in S PROVE k + 1 \in S
  <2>1. CASE k + 1 <= n
    <3>0. k + 1 \in 1..n /\ (k + 1) - 1 = k /\ k \in 0..n /\ k <= n
      BY <1>1, <2>1
    <3>1. IsFiner(g[k], f[k], Fine) /\ e[k] = d[k] * Fine
      BY <1>8, <3>0
    <3>2. f[k + 1] = TakeFrom(f[k], levels[k + 1]) /\ f[k] \in Walking(q)
      BY <1>3, <3>0 DEF TakenUpTo, n
    <3>3. g[k + 1] = TakeFrom(g[k], fine[k + 1]) /\ g[k] \in Walking(Q)
      BY <1>1, <1>4, <3>0 DEF TakenUpTo
    <3>4. PICK l \in Level, m \in Level : l = levels[k + 1] /\ m = fine[k + 1]
      BY <1>1, <1>12, <3>0
    <3>5. IsFiner(g[k + 1], f[k + 1], Fine)
      <4>1. PICK a \in Walking(q), b \in Walking(Q) : a = f[k] /\ b = g[k]
        BY <3>2, <3>3
      <4>2. m.price = l.price /\ m.size = l.size * Fine /\ IsFiner(b, a, Fine)
        BY <1>1, <3>0, <3>1, <3>4, <4>1
      <4>3. IsFiner(TakeFrom(b, m), TakeFrom(a, l), Fine)
        BY <1>2, <4>2, FinerTurn
      <4> QED
        BY <3>2, <3>3, <3>4, <4>1, <4>3
    <3>6. /\ d[k + 1] = d[k] + levels[k + 1].size /\ d[k] \in Nat
      BY <1>5, <3>0 DEF DepthUpTo, n
    <3>7. e[k + 1] = e[k] + fine[k + 1].size
      BY <1>1, <1>6, <3>0 DEF DepthUpTo
    <3>8. levels[k + 1].size \in Nat /\ fine[k + 1].size = levels[k + 1].size * Fine
      BY <1>1, <3>0 DEF Level
    <3>9. e[k + 1] = d[k + 1] * Fine
      BY <1>2, <3>1, <3>6, <3>7, <3>8
    <3> QED
      BY <3>5, <3>9
  <2> QED
    BY <1>1, <2>1
<1> HIDE DEF S
<1>9. n \in S
  BY <1>1, <1>7, <1>8, SetInduction
<1>10. IsFiner(g[n], f[n], Fine) /\ e[n] = d[n] * Fine
  BY <1>1, <1>9 DEF S
<1>11. WalkQuantity(fine, Q).cost = g[n].cost /\ WalkQuantity(levels, q).cost = f[n].cost
  BY <1>3, <1>4
<1> QED
  BY <1>5, <1>6, <1>10, <1>11 DEF IsFiner, fine, Q

\* Nothing costs nothing.
LEMMA FreeWalk ==
  ASSUME NEW levels \in Seq(Level)
  PROVE  WalkQuantity(levels, 0).cost = 0
<1> DEFINE n == Len(levels)
<1>1. n \in Nat
  OBVIOUS
<1>2. PICK f : /\ TakenUpTo(levels, 0, f)
               /\ WalkQuantity(levels, 0) =
                     [quantity |-> 0 - f[n].remaining, cost |-> f[n].cost,
                      full |-> f[n].remaining = 0, consumed |-> f[n].consumed]
  BY WalkTrace
<1> DEFINE S == {k \in Nat : k <= n => f[k].cost = 0 /\ f[k].remaining = 0}
<1>3. 0 \in S
  BY <1>2 DEF TakenUpTo
<1>4. ASSUME NEW k \in Nat, k \in S PROVE k + 1 \in S
  <2>1. CASE k + 1 <= n
    <3>1. k + 1 \in 1..n /\ (k + 1) - 1 = k /\ k <= n
      BY <1>1, <2>1
    <3>2. f[k + 1] = TakeFrom(f[k], levels[k + 1])
      BY <1>2, <3>1 DEF TakenUpTo
    <3>3. f[k].cost = 0 /\ f[k].remaining = 0
      BY <1>4, <3>1
    <3> QED
      BY <3>2, <3>3 DEF TakeFrom
  <2> QED
    BY <1>1, <2>1
<1> HIDE DEF S
<1>5. n \in S
  BY <1>1, <1>3, <1>4, SetInduction
<1>6. f[n].cost = 0
  BY <1>1, <1>5 DEF S
<1> QED
  BY <1>2, <1>6

-----------------------------------------------------------------------------
\* The asks of a market, and what sets of them cost.
BookSide(levels) == levels \in Seq(Level) /\ Ascending(levels)

Deepest(yes, no) == Smaller(Depth(yes), Depth(no))

\* What a set may cost at most, in parts.
DearestSet == (Unit - (Buffer + MinEdge)) * One

\* The parts of an edge of 1 are a number.
LEMMA UnitType == Unit \in Nat /\ Unit > 0
<1>1. PICK g \in Nat, p \in Nat : g = Grain /\ p = Parts /\ g > 0 /\ p > 0
  BY SearchAssumption
<1>2. g * p \in Nat
  OBVIOUS
<1>3. g * p > 0
  BY <1>1, Quanta
<1> QED
  BY <1>1, <1>2, <1>3 DEF Unit

\* It is a number, negative when no price would keep the edge.
LEMMA DearestSetType == DearestSet \in Int
<1>1. PICK o \in Nat, u \in Int, v \in Int, t \in Int : o = One /\ u = Buffer /\ v = MinEdge /\ t = Unit
  BY SearchAssumption, UnitType
<1>2. (t - (u + v)) * o \in Int
  OBVIOUS
<1> QED
  BY <1>1, <1>2 DEF DearestSet

\* Sets fill as far as the less deep side does.
LEMMA SetsFill ==
  ASSUME NEW yes \in Seq(Level), NEW no \in Seq(Level), NEW q \in Nat
  PROVE  /\ Deepest(yes, no) \in Nat /\ SetCost(yes, no, q) \in Nat /\ SetCost(yes, no, 0) = 0
         /\ BothFill(yes, no, q) <=> q <= Deepest(yes, no)
<1>1. Depth(yes) \in Nat /\ Depth(no) \in Nat
  BY DepthType
<1>2. WalkQuantity(yes, q).cost \in Nat /\ (WalkQuantity(yes, q).full <=> q <= Depth(yes))
  BY WalkType
<1>3. WalkQuantity(no, q).cost \in Nat /\ (WalkQuantity(no, q).full <=> q <= Depth(no))
  BY WalkType
<1>4. WalkQuantity(yes, 0).cost = 0 /\ WalkQuantity(no, 0).cost = 0
  BY FreeWalk
<1>5. SetCost(yes, no, q) \in Nat /\ SetCost(yes, no, 0) = 0
  BY <1>2, <1>3, <1>4 DEF SetCost, WalkAsks
<1>6. BothFill(yes, no, q) <=> q <= Depth(yes) /\ q <= Depth(no)
  BY <1>2, <1>3 DEF BothFill, WalkAsks
<1> QED
  BY <1>1, <1>5, <1>6 DEF Deepest, Smaller

\* Fewer sets cost no more apiece.
LEMMA FewerSets ==
  ASSUME NEW yes, NEW no, BookSide(yes), BookSide(no), NEW j \in Nat, NEW k \in Nat, j <= k,
         BothFill(yes, no, k)
  PROVE  BothFill(yes, no, j) /\ SetCost(yes, no, j) * k <= SetCost(yes, no, k) * j
<1>1. yes \in Seq(Level) /\ no \in Seq(Level) /\ Ascending(yes) /\ Ascending(no)
      /\ WalkQuantity(yes, k).full /\ WalkQuantity(no, k).full
  BY DEF BookSide, BothFill, WalkAsks
<1>2. PICK a \in Nat, b \in Nat, c \in Nat, d \in Nat :
        /\ a = WalkQuantity(yes, j).cost /\ b = WalkQuantity(yes, k).cost
        /\ c = WalkQuantity(no, j).cost /\ d = WalkQuantity(no, k).cost
  <2>1. \A q \in Nat : WalkQuantity(yes, q).cost \in Nat
    BY <1>1, WalkType
  <2>2. \A q \in Nat : WalkQuantity(no, q).cost \in Nat
    BY <1>1, WalkType
  <2> QED
    BY <2>1, <2>2
<1>3. WalkQuantity(yes, j).full /\ a * k <= b * j
  BY <1>1, <1>2, SmallerWalk
<1>4. WalkQuantity(no, j).full /\ c * k <= d * j
  BY <1>1, <1>2, SmallerWalk
<1>5. (a + c) * k <= (b + d) * j
  <2>1. (a + c) * k = a * k + c * k /\ (b + d) * j = b * j + d * j
        /\ a * k \in Int /\ c * k \in Int /\ b * j \in Int /\ d * j \in Int
    OBVIOUS
  <2> QED
    BY <1>3, <1>4, <2>1
<1> QED
  BY <1>2, <1>3, <1>4, <1>5 DEF BothFill, SetCost, WalkAsks

\* Fewer sets than a budget buys fit in it.
LEMMA FewerAffordable ==
  ASSUME NEW yes, NEW no, BookSide(yes), BookSide(no), NEW j \in Nat, NEW k \in Nat, j <= k,
         NEW b \in Nat, Affordable(yes, no, k, b)
  PROVE  Affordable(yes, no, j, b)
<1>1. yes \in Seq(Level) /\ no \in Seq(Level) /\ BothFill(yes, no, k) /\ SetCost(yes, no, k) <= b
  BY DEF BookSide, Affordable
<1>2. PICK x \in Nat, y \in Nat : x = SetCost(yes, no, j) /\ y = SetCost(yes, no, k)
  BY <1>1, SetsFill
<1>3. BothFill(yes, no, j) /\ x * k <= y * j /\ y <= b
  BY <1>1, <1>2, FewerSets
<1>4. x <= b
  <2>1. CASE k = 0
    <3>1. j = k
      BY <2>1
    <3> QED
      BY <1>2, <1>3, <3>1
  <2>2. CASE k > 0
    <3>1. y * j <= y * k
      <4>1. PICK d \in Nat : k = j + d
        OBVIOUS
      <4>2. y * k = y * j + y * d /\ y * d \in Nat /\ y * j \in Nat
        BY <4>1
      <4> QED
        BY <4>2
    <3>2. x * k \in Nat /\ y * j \in Nat /\ y * k \in Nat
      OBVIOUS
    <3>3. x * k <= y * k
      BY <1>3, <3>1, <3>2
    <3>4. x <= y
      BY <2>2, <3>3, Cancel
    <3> QED
      BY <1>3, <3>4
  <2> QED
    BY <2>1, <2>2
<1> QED
  BY <1>2, <1>3, <1>4 DEF Affordable

\* What q sets may cost for their edge to be the least wanted, less so many parts.
LEMMA WithinIs ==
  ASSUME NEW yes \in Seq(Level), NEW no \in Seq(Level), NEW q \in Nat, NEW parts \in Int
  PROVE  /\ (Unit - (Buffer + MinEdge - parts)) * One \in Int
         /\ EdgeWithin(yes, no, q, parts) <=>
              Unit * SetCost(yes, no, q) <= ((Unit - (Buffer + MinEdge - parts)) * One) * q
<1>1. PICK c \in Nat : c = SetCost(yes, no, q)
  BY SetsFill
<1>2. PICK o \in Nat, t \in Nat, u \in Int :
        o = One /\ t = Unit /\ u = Buffer + MinEdge - parts
  <2>1. One \in Nat /\ Buffer \in Int /\ MinEdge \in Int
    BY SearchAssumption
  <2> QED
    BY <2>1, UnitType
<1>3. PICK x \in Int, k \in Int : x = o * q /\ k = (t - u) * o
  OBVIOUS
<1>4. (x - c) * t = t * x - t * c /\ k * q = t * x - u * x /\ u * o * q = u * x
  BY <1>3
<1>5. PICK a \in Int, b \in Int, d \in Int : a = t * x /\ b = t * c /\ d = u * x
  OBVIOUS
<1>6. (a - b >= d) <=> (b <= a - d)
  OBVIOUS
<1>7. EdgeWithin(yes, no, q, parts) <=> (x - c) * t >= u * o * q
  BY <1>1, <1>2, <1>3 DEF EdgeWithin
<1>8. EdgeWithin(yes, no, q, parts) <=> t * c <= k * q
  BY <1>4, <1>5, <1>6, <1>7
<1> QED
  BY <1>1, <1>2, <1>3, <1>8

\* The edge of a size, without its fractions.
LEMMA EdgeIs ==
  ASSUME NEW yes \in Seq(Level), NEW no \in Seq(Level), NEW q \in Nat
  PROVE  /\ EdgeWithin(yes, no, q, 0) <=> Unit * SetCost(yes, no, q) <= DearestSet * q
         /\ KeepsEdge(yes, no, q) <=> q > 0 /\ q <= Deepest(yes, no) /\ EdgeWithin(yes, no, q, 0)
<1>1. Buffer + MinEdge - 0 = Buffer + MinEdge
  BY SearchAssumption
<1>2. EdgeWithin(yes, no, q, 0) <=> Unit * SetCost(yes, no, q) <= DearestSet * q
  <2>1. EdgeWithin(yes, no, q, 0) <=>
          Unit * SetCost(yes, no, q) <= ((Unit - (Buffer + MinEdge - 0)) * One) * q
    <3>1. 0 \in Int
      OBVIOUS
    <3> QED
      BY <3>1, WithinIs
  <2> QED
    BY <1>1, <2>1 DEF DearestSet
<1>3. BothFill(yes, no, q) <=> q <= Deepest(yes, no)
  BY SetsFill
<1> QED
  BY <1>1, <1>2, <1>3 DEF KeepsEdge, EdgeWithin

\* Fewer sets than keep the edge keep it.
LEMMA FewerKeepEdge ==
  ASSUME NEW yes, NEW no, BookSide(yes), BookSide(no), NEW j \in Nat, NEW k \in Nat, 0 < j, j <= k,
         KeepsEdge(yes, no, k)
  PROVE  KeepsEdge(yes, no, j)
<1>1. yes \in Seq(Level) /\ no \in Seq(Level)
  BY DEF BookSide
<1>2. PICK x \in Nat, y \in Nat, w \in Int, D \in Nat :
        x = SetCost(yes, no, j) /\ y = SetCost(yes, no, k) /\ w = DearestSet /\ D = Deepest(yes, no)
  <2>1. SetCost(yes, no, j) \in Nat /\ Deepest(yes, no) \in Nat
    BY <1>1, SetsFill
  <2>2. SetCost(yes, no, k) \in Nat
    BY <1>1, SetsFill
  <2> QED
    BY <2>1, <2>2, DearestSetType
<1>3. PICK t \in Nat : t = Unit
  BY UnitType
<1>4. k > 0 /\ k <= D /\ t * y <= w * k
  BY <1>1, <1>2, <1>3, EdgeIs
<1>5. x * k <= y * j
  <2>1. BothFill(yes, no, k)
    BY <1>1, <1>2, <1>4, SetsFill
  <2> QED
    BY <1>2, <2>1, FewerSets
<1>6. (t * x) * k <= (w * j) * k
  <2>1. (t * y) * j <= (w * k) * j
    <3>1. PICK p \in Int, r \in Int : p = t * y /\ r = w * k
      OBVIOUS
    <3>2. p <= r
      BY <1>4, <3>1
    <3>3. p * j <= r * j
      BY <3>2, Cancel
    <3> QED
      BY <3>1, <3>3
  <2>2. PICK a \in Int, b \in Int : a = x * k /\ b = y * j
    OBVIOUS
  <2>3. a * t <= b * t
    <3>1. a <= b
      BY <1>5, <2>2
    <3> QED
      BY <3>1, <1>3, UnitType, Cancel
  <2>4. (t * x) * k = a * t /\ (t * y) * j = b * t /\ (w * k) * j = (w * j) * k
    BY <2>2
  <2>5. (w * j) * k \in Int /\ a * t \in Int /\ b * t \in Int
    OBVIOUS
  <2> QED
    BY <2>1, <2>3, <2>4, <2>5
<1>7. t * x <= w * j
  <2>1. PICK p \in Int, r \in Int : p = t * x /\ r = w * j
    OBVIOUS
  <2>2. p * k <= r * k
    BY <1>6, <2>1
  <2>3. p <= r
    BY <1>4, <2>2, Cancel
  <2> QED
    BY <2>1, <2>3
<1>8. j <= D
  BY <1>4
<1> QED
  BY <1>1, <1>2, <1>3, <1>7, <1>8, EdgeIs

\* What holds of so many sets holds of them in the finest unit.
LEMMA FinerSets ==
  ASSUME NEW yes, NEW no, BookSide(yes), BookSide(no), NEW q \in Nat, NEW b \in Nat
  PROVE  LET y == Refined(yes)
             n == Refined(no)
         IN  /\ BookSide(y) /\ BookSide(n) /\ q * Fine \in Nat
             /\ Deepest(y, n) = Deepest(yes, no) * Fine
             /\ Affordable(y, n, q * Fine, b * Fine) <=> Affordable(yes, no, q, b)
             /\ KeepsEdge(y, n, q * Fine) <=> KeepsEdge(yes, no, q)
             /\ \A parts \in Int : EdgeWithin(y, n, q * Fine, parts) <=> EdgeWithin(yes, no, q, parts)
<1> DEFINE y == Refined(yes)
           n == Refined(no)
           F == Fine
           Q == q * F
<1>1. F \in Nat /\ F > 0 /\ Q \in Nat
  BY FinePositive
<1>2. yes \in Seq(Level) /\ no \in Seq(Level) /\ Ascending(yes) /\ Ascending(no)
  BY DEF BookSide
<1>3. y \in Seq(Level) /\ Ascending(y)
  BY <1>2, RefinedIs
<1>4. n \in Seq(Level) /\ Ascending(n)
  BY <1>2, RefinedIs
<1>5. Depth(y) = Depth(yes) * F /\ WalkQuantity(y, Q).cost = WalkQuantity(yes, q).cost * F
  BY <1>2, FinerWalk
<1>6. Depth(n) = Depth(no) * F /\ WalkQuantity(n, Q).cost = WalkQuantity(no, q).cost * F
  BY <1>2, FinerWalk
<1> HIDE DEF y, n, F
<1>7. PICK u \in Nat, v \in Nat : u = Depth(yes) /\ v = Depth(no)
  BY <1>2, DepthType
<1>8. Deepest(y, n) = Deepest(yes, no) * F
  <2>1. Smaller(u * F, v * F) = Smaller(u, v) * F
    BY <1>1, Quanta
  <2> QED
    BY <1>5, <1>6, <1>7, <2>1 DEF Deepest
<1>9. PICK D \in Nat, c \in Nat : D = Deepest(yes, no) /\ c = SetCost(yes, no, q)
  BY <1>2, SetsFill
<1>10. SetCost(y, n, Q) = c * F
  <2>1. PICK s \in Nat, t \in Nat : s = WalkQuantity(yes, q).cost /\ t = WalkQuantity(no, q).cost
    <3>1. WalkQuantity(yes, q).cost \in Nat
      BY <1>2, WalkType
    <3>2. WalkQuantity(no, q).cost \in Nat
      BY <1>2, WalkType
    <3> QED
      BY <3>1, <3>2
  <2>2. SetCost(y, n, Q) = s * F + t * F /\ c = s + t
    BY <1>5, <1>6, <1>9, <2>1 DEF SetCost, WalkAsks
  <2>3. s * F + t * F = (s + t) * F
    BY <1>1
  <2> QED
    BY <2>2, <2>3
<1>11. BothFill(y, n, Q) <=> q <= D
  <2>1. BothFill(y, n, Q) <=> Q <= D * F
    BY <1>1, <1>3, <1>4, <1>8, <1>9, SetsFill
  <2> QED
    BY <1>1, <2>1, Cancel
<1>12. BothFill(yes, no, q) <=> q <= D
  BY <1>2, <1>9, SetsFill
<1>13. Affordable(y, n, Q, b * F) <=> Affordable(yes, no, q, b)
  <2>1. c * F <= b * F <=> c <= b
    BY <1>1, Cancel
  <2> QED
    BY <1>9, <1>10, <1>11, <1>12, <2>1 DEF Affordable
<1>14. ASSUME NEW parts \in Int
       PROVE  EdgeWithin(y, n, Q, parts) <=> EdgeWithin(yes, no, q, parts)
  <2>1. PICK t \in Nat, w \in Int : t = Unit /\ w = (Unit - (Buffer + MinEdge - parts)) * One
    BY <1>2, WithinIs, UnitType
  <2>2. EdgeWithin(yes, no, q, parts) <=> t * c <= w * q
    BY <1>2, <1>9, <2>1, WithinIs
  <2>3. EdgeWithin(y, n, Q, parts) <=> t * (c * F) <= w * Q
    <3>1. Q \in Nat
      BY <1>1
    <3> HIDE DEF Q
    <3> QED
      BY <1>3, <1>4, <1>10, <2>1, <3>1, WithinIs
  <2>4. t * (c * F) <= w * Q <=> t * c <= w * q
    <3>1. PICK i \in Int, j \in Int : i = t * c /\ j = w * q
      OBVIOUS
    <3>2. i * F = t * (c * F) /\ j * F = w * Q
      BY <1>1, <3>1
    <3>3. i <= j <=> i * F <= j * F
      BY <1>1, Cancel
    <3> QED
      BY <3>1, <3>2, <3>3
  <2> QED
    BY <2>2, <2>3, <2>4
<1>15. KeepsEdge(y, n, Q) <=> KeepsEdge(yes, no, q)
  <2>1. KeepsEdge(yes, no, q) <=> q > 0 /\ q <= D /\ EdgeWithin(yes, no, q, 0)
    BY <1>2, <1>9, EdgeIs
  <2>2. KeepsEdge(y, n, Q) <=> Q > 0 /\ Q <= D * F /\ EdgeWithin(y, n, Q, 0)
    <3>1. Q \in Nat
      BY <1>1
    <3> HIDE DEF Q
    <3> QED
      BY <1>3, <1>4, <1>8, <1>9, <3>1, EdgeIs
  <2>3. Q > 0 <=> q > 0
    BY <1>1, Quanta
  <2>4. Q <= D * F <=> q <= D
    BY <1>1, Cancel
  <2> QED
    BY <1>14, <2>1, <2>2, <2>3, <2>4
<1> QED
  BY <1>1, <1>3, <1>4, <1>8, <1>13, <1>14, <1>15 DEF BookSide, y, n, F

\* Rounding moves a quantity by half a quantum at most, rounding down by less
\* than one.
LEMMA RoundingIs ==
  ASSUME NEW q \in Nat
  PROVE  /\ Down(q) \in Nat /\ Down(q) * Fine <= q /\ q < Down(q) * Fine + Fine
         /\ Nearest(q) \in Nat
         /\ 2 * (Nearest(q) * Fine) <= 2 * q + Fine
         /\ 2 * (Nearest(q) * Fine) >= 2 * q - Fine
<1>1. Fine \in Nat /\ Fine > 0
  BY FinePositive
<1>2. PICK down \in Nat, rest \in Nat : down = q \div Fine /\ rest < Fine /\ q = Fine * down + rest
  <2>1. q \div Fine \in Nat /\ q % Fine \in Nat /\ q % Fine < Fine /\ q = Fine * (q \div Fine) + (q % Fine)
    BY <1>1
  <2> QED
    BY <2>1
<1>3. Down(q) = down
  BY <1>2 DEF Down
<1>4. PICK a \in Nat : a = down * Fine /\ q = a + rest
  BY <1>1, <1>2
<1>5. Nearest(q) \in Int /\ 2 * (Nearest(q) * Fine) <= 2 * q + Fine /\ 2 * (Nearest(q) * Fine) >= 2 * q - Fine
  BY <1>1, HalfEvenIs DEF Nearest
<1>6. Nearest(q) \in Nat
  <2> SUFFICES ASSUME Nearest(q) < 0 PROVE FALSE
    BY <1>5
  <2>1. PICK k \in Nat : Nearest(q) = 0 - k /\ k > 0
    BY <1>5
  <2>2. PICK m \in Nat : m = k * Fine /\ Nearest(q) * Fine = 0 - m
    BY <1>1, <2>1
  <2>3. 1 * Fine <= k * Fine
    BY <1>1, <2>1, Cancel
  <2> QED
    BY <1>1, <1>5, <2>2, <2>3
<1> QED
  BY <1>1, <1>2, <1>3, <1>4, <1>5, <1>6

\* What is a whole number of quanta is rounded to it.
LEMMA WholeRounds ==
  ASSUME NEW m \in Nat
  PROVE  m * Fine \in Nat /\ Down(m * Fine) = m /\ Nearest(m * Fine) = m
<1>1. Fine \in Nat /\ Fine > 0 /\ m * Fine \in Nat
  BY FinePositive
<1>2. PICK q \in Nat : q = m * Fine
  BY <1>1
<1>3. PICK d \in Nat : d = Down(q) /\ d * Fine <= q /\ q < d * Fine + Fine
  BY RoundingIs
<1>4. PICK k \in Nat : k = Nearest(q) /\ 2 * (k * Fine) <= 2 * q + Fine /\ 2 * (k * Fine) >= 2 * q - Fine
  BY RoundingIs
<1>5. d = m
  <2>1. d <= m
    BY <1>1, <1>2, <1>3, Cancel
  <2>2. (d + 1) * Fine = d * Fine + Fine
    BY <1>1
  <2>3. ~(d + 1 <= m)
    <3>1. d + 1 <= m => (d + 1) * Fine <= m * Fine
      BY <1>1, Cancel
    <3> QED
      BY <1>1, <1>2, <1>3, <2>2, <3>1
  <2> QED
    BY <2>1, <2>3
<1>6. k = m
  <2>1. (k + 1) * Fine = k * Fine + Fine /\ (m + 1) * Fine = m * Fine + Fine /\ k * Fine \in Nat
    BY <1>1
  <2>2. ~(k + 1 <= m)
    <3>1. k + 1 <= m => (k + 1) * Fine <= m * Fine
      BY <1>1, Cancel
    <3> QED
      BY <1>1, <1>2, <1>4, <2>1, <3>1
  <2>3. ~(m + 1 <= k)
    <3>1. m + 1 <= k => (m + 1) * Fine <= k * Fine
      BY <1>1, Cancel
    <3> QED
      BY <1>1, <1>2, <1>4, <2>1, <3>1
  <2> QED
    BY <2>2, <2>3
<1> QED
  BY <1>1, <1>2, <1>3, <1>4, <1>5, <1>6

\* What is searched of a market whose books are this deep.
Searched(yes, no, D) ==
  /\ BookSide(yes) /\ BookSide(no)
  /\ D \in Nat /\ D > 0 /\ D = Deepest(yes, no) /\ 2 * D <= Fine

\* The search for what a budget buys ends at most a quantum below the most.
LEMMA BudgetIsTight ==
  ASSUME NEW yes, NEW no, NEW D, Searched(yes, no, D), NEW b \in Nat
  PROVE  LET q == MaxQtyWithinBudget(Refined(yes), Refined(no), b * Fine, D * Fine)
         IN  /\ q \in Nat /\ Affordable(yes, no, q, b) /\ ~Affordable(yes, no, q + 2, b)
<1> DEFINE y == Refined(yes)
           n == Refined(no)
           F == Fine
           B == b * F
           C == D * F
<1>1. F \in Nat /\ F > 0 /\ B \in Nat /\ C \in Nat /\ D \in Nat /\ D > 0 /\ 2 * D <= F
  BY FinePositive DEF Searched
<1>2. /\ yes \in Seq(Level) /\ no \in Seq(Level) /\ BookSide(yes) /\ BookSide(no) /\ D = Deepest(yes, no)
  BY DEF Searched, BookSide
<1>3. BookSide(y) /\ BookSide(n) /\ y \in Seq(Level) /\ n \in Seq(Level)
  BY <1>1, <1>2, FinerSets DEF BookSide
<1>4. ASSUME NEW q \in Nat
      PROVE  Affordable(y, n, q * F, B) <=> Affordable(yes, no, q, b)
  BY <1>2, FinerSets
<1> DEFINE good == {q \in Nat : Affordable(y, n, q, B)}
           q == MaxQtyWithinBudget(y, n, B, C)
<1>5. q = Down(IF Affordable(y, n, C, B) THEN C ELSE Bisect(0, C, good))
  BY DEF MaxQtyWithinBudget
<1> HIDE DEF y, n, F, q
<1>6. CASE Affordable(y, n, C, B)
  <2>1. q = D
    BY <1>1, <1>5, <1>6, WholeRounds DEF F
  <2>2. Affordable(yes, no, D, b)
    BY <1>1, <1>4, <1>6
  <2>3. D + 2 \in Nat /\ ~(D + 2 <= D)
    BY <1>1
  <2>4. ~BothFill(yes, no, D + 2)
    BY <1>2, <2>3, SetsFill
  <2> QED
    BY <1>1, <2>1, <2>2, <2>4 DEF Affordable, q, y, n, F
<1>7. CASE ~Affordable(y, n, C, B)
  <2> DEFINE lo == Bisect(0, C, good)
  <2>1. C = 0 + D * F /\ 0 \in Nat
    BY <1>1
  <2>2. 0 \in good
    <3>1. SetCost(y, n, 0) = 0 /\ (BothFill(y, n, 0) <=> 0 <= Deepest(y, n)) /\ Deepest(y, n) \in Nat
      BY <1>3, SetsFill
    <3> QED
      BY <1>1, <3>1 DEF Affordable
  <2>3. C \notin good
    BY <1>7
  <2> HIDE DEF good
  <2>4. lo \in Nat /\ lo \in good /\ lo + D \notin good
    BY <1>1, <2>1, <2>2, <2>3, BisectEnds DEF F
  <2>5. q = Down(lo)
    BY <1>5, <1>7
  <2> HIDE DEF lo, C, B
  <2>6. q \in Nat /\ q * F <= lo /\ lo < q * F + F
    BY <2>4, <2>5, RoundingIs DEF F
  <2>7. Affordable(y, n, lo, B) /\ lo + D \in Nat /\ ~Affordable(y, n, lo + D, B)
    BY <1>1, <2>4 DEF good
  <2>8. Affordable(yes, no, q, b)
    <3>1. q * F \in Nat
      BY <1>1, <2>6
    <3>2. Affordable(y, n, q * F, B)
      BY <1>1, <1>3, <2>4, <2>6, <2>7, <3>1, FewerAffordable
    <3> QED
      BY <1>4, <2>6, <3>2
  <2>9. ~Affordable(yes, no, q + 2, b)
    <3> SUFFICES ASSUME Affordable(yes, no, q + 2, b) PROVE FALSE
      OBVIOUS
    <3>1. PICK m \in Nat : m = q + 2
      BY <2>6
    <3>2. Affordable(y, n, m * F, B)
      BY <1>4, <3>1
    <3>3. m * F = q * F + 2 * F /\ q * F \in Nat /\ m * F \in Nat
      BY <1>1, <2>6, <3>1
    <3>4. lo + D <= m * F
      BY <1>1, <2>4, <2>6, <3>3
    <3>5. Affordable(y, n, lo + D, B)
      BY <1>1, <1>3, <2>7, <3>2, <3>3, <3>4, FewerAffordable
    <3> QED
      BY <2>7, <3>5
  <2> QED
    BY <2>6, <2>8, <2>9 DEF q, y, n, F, B, C
<1> QED
  BY <1>6, <1>7

\* The size found keeps the edge to within a quantum: one less does, one more
\* does not, and no quantity that does is larger.
EdgeEndsAt(yes, no, D, m) ==
  /\ m \in Nat
  /\ m > 1 => KeepsEdge(yes, no, m - 1)
  /\ ~KeepsEdge(yes, no, m + 1)
  /\ \A q \in Nat : q > 0 /\ KeepsEdge(yes, no, q) => q <= m

\* The search for the size that keeps the edge ends within a quantum of it.
LEMMA EdgeIsTight ==
  ASSUME NEW yes, NEW no, NEW D, Searched(yes, no, D)
  PROVE  EdgeEndsAt(yes, no, D, MaxSizeAtEdge(Refined(yes), Refined(no), D * Fine))
<1> DEFINE y == Refined(yes)
           n == Refined(no)
           F == Fine
           C == D * F
<1>1. F \in Nat /\ F > 0 /\ C \in Nat /\ D \in Nat /\ D > 0 /\ 2 * D <= F
  BY FinePositive DEF Searched
<1>2. /\ yes \in Seq(Level) /\ no \in Seq(Level) /\ BookSide(yes) /\ BookSide(no) /\ D = Deepest(yes, no)
  BY DEF Searched, BookSide
<1>3. BookSide(y) /\ BookSide(n) /\ y \in Seq(Level) /\ n \in Seq(Level)
  BY <1>1, <1>2, FinerSets DEF BookSide
<1>4. ASSUME NEW q \in Nat
      PROVE  KeepsEdge(y, n, q * F) <=> KeepsEdge(yes, no, q)
  BY <1>1, <1>2, FinerSets
<1>5. ASSUME NEW q \in Nat, KeepsEdge(yes, no, q) PROVE q > 0 /\ q <= D
  BY <1>2, <1>5, EdgeIs
<1> DEFINE good == {q \in Nat : KeepsEdge(y, n, q)}
           m == MaxSizeAtEdge(y, n, C)
<1>6. m = IF KeepsEdge(y, n, C) THEN Nearest(C)
          ELSE IF ~KeepsEdge(y, n, F) THEN 0 ELSE Nearest(Bisect(F, C, good))
  BY DEF MaxSizeAtEdge
<1> HIDE DEF y, n, F, m
<1>7. CASE KeepsEdge(y, n, C)
  <2>1. m = D
    BY <1>1, <1>6, <1>7, WholeRounds DEF F
  <2>2. KeepsEdge(yes, no, D)
    BY <1>1, <1>4, <1>7
  <2>3. D > 1 => KeepsEdge(yes, no, D - 1)
    <3>1. ASSUME D > 1 PROVE D - 1 \in Nat /\ 0 < D - 1 /\ D - 1 <= D
      BY <1>1, <3>1
    <3> QED
      BY <1>1, <1>2, <2>2, <3>1, FewerKeepEdge
  <2>4. ~KeepsEdge(yes, no, D + 1)
    <3>1. D + 1 \in Nat /\ ~(D + 1 <= D)
      BY <1>1
    <3> QED
      BY <1>5, <3>1
  <2> QED
    BY <1>1, <1>5, <2>1, <2>3, <2>4 DEF EdgeEndsAt, m, y, n, F
<1>8. CASE ~KeepsEdge(y, n, C) /\ ~KeepsEdge(y, n, F)
  <2>1. m = 0
    BY <1>6, <1>8
  <2>2. ~KeepsEdge(yes, no, 1)
    <3>1. 1 * F = F /\ 1 \in Nat
      BY <1>1
    <3> QED
      BY <1>4, <1>8, <3>1
  <2>3. ASSUME NEW q \in Nat, q > 0 PROVE ~KeepsEdge(yes, no, q)
    <3>1. 1 \in Nat /\ 0 < 1 /\ 1 <= q
      BY <2>3
    <3> QED
      BY <1>2, <2>2, <3>1, FewerKeepEdge
  <2> QED
    BY <2>1, <2>2, <2>3 DEF EdgeEndsAt, m, y, n, F
<1>9. CASE ~KeepsEdge(y, n, C) /\ KeepsEdge(y, n, F)
  <2> DEFINE lo == Bisect(F, C, good)
             hi == lo + (D - 1)
  <2>1. C = F + (D - 1) * F /\ D - 1 \in Nat
    BY <1>1
  <2>2. F \in good /\ C \notin good
    BY <1>1, <1>9
  <2> HIDE DEF good
  <2>3. lo \in Nat /\ lo \in good /\ hi \notin good
    BY <1>1, <2>1, <2>2, BisectEnds DEF F
  <2>4. m = Nearest(lo)
    BY <1>6, <1>9
  <2> HIDE DEF lo, C
  <2>5. m \in Nat /\ 2 * (m * F) <= 2 * lo + F /\ 2 * (m * F) >= 2 * lo - F
    BY <2>3, <2>4, RoundingIs DEF F
  <2>6. KeepsEdge(y, n, lo) /\ hi \in Nat /\ ~KeepsEdge(y, n, hi)
    BY <2>1, <2>3 DEF good
  <2>7. lo > 0
    BY <1>3, <2>3, <2>6, EdgeIs
  <2>8. hi = lo + (D - 1)
    OBVIOUS
  <2> HIDE DEF hi
  <2>9. ASSUME NEW q \in Nat, KeepsEdge(yes, no, q) PROVE q * F \in Nat /\ q * F < hi
    <3>1. q * F \in Nat /\ KeepsEdge(y, n, q * F)
      BY <1>1, <1>4, <2>9
    <3>2. 0 < hi
      BY <1>1, <2>3, <2>7, <2>8
    <3>3. hi <= q * F => KeepsEdge(y, n, hi)
      BY <1>3, <2>6, <3>1, <3>2, FewerKeepEdge
    <3> QED
      BY <2>6, <3>1, <3>3
  <2>10. PICK M \in Nat : M = m * F
    BY <1>1, <2>5
  <2>11. m > 1 => KeepsEdge(yes, no, m - 1)
    <3> SUFFICES ASSUME m > 1 PROVE KeepsEdge(yes, no, m - 1)
      OBVIOUS
    <3>1. PICK k \in Nat : k = m - 1 /\ k > 0
      BY <2>5
    <3>2. k * F = M - F /\ k * F \in Nat
      BY <1>1, <2>5, <2>10, <3>1
    <3>3. k * F <= lo
      BY <1>1, <2>3, <2>5, <2>10, <3>2
    <3>4. 0 < k * F
      BY <1>1, <3>1, Quanta
    <3>5. KeepsEdge(y, n, k * F)
      BY <1>3, <2>3, <2>6, <3>2, <3>3, <3>4, FewerKeepEdge
    <3> QED
      BY <1>4, <3>1, <3>5
  <2>12. ~KeepsEdge(yes, no, m + 1)
    <3> SUFFICES ASSUME KeepsEdge(yes, no, m + 1) PROVE FALSE
      OBVIOUS
    <3>1. PICK k \in Nat : k = m + 1
      BY <2>5
    <3>2. k * F = M + F
      BY <1>1, <2>5, <2>10, <3>1
    <3>3. k * F < hi
      BY <2>9, <3>1
    <3> QED
      BY <1>1, <2>3, <2>5, <2>8, <2>10, <3>2, <3>3
  <2>13. ASSUME NEW q \in Nat, q > 0, KeepsEdge(yes, no, q) PROVE q <= m
    <3>1. q * F \in Nat /\ q * F < hi
      BY <2>9, <2>13
    <3> SUFFICES ASSUME ~(q <= m) PROVE FALSE
      OBVIOUS
    <3>2. PICK k \in Nat : k = m + 1 /\ k <= q
      BY <2>5
    <3>3. k * F = M + F
      BY <1>1, <2>5, <2>10, <3>2
    <3>4. k * F <= q * F
      BY <1>1, <3>2, Cancel
    <3> QED
      BY <1>1, <2>3, <2>5, <2>8, <2>10, <3>1, <3>3, <3>4
  <2> QED
    BY <2>5, <2>11, <2>12, <2>13 DEF EdgeEndsAt, m, y, n, F, C
<1> QED
  BY <1>7, <1>8, <1>9

\* What the two halves of the property say of one market and budget.
WithinBudget(yes, no, b, arb) ==
  Affordable(yes, no, arb.qty, b) /\ ~Affordable(yes, no, arb.qty + 2, b)

EdgeHolds(yes, no, arb) ==
  /\ arb.maxSize > 1 => EdgeWithin(yes, no, arb.maxSize - 1, 0)
  /\ arb.qty > 0 /\ BothFill(yes, no, arb.maxSize + 1) => ~EdgeWithin(yes, no, arb.maxSize + 1, 0)
  /\ arb.qty > 0 /\ EdgeWithin(yes, no, arb.qty, 0) => arb.maxSize >= arb.qty
  /\ arb.candidate => EdgeWithin(yes, no, arb.qty, Parts)
  /\ arb.qty > 0 /\ EdgeWithin(yes, no, arb.qty, 0 - Parts) => arb.candidate

\* The verdict on a size is the exact one, or wrong by a quantum of the edge at
\* most: each of the two roundings moves the edge by half a quantum.
LEMMA VerdictIs ==
  ASSUME NEW yes \in Seq(Level), NEW no \in Seq(Level), NEW q \in Nat, q > 0
  PROVE  /\ NetEdge(yes, no, q) * Parts >= MinEdge => EdgeWithin(yes, no, q, Parts)
         /\ EdgeWithin(yes, no, q, 0 - Parts) => NetEdge(yes, no, q) * Parts >= MinEdge
<1>1. PICK c \in Nat : c = SetCost(yes, no, q)
  BY SetsFill
<1>2. PICK o \in Nat, g \in Nat, p \in Nat, b \in Int, l \in Int :
        o = One /\ g = Grain /\ p = Parts /\ b = Buffer /\ l = MinEdge /\ o > 0 /\ g > 0 /\ p > 0
  BY SearchAssumption
<1>3. PICK u \in Nat : u = o * q /\ u > 0
  <2>1. o * q \in Nat /\ (q = 0 <=> q * o = 0)
    BY <1>2, Quanta
  <2>2. o * q = q * o
    OBVIOUS
  <2>3. o * q # 0
    BY <2>1, <2>2
  <2> QED
    BY <2>1, <2>3
<1>4. PICK n \in Int : n = (u - c) * g
  OBVIOUS
<1> DEFINE gross == GrossEdge(yes, no, q)
           net == NetEdge(yes, no, q)
<1>5. gross \in Int /\ 2 * (gross * u) <= 2 * n + u /\ 2 * (gross * u) >= 2 * n - u
  <2>1. gross = RoundHalfEven(n, u)
    BY <1>1, <1>2, <1>3, <1>4 DEF GrossEdge
  <2> QED
    BY <1>3, <2>1, HalfEvenIs
<1> HIDE DEF gross
<1>6. PICK m \in Int : m = gross * p
  BY <1>5
<1>7. net \in Int /\ 2 * (net * p) <= 2 * (m - b) + p /\ 2 * (net * p) >= 2 * (m - b) - p
  <2>1. net = RoundHalfEven(m - b, p)
    BY <1>2, <1>6 DEF NetEdge, gross
  <2>2. m - b \in Int
    OBVIOUS
  <2> QED
    BY <1>2, <2>1, <2>2, HalfEvenIs
<1> HIDE DEF net
<1>8. PICK x \in Int : x = net * p
  BY <1>7
\* All in halves of a part, times the u the gross edge is divided by.
<1>9. PICK xu \in Int, bu \in Int, lu \in Int, pu \in Int, mu \in Int, np \in Int :
        xu = x * u /\ bu = b * u /\ lu = l * u /\ pu = p * u /\ mu = m * u /\ np = n * p
  OBVIOUS
<1>10. 2 * mu <= 2 * np + pu /\ 2 * mu >= 2 * np - pu
  <2>1. PICK e \in Int : e = gross * u
    BY <1>5
  <2>2. (2 * e) * p <= (2 * n + u) * p
    <3>1. 2 * e \in Int /\ 2 * n + u \in Int /\ 2 * e <= 2 * n + u
      BY <1>5, <2>1
    <3> QED
      BY <1>2, <3>1, Cancel
  <2>3. (2 * n - u) * p <= (2 * e) * p
    <3>1. 2 * e \in Int /\ 2 * n - u \in Int /\ 2 * n - u <= 2 * e
      BY <1>5, <2>1
    <3> QED
      BY <1>2, <3>1, Cancel
  <2>4. (2 * e) * p = 2 * mu
    BY <1>5, <1>6, <1>9, <2>1
  <2>5. (2 * n + u) * p = 2 * np + pu /\ (2 * n - u) * p = 2 * np - pu
    BY <1>9
  <2> QED
    BY <2>2, <2>3, <2>4, <2>5
<1>11. 2 * xu <= 2 * mu - 2 * bu + pu /\ 2 * xu >= 2 * mu - 2 * bu - pu
  <2>1. (2 * x) * u <= (2 * (m - b) + p) * u
    <3>1. 2 * x \in Int /\ 2 * (m - b) + p \in Int /\ 2 * x <= 2 * (m - b) + p
      BY <1>7, <1>8
    <3> QED
      BY <1>3, <3>1, Cancel
  <2>2. (2 * (m - b) - p) * u <= (2 * x) * u
    <3>1. 2 * x \in Int /\ 2 * (m - b) - p \in Int /\ 2 * (m - b) - p <= 2 * x
      BY <1>7, <1>8
    <3> QED
      BY <1>3, <3>1, Cancel
  <2>3. (2 * x) * u = 2 * xu /\ (2 * (m - b) + p) * u = 2 * mu - 2 * bu + pu
        /\ (2 * (m - b) - p) * u = 2 * mu - 2 * bu - pu
    BY <1>9
  <2> QED
    BY <2>1, <2>2, <2>3
<1>12. l <= x <=> lu <= xu
  BY <1>3, <1>9, Cancel
<1>13. EdgeWithin(yes, no, q, p) <=> np >= bu + lu - pu
  <2>1. EdgeWithin(yes, no, q, p) <=> (o * q - c) * (g * p) >= (b + l - p) * o * q
    BY <1>1, <1>2 DEF EdgeWithin, Unit
  <2>2. (o * q - c) * (g * p) = np
    BY <1>3, <1>4, <1>9
  <2>3. (b + l - p) * o * q = bu + lu - pu
    BY <1>3, <1>9
  <2> QED
    BY <2>1, <2>2, <2>3
<1>14. EdgeWithin(yes, no, q, 0 - p) <=> np >= bu + lu + pu
  <2>1. EdgeWithin(yes, no, q, 0 - p) <=> (o * q - c) * (g * p) >= (b + l - (0 - p)) * o * q
    BY <1>1, <1>2 DEF EdgeWithin, Unit
  <2>2. (o * q - c) * (g * p) = np
    BY <1>3, <1>4, <1>9
  <2>3. (b + l - (0 - p)) * o * q = bu + lu + pu
    BY <1>3, <1>9
  <2> QED
    BY <2>1, <2>2, <2>3
<1>15. net * Parts >= MinEdge <=> l <= x
  BY <1>2, <1>8
<1> QED
  BY <1>2, <1>10, <1>11, <1>12, <1>13, <1>14, <1>15 DEF net

\* A scan without an arbitrage found nothing that a budget buys.
LEMMA NothingFound ==
  ASSUME NEW yes, NEW no
  PROVE  EdgeHolds(yes, no, NoArb)
<1>1. NoArb.qty = 0 /\ NoArb.candidate = FALSE /\ NoArb.maxSize = 0
  BY DEF NoArb
<1>2. ~(NoArb.maxSize > 1) /\ ~(NoArb.qty > 0) /\ ~NoArb.candidate
  BY <1>1
<1> QED
  BY <1>2 DEF EdgeHolds

\* The searches of a scan of one market.
LEMMA ArbIsTight ==
  ASSUME NEW yes, NEW no, BookSide(yes), BookSide(no), 2 * Deepest(yes, no) <= Fine, NEW b \in Nat
  PROVE  LET arb == Analyze(Refined(yes), Refined(no), b)
         IN  WithinBudget(yes, no, b, arb) /\ EdgeHolds(yes, no, arb)
<1> DEFINE y == Refined(yes)
           n == Refined(no)
           arb == Analyze(y, n, b)
<1>1. yes \in Seq(Level) /\ no \in Seq(Level)
  BY DEF BookSide
<1>2. PICK D \in Nat : D = Deepest(yes, no) /\ 2 * D <= Fine
  BY <1>1, SetsFill
<1>3. Fine \in Nat /\ Fine > 0
  BY FinePositive
<1> DEFINE C == Deepest(y, n)
           qty == MaxQtyWithinBudget(y, n, b * Fine, C)
<1>4. arb = IF C = 0 THEN NoArb
            ELSE IF qty = 0 THEN NoArb
            ELSE [qty |-> qty, candidate |-> NetEdge(y, n, qty * Fine) * Parts >= MinEdge,
                  maxSize |-> MaxSizeAtEdge(y, n, C)]
  BY DEF Analyze, ArbOf, Deepest
<1>5. C = D * Fine /\ C \in Nat
  <2>1. C = Deepest(yes, no) * Fine
    BY FinerSets
  <2>2. D * Fine \in Nat
    BY <1>3
  <2> QED
    BY <1>2, <2>1, <2>2
<1>6. /\ \A q \in Nat : KeepsEdge(y, n, q * Fine) <=> KeepsEdge(yes, no, q)
      /\ \A q \in Nat, parts \in Int : EdgeWithin(y, n, q * Fine, parts) <=> EdgeWithin(yes, no, q, parts)
      /\ y \in Seq(Level) /\ n \in Seq(Level)
  BY FinerSets DEF BookSide
<1> HIDE DEF arb, qty, C, y, n
<1>7. CASE D = 0
  <2>1. arb = NoArb /\ NoArb.qty = 0
    BY <1>3, <1>4, <1>5, <1>7 DEF NoArb
  <2>2. BothFill(yes, no, 0) /\ SetCost(yes, no, 0) = 0
    BY <1>1, <1>2, SetsFill
  <2>3. ~BothFill(yes, no, 0 + 2)
    <3>1. 0 + 2 \in Nat /\ ~(0 + 2 <= D)
      BY <1>7
    <3> QED
      BY <1>1, <1>2, <3>1, SetsFill
  <2>4. WithinBudget(yes, no, b, NoArb)
    BY <2>1, <2>2, <2>3 DEF WithinBudget, Affordable
  <2> QED
    BY <2>1, <2>4, NothingFound DEF arb, y, n
<1>8. CASE D > 0
  <2>1. Searched(yes, no, D)
    BY <1>2, <1>8 DEF Searched
  <2>2. qty \in Nat /\ Affordable(yes, no, qty, b) /\ ~Affordable(yes, no, qty + 2, b)
    BY <1>5, <2>1, BudgetIsTight DEF qty, y, n
  <2>3. EdgeEndsAt(yes, no, D, MaxSizeAtEdge(y, n, C))
    BY <1>5, <2>1, EdgeIsTight DEF y, n
  <2>4. C # 0
    BY <1>3, <1>5, <1>8, Quanta
  <2>5. CASE qty = 0
    <3>1. arb = NoArb /\ NoArb.qty = qty
      BY <1>4, <2>5 DEF NoArb
    <3>2. WithinBudget(yes, no, b, NoArb)
      BY <2>2, <3>1 DEF WithinBudget
    <3> QED
      BY <3>1, <3>2, NothingFound DEF arb, y, n
  <2>6. CASE qty # 0
    <3> DEFINE m == MaxSizeAtEdge(y, n, C)
    <3>1. arb.qty = qty /\ arb.maxSize = m
          /\ (arb.candidate <=> NetEdge(y, n, qty * Fine) * Parts >= MinEdge)
      BY <1>4, <2>4, <2>6
    <3>2. /\ m \in Nat /\ (m > 1 => KeepsEdge(yes, no, m - 1)) /\ ~KeepsEdge(yes, no, m + 1)
          /\ \A q \in Nat : q > 0 /\ KeepsEdge(yes, no, q) => q <= m
      BY <2>3 DEF EdgeEndsAt
    <3> HIDE DEF m
    <3>3. WithinBudget(yes, no, b, arb)
      BY <2>2, <3>1 DEF WithinBudget
    <3>4. EdgeWithin(yes, no, qty, 0) => m >= qty
      <4>1. qty > 0 /\ qty <= Deepest(yes, no)
        BY <1>1, <2>2, <2>6, SetsFill DEF Affordable
      <4>2. EdgeWithin(yes, no, qty, 0) => KeepsEdge(yes, no, qty)
        BY <1>1, <2>2, <4>1, EdgeIs
      <4> QED
        BY <2>2, <3>2, <4>1, <4>2
    <3>5. m > 1 => EdgeWithin(yes, no, m - 1, 0)
      <4>1. ASSUME m > 1 PROVE m - 1 \in Nat /\ KeepsEdge(yes, no, m - 1)
        BY <3>2, <4>1
      <4> QED
        BY <1>1, <4>1, EdgeIs
    <3>6. BothFill(yes, no, m + 1) => ~EdgeWithin(yes, no, m + 1, 0)
      <4>1. m + 1 \in Nat /\ m + 1 > 0 /\ ~KeepsEdge(yes, no, m + 1)
        BY <3>2
      <4> QED
        BY <1>1, <4>1, SetsFill, EdgeIs
    <3>7. /\ arb.candidate => EdgeWithin(yes, no, qty, Parts)
          /\ EdgeWithin(yes, no, qty, 0 - Parts) => arb.candidate
      <4>1. qty * Fine \in Nat /\ qty * Fine > 0
        BY <1>3, <2>2, <2>6, Quanta
      <4>2. Parts \in Int /\ 0 - Parts \in Int
        BY SearchAssumption
      <4>3. /\ NetEdge(y, n, qty * Fine) * Parts >= MinEdge => EdgeWithin(y, n, qty * Fine, Parts)
            /\ EdgeWithin(y, n, qty * Fine, 0 - Parts) => NetEdge(y, n, qty * Fine) * Parts >= MinEdge
        BY <1>6, <4>1, VerdictIs
      <4> QED
        BY <1>6, <2>2, <3>1, <4>2, <4>3
    <3>8. EdgeHolds(yes, no, arb)
      BY <3>1, <3>4, <3>5, <3>6, <3>7 DEF EdgeHolds
    <3> QED
      BY <3>3, <3>8 DEF arb, y, n
  <2> QED
    BY <2>5, <2>6
<1> QED
  BY <1>2, <1>7, <1>8

\* Levels as small as those of a payload.
SmallLevel(l) == l \in Level /\ l.size \in 0..MaxSize

\* The asks of a payload are in order, and as deep as its levels at most.
LEMMA AsksBounded ==
  ASSUME NEW raw \in Seq(Level), \A k \in 1..Len(raw) : SmallLevel(raw[k])
  PROVE  /\ BookSide(Asks(raw))
         /\ Depth(Asks(raw)) \in Nat /\ Depth(Asks(raw)) <= Len(raw) * MaxSize
<1> DEFINE levels == Select(raw, Offers)
           n == Len(raw)
<1>0. n \in Nat /\ MaxSize \in Nat
  BY BoundsAssumption
<1>1. Offers \in SUBSET Level /\ Level \intersect Offers = Offers
  BY DEF Offers
<1>2. levels \in Seq(Offers)
  <2>1. levels \in Seq(Level \intersect Offers)
    BY <1>1, SelectType
  <2> QED
    BY <1>1, <2>1
<1>3. ParseLevels(raw) = levels
  BY DEF ParseLevels, Offers
<1>4. Asks(raw) = StableSort(levels, ByPrice)
  BY <1>3 DEF Asks, OrderBook
<1>5. levels = Select(raw, Offers)
  OBVIOUS
<1> HIDE DEF levels
<1>6. Numbers(ByPrice, Offers)
  BY <1>1, KeysType DEF Numbers
<1>7. PICK f : /\ SortedUpTo(levels, Offers, ByPrice, f)
               /\ StableSort(levels, ByPrice) = f[Len(levels)]
  BY <1>1, <1>2, <1>6, SortTrace
<1>8. Asks(raw) \in Seq(Offers) /\ SameOffers(Asks(raw), raw)
  BY <1>1, <1>4, <1>5, <1>7, KeysType, SortedOffers
<1>9. Asks(raw) \in Seq(Level) /\ Ascending(Asks(raw))
  BY <1>1, <1>2, <1>4, <1>8, AsksSorted, OffersAreLevels
<1>10. Depth(Asks(raw)) = AmountOf(raw, Sizes)
  BY <1>8, SameDepth
<1>11. PICK a : AmountUpTo(raw, Sizes, a) /\ AmountOf(raw, Sizes) = a[n]
  <2>1. \A l \in Level : Sizes[l] \in Int
    BY DEF Sizes, Level
  <2> QED
    BY <2>1, AmountTrace
<1> DEFINE S == {k \in Nat : k <= n => a[k] \in Int /\ a[k] <= k * MaxSize}
<1>12. 0 \in S
  BY <1>0, <1>11 DEF AmountUpTo
<1>13. ASSUME NEW k \in Nat, k \in S PROVE k + 1 \in S
  <2>1. CASE k + 1 <= n
    <3>1. k + 1 \in 1..n /\ (k + 1) - 1 = k /\ k <= n
      BY <1>0, <2>1
    <3>2. a[k + 1] = a[k] + Sizes[raw[k + 1]]
      BY <1>11, <3>1 DEF AmountUpTo
    <3>3. Sizes[raw[k + 1]] \in Int /\ Sizes[raw[k + 1]] <= MaxSize
      <4>1. raw[k + 1] \in Level /\ raw[k + 1].size \in 0..MaxSize
        BY <3>1 DEF SmallLevel
      <4> QED
        BY <1>0, <4>1 DEF Sizes
    <3>4. a[k] \in Int /\ a[k] <= k * MaxSize
      BY <1>13, <3>1
    <3>5. (k + 1) * MaxSize = k * MaxSize + MaxSize /\ k * MaxSize \in Int
      BY <1>0
    <3>6. a[k + 1] \in Int /\ a[k + 1] <= (k + 1) * MaxSize
      BY <1>0, <3>2, <3>3, <3>4, <3>5
    <3> QED
      BY <3>6
  <2> QED
    BY <1>0, <2>1
<1> HIDE DEF S
<1>14. n \in S
  BY <1>0, <1>12, <1>13, SetInduction
<1>15. a[n] <= n * MaxSize
  BY <1>0, <1>14 DEF S
<1>16. Depth(Asks(raw)) \in Nat
  BY <1>9, DepthType
<1> QED
  BY <1>9, <1>10, <1>11, <1>15, <1>16 DEF BookSide

\* No more levels are added than a payload may have.
LEMMA PayloadLength == Spec => [](Len(payload) <= MaxLevels)
<1> DEFINE Short == Len(payload) \in Nat /\ Len(payload) <= MaxLevels
<1>1. Init => Short
  BY BoundsAssumption DEF Init, Empty, InitPayload
<1>2. IsPayload /\ Short /\ [Next]_<<inputs, subject>> => Short'
  <2> SUFFICES ASSUME IsPayload, Short, [Next]_<<inputs, subject>> PROVE Short'
    OBVIOUS
  <2>1. CASE UNCHANGED payload
    BY <2>1
  <2>2. CASE NextPayload
    <3>1. PICK l \in [price : 0..MaxPrice, size : 0..MaxSize] : AddLevel(l)
      BY <2>2 DEF NextPayload
    <3>2. payload \in Seq(Level) /\ Len(payload) < MaxLevels /\ payload' = Append(payload, l)
      BY <3>1 DEF IsPayload, AddLevel
    <3>3. Len(payload') = Len(payload) + 1
      BY <3>2
    <3> QED
      BY <3>2, <3>3, BoundsAssumption
  <2> QED
    BY <2>1, <2>2 DEF Next, inputs
<1>3. Short => Len(payload) <= MaxLevels
  OBVIOUS
<1> HIDE DEF Short
<1> QED
  BY <1>1, <1>2, <1>3, PayloadType, PTL DEF Spec

\* The two halves of a payload are as deep as all its levels at most, each.
LEMMA HalvesBounded ==
  ASSUME IsPayload, Len(payload) <= MaxLevels, NEW i \in 1..(Len(payload) - 1)
  PROVE  BookSide(Yes(i)) /\ BookSide(No(i)) /\ 2 * Deepest(Yes(i), No(i)) <= Fine
<1> DEFINE n == Len(payload)
           first == SubSeq(payload, 1, i)
           second == SubSeq(payload, i + 1, n)
<1>1. n \in Nat /\ i \in 1..n /\ i + 1 \in 1..n /\ MaxLevels \in Nat /\ MaxSize \in Nat /\ n <= MaxLevels
      /\ \A k \in 1..n : SmallLevel(payload[k])
  BY BoundsAssumption DEF IsPayload, SmallLevel
<1>2. /\ first \in Seq(Level) /\ Len(first) = i
      /\ \A k \in 1..i : first[k] = payload[k]
  <2>1. \A k \in 1..i : payload[k] \in Level
    BY <1>1 DEF SmallLevel
  <2> QED
    BY <1>1, <2>1, SubSeqProperties DEF IsPayload
<1>3. /\ BookSide(Yes(i)) /\ Depth(Yes(i)) \in Nat /\ Depth(Yes(i)) <= i * MaxSize
  <2>1. \A k \in 1..Len(first) : SmallLevel(first[k])
    BY <1>1, <1>2
  <2> HIDE DEF first
  <2>2. BookSide(Asks(first)) /\ Depth(Asks(first)) \in Nat /\ Depth(Asks(first)) <= Len(first) * MaxSize
    BY <1>2, <2>1, AsksBounded
  <2> QED
    BY <1>2, <2>2 DEF Yes, first
<1>4. BookSide(No(i)) /\ Depth(No(i)) \in Nat
  <2>1. second \in Seq(Level) /\ Len(second) = n - i
        /\ \A k \in 1..(n - i) : second[k] = payload[i + k]
    <3>1. \A k \in (i + 1)..n : payload[k] \in Level
      BY <1>1 DEF SmallLevel
    <3>2. /\ second \in Seq(Level) /\ Len(second) = n - (i + 1) + 1
          /\ \A k \in 1..(n - (i + 1) + 1) : second[k] = payload[(i + 1) + k - 1]
      BY <1>1, <3>1, SubSeqProperties DEF IsPayload
    <3>3. n - (i + 1) + 1 = n - i /\ \A k \in 1..(n - i) : (i + 1) + k - 1 = i + k
      BY <1>1
    <3> QED
      BY <3>2, <3>3
  <2>2. \A k \in 1..Len(second) : SmallLevel(second[k])
    <3>1. \A k \in 1..(n - i) : i + k \in 1..n
      BY <1>1
    <3> QED
      BY <1>1, <2>1, <3>1
  <2> HIDE DEF second
  <2>3. BookSide(Asks(second)) /\ Depth(Asks(second)) \in Nat
    BY <2>1, <2>2, AsksBounded
  <2> QED
    BY <2>3 DEF No, second
<1>5. Deepest(Yes(i), No(i)) \in Nat /\ Deepest(Yes(i), No(i)) <= Depth(Yes(i))
  BY <1>3, <1>4 DEF Deepest, Smaller
<1>6. i * MaxSize <= MaxLevels * MaxSize
  <2>1. PICK d \in Nat : MaxLevels = i + d
    BY <1>1
  <2>2. MaxLevels * MaxSize = i * MaxSize + d * MaxSize /\ d * MaxSize \in Nat /\ i * MaxSize \in Nat
    BY <1>1, <2>1
  <2> QED
    BY <2>2
<1>7. PICK a \in Nat, b \in Nat : a = i * MaxSize /\ b = MaxLevels * MaxSize
  BY <1>1
<1>8. 2 * b <= Fine
  <2>1. 2 * MaxLevels * MaxSize = 2 * (MaxLevels * MaxSize)
    BY <1>1
  <2> QED
    BY <1>7, <2>1, BoundsAssumption
<1>9. Fine \in Nat
  BY FinePositive
<1>10. 2 * Deepest(Yes(i), No(i)) <= Fine
  BY <1>3, <1>5, <1>6, <1>7, <1>8, <1>9
<1> QED
  BY <1>3, <1>4, <1>10

(***************************************************************************)
(* Both searches of a scan end within a quantum of what they look for,     *)
(* however many levels, halvings and quanta there are.                     *)
(***************************************************************************)
THEOREM ArbSearchesAlwaysTight == Spec => []ArbSearchesAreTight
<1>1. IsPayload /\ Len(payload) <= MaxLevels => ArbSearchesAreTight
  <2> SUFFICES ASSUME IsPayload, Len(payload) <= MaxLevels PROVE ArbSearchesAreTight
    OBVIOUS
  <2>1. ASSUME NEW i \in 1..(Len(payload) - 1), NEW b \in Budgets
        PROVE  LET arb == Analyze(Refined(Yes(i)), Refined(No(i)), b)
               IN  WithinBudget(Yes(i), No(i), b, arb) /\ EdgeHolds(Yes(i), No(i), arb)
    <3>1. b \in Nat
      BY DEF Budgets
    <3>2. BookSide(Yes(i)) /\ BookSide(No(i)) /\ 2 * Deepest(Yes(i), No(i)) <= Fine
      BY HalvesBounded
    <3> QED
      BY <3>1, <3>2, ArbIsTight
  <2>2. ArbWithinBudget
    BY <2>1 DEF ArbWithinBudget, WithinBudget
  <2>3. ArbEdgeHolds
    BY <2>1 DEF ArbEdgeHolds, EdgeHolds
  <2> QED
    BY <2>2, <2>3 DEF ArbSearchesAreTight
<1> QED
  BY <1>1, PayloadType, PayloadLength, PTL
=============================================================================
