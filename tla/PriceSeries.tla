---------------------------- MODULE PriceSeries ----------------------------
(***************************************************************************)
(* What is read off a series of prices: returns and drawdown of a token's  *)
(* history (api/clob.get_price_history, analysis/price_series), and the    *)
(* volatility of an underlying (core/probability).                         *)
(*                                                                         *)
(* A point is [time, price], None where the API gave nothing usable.  A    *)
(* fraction is a pair <<numerator, denominator>>; its rounding to 1e-6 and *)
(* square roots are left out, so that a volatility stands for its square.  *)
(* Logarithms are counted in a unit that all of a series are multiples of. *)
(***************************************************************************)
EXTENDS OrderBooks

CONSTANTS None, Log(_)

ByTime(points) == [p \in Range(points) |-> p.time]

\* _parse_history and the sort after it: usable points, oldest first.
History(rows) ==
  StableSort(Select(rows, {p \in Range(rows) : p.time # None /\ p.price # None}), ByTime(rows))

Prices(points) == [i \in DOMAIN points |-> points[i].price]

Higher(m, n) == IF m >= n THEN m ELSE n

Greater(f, g) == f[1] * g[2] > g[1] * f[2]

\* Mutant: the fall is measured from the first price.
Peak_Start(peak, price) == peak

Peak(peak, price) == Higher(peak, price)

\* _max_drawdown: the largest fall from the running peak, as a share of it.
MaxDrawdown(prices) ==
  LET Step(d, p) ==
        LET peak == Peak(d.peak, p)
            fall == <<peak - p, peak>>
        IN  [peak |-> peak,
             worst |-> IF peak > 0 /\ Greater(fall, d.worst) THEN fall ELSE d.worst]
  IN  FoldLeft(Step, [peak |-> prices[1], worst |-> <<0, 1>>], prices).worst

\* end / start - 1.
Return(start, end) == <<end - start, start>>

\* Steps from a price of zero have no return.
StepReturns(prices) ==
  LET steps == [i \in 1..(Len(prices) - 1) |-> <<prices[i], prices[i + 1]>>]
      sound == SelectSeq(steps, LAMBDA s : s[1] > 0)
  IN  [i \in DOMAIN sound |-> Return(sound[i][1], sound[i][2])]

\* summarize_price_series, without the moments of the step returns.
Summarize(points) ==
  LET prices == Prices(points)
      n == Len(prices)
  IN  IF n = 0 THEN [points |-> 0, totalReturn |-> None, maxDrawdown |-> None, steps |-> <<>>]
      ELSE [points |-> n,
            totalReturn |-> IF n = 1 THEN <<0, 1>>
                            ELSE IF prices[1] > 0 THEN Return(prices[1], prices[n]) ELSE None,
            maxDrawdown |-> MaxDrawdown(prices),
            steps |-> StepReturns(prices)]

-----------------------------------------------------------------------------
LogReturn(from, to) == Log(to) - Log(from)

Positive(points) == Select(points, {p \in Range(points) : p.price > 0})

\* Mutant: ticks are taken in the order of the feed.
Ticks_FeedOrder(points) == Positive(points)

Ticks(points) == StableSort(Positive(points), ByTime(points))

\* From each tick to the next: the time, the log return and its square.
Moves(ticks) ==
  [i \in 1..(Len(ticks) - 1) |->
     LET r == LogReturn(ticks[i].price, ticks[i + 1].price)
     IN  [time |-> ticks[i + 1].time - ticks[i].time, log |-> r, square |-> r * r]]

(***************************************************************************)
(* volatility_per_sqrt_sec_from_series, squared: the squared log returns   *)
(* over the time they took.  The return between two ticks of one second is *)
(* left out.                                                               *)
(***************************************************************************)
SeriesVolatility(points) ==
  LET moves == Moves(Ticks(points))
      timed == Select(moves, {m \in Range(moves) : m.time > 0})
      time == TotalOf(timed, "time")
  IN  IF Len(Ticks(points)) < 3 \/ time <= 0 THEN None
      ELSE <<TotalOf(timed, "square"), time>>

\* The closes in the order given; three of them give two returns.
Closes(points) == IF Len(Positive(points)) < 3 THEN <<>> ELSE Positive(points)

(***************************************************************************)
(* volatility_from_closes, squared: the sample variance of the log returns *)
(* over the interval they are taken to be apart.                           *)
(***************************************************************************)
ClosesVolatility(points, interval) ==
  LET moves == Moves(Closes(points))
      n == Len(moves)
      sum == TotalOf(moves, "log")
  IN  IF Closes(points) = <<>> THEN None
      ELSE <<n * TotalOf(moves, "square") - sum * sum, n * (n - 1) * interval>>

\* build_probability prefers the estimate that knows the times.
Volatility(points, interval) ==
  IF SeriesVolatility(points) # None \/ interval <= 0 THEN SeriesVolatility(points)
  ELSE ClosesVolatility(points, interval)
=============================================================================
