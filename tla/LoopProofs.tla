----------------------------- MODULE LoopProofs -----------------------------
(***************************************************************************)
(* What the loops of the model compute, for every input: the folds of the  *)
(* community modules run through the positions of a sequence in order, so  *)
(* a fold is the last value of a trace, and what a trace keeps true is     *)
(* shown by induction over its positions.                                  *)
(***************************************************************************)
EXTENDS Rows, OrderBooks, SequenceTheorems, FiniteSetTheorems,
        WellFoundedInduction, TLAPS

\* Induction over the natural numbers, for a set.
LEMMA SetInduction ==
  ASSUME NEW S, 0 \in S, \A n \in Nat : n \in S => n + 1 \in S
  PROVE  Nat \subseteq S
<1> DEFINE T == Nat \ S
<1> SUFFICES ASSUME T # {} PROVE FALSE
  OBVIOUS
<1>1. T \subseteq Nat
  OBVIOUS
<1>2. PICK m \in T : \A y \in T : ~(<<y, m>> \in OpToRel(<, Nat))
  BY <1>1, NatLessThanWellFounded, WFMin
<1>3. \A y \in T : ~(y < m)
  BY <1>1, <1>2 DEF OpToRel
<1>4. m \in Nat /\ m \notin S /\ m # 0 /\ m - 1 \in Nat /\ m - 1 < m /\ (m - 1) + 1 = m
  OBVIOUS
<1>5. m - 1 \in S
  BY <1>3, <1>4
<1> QED
  BY <1>4, <1>5

\* f lists the values of a loop of n turns in T, from base.
Traces(f, T, base, step, n) ==
  /\ f \in [0..n -> T] /\ f[0] = base
  /\ \A k \in 1..n : f[k] = step[<<f[k - 1], k>>]

\* Every loop has a trace.
LEMMA TraceExists ==
  ASSUME NEW T, NEW base \in T, NEW step \in [T \X Nat -> T], NEW N \in Nat
  PROVE  \E f : Traces(f, T, base, step, N)
<1> DEFINE S == {n \in Nat : \E f : Traces(f, T, base, step, n)}
<1>1. 0 \in S
  <2>1. Traces([k \in 0..0 |-> base], T, base, step, 0)
    BY DEF Traces
  <2> QED
    BY <2>1
<1>2. ASSUME NEW n \in Nat, n \in S PROVE n + 1 \in S
  <2>1. PICK f : Traces(f, T, base, step, n)
    BY <1>2
  <2> DEFINE g == [k \in 0..(n + 1) |-> IF k <= n THEN f[k] ELSE step[<<f[n], n + 1>>]]
  <2>2. f[n] \in T /\ step[<<f[n], n + 1>>] \in T
    BY <2>1 DEF Traces
  <2>3. g \in [0..(n + 1) -> T] /\ g[0] = base
    BY <2>1, <2>2 DEF Traces
  <2>4. ASSUME NEW k \in 1..(n + 1) PROVE g[k] = step[<<g[k - 1], k>>]
    <3>1. CASE k <= n
      BY <2>1, <3>1 DEF Traces
    <3>2. CASE k = n + 1
      <4>1. g[k] = step[<<f[n], n + 1>>] /\ g[k - 1] = f[n] /\ k = n + 1
        BY <2>1, <3>2
      <4> QED
        BY <4>1
    <3> QED
      BY <3>1, <3>2
  <2> HIDE DEF g
  <2>5. Traces(g, T, base, step, n + 1)
    BY <2>3, <2>4 DEF Traces
  <2> QED
    BY <2>5
<1> HIDE DEF S
<1>3. N \in S
  BY <1>1, <1>2, SetInduction
<1> QED
  BY <1>3 DEF S

\* The last position of a nonempty set of positions.
LEMMA MaxOf ==
  ASSUME NEW n \in Nat, NEW s \in SUBSET (1..n), s # {}
  PROVE  Max(s) \in s /\ \A y \in s : Max(s) >= y
<1> DEFINE C == {b \in Nat : \E y \in s : y > b}
<1>1. n \notin C
  OBVIOUS
<1>2. 0 \in C
  <2>1. PICK y \in s : TRUE
    OBVIOUS
  <2> QED
    BY <2>1
<1>3. \E b \in Nat : b \in C /\ b + 1 \notin C
  <2> SUFFICES ASSUME \A b \in Nat : b \in C => b + 1 \in C PROVE FALSE
    OBVIOUS
  <2> HIDE DEF C
  <2>3. n \in C
    BY <1>2, SetInduction
  <2> QED
    BY <2>3, <1>1
<1>4. PICK b \in Nat : b \in C /\ b + 1 \notin C
  BY <1>3
<1>5. PICK y \in s : y > b
  BY <1>4
<1>6. y = b + 1 /\ \A z \in s : y >= z
  BY <1>4, <1>5
<1> QED
  BY <1>6 DEF Max

\* What a fold over positions is: the function MapThenFoldSet chooses.
Folds(iter, base, step, n) ==
  iter = [s \in SUBSET (1..n) |->
            IF s = {} THEN base ELSE step[<<iter[s \ {Max(s)}], Max(s)>>]]

\* A run of step over the positions in s alone, the others skipped.
StepsOver(f, s, T, base, step, n) ==
  /\ n \in Nat /\ f \in [0..n -> T] /\ f[0] = base
  /\ \A k \in 1..n : f[k] = IF k \in s THEN step[<<f[k - 1], k>>] ELSE f[k - 1]

\* Such a run exists.
LEMMA StepsExist ==
  ASSUME NEW T, NEW base \in T, NEW step \in [T \X Nat -> T], NEW n \in Nat, NEW s
  PROVE  \E f : StepsOver(f, s, T, base, step, n)
<1> DEFINE on == [p \in T \X Nat |-> IF p[2] \in s THEN step[p] ELSE p[1]]
<1>1. on \in [T \X Nat -> T]
  OBVIOUS
<1>2. ASSUME NEW x \in T, NEW k \in Nat
      PROVE  on[<<x, k>>] = IF k \in s THEN step[<<x, k>>] ELSE x
  OBVIOUS
<1> HIDE DEF on
<1>3. PICK f : Traces(f, T, base, on, n)
  BY <1>1, TraceExists
<1>4. ASSUME NEW k \in 1..n
      PROVE  f[k] = IF k \in s THEN step[<<f[k - 1], k>>] ELSE f[k - 1]
  <2>1. f[k] = on[<<f[k - 1], k>>] /\ f[k - 1] \in T /\ k \in Nat
    BY <1>3 DEF Traces
  <2> QED
    BY <2>1, <1>2
<1> QED
  BY <1>3, <1>4 DEF StepsOver, Traces

\* No position of s is beyond m.
EndsBy(s, m, n) == s \subseteq 1..n /\ m \in 0..n /\ \A k \in s : k <= m

\* Up to m the sets s and t have the same members.
AgreeUpTo(s, t, m) == m \in Int /\ \A k \in 1..m : k \in s <=> k \in t

\* Sets that agree up to m fold alike up to m.
LEMMA StepsAgree ==
  ASSUME NEW T, NEW base, NEW step, NEW n, NEW s, NEW t, NEW f, NEW g, NEW m,
         StepsOver(f, s, T, base, step, n), StepsOver(g, t, T, base, step, n),
         AgreeUpTo(s, t, m), EndsBy({}, m, n)
  PROVE  f[m] = g[m]
<1>0. n \in Nat /\ m \in 0..n
  BY DEF EndsBy, StepsOver
<1> DEFINE S == {k \in Nat : k <= m => f[k] = g[k]}
<1>1. 0 \in S
  BY DEF StepsOver
<1>2. ASSUME NEW k \in Nat, k \in S PROVE k + 1 \in S
  <2>1. CASE k + 1 <= m
    <3>1. k + 1 \in 1..n /\ k + 1 \in 1..m /\ (k + 1) - 1 = k /\ f[k] = g[k]
      BY <1>0, <1>2, <2>1
    <3>2. f[k + 1] = g[k + 1]
      BY <3>1 DEF StepsOver, AgreeUpTo
    <3> QED
      BY <3>2
  <2> QED
    BY <1>0, <2>1
<1> HIDE DEF S
<1>3. m \in S
  BY <1>0, <1>1, <1>2, SetInduction
<1> QED
  BY <1>0, <1>3 DEF S

\* Positions beyond the last one of s change nothing.
LEMMA StepsRest ==
  ASSUME NEW T, NEW base, NEW step, NEW n, NEW s, NEW f, NEW m,
         StepsOver(f, s, T, base, step, n), EndsBy(s, m, n)
  PROVE  f[n] = f[m]
<1>0. n \in Nat /\ m \in 0..n /\ s \subseteq 1..n /\ \A k \in s : k <= m
  BY DEF StepsOver, EndsBy
<1> DEFINE S == {k \in Nat : m <= k /\ k <= n => f[k] = f[m]}
<1>1. 0 \in S
  BY <1>0
<1>2. ASSUME NEW k \in Nat, k \in S PROVE k + 1 \in S
  <2>1. CASE m <= k /\ k + 1 <= n
    <3>1. k + 1 \in 1..n /\ k + 1 \notin s /\ (k + 1) - 1 = k /\ f[k] = f[m]
      BY <1>0, <1>2, <2>1
    <3>2. f[k + 1] = f[m]
      BY <3>1 DEF StepsOver
    <3> QED
      BY <3>2
  <2>2. CASE m = k + 1
    BY <2>2
  <2> QED
    BY <1>0, <2>1, <2>2
<1> HIDE DEF S
<1>3. n \in S
  BY <1>0, <1>1, <1>2, SetInduction
<1> QED
  BY <1>0, <1>3 DEF S

\* A fold over positions is well defined.
LEMMA FoldExists ==
  ASSUME NEW T, NEW base \in T, NEW step \in [T \X Nat -> T], NEW n \in Nat
  PROVE  \E iter \in [SUBSET (1..n) -> T] : Folds(iter, base, step, n)
<1> DEFINE G == [s \in SUBSET (1..n) |-> CHOOSE f : StepsOver(f, s, T, base, step, n)]
<1>1. ASSUME NEW s \in SUBSET (1..n) PROVE StepsOver(G[s], s, T, base, step, n)
  BY StepsExist
<1> HIDE DEF G
<1> DEFINE iter == [s \in SUBSET (1..n) |-> G[s][n]]
<1>2. ASSUME NEW s \in SUBSET (1..n), s = {} PROVE iter[s] = base
  <2>1. PICK f : f = G[s] /\ StepsOver(f, s, T, base, step, n)
    BY <1>1
  <2>2. EndsBy(s, 0, n)
    BY <1>2 DEF EndsBy
  <2>3. f[n] = f[0]
    BY <2>1, <2>2, StepsRest
  <2> QED
    BY <2>1, <2>3 DEF StepsOver
<1>3. ASSUME NEW s \in SUBSET (1..n), s # {}
      PROVE  iter[s] = step[<<iter[s \ {Max(s)}], Max(s)>>]
  <2> DEFINE u == s \ {Max(s)}
  <2>1. PICK m \in 1..n : m = Max(s) /\ m \in s /\ \A k \in s : k <= m
    <3>1. Max(s) \in s /\ \A k \in s : Max(s) >= k
      BY <1>3, MaxOf
    <3> QED
      BY <3>1
  <2>2. PICK l \in 0..n : l = m - 1
    OBVIOUS
  <2>3. PICK f : f = G[s] /\ StepsOver(f, s, T, base, step, n)
    BY <1>1
  <2>4. u \in SUBSET (1..n)
    OBVIOUS
  <2>5. PICK g : g = G[u] /\ StepsOver(g, u, T, base, step, n)
    BY <1>1, <2>4
  <2>6. EndsBy(s, m, n) /\ EndsBy(u, l, n) /\ EndsBy({}, l, n) /\ AgreeUpTo(s, u, l)
    BY <2>1, <2>2, <2>4 DEF EndsBy, AgreeUpTo
  <2>7. iter[s] = f[n] /\ iter[u] = g[n]
    BY <2>3, <2>4, <2>5
  <2>8. f[m] = step[<<f[l], m>>]
    BY <2>1, <2>2, <2>3 DEF StepsOver
  <2> HIDE DEF u, iter
  <2>9. f[n] = f[m]
    BY <2>3, <2>6, StepsRest
  <2>10. g[n] = g[l]
    BY <2>5, <2>6, StepsRest
  <2>11. f[l] = g[l]
    BY <2>3, <2>5, <2>6, StepsAgree
  <2>12. iter[s] = step[<<iter[u], m>>]
    BY <2>7, <2>8, <2>9, <2>10, <2>11
  <2> QED
    BY <2>12, <2>1 DEF u
<1>4. iter \in [SUBSET (1..n) -> T]
  <2>1. ASSUME NEW s \in SUBSET (1..n) PROVE G[s][n] \in T
    <3>1. G[s] \in [0..n -> T]
      BY <1>1 DEF StepsOver
    <3> QED
      BY <3>1
  <2> QED
    BY <2>1
<1>5. Folds(iter, base, step, n)
  <2>1. ASSUME NEW s \in SUBSET (1..n)
        PROVE  iter[s] = IF s = {} THEN base ELSE step[<<iter[s \ {Max(s)}], Max(s)>>]
    BY <1>2, <1>3
  <2>2. iter = [s \in SUBSET (1..n) |-> iter[s]]
    OBVIOUS
  <2> HIDE DEF iter
  <2> QED
    BY <2>1, <2>2 DEF Folds
<1> QED
  BY <1>4, <1>5

\* A function that steps like a fold wherever it has values in T.
StepsLikeFold(iter, T, base, step, n) ==
  /\ n \in Nat /\ base \in T /\ step \in [T \X Nat -> T]
  /\ iter[{}] = base
  /\ \A s \in SUBSET (1..n) : s # {} /\ iter[s \ {Max(s)}] \in T =>
       iter[s] = step[<<iter[s \ {Max(s)}], Max(s)>>]

\* On the prefixes a fold runs through the positions in order.
LEMMA FoldTraces ==
  ASSUME NEW T, NEW base, NEW step, NEW n, NEW iter,
         StepsLikeFold(iter, T, base, step, n)
  PROVE  \E f : Traces(f, T, base, step, n) /\ f[n] = iter[1..n]
<1> DEFINE f == [k \in 0..n |-> iter[1..k]]
<1>0. n \in Nat /\ base \in T /\ step \in [T \X Nat -> T]
  BY DEF StepsLikeFold
<1>1. f[0] = base
  <2>1. 1..0 = {}
    OBVIOUS
  <2> QED
    BY <1>0, <2>1 DEF StepsLikeFold
<1>2. ASSUME NEW k \in 1..n, f[k - 1] \in T PROVE f[k] = step[<<f[k - 1], k>>]
  <2>1. 1..k \in SUBSET (1..n) /\ 1..k # {} /\ k - 1 \in 0..n /\ k \in 0..n
    <3>1. k \in Nat /\ k \in 1..k /\ k <= n
      BY <1>0
    <3>2. 1..k \subseteq 1..n
      BY <1>0
    <3> QED
      BY <1>0, <3>1, <3>2
  <2>2. Max(1..k) = k
    <3>1. k \in Nat /\ 1..k \in SUBSET (1..k) /\ 1..k # {} /\ k \in 1..k
      BY <1>0
    <3>2. Max(1..k) \in 1..k /\ Max(1..k) >= k
      BY <3>1, MaxOf
    <3> QED
      BY <3>2
  <2>3. (1..k) \ {k} = 1..(k - 1)
    BY <1>0
  <2>4. iter[1..(k - 1)] \in T
    BY <1>2, <2>1
  <2>5. iter[(1..k) \ {Max(1..k)}] \in T
    BY <2>2, <2>3, <2>4
  <2>6. iter[1..k] = step[<<iter[(1..k) \ {Max(1..k)}], Max(1..k)>>]
    BY <2>1, <2>5 DEF StepsLikeFold
  <2>7. iter[1..k] = step[<<iter[1..(k - 1)], k>>]
    BY <2>2, <2>3, <2>6
  <2> QED
    BY <2>1, <2>7
<1> HIDE DEF f
<1> DEFINE S == {k \in Nat : k <= n => f[k] \in T}
<1>3. 0 \in S
  BY <1>0, <1>1
<1>4. ASSUME NEW k \in Nat, k \in S PROVE k + 1 \in S
  <2>1. CASE k + 1 <= n
    <3>1. k + 1 \in 1..n /\ (k + 1) - 1 = k /\ f[k] \in T
      BY <1>0, <1>4, <2>1
    <3>2. f[k + 1] = step[<<f[k], k + 1>>]
      BY <3>1, <1>2
    <3>3. f[k + 1] \in T
      BY <1>0, <3>1, <3>2
    <3> QED
      BY <3>3
  <2> QED
    BY <2>1
<1> HIDE DEF S
<1>5. Nat \subseteq S
  BY <1>3, <1>4, SetInduction
<1>6. ASSUME NEW k \in 0..n PROVE f[k] \in T
  <2>1. k \in Nat /\ k <= n /\ k \in S
    BY <1>0, <1>5
  <2> QED
    BY <2>1 DEF S
<1>7. f = [k \in 0..n |-> f[k]]
  BY DEF f
<1>8. \A k \in 1..n : f[k] = step[<<f[k - 1], k>>]
  <2> TAKE k \in 1..n
  <2>1. k - 1 \in 0..n
    BY <1>0
  <2> QED
    BY <1>2, <1>6, <2>1
<1>9. Traces(f, T, base, step, n)
  BY <1>1, <1>6, <1>7, <1>8 DEF Traces
<1>10. f[n] = iter[1..n]
  BY <1>0 DEF f
<1> QED
  BY <1>9, <1>10

-----------------------------------------------------------------------------
(***************************************************************************)
(* TotalOf.                                                                *)
(***************************************************************************)
\* f[k] is the total of the first k rows.
TotalUpTo(rows, field, f) ==
  /\ f \in [0..Len(rows) -> Int] /\ f[0] = 0
  /\ \A k \in 1..Len(rows) : f[k] = f[k - 1] + rows[k][field]

\* A total is the last of the running totals.
LEMMA TotalTrace ==
  ASSUME NEW R, NEW rows \in Seq(R), NEW field, \A row \in R : row[field] \in Int
  PROVE  \E f : TotalUpTo(rows, field, f) /\ TotalOf(rows, field) = f[Len(rows)]
<1> DEFINE n == Len(rows)
           step == [p \in Int \X Nat |-> IF p[2] \in 1..n THEN p[1] + rows[p[2]][field] ELSE 0]
           Eq(iter) == iter = [s \in SUBSET DOMAIN rows |->
                         IF s = {} THEN 0 ELSE iter[s \ {Max(s)}] + rows[Max(s)][field]]
           chosen == CHOOSE iter : Eq(iter)
<1>1. n \in Nat /\ DOMAIN rows = 1..n /\ \A k \in 1..n : rows[k][field] \in Int
  OBVIOUS
<1>2. TotalOf(rows, field) = chosen[DOMAIN rows]
  BY DEF TotalOf, FoldLeft, MapThenFoldSet
<1>3. step \in [Int \X Nat -> Int] /\ 0 \in Int
  BY <1>1
<1>4. ASSUME NEW x \in Int, NEW k \in 1..n PROVE step[<<x, k>>] = x + rows[k][field]
  BY <1>1
<1> HIDE DEF step, n
<1>5. PICK iter \in [SUBSET (1..n) -> Int] : Folds(iter, 0, step, n)
  BY <1>1, <1>3, FoldExists
<1>6. Eq(iter)
  <2>1. ASSUME NEW s \in SUBSET (1..n), s # {}
        PROVE  step[<<iter[s \ {Max(s)}], Max(s)>>] = iter[s \ {Max(s)}] + rows[Max(s)][field]
    <3>1. Max(s) \in 1..n
      BY <2>1, <1>1, MaxOf
    <3>2. iter[s \ {Max(s)}] \in Int
      BY <1>5
    <3> QED
      BY <3>1, <3>2, <1>4
  <2> QED
    BY <1>1, <1>5, <2>1 DEF Folds
<1>7. Eq(chosen)
  BY <1>6
<1> HIDE DEF chosen
<1>8. StepsLikeFold(chosen, Int, 0, step, n)
  <2>1. chosen[{}] = 0
    BY <1>7
  <2>2. ASSUME NEW s \in SUBSET (1..n), s # {}, chosen[s \ {Max(s)}] \in Int
        PROVE  chosen[s] = step[<<chosen[s \ {Max(s)}], Max(s)>>]
    <3>1. Max(s) \in 1..n
      BY <2>2, <1>1, MaxOf
    <3>2. chosen[s] = chosen[s \ {Max(s)}] + rows[Max(s)][field]
      BY <1>1, <1>7, <2>2
    <3> QED
      BY <3>1, <3>2, <2>2, <1>4
  <2> QED
    BY <1>1, <1>3, <2>1, <2>2 DEF StepsLikeFold
<1> HIDE DEF Eq
<1>9. PICK f : Traces(f, Int, 0, step, n) /\ f[n] = chosen[1..n]
  BY <1>8, FoldTraces
<1>11. TotalUpTo(rows, field, f)
  <2>1. f \in [0..n -> Int] /\ f[0] = 0
    BY <1>9 DEF Traces
  <2>2. ASSUME NEW k \in 1..n PROVE f[k] = f[k - 1] + rows[k][field]
    <3>1. f[k] = step[<<f[k - 1], k>>]
      BY <1>9 DEF Traces
    <3>2. f[k - 1] \in Int
      BY <2>1, <1>1
    <3> QED
      BY <3>1, <3>2, <1>4
  <2> QED
    BY <2>1, <2>2 DEF TotalUpTo, n
<1> QED
  BY <1>1, <1>2, <1>9, <1>11 DEF n

\* f and g run through rows and more, which begins with rows.
Extends(rows, more) == Len(rows) <= Len(more) /\ \A k \in 1..Len(rows) : more[k] = rows[k]

\* Running totals agree as far as the rows do.
LEMMA TotalsAgree ==
  ASSUME NEW R, NEW rows \in Seq(R), NEW more \in Seq(R), NEW field, NEW f, NEW g,
         TotalUpTo(rows, field, f), TotalUpTo(more, field, g), Extends(rows, more)
  PROVE  \A k \in 0..Len(rows) : f[k] = g[k]
<1>0. Len(rows) \in Nat /\ Len(more) \in Nat
  OBVIOUS
<1> DEFINE S == {k \in Nat : k <= Len(rows) => f[k] = g[k]}
<1>1. 0 \in S
  BY DEF TotalUpTo
<1>2. ASSUME NEW k \in Nat, k \in S PROVE k + 1 \in S
  <2>1. CASE k + 1 <= Len(rows)
    <3>1. /\ k + 1 \in 1..Len(rows) /\ k + 1 \in 1..Len(more) /\ (k + 1) - 1 = k
          /\ f[k] = g[k] /\ rows[k + 1] = more[k + 1]
      BY <1>0, <1>2, <2>1 DEF Extends
    <3>2. f[k + 1] = g[k + 1]
      BY <3>1 DEF TotalUpTo
    <3> QED
      BY <3>2
  <2> QED
    BY <1>0, <2>1
<1> HIDE DEF S
<1>3. Nat \subseteq S
  BY <1>1, <1>2, SetInduction
<1> QED
  BY <1>0, <1>3 DEF S

\* The column of a table: every row has the field, a number.
HasField(R, field) == \A row \in R : row[field] \in Int

\* A total is a number, none for no rows, and a row more adds its amount.
LEMMA TotalType ==
  ASSUME NEW R, NEW rows \in Seq(R), NEW field, HasField(R, field)
  PROVE  TotalOf(rows, field) \in Int
<1>1. PICK f : TotalUpTo(rows, field, f) /\ TotalOf(rows, field) = f[Len(rows)]
  BY TotalTrace DEF HasField
<1> QED
  BY <1>1 DEF TotalUpTo

\* Nothing amounts to nothing.
LEMMA TotalEmpty ==
  ASSUME NEW field
  PROVE  TotalOf(<<>>, field) = 0
<1> DEFINE R == {}
           rows == <<>>
<1>1. rows \in Seq(R) /\ (\A row \in R : row[field] \in Int) /\ Len(rows) = 0
  OBVIOUS
<1> HIDE DEF R, rows
<1>2. PICK f : TotalUpTo(rows, field, f) /\ TotalOf(rows, field) = f[Len(rows)]
  BY <1>1, TotalTrace
<1> QED
  BY <1>1, <1>2 DEF TotalUpTo, rows

\* One row more adds what it is worth.
LEMMA TotalAppend ==
  ASSUME NEW R, NEW rows \in Seq(R), NEW row \in R, NEW field, HasField(R, field)
  PROVE  TotalOf(Append(rows, row), field) = TotalOf(rows, field) + row[field]
<1> DEFINE more == Append(rows, row)
<1>1. more \in Seq(R) /\ Len(more) = Len(rows) + 1 /\ more[Len(more)] = row
      /\ Extends(rows, more) /\ Len(rows) \in Nat
  BY DEF Extends
<1>2. PICK f : TotalUpTo(rows, field, f) /\ TotalOf(rows, field) = f[Len(rows)]
  BY TotalTrace DEF HasField
<1> HIDE DEF more
<1>3. PICK g : TotalUpTo(more, field, g) /\ TotalOf(more, field) = g[Len(more)]
  BY <1>1, TotalTrace DEF HasField
<1>4. f[Len(rows)] = g[Len(rows)]
  BY <1>1, <1>2, <1>3, TotalsAgree
<1>5. g[Len(more)] = g[Len(more) - 1] + more[Len(more)][field]
  BY <1>1, <1>3 DEF TotalUpTo
<1> QED
  BY <1>1, <1>2, <1>3, <1>4, <1>5 DEF more

\* The total of a stretch is the difference of two running totals.
LEMMA TotalPart ==
  ASSUME NEW R, NEW rows \in Seq(R), NEW field, HasField(R, field),
         NEW f, TotalUpTo(rows, field, f),
         NEW i \in 1..Len(rows), NEW j \in i..Len(rows)
  PROVE  TotalOf(SubSeq(rows, i, j), field) = f[j] - f[i - 1]
<1> DEFINE part == SubSeq(rows, i, j)
           m == (j - i) + 1
<1>1. Len(rows) \in Nat /\ i \in Int /\ j \in Int /\ 1 <= i /\ i <= j /\ j <= Len(rows)
  OBVIOUS
<1>2. \A k \in i..j : rows[k] \in R
  OBVIOUS
<1>3. /\ part \in Seq(R)
      /\ Len(part) = IF i <= j THEN j - i + 1 ELSE 0
      /\ \A k \in 1..(j - i + 1) : part[k] = rows[i + k - 1]
  BY <1>1, <1>2, SubSeqProperties
<1>4. m \in Nat /\ Len(part) = m
  BY <1>1, <1>3
<1> HIDE DEF part
<1>5. PICK g : TotalUpTo(part, field, g) /\ TotalOf(part, field) = g[Len(part)]
  BY <1>3, TotalTrace DEF HasField
<1> DEFINE S == {k \in Nat : k <= m => g[k] = f[i - 1 + k] - f[i - 1]}
<1>6. \A k \in 0..Len(rows) : f[k] \in Int
  BY <1>1 DEF TotalUpTo
<1>7. 0 \in S
  <2>1. g[0] = 0
    BY <1>5 DEF TotalUpTo
  <2>2. f[i - 1] \in Int /\ i - 1 + 0 = i - 1
    BY <1>1, <1>6
  <2> QED
    BY <2>1, <2>2
<1>8. ASSUME NEW k \in Nat, k \in S PROVE k + 1 \in S
  <2>1. CASE k + 1 <= m
    <3> DEFINE at == i - 1 + (k + 1)
    <3>1. /\ k + 1 \in 1..m /\ (k + 1) - 1 = k /\ at \in 1..Len(rows) /\ at - 1 = i - 1 + k
          /\ g[k] = f[i - 1 + k] - f[i - 1] /\ i + (k + 1) - 1 = at
          /\ i - 1 \in 0..Len(rows) /\ i - 1 + k \in 0..Len(rows)
      BY <1>1, <1>8, <2>1
    <3> HIDE DEF at, m
    <3>2. part[k + 1] = rows[at]
      BY <1>3, <3>1 DEF m
    <3>3. g[k + 1] = g[k] + rows[at][field]
      BY <1>4, <1>5, <3>1, <3>2 DEF TotalUpTo
    <3>4. f[at] = f[i - 1 + k] + rows[at][field]
      BY <3>1 DEF TotalUpTo
    <3>5. rows[at][field] \in Int
      BY <3>1 DEF HasField
    <3>6. f[i - 1] \in Int /\ f[i - 1 + k] \in Int
      BY <1>6, <3>1
    <3>7. g[k + 1] = f[at] - f[i - 1]
      BY <3>1, <3>3, <3>4, <3>5, <3>6
    <3> QED
      BY <3>7 DEF at
  <2> QED
    BY <1>4, <2>1
<1> HIDE DEF S
<1>9. m \in S
  BY <1>4, <1>7, <1>8, SetInduction
<1>10. g[m] = f[i - 1 + m] - f[i - 1] /\ i - 1 + m = j
  BY <1>1, <1>4, <1>9 DEF S
<1> QED
  BY <1>4, <1>5, <1>10 DEF part

-----------------------------------------------------------------------------
(***************************************************************************)
(* Select.                                                                 *)
(***************************************************************************)
\* f[k] is what is selected of the first k rows.
SelectedUpTo(rows, S, T, f) ==
  /\ f \in [0..Len(rows) -> Seq(T)] /\ f[0] = <<>>
  /\ \A k \in 1..Len(rows) :
       f[k] = IF rows[k] \in S THEN Append(f[k - 1], rows[k]) ELSE f[k - 1]

\* A selection is the last of the selections so far.
LEMMA SelectTrace ==
  ASSUME NEW R, NEW rows \in Seq(R), NEW S
  PROVE  \E f : SelectedUpTo(rows, S, R \intersect S, f) /\ Select(rows, S) = f[Len(rows)]
<1> DEFINE n == Len(rows)
           T == Seq(R \intersect S)
           Turn(x, row) == IF row \in S THEN Append(x, row) ELSE x
           step == [p \in T \X Nat |-> IF p[2] \in 1..n THEN Turn(p[1], rows[p[2]]) ELSE p[1]]
           Eq(iter) == iter = [s \in SUBSET DOMAIN rows |->
                         IF s = {} THEN <<>> ELSE Turn(iter[s \ {Max(s)}], rows[Max(s)])]
           chosen == CHOOSE iter : Eq(iter)
<1>1. n \in Nat /\ DOMAIN rows = 1..n /\ \A k \in 1..n : rows[k] \in R
  OBVIOUS
<1>2. Select(rows, S) = chosen[DOMAIN rows]
  BY DEF Select, FoldLeft, MapThenFoldSet
<1>3. \A x \in T, row \in R : Turn(x, row) \in T
  OBVIOUS
<1>4. <<>> \in T
  OBVIOUS
<1> HIDE DEF Turn, T
<1>5. step \in [T \X Nat -> T]
  BY <1>1, <1>3
<1>6. ASSUME NEW x \in T, NEW k \in 1..n PROVE step[<<x, k>>] = Turn(x, rows[k])
  BY <1>1
<1> HIDE DEF step, n
<1>7. PICK iter \in [SUBSET (1..n) -> T] : Folds(iter, <<>>, step, n)
  BY <1>1, <1>4, <1>5, FoldExists
<1>8. Eq(iter)
  <2>1. ASSUME NEW s \in SUBSET (1..n), s # {}
        PROVE  step[<<iter[s \ {Max(s)}], Max(s)>>] = Turn(iter[s \ {Max(s)}], rows[Max(s)])
    <3>1. Max(s) \in 1..n
      BY <2>1, <1>1, MaxOf
    <3>2. iter[s \ {Max(s)}] \in T
      BY <1>7
    <3> QED
      BY <3>1, <3>2, <1>6
  <2> QED
    BY <1>1, <1>7, <2>1 DEF Folds
<1>9. Eq(chosen)
  BY <1>8
<1> HIDE DEF chosen
<1>10. StepsLikeFold(chosen, T, <<>>, step, n)
  <2>1. chosen[{}] = <<>>
    BY <1>9
  <2>2. ASSUME NEW s \in SUBSET (1..n), s # {}, chosen[s \ {Max(s)}] \in T
        PROVE  chosen[s] = step[<<chosen[s \ {Max(s)}], Max(s)>>]
    <3>1. Max(s) \in 1..n
      BY <2>2, <1>1, MaxOf
    <3>2. chosen[s] = Turn(chosen[s \ {Max(s)}], rows[Max(s)])
      BY <1>1, <1>9, <2>2
    <3> QED
      BY <3>1, <3>2, <2>2, <1>6
  <2> QED
    BY <1>1, <1>4, <1>5, <2>1, <2>2 DEF StepsLikeFold
<1> HIDE DEF Eq
<1>11. PICK f : Traces(f, T, <<>>, step, n) /\ f[n] = chosen[1..n]
  BY <1>10, FoldTraces
<1>12. SelectedUpTo(rows, S, R \intersect S, f)
  <2>1. f \in [0..n -> T] /\ f[0] = <<>>
    BY <1>11 DEF Traces
  <2>2. ASSUME NEW k \in 1..n PROVE f[k] = Turn(f[k - 1], rows[k])
    <3>1. f[k] = step[<<f[k - 1], k>>]
      BY <1>11 DEF Traces
    <3>2. f[k - 1] \in T
      BY <2>1, <1>1
    <3> QED
      BY <3>1, <3>2, <1>6
  <2> QED
    BY <2>1, <2>2 DEF SelectedUpTo, n, Turn, T
<1> QED
  BY <1>1, <1>2, <1>11, <1>12 DEF n

\* Selections so far agree as far as the rows do.
LEMMA SelectionsAgree ==
  ASSUME NEW R, NEW rows \in Seq(R), NEW more \in Seq(R), NEW S, NEW T, NEW f, NEW g,
         SelectedUpTo(rows, S, T, f), SelectedUpTo(more, S, T, g), Extends(rows, more)
  PROVE  \A k \in 0..Len(rows) : f[k] = g[k]
<1>0. Len(rows) \in Nat /\ Len(more) \in Nat
  OBVIOUS
<1> DEFINE A == {k \in Nat : k <= Len(rows) => f[k] = g[k]}
<1>1. 0 \in A
  BY DEF SelectedUpTo
<1>2. ASSUME NEW k \in Nat, k \in A PROVE k + 1 \in A
  <2>1. CASE k + 1 <= Len(rows)
    <3>1. /\ k + 1 \in 1..Len(rows) /\ k + 1 \in 1..Len(more) /\ (k + 1) - 1 = k
          /\ f[k] = g[k] /\ rows[k + 1] = more[k + 1]
      BY <1>0, <1>2, <2>1 DEF Extends
    <3>2. f[k + 1] = g[k + 1]
      BY <3>1 DEF SelectedUpTo
    <3> QED
      BY <3>2
  <2> QED
    BY <1>0, <2>1
<1> HIDE DEF A
<1>3. Nat \subseteq A
  BY <1>1, <1>2, SetInduction
<1> QED
  BY <1>0, <1>3 DEF A

\* A selection has rows of the table that are in the set; none of no rows;
\* and a row more is appended if it is in the set.
LEMMA SelectType ==
  ASSUME NEW R, NEW rows \in Seq(R), NEW S
  PROVE  Select(rows, S) \in Seq(R) /\ Select(rows, S) \in Seq(R \intersect S)
<1>1. PICK f : SelectedUpTo(rows, S, R \intersect S, f) /\ Select(rows, S) = f[Len(rows)]
  BY SelectTrace
<1>2. Select(rows, S) \in Seq(R \intersect S)
  BY <1>1 DEF SelectedUpTo
<1>3. R \intersect S \subseteq R
  OBVIOUS
<1> QED
  BY <1>2, <1>3, SeqMonotonic

\* Of nothing, nothing is selected.
LEMMA SelectEmpty ==
  ASSUME NEW S
  PROVE  Select(<<>>, S) = <<>>
<1> DEFINE R == {}
           rows == <<>>
<1>1. rows \in Seq(R) /\ Len(rows) = 0
  OBVIOUS
<1> HIDE DEF R, rows
<1>2. PICK f : SelectedUpTo(rows, S, R \intersect S, f) /\ Select(rows, S) = f[Len(rows)]
  BY <1>1, SelectTrace
<1>3. f[0] = <<>>
  BY <1>2 DEF SelectedUpTo
<1> QED
  BY <1>1, <1>2, <1>3 DEF rows

\* One row more is selected or not, after those before it.
LEMMA SelectAppend ==
  ASSUME NEW R, NEW rows \in Seq(R), NEW row \in R, NEW S
  PROVE  Select(Append(rows, row), S) =
           IF row \in S THEN Append(Select(rows, S), row) ELSE Select(rows, S)
<1> DEFINE more == Append(rows, row)
<1>1. more \in Seq(R) /\ Len(more) = Len(rows) + 1 /\ more[Len(more)] = row
      /\ Extends(rows, more) /\ Len(rows) \in Nat
  BY DEF Extends
<1>2. PICK f : SelectedUpTo(rows, S, R \intersect S, f) /\ Select(rows, S) = f[Len(rows)]
  BY SelectTrace
<1> HIDE DEF more
<1>3. PICK g : SelectedUpTo(more, S, R \intersect S, g) /\ Select(more, S) = g[Len(more)]
  BY <1>1, SelectTrace
<1>4. f[Len(rows)] = g[Len(rows)]
  BY <1>1, <1>2, <1>3, SelectionsAgree
<1>5. g[Len(more)] = IF row \in S THEN Append(g[Len(more) - 1], row) ELSE g[Len(more) - 1]
  BY <1>1, <1>3 DEF SelectedUpTo
<1>6. Select(more, S) = IF row \in S THEN Append(Select(rows, S), row) ELSE Select(rows, S)
  BY <1>1, <1>2, <1>3, <1>4, <1>5
<1> QED
  BY <1>6 DEF more

\* s has the first k rows that are in S, none of them twice.
Picks(rows, S, k, s) ==
  /\ Len(s) <= k
  /\ \A i \in 1..Len(s) : s[i] \in S /\ \E j \in 1..k : s[i] = rows[j]
  /\ \A j \in 1..k : rows[j] \in S => \E i \in 1..Len(s) : s[i] = rows[j]
  /\ \A i, j \in 1..Len(s) : s[i] = s[j] => i = j

Distinct(rows) == \A i, j \in 1..Len(rows) : rows[i] = rows[j] => i = j

\* One row more is picked or not, and the picks stay in order.
LEMMA PicksStep ==
  ASSUME NEW R, NEW rows \in Seq(R), NEW S, Distinct(rows), NEW k \in 1..Len(rows),
         NEW s \in Seq(R), Picks(rows, S, k - 1, s)
  PROVE  Picks(rows, S, k, IF rows[k] \in S THEN Append(s, rows[k]) ELSE s)
<1>1. Len(s) \in Nat /\ Len(rows) \in Nat /\ Len(s) <= k - 1 /\ k \in Nat
  BY DEF Picks
<1>2. /\ \A i \in 1..Len(s) : s[i] \in S /\ \E j \in 1..(k - 1) : s[i] = rows[j]
      /\ \A j \in 1..(k - 1) : rows[j] \in S => \E i \in 1..Len(s) : s[i] = rows[j]
      /\ \A i, j \in 1..Len(s) : s[i] = s[j] => i = j
  BY DEF Picks
<1>3. CASE rows[k] \in S
  <2> DEFINE t == Append(s, rows[k])
             m == Len(s)
  <2>1. /\ Len(t) = m + 1 /\ t[m + 1] = rows[k] /\ \A i \in 1..m : t[i] = s[i]
    OBVIOUS
  <2> HIDE DEF t
  <2>2. \A i \in 1..m : s[i] # rows[k]
    <3> SUFFICES ASSUME NEW i \in 1..m, s[i] = rows[k] PROVE FALSE
      OBVIOUS
    <3>1. PICK j \in 1..(k - 1) : s[i] = rows[j]
      BY <1>2
    <3>2. j \in 1..Len(rows) /\ j # k
      BY <1>1
    <3>3. rows[j] = rows[k]
      BY <3>1
    <3> QED
      BY <3>2, <3>3 DEF Distinct
  <2> HIDE DEF m
  <2>3. m \in Nat /\ m <= k - 1
    BY <1>1 DEF m
  <2>4. \A i \in 1..(m + 1) : t[i] \in S /\ \E j \in 1..k : t[i] = rows[j]
    <3> SUFFICES ASSUME NEW i \in 1..(m + 1) PROVE t[i] \in S /\ \E j \in 1..k : t[i] = rows[j]
      OBVIOUS
    <3>1. CASE i = m + 1
      BY <1>1, <1>3, <2>1, <3>1
    <3>2. CASE i \in 1..m
      <4>1. s[i] \in S /\ \E j \in 1..(k - 1) : s[i] = rows[j]
        BY <1>2, <3>2 DEF m
      <4>2. PICK j \in 1..(k - 1) : s[i] = rows[j]
        BY <4>1
      <4>3. j \in 1..k
        BY <1>1
      <4> QED
        BY <2>1, <3>2, <4>1, <4>2, <4>3
    <3> QED
      BY <2>3, <3>1, <3>2
  <2>5. \A j \in 1..k : rows[j] \in S => \E i \in 1..(m + 1) : t[i] = rows[j]
    <3> SUFFICES ASSUME NEW j \in 1..k, rows[j] \in S PROVE \E i \in 1..(m + 1) : t[i] = rows[j]
      OBVIOUS
    <3>1. CASE j = k
      BY <2>1, <2>3, <3>1
    <3>2. CASE j \in 1..(k - 1)
      <4>1. PICK i \in 1..m : s[i] = rows[j]
        BY <1>2, <3>2 DEF m
      <4>2. i \in 1..(m + 1)
        BY <2>3
      <4> QED
        BY <2>1, <4>1, <4>2
    <3> QED
      BY <1>1, <3>1, <3>2
  <2>6. \A i, j \in 1..(m + 1) : t[i] = t[j] => i = j
    <3> SUFFICES ASSUME NEW i \in 1..(m + 1), NEW j \in 1..(m + 1), t[i] = t[j] PROVE i = j
      OBVIOUS
    <3>1. CASE i \in 1..m /\ j \in 1..m
      BY <1>2, <2>1, <3>1 DEF m
    <3>2. CASE i = m + 1 \/ j = m + 1
      BY <2>1, <2>2, <2>3, <3>2
    <3> QED
      BY <2>3, <3>1, <3>2
  <2>7. Picks(rows, S, k, t)
    BY <2>1, <2>3, <2>4, <2>5, <2>6 DEF Picks, m
  <2> QED
    BY <1>3, <2>7 DEF t
<1>4. CASE rows[k] \notin S
  <2>1. \A i \in 1..Len(s) : s[i] \in S /\ \E j \in 1..k : s[i] = rows[j]
    <3> SUFFICES ASSUME NEW i \in 1..Len(s) PROVE s[i] \in S /\ \E j \in 1..k : s[i] = rows[j]
      OBVIOUS
    <3>1. s[i] \in S /\ \E j \in 1..(k - 1) : s[i] = rows[j]
      BY <1>2
    <3>2. PICK j \in 1..(k - 1) : s[i] = rows[j]
      BY <3>1
    <3>3. j \in 1..k
      BY <1>1
    <3> QED
      BY <3>1, <3>2, <3>3
  <2>2. \A j \in 1..k : rows[j] \in S => \E i \in 1..Len(s) : s[i] = rows[j]
    <3> SUFFICES ASSUME NEW j \in 1..k, rows[j] \in S PROVE \E i \in 1..Len(s) : s[i] = rows[j]
      OBVIOUS
    <3>1. j \in 1..(k - 1)
      BY <1>1, <1>4
    <3> QED
      BY <1>2, <3>1
  <2>3. Picks(rows, S, k, s)
    BY <1>1, <1>2, <2>1, <2>2 DEF Picks
  <2> QED
    BY <1>4, <2>3
<1> QED
  BY <1>3, <1>4

\* Of a table without repetitions, a selection has each row of the set once.
LEMMA SelectPicks ==
  ASSUME NEW R, NEW rows \in Seq(R), NEW S, Distinct(rows)
  PROVE  Picks(rows, S, Len(rows), Select(rows, S))
<1>1. PICK f : SelectedUpTo(rows, S, R \intersect S, f) /\ Select(rows, S) = f[Len(rows)]
  BY SelectTrace
<1>2. Len(rows) \in Nat
  OBVIOUS
<1> DEFINE A == {k \in Nat : k <= Len(rows) => Picks(rows, S, k, f[k])}
<1>3. 0 \in A
  <2>1. f[0] = <<>>
    BY <1>1 DEF SelectedUpTo
  <2>2. Picks(rows, S, 0, <<>>)
    BY DEF Picks
  <2> QED
    BY <2>1, <2>2
<1>4. ASSUME NEW k \in Nat, k \in A PROVE k + 1 \in A
  <2>1. CASE k + 1 <= Len(rows)
    <3> DEFINE j == k + 1
    <3>1. j \in 1..Len(rows) /\ j - 1 = k /\ k \in 0..Len(rows) /\ Picks(rows, S, k, f[k])
      BY <1>2, <1>4, <2>1
    <3> HIDE DEF j
    <3>2. f[k] \in Seq(R \intersect S) /\ R \intersect S \subseteq R
      BY <1>1, <3>1 DEF SelectedUpTo
    <3>3. f[k] \in Seq(R)
      BY <3>2, SeqMonotonic
    <3>4. f[j] = IF rows[j] \in S THEN Append(f[k], rows[j]) ELSE f[k]
      BY <1>1, <3>1 DEF SelectedUpTo
    <3>5. Picks(rows, S, j - 1, f[k])
      BY <3>1
    <3>6. Picks(rows, S, j, IF rows[j] \in S THEN Append(f[k], rows[j]) ELSE f[k])
      BY <3>1, <3>3, <3>5, PicksStep
    <3>7. Picks(rows, S, j, f[j])
      BY <3>4, <3>6
    <3> QED
      BY <3>7 DEF j
  <2> QED
    BY <1>2, <2>1
<1> HIDE DEF A
<1>5. Len(rows) \in A
  BY <1>2, <1>3, <1>4, SetInduction
<1> QED
  BY <1>1, <1>2, <1>5 DEF A

\* A selection from rows without repetitions has those of S, once each.
LEMMA SelectRange ==
  ASSUME NEW R, NEW rows \in Seq(R), NEW S, Distinct(rows)
  PROVE  /\ Select(rows, S) \in Seq(R) /\ Distinct(Select(rows, S))
         /\ Range(Select(rows, S)) = Range(rows) \intersect S
         /\ Len(Select(rows, S)) <= Len(rows)
<1> DEFINE s == Select(rows, S)
<1>1. s \in Seq(R) /\ Picks(rows, S, Len(rows), s)
  BY SelectType, SelectPicks
<1> HIDE DEF s
<1>2. /\ Len(s) <= Len(rows)
      /\ \A i \in 1..Len(s) : s[i] \in S /\ \E j \in 1..Len(rows) : s[i] = rows[j]
      /\ \A j \in 1..Len(rows) : rows[j] \in S => \E i \in 1..Len(s) : s[i] = rows[j]
      /\ \A i, j \in 1..Len(s) : s[i] = s[j] => i = j
  BY <1>1 DEF Picks
<1>3. DOMAIN s = 1..Len(s) /\ DOMAIN rows = 1..Len(rows)
  BY <1>1
<1>4. Range(s) = Range(rows) \intersect S
  BY <1>2, <1>3 DEF Range
<1>5. Distinct(s)
  BY <1>2 DEF Distinct
<1> QED
  BY <1>1, <1>2, <1>4, <1>5 DEF s

-----------------------------------------------------------------------------
(***************************************************************************)
(* The walks.                                                              *)
(***************************************************************************)
\* A division that is not exact leaves something over.
LEMMA QuotientIsLow ==
  ASSUME NEW m \in Nat, NEW k \in Nat, k > 0
  PROVE  m \div k \in Nat /\ (m \div k) * k <= m
  OBVIOUS

\* A level's worth is a number.
LEMMA WorthType ==
  ASSUME NEW l \in Level, NEW m \in Nat
  PROVE  l.price \in Nat /\ l.size \in Nat /\ m * l.price \in Nat
  BY DEF Level

\* What is left of a budget, and what it bought so far.
Spending(budget) == [remaining : 0..budget, quantity : Nat, consumed : Nat]

\* A level takes no more than is left.
LEMMA SpendOnType ==
  ASSUME NEW budget \in Nat, NEW w \in Spending(budget), NEW l \in Level
  PROVE  SpendOn(w, l) \in Spending(budget)
<1>1. /\ w.remaining \in 0..budget /\ w.quantity \in Nat /\ w.consumed \in Nat
      /\ l.price \in Nat /\ l.size \in Nat
  BY DEF Spending, Level
<1>2. CASE w.remaining = 0 \/ l.price = 0
  BY <1>2 DEF SpendOn
<1>3. CASE ~(w.remaining = 0 \/ l.price = 0)
  <2> DEFINE take == Smaller(w.remaining \div l.price, l.size)
  <2>1. w.remaining \div l.price \in Nat /\ (w.remaining \div l.price) * l.price <= w.remaining
    BY <1>1, <1>3, QuotientIsLow
  <2>2. take \in Nat /\ take <= w.remaining \div l.price
    BY <1>1, <2>1 DEF Smaller
  <2>3. SpendOn(w, l) = [remaining |-> w.remaining - take * l.price,
                         quantity |-> w.quantity + take, consumed |-> w.consumed + 1]
    BY <1>3 DEF SpendOn
  <2> HIDE DEF take
  <2>4. take * l.price \in Nat /\ take * l.price <= (w.remaining \div l.price) * l.price
    BY <1>1, <2>1, <2>2
  <2>5. w.remaining - take * l.price \in 0..budget
    BY <1>1, <2>1, <2>4
  <2> QED
    BY <1>1, <2>2, <2>3, <2>5 DEF Spending
<1> QED
  BY <1>2, <1>3

\* f[k] is where the spending of a budget is after k levels.
SpentUpTo(levels, budget, f) ==
  /\ f \in [0..Len(levels) -> Spending(budget)]
  /\ f[0] = [remaining |-> budget, quantity |-> 0, consumed |-> 0]
  /\ \A k \in 1..Len(levels) : f[k] = SpendOn(f[k - 1], levels[k])

\* A walk for a budget, level by level.
LEMMA SpendTrace ==
  ASSUME NEW levels \in Seq(Level), NEW budget \in Nat
  PROVE  \E f : /\ SpentUpTo(levels, budget, f)
                /\ WalkForNotional(levels, budget) =
                     [quantity |-> f[Len(levels)].quantity,
                      cost |-> budget - f[Len(levels)].remaining,
                      full |-> f[Len(levels)].remaining = 0,
                      consumed |-> f[Len(levels)].consumed]
<1> DEFINE n == Len(levels)
           T == Spending(budget)
           base == [remaining |-> budget, quantity |-> 0, consumed |-> 0]
           step == [p \in T \X Nat |-> IF p[2] \in 1..n THEN SpendOn(p[1], levels[p[2]]) ELSE p[1]]
           Eq(iter) == iter = [s \in SUBSET DOMAIN levels |->
                         IF s = {} THEN base ELSE SpendOn(iter[s \ {Max(s)}], levels[Max(s)])]
           chosen == CHOOSE iter : Eq(iter)
           end == chosen[DOMAIN levels]
<1>1. n \in Nat /\ DOMAIN levels = 1..n /\ \A k \in 1..n : levels[k] \in Level
  OBVIOUS
<1>2. WalkForNotional(levels, budget) =
        [quantity |-> end.quantity, cost |-> budget - end.remaining,
         full |-> end.remaining = 0, consumed |-> end.consumed]
  BY DEF WalkForNotional, FoldLeft, MapThenFoldSet
<1>3. step \in [T \X Nat -> T]
  BY <1>1, SpendOnType
<1>4. base \in T
  BY DEF Spending
<1>5. ASSUME NEW x \in T, NEW k \in 1..n PROVE step[<<x, k>>] = SpendOn(x, levels[k])
  BY <1>1
<1> HIDE DEF step, n, base, T
<1>6. PICK iter \in [SUBSET (1..n) -> T] : Folds(iter, base, step, n)
  BY <1>1, <1>3, <1>4, FoldExists
<1>7. Eq(iter)
  <2>1. ASSUME NEW s \in SUBSET (1..n), s # {}
        PROVE  step[<<iter[s \ {Max(s)}], Max(s)>>] = SpendOn(iter[s \ {Max(s)}], levels[Max(s)])
    <3>1. Max(s) \in 1..n
      BY <2>1, <1>1, MaxOf
    <3>2. iter[s \ {Max(s)}] \in T
      BY <1>6
    <3> QED
      BY <3>1, <3>2, <1>5
  <2> QED
    BY <1>1, <1>6, <2>1 DEF Folds
<1>8. Eq(chosen)
  BY <1>7
<1> HIDE DEF chosen
<1>9. StepsLikeFold(chosen, T, base, step, n)
  <2>1. chosen[{}] = base
    BY <1>8
  <2>2. ASSUME NEW s \in SUBSET (1..n), s # {}, chosen[s \ {Max(s)}] \in T
        PROVE  chosen[s] = step[<<chosen[s \ {Max(s)}], Max(s)>>]
    <3>1. Max(s) \in 1..n
      BY <2>2, <1>1, MaxOf
    <3>2. chosen[s] = SpendOn(chosen[s \ {Max(s)}], levels[Max(s)])
      BY <1>1, <1>8, <2>2
    <3> QED
      BY <3>1, <3>2, <2>2, <1>5
  <2> QED
    BY <1>1, <1>3, <1>4, <2>1, <2>2 DEF StepsLikeFold
<1> HIDE DEF Eq
<1>10. PICK f : Traces(f, T, base, step, n) /\ f[n] = chosen[1..n]
  BY <1>9, FoldTraces
<1>11. SpentUpTo(levels, budget, f)
  <2>1. f \in [0..n -> T] /\ f[0] = base
    BY <1>10 DEF Traces
  <2>2. ASSUME NEW k \in 1..n PROVE f[k] = SpendOn(f[k - 1], levels[k])
    <3>1. f[k] = step[<<f[k - 1], k>>]
      BY <1>10 DEF Traces
    <3>2. f[k - 1] \in T
      BY <2>1, <1>1
    <3> QED
      BY <3>1, <3>2, <1>5
  <2> QED
    BY <2>1, <2>2 DEF SpentUpTo, n, base, T
<1>12. end = f[Len(levels)]
  BY <1>1, <1>10 DEF n
<1> HIDE DEF end
<1> QED
  BY <1>2, <1>11, <1>12

\* Spending a budget buys a number of shares, and costs no more than it.
LEMMA SpendType ==
  ASSUME NEW levels \in Seq(Level), NEW budget \in Nat
  PROVE  /\ WalkForNotional(levels, budget) \in
              [quantity : Nat, cost : 0..budget, full : BOOLEAN, consumed : Nat]
         /\ WalkForNotional(levels, budget).full <=> WalkForNotional(levels, budget).cost = budget
<1>1. PICK f : /\ SpentUpTo(levels, budget, f)
               /\ WalkForNotional(levels, budget) =
                     [quantity |-> f[Len(levels)].quantity,
                      cost |-> budget - f[Len(levels)].remaining,
                      full |-> f[Len(levels)].remaining = 0,
                      consumed |-> f[Len(levels)].consumed]
  BY SpendTrace
<1>2. f[Len(levels)] \in Spending(budget)
  BY <1>1 DEF SpentUpTo
<1>3. /\ budget - f[Len(levels)].remaining \in 0..budget
      /\ f[Len(levels)].remaining = 0 <=> budget - f[Len(levels)].remaining = budget
  BY <1>2 DEF Spending
<1>4. WalkForNotional(levels, budget).full = (f[Len(levels)].remaining = 0)
  BY <1>1
<1>5. WalkForNotional(levels, budget).cost = budget - f[Len(levels)].remaining
  BY <1>1
<1>6. WalkForNotional(levels, budget) \in
        [quantity : Nat, cost : 0..budget, full : BOOLEAN, consumed : Nat]
  BY <1>1, <1>2, <1>3 DEF Spending
<1> QED
  BY <1>3, <1>4, <1>5, <1>6

\* What is left of a quantity, and what it cost so far.
Walking(quantity) == [remaining : 0..quantity, cost : Nat, consumed : Nat]

\* One turn of WalkQuantity.
TakeFrom(w, l) ==
  IF w.remaining = 0 THEN w
  ELSE LET take == Smaller(w.remaining, l.size)
       IN  [remaining |-> w.remaining - take,
            cost      |-> w.cost + take * l.price,
            consumed  |-> w.consumed + 1]

\* What is taken of a level is a walk again.
LEMMA TakeFromType ==
  ASSUME NEW quantity \in Nat, NEW w \in Walking(quantity), NEW l \in Level
  PROVE  TakeFrom(w, l) \in Walking(quantity)
<1> DEFINE take == Smaller(w.remaining, l.size)
<1>1. /\ w.remaining \in 0..quantity /\ w.cost \in Nat /\ w.consumed \in Nat
      /\ l.price \in Nat /\ l.size \in Nat
  BY DEF Walking, Level
<1>2. take \in Nat /\ take <= w.remaining
  BY <1>1 DEF Smaller
<1>3. TakeFrom(w, l) = IF w.remaining = 0 THEN w
                       ELSE [remaining |-> w.remaining - take, cost |-> w.cost + take * l.price,
                             consumed |-> w.consumed + 1]
  BY DEF TakeFrom
<1> HIDE DEF take
<1>4. w.cost + take * l.price \in Nat /\ w.remaining - take \in 0..quantity
  BY <1>1, <1>2
<1> QED
  BY <1>1, <1>3, <1>4 DEF Walking

\* f[k] is where a walk for a quantity is after k levels.
TakenUpTo(levels, quantity, f) ==
  /\ f \in [0..Len(levels) -> Walking(quantity)]
  /\ f[0] = [remaining |-> quantity, cost |-> 0, consumed |-> 0]
  /\ \A k \in 1..Len(levels) : f[k] = TakeFrom(f[k - 1], levels[k])

\* A walk for a quantity, level by level.
LEMMA WalkTrace ==
  ASSUME NEW levels \in Seq(Level), NEW quantity \in Nat
  PROVE  \E f : /\ TakenUpTo(levels, quantity, f)
                /\ WalkQuantity(levels, quantity) =
                     [quantity |-> quantity - f[Len(levels)].remaining,
                      cost |-> f[Len(levels)].cost,
                      full |-> f[Len(levels)].remaining = 0,
                      consumed |-> f[Len(levels)].consumed]
<1> DEFINE n == Len(levels)
           T == Walking(quantity)
           base == [remaining |-> quantity, cost |-> 0, consumed |-> 0]
           step == [p \in T \X Nat |-> IF p[2] \in 1..n THEN TakeFrom(p[1], levels[p[2]]) ELSE p[1]]
           Eq(iter) == iter = [s \in SUBSET DOMAIN levels |->
                         IF s = {} THEN base ELSE TakeFrom(iter[s \ {Max(s)}], levels[Max(s)])]
           chosen == CHOOSE iter : Eq(iter)
           end == chosen[DOMAIN levels]
<1>1. n \in Nat /\ DOMAIN levels = 1..n /\ \A k \in 1..n : levels[k] \in Level
  OBVIOUS
<1>2. WalkQuantity(levels, quantity) =
        [quantity |-> quantity - end.remaining, cost |-> end.cost,
         full |-> end.remaining = 0, consumed |-> end.consumed]
  BY DEF WalkQuantity, TakeFrom, FoldLeft, MapThenFoldSet
<1>3. step \in [T \X Nat -> T]
  BY <1>1, TakeFromType
<1>4. base \in T
  BY DEF Walking
<1>5. ASSUME NEW x \in T, NEW k \in 1..n PROVE step[<<x, k>>] = TakeFrom(x, levels[k])
  BY <1>1
<1> HIDE DEF step, n, base, T
<1>6. PICK iter \in [SUBSET (1..n) -> T] : Folds(iter, base, step, n)
  BY <1>1, <1>3, <1>4, FoldExists
<1>7. Eq(iter)
  <2>1. ASSUME NEW s \in SUBSET (1..n), s # {}
        PROVE  step[<<iter[s \ {Max(s)}], Max(s)>>] = TakeFrom(iter[s \ {Max(s)}], levels[Max(s)])
    <3>1. Max(s) \in 1..n
      BY <2>1, <1>1, MaxOf
    <3>2. iter[s \ {Max(s)}] \in T
      BY <1>6
    <3> QED
      BY <3>1, <3>2, <1>5
  <2> QED
    BY <1>1, <1>6, <2>1 DEF Folds
<1>8. Eq(chosen)
  BY <1>7
<1> HIDE DEF chosen
<1>9. StepsLikeFold(chosen, T, base, step, n)
  <2>1. chosen[{}] = base
    BY <1>8
  <2>2. ASSUME NEW s \in SUBSET (1..n), s # {}, chosen[s \ {Max(s)}] \in T
        PROVE  chosen[s] = step[<<chosen[s \ {Max(s)}], Max(s)>>]
    <3>1. Max(s) \in 1..n
      BY <2>2, <1>1, MaxOf
    <3>2. chosen[s] = TakeFrom(chosen[s \ {Max(s)}], levels[Max(s)])
      BY <1>1, <1>8, <2>2
    <3> QED
      BY <3>1, <3>2, <2>2, <1>5
  <2> QED
    BY <1>1, <1>3, <1>4, <2>1, <2>2 DEF StepsLikeFold
<1> HIDE DEF Eq
<1>10. PICK f : Traces(f, T, base, step, n) /\ f[n] = chosen[1..n]
  BY <1>9, FoldTraces
<1>11. TakenUpTo(levels, quantity, f)
  <2>1. f \in [0..n -> T] /\ f[0] = base
    BY <1>10 DEF Traces
  <2>2. ASSUME NEW k \in 1..n PROVE f[k] = TakeFrom(f[k - 1], levels[k])
    <3>1. f[k] = step[<<f[k - 1], k>>]
      BY <1>10 DEF Traces
    <3>2. f[k - 1] \in T
      BY <2>1, <1>1
    <3> QED
      BY <3>1, <3>2, <1>5
  <2> QED
    BY <2>1, <2>2 DEF TakenUpTo, n, base, T
<1>12. end = f[Len(levels)]
  BY <1>1, <1>10 DEF n
<1> HIDE DEF end
<1> QED
  BY <1>2, <1>11, <1>12


\* The depth of a side is what its levels hold together.
DepthUpTo(levels, d) ==
  /\ d \in [0..Len(levels) -> Nat] /\ d[0] = 0
  /\ \A k \in 1..Len(levels) : d[k] = d[k - 1] + levels[k].size

\* The depth of a side, level by level.
LEMMA DepthTrace ==
  ASSUME NEW levels \in Seq(Level)
  PROVE  \E d : DepthUpTo(levels, d) /\ Depth(levels) = d[Len(levels)]
<1>1. Depth(levels) = TotalOf(levels, "size")
  BY DEF Depth, TotalOf
<1>2. PICK d : TotalUpTo(levels, "size", d) /\ TotalOf(levels, "size") = d[Len(levels)]
  <2>1. \A l \in Level : l["size"] \in Int
    BY DEF Level
  <2> QED
    BY <2>1, TotalTrace
<1>3. Len(levels) \in Nat /\ \A k \in 1..Len(levels) : levels[k] \in Level
  OBVIOUS
<1> DEFINE S == {k \in Nat : k <= Len(levels) => d[k] \in Nat}
<1>4. 0 \in S
  BY <1>2 DEF TotalUpTo
<1>5. ASSUME NEW k \in Nat, k \in S PROVE k + 1 \in S
  <2>1. CASE k + 1 <= Len(levels)
    <3>1. k + 1 \in 1..Len(levels) /\ (k + 1) - 1 = k /\ d[k] \in Nat
      BY <1>3, <1>5, <2>1
    <3>2. d[k + 1] = d[k] + levels[k + 1]["size"]
      BY <1>2, <3>1 DEF TotalUpTo
    <3>3. levels[k + 1]["size"] \in Nat
      BY <1>3, <3>1 DEF Level
    <3> QED
      BY <3>1, <3>2, <3>3
  <2> QED
    BY <1>3, <2>1
<1> HIDE DEF S
<1>6. Nat \subseteq S
  BY <1>4, <1>5, SetInduction
<1>7. ASSUME NEW k \in 0..Len(levels) PROVE d[k] \in Nat
  <2>1. k \in Nat /\ k <= Len(levels) /\ k \in S
    BY <1>3, <1>6
  <2> QED
    BY <2>1 DEF S
<1>8. DepthUpTo(levels, d)
  BY <1>2, <1>7 DEF TotalUpTo, DepthUpTo
<1> QED
  BY <1>1, <1>2, <1>8

\* The depth of a side is a size.
LEMMA DepthType ==
  ASSUME NEW levels \in Seq(Level)
  PROVE  Depth(levels) \in Nat
<1>1. PICK d : DepthUpTo(levels, d) /\ Depth(levels) = d[Len(levels)]
  BY DepthTrace
<1> QED
  BY <1>1 DEF DepthUpTo

\* After k levels a walk has all of them, or all it was sent for.
LEMMA WalkTakes ==
  ASSUME NEW levels \in Seq(Level), NEW quantity \in Nat, NEW f, NEW d,
         TakenUpTo(levels, quantity, f), DepthUpTo(levels, d)
  PROVE  \A k \in 0..Len(levels) : f[k].remaining = quantity - Smaller(quantity, d[k])
<1>1. Len(levels) \in Nat /\ \A k \in 1..Len(levels) : levels[k] \in Level
  OBVIOUS
<1> DEFINE S == {k \in Nat : k <= Len(levels) =>
                   f[k].remaining = quantity - Smaller(quantity, d[k])}
<1>2. 0 \in S
  BY DEF TakenUpTo, DepthUpTo, Smaller
<1>3. ASSUME NEW k \in Nat, k \in S PROVE k + 1 \in S
  <2>1. CASE k + 1 <= Len(levels)
    <3>1. /\ k + 1 \in 1..Len(levels) /\ (k + 1) - 1 = k /\ k \in 0..Len(levels)
          /\ f[k].remaining = quantity - Smaller(quantity, d[k])
      BY <1>1, <1>3, <2>1
    <3>2. f[k + 1] = TakeFrom(f[k], levels[k + 1]) /\ d[k + 1] = d[k] + levels[k + 1].size
      BY <3>1 DEF TakenUpTo, DepthUpTo
    <3>3. f[k].remaining \in Nat /\ d[k] \in Nat /\ levels[k + 1].size \in Nat
      BY <1>1, <3>1 DEF TakenUpTo, DepthUpTo, Walking, Level
    <3>4. f[k + 1].remaining = IF f[k].remaining = 0 THEN 0
                               ELSE f[k].remaining - Smaller(f[k].remaining, levels[k + 1].size)
      BY <3>2 DEF TakeFrom
    <3>5. f[k + 1].remaining = quantity - Smaller(quantity, d[k + 1])
      BY <3>1, <3>2, <3>3, <3>4 DEF Smaller
    <3> QED
      BY <3>5
  <2> QED
    BY <1>1, <2>1
<1> HIDE DEF S
<1>4. Nat \subseteq S
  BY <1>2, <1>3, SetInduction
<1> QED
  BY <1>1, <1>4 DEF S

\* A walk trades what it was sent for, or all there is.
LEMMA WalkType ==
  ASSUME NEW levels \in Seq(Level), NEW quantity \in Nat
  PROVE  /\ WalkQuantity(levels, quantity) \in
              [quantity : Nat, cost : Nat, full : BOOLEAN, consumed : Nat]
         /\ WalkQuantity(levels, quantity).quantity = Smaller(quantity, Depth(levels))
         /\ WalkQuantity(levels, quantity).full <=> quantity <= Depth(levels)
<1> DEFINE n == Len(levels)
<1>1. PICK f : /\ TakenUpTo(levels, quantity, f)
               /\ WalkQuantity(levels, quantity) =
                     [quantity |-> quantity - f[n].remaining, cost |-> f[n].cost,
                      full |-> f[n].remaining = 0, consumed |-> f[n].consumed]
  BY WalkTrace
<1>2. PICK d : DepthUpTo(levels, d) /\ Depth(levels) = d[n]
  BY DepthTrace
<1>3. f[n] \in Walking(quantity) /\ n \in 0..Len(levels)
  BY <1>1 DEF TakenUpTo
<1>4. f[n].remaining = quantity - Smaller(quantity, d[n])
  BY <1>1, <1>2, <1>3, WalkTakes
<1>5. d[n] \in Nat
  BY <1>2, DepthType
<1> HIDE DEF n
<1>6. /\ quantity - f[n].remaining = Smaller(quantity, d[n])
      /\ quantity - f[n].remaining \in Nat
      /\ f[n].remaining = 0 <=> quantity <= d[n]
  BY <1>4, <1>5 DEF Smaller
<1>7. WalkQuantity(levels, quantity) \in [quantity : Nat, cost : Nat, full : BOOLEAN, consumed : Nat]
  BY <1>1, <1>3, <1>6 DEF Walking
<1>8. WalkQuantity(levels, quantity).full = (f[n].remaining = 0)
  BY <1>1
<1>9. WalkQuantity(levels, quantity).quantity = Smaller(quantity, Depth(levels))
  BY <1>1, <1>2, <1>6
<1> QED
  BY <1>2, <1>6, <1>7, <1>8, <1>9

-----------------------------------------------------------------------------
\* x is put into s at its place: what is there or below moves down by one.
Inserted(t, s, at, x, R) ==
  /\ t \in Seq(R) /\ Len(t) = Len(s) + 1
  /\ \A i \in 1..(Len(s) + 1) : t[i] = IF i < at THEN s[i] ELSE IF i = at THEN x ELSE s[i - 1]

\* InsertAt does that.
LEMMA InsertAtInserts ==
  ASSUME NEW R, NEW s \in Seq(R), NEW at \in 1..(Len(s) + 1), NEW x \in R
  PROVE  Inserted(InsertAt(s, at, x), s, at, x, R)
<1> DEFINE above == SubSeq(s, 1, at - 1)
           below == SubSeq(s, at, Len(s))
<1>1. /\ above \in Seq(R) /\ Len(above) = at - 1
      /\ \A i \in 1..(at - 1) : above[i] = s[i]
  OBVIOUS
<1>2. /\ below \in Seq(R) /\ Len(below) = Len(s) - at + 1
      /\ \A i \in 1..(Len(s) - at + 1) : below[i] = s[at + i - 1]
  OBVIOUS
<1>3. InsertAt(s, at, x) = (above \o <<x>>) \o below
  BY DEF InsertAt
<1> HIDE DEF above, below
<1> DEFINE head == above \o <<x>>
<1>4. /\ head \in Seq(R) /\ Len(head) = at
      /\ \A i \in 1..at : head[i] = IF i < at THEN s[i] ELSE x
  BY <1>1
<1> HIDE DEF head
<1>5. /\ head \o below \in Seq(R) /\ Len(head \o below) = Len(head) + Len(below)
      /\ \A i \in 1..(Len(head) + Len(below)) :
           (head \o below)[i] = IF i <= Len(head) THEN head[i] ELSE below[i - Len(head)]
  BY <1>2, <1>4, ConcatProperties
<1>6. Len(head) = at /\ Len(head) + Len(below) = Len(s) + 1
  BY <1>2, <1>4
<1>7. ASSUME NEW i \in 1..(Len(s) + 1)
      PROVE  (head \o below)[i] = IF i < at THEN s[i] ELSE IF i = at THEN x ELSE s[i - 1]
  <2>1. CASE i <= at
    <3>1. (head \o below)[i] = head[i] /\ i \in 1..at
      BY <2>1, <1>5, <1>6
    <3>2. head[i] = IF i < at THEN s[i] ELSE x
      BY <3>1, <1>4
    <3> QED
      BY <2>1, <3>1, <3>2
  <2>2. CASE i > at
    <3>1. (head \o below)[i] = below[i - at] /\ i - at \in 1..(Len(s) - at + 1)
      BY <2>2, <1>5, <1>6
    <3>2. below[i - at] = s[at + (i - at) - 1]
      BY <3>1, <1>2
    <3>3. at + (i - at) - 1 = i - 1
      OBVIOUS
    <3> QED
      BY <2>2, <3>1, <3>2, <3>3
  <2>3. i <= at \/ i > at
    OBVIOUS
  <2> QED
    BY <2>1, <2>2, <2>3
<1> DEFINE t == head \o below
<1>8. Len(t) = Len(s) + 1 /\ t \in Seq(R)
      /\ \A i \in 1..(Len(s) + 1) : t[i] = IF i < at THEN s[i] ELSE IF i = at THEN x ELSE s[i - 1]
  BY <1>5, <1>6, <1>7
<1>9. InsertAt(s, at, x) = t
  BY <1>3 DEF head
<1> HIDE DEF t
<1> QED
  BY <1>8, <1>9 DEF Inserted

\* An insertion moves what is at or below its place down by one.
LEMMA InsertAtShape ==
  ASSUME NEW R, NEW s \in Seq(R), NEW at \in 1..(Len(s) + 1), NEW x \in R
  PROVE  /\ InsertAt(s, at, x) \in Seq(R)
         /\ Len(InsertAt(s, at, x)) = Len(s) + 1
         /\ \A i \in 1..(Len(s) + 1) : InsertAt(s, at, x)[i] =
              IF i < at THEN s[i] ELSE IF i = at THEN x ELSE s[i - 1]
BY InsertAtInserts DEF Inserted


\* f has a number for each element of S.
Numbers(f, S) == \A x \in S : f[x] \in Int

\* The cheapest level first.
Ascending(levels) == \A i, j \in DOMAIN levels : i < j => levels[i].price <= levels[j].price

\* A price is the key of asks and its negative that of bids.
LEMMA KeysType ==
  /\ Numbers(ByPrice, Level) /\ Numbers(ByPriceDown, Level)
  /\ ByPrice \in [Level -> Int] /\ ByPriceDown \in [Level -> Int]
  /\ \A l \in Level : ByPrice[l] = l.price /\ ByPriceDown[l] = 0 - l.price /\ l.price \in Nat
  BY DEF Level, ByPrice, ByPriceDown, Numbers

\* The level of the least key first.
InOrder(levels, key) ==
  \A i, j \in DOMAIN levels : i < j => key[levels[i]] <= key[levels[j]]

\* The first of the positions that are later, or the end.
PlaceOf(sorted, later) ==
  IF later = {} THEN Len(sorted) + 1 ELSE CHOOSE i \in later : \A j \in later : i <= j

\* One turn of the sort: a level goes before the first of a greater key.
PlaceBy(sorted, l, key) ==
  LET later == {i \in DOMAIN sorted : key[l] < key[sorted[i]]}
  IN  InsertAt(sorted, PlaceOf(sorted, later), l)

\* A nonempty set of numbers has a least one.
LEMMA LeastOf ==
  ASSUME NEW s \in SUBSET Nat, s # {}
  PROVE  \E m \in s : \A y \in s : m <= y
<1>1. s \subseteq Nat
  OBVIOUS
<1>2. PICK m \in s : \A y \in s : ~(<<y, m>> \in OpToRel(<, Nat))
  BY <1>1, NatLessThanWellFounded, WFMin
<1>3. \A y \in s : ~(y < m)
  BY <1>1, <1>2 DEF OpToRel
<1>4. \A y \in s : m <= y
  BY <1>1, <1>3
<1> QED
  BY <1>4

\* Such a turn keeps a side in order.
LEMMA PlaceBySorts ==
  ASSUME NEW R, NEW key, Numbers(key, R), NEW s \in Seq(R), InOrder(s, key), NEW l \in R
  PROVE  /\ PlaceBy(s, l, key) \in Seq(R) /\ InOrder(PlaceBy(s, l, key), key)
         /\ \E at \in 1..(Len(s) + 1) : PlaceBy(s, l, key) = InsertAt(s, at, l)
<1> DEFINE later == {i \in DOMAIN s : key[l] < key[s[i]]}
           at == IF later = {} THEN Len(s) + 1 ELSE CHOOSE i \in later : \A j \in later : i <= j
<1>1. DOMAIN s = 1..Len(s) /\ Len(s) \in Nat /\ \A i \in 1..Len(s) : key[s[i]] \in Int
  BY DEF Numbers
<1>2. PlaceBy(s, l, key) = InsertAt(s, at, l)
  BY DEF PlaceBy, PlaceOf
<1>3. key[l] \in Int
  BY DEF Numbers
<1>4. later # {} => at \in later /\ \A j \in later : at <= j
  <2> SUFFICES ASSUME later # {} PROVE at \in later /\ \A j \in later : at <= j
    OBVIOUS
  <2>1. \E m \in later : \A j \in later : m <= j
    <3>1. later \in SUBSET Nat
      BY <1>1
    <3> HIDE DEF later
    <3> QED
      BY <3>1, LeastOf
  <2> QED
    BY <2>1
<1>5. later = {} => at = Len(s) + 1
  OBVIOUS
<1>6. \A i \in 1..Len(s) : i \in later <=> key[l] < key[s[i]]
  BY <1>1
<1>7. later \subseteq 1..Len(s)
  BY <1>1
<1> HIDE DEF at, later
<1>8. at \in 1..(Len(s) + 1)
  <2>1. CASE later = {}
    BY <1>1, <1>5, <2>1
  <2>2. CASE later # {}
    <3>1. at \in 1..Len(s)
      BY <1>4, <1>7, <2>2
    <3> QED
      BY <1>1, <3>1
  <2> QED
    BY <2>1, <2>2
<1>9. \A i \in 1..Len(s) : i < at => key[s[i]] <= key[l]
  <2> SUFFICES ASSUME NEW i \in 1..Len(s), i < at PROVE key[s[i]] <= key[l]
    OBVIOUS
  <2>1. i \notin later
    BY <1>1, <1>4, <1>8
  <2>2. key[s[i]] \in Int /\ ~(key[l] < key[s[i]])
    BY <1>1, <1>6, <2>1
  <2> QED
    BY <1>3, <2>2
<1>10. \A i \in 1..Len(s) : at <= i => key[l] <= key[s[i]]
  <2> SUFFICES ASSUME NEW i \in 1..Len(s), at <= i PROVE key[l] <= key[s[i]]
    OBVIOUS
  <2>1. at \in 1..Len(s) /\ key[l] < key[s[at]]
    BY <1>1, <1>4, <1>5, <1>6, <1>8
  <2>2. key[s[at]] <= key[s[i]]
    BY <1>1, <2>1 DEF InOrder
  <2> QED
    BY <1>1, <1>3, <2>1, <2>2
<1> DEFINE t == InsertAt(s, at, l)
<1>11. /\ t \in Seq(R) /\ Len(t) = Len(s) + 1
       /\ \A i \in 1..(Len(s) + 1) : t[i] = IF i < at THEN s[i] ELSE IF i = at THEN l ELSE s[i - 1]
  BY <1>8, InsertAtShape
<1> HIDE DEF t
<1>12. ASSUME NEW i \in DOMAIN t, NEW j \in DOMAIN t, i < j PROVE key[t[i]] <= key[t[j]]
  <2>1. i \in 1..(Len(s) + 1) /\ j \in 1..(Len(s) + 1)
    BY <1>1, <1>11
  <2>2. CASE j < at
    <3>1. t[i] = s[i] /\ t[j] = s[j] /\ i \in DOMAIN s /\ j \in DOMAIN s
      BY <1>1, <1>8, <1>11, <1>12, <2>1, <2>2
    <3> QED
      BY <3>1, <1>12 DEF InOrder
  <2>3. CASE j = at
    <3>1. t[i] = s[i] /\ t[j] = l /\ i \in 1..Len(s) /\ i < at
      BY <1>1, <1>8, <1>11, <1>12, <2>1, <2>3
    <3> QED
      BY <3>1, <1>9
  <2>4. CASE j > at
    <3>1. t[j] = s[j - 1] /\ j - 1 \in 1..Len(s) /\ at <= j - 1
      BY <1>1, <1>8, <1>11, <2>1, <2>4
    <3>2. CASE i < at
      <4>1. t[i] = s[i] /\ i \in 1..Len(s) /\ i < j - 1
        BY <1>1, <1>8, <1>11, <2>1, <2>4, <3>2
      <4> QED
        BY <1>1, <3>1, <4>1 DEF InOrder
    <3>3. CASE i = at
      <4>1. t[i] = l
        BY <1>11, <2>1, <3>3
      <4> QED
        BY <1>10, <3>1, <4>1
    <3>4. CASE i > at
      <4>1. t[i] = s[i - 1] /\ i - 1 \in 1..Len(s) /\ i - 1 < j - 1
        BY <1>1, <1>8, <1>11, <1>12, <2>1, <3>4
      <4> QED
        BY <1>1, <3>1, <4>1 DEF InOrder
    <3> QED
      BY <1>8, <2>1, <3>2, <3>3, <3>4
  <2> QED
    BY <1>8, <2>1, <2>2, <2>3, <2>4
<1>13. InOrder(t, key)
  BY <1>12 DEF InOrder
<1> QED
  BY <1>2, <1>8, <1>11, <1>13 DEF t

\* The sides of a book, sorted so far.
SortedBy(R, key) == {s \in Seq(R) : InOrder(s, key)}

\* f[k] has the first k levels, sorted.
SortedUpTo(levels, R, key, f) ==
  /\ f \in [0..Len(levels) -> SortedBy(R, key)] /\ f[0] = <<>>
  /\ \A k \in 1..Len(levels) : f[k] = PlaceBy(f[k - 1], levels[k], key)

\* A sort goes through the rows one by one.
LEMMA SortTrace ==
  ASSUME NEW R, NEW key, Numbers(key, R), NEW levels \in Seq(R)
  PROVE  \E f : SortedUpTo(levels, R, key, f) /\ StableSort(levels, key) = f[Len(levels)]
<1> DEFINE n == Len(levels)
           T == SortedBy(R, key)
           step == [p \in T \X Nat |-> IF p[2] \in 1..n THEN PlaceBy(p[1], levels[p[2]], key) ELSE p[1]]
           Eq(iter) == iter = [s \in SUBSET DOMAIN levels |->
                         IF s = {} THEN <<>> ELSE PlaceBy(iter[s \ {Max(s)}], levels[Max(s)], key)]
           chosen == CHOOSE iter : Eq(iter)
<1>1. n \in Nat /\ DOMAIN levels = 1..n /\ \A k \in 1..n : levels[k] \in R
  OBVIOUS
<1>2. StableSort(levels, key) = chosen[DOMAIN levels]
  BY DEF StableSort, PlaceBy, PlaceOf, FoldLeft, MapThenFoldSet
<1>3. ASSUME NEW x \in T, NEW l \in R PROVE PlaceBy(x, l, key) \in T
  <2>1. x \in Seq(R) /\ InOrder(x, key)
    BY DEF SortedBy
  <2> QED
    BY <2>1, PlaceBySorts DEF SortedBy
<1>4. step \in [T \X Nat -> T]
  <2> HIDE DEF T
  <2> QED
    BY <1>1, <1>3
<1>5. <<>> \in T
  BY DEF SortedBy, InOrder
<1>6. ASSUME NEW x \in T, NEW k \in 1..n PROVE step[<<x, k>>] = PlaceBy(x, levels[k], key)
  BY <1>1
<1> HIDE DEF step, n, T
<1>7. PICK iter \in [SUBSET (1..n) -> T] : Folds(iter, <<>>, step, n)
  BY <1>1, <1>4, <1>5, FoldExists
<1>8. Eq(iter)
  <2>1. ASSUME NEW s \in SUBSET (1..n), s # {}
        PROVE  step[<<iter[s \ {Max(s)}], Max(s)>>] = PlaceBy(iter[s \ {Max(s)}], levels[Max(s)], key)
    <3>1. Max(s) \in 1..n
      BY <2>1, <1>1, MaxOf
    <3>2. iter[s \ {Max(s)}] \in T
      BY <1>7
    <3> QED
      BY <3>1, <3>2, <1>6
  <2> QED
    BY <1>1, <1>7, <2>1 DEF Folds
<1>9. Eq(chosen)
  BY <1>8
<1> HIDE DEF chosen
<1>10. StepsLikeFold(chosen, T, <<>>, step, n)
  <2>1. chosen[{}] = <<>>
    BY <1>9
  <2>2. ASSUME NEW s \in SUBSET (1..n), s # {}, chosen[s \ {Max(s)}] \in T
        PROVE  chosen[s] = step[<<chosen[s \ {Max(s)}], Max(s)>>]
    <3>1. Max(s) \in 1..n
      BY <2>2, <1>1, MaxOf
    <3>2. chosen[s] = PlaceBy(chosen[s \ {Max(s)}], levels[Max(s)], key)
      BY <1>1, <1>9, <2>2
    <3> QED
      BY <3>1, <3>2, <2>2, <1>6
  <2> QED
    BY <1>1, <1>4, <1>5, <2>1, <2>2 DEF StepsLikeFold
<1> HIDE DEF Eq
<1>11. PICK f : Traces(f, T, <<>>, step, n) /\ f[n] = chosen[1..n]
  BY <1>10, FoldTraces
<1>12. SortedUpTo(levels, R, key, f)
  <2>1. f \in [0..n -> T] /\ f[0] = <<>>
    BY <1>11 DEF Traces
  <2>2. ASSUME NEW k \in 1..n PROVE f[k] = PlaceBy(f[k - 1], levels[k], key)
    <3>1. f[k] = step[<<f[k - 1], k>>] /\ f[k - 1] \in T
      BY <1>1, <1>11, <2>1 DEF Traces
    <3> QED
      BY <1>1, <1>3, <1>6, <3>1
  <2> QED
    BY <2>1, <2>2 DEF SortedUpTo, n, T
<1> QED
  BY <1>1, <1>2, <1>11, <1>12 DEF n

\* The asks are sorted.
LEMMA AsksSorted ==
  ASSUME NEW R \in SUBSET Level, NEW levels \in Seq(R)
  PROVE  /\ StableSort(levels, ByPrice) \in Seq(R)
         /\ Ascending(StableSort(levels, ByPrice))
<1>0. Numbers(ByPrice, R)
  BY KeysType DEF Numbers
<1>1. PICK f : SortedUpTo(levels, R, ByPrice, f) /\ StableSort(levels, ByPrice) = f[Len(levels)]
  BY <1>0, SortTrace
<1> DEFINE sorted == StableSort(levels, ByPrice)
<1>2. sorted \in Seq(R) /\ InOrder(sorted, ByPrice)
  BY <1>1 DEF SortedUpTo, SortedBy
<1> HIDE DEF sorted
<1>3. \A i \in DOMAIN sorted : ByPrice[sorted[i]] = sorted[i].price
  BY <1>2, KeysType
<1>4. Ascending(sorted)
  BY <1>2, <1>3 DEF InOrder, Ascending
<1> QED
  BY <1>2, <1>4 DEF sorted

-----------------------------------------------------------------------------
\* What a walk has taken after k levels of depth d.
Taken(quantity, d, k) == Smaller(quantity, d[k])

\* What the k-th level adds to the cost.
LevelCosts(levels, quantity, f, d, k) ==
  /\ levels[k].price \in Nat /\ d[k] \in Nat /\ d[k - 1] \in Nat /\ d[k - 1] <= d[k]
  /\ f[k].cost \in Nat /\ f[k - 1].cost \in Nat
  /\ Taken(quantity, d, k) - Taken(quantity, d, k - 1) \in Nat
  /\ f[k].cost = f[k - 1].cost +
       (Taken(quantity, d, k) - Taken(quantity, d, k - 1)) * levels[k].price

\* Each level costs its price for each share taken of it.
LEMMA WalkCosts ==
  ASSUME NEW levels \in Seq(Level), NEW quantity \in Nat, NEW f, NEW d,
         TakenUpTo(levels, quantity, f), DepthUpTo(levels, d)
  PROVE  \A k \in 1..Len(levels) : LevelCosts(levels, quantity, f, d, k)
<1> SUFFICES ASSUME NEW k \in 1..Len(levels) PROVE LevelCosts(levels, quantity, f, d, k)
  OBVIOUS
<1> DEFINE was == f[k - 1]
           l == levels[k]
           take == Smaller(was.remaining, l.size)
<1>1. k \in 0..Len(levels) /\ k - 1 \in 0..Len(levels) /\ l \in Level
  OBVIOUS
<1>2. /\ was.remaining = quantity - Smaller(quantity, d[k - 1])
      /\ f[k].remaining = quantity - Smaller(quantity, d[k])
  BY <1>1, WalkTakes
<1>3. d[k] = d[k - 1] + l.size /\ d[k] \in Nat /\ d[k - 1] \in Nat
  BY <1>1 DEF DepthUpTo
<1>4. f[k] = TakeFrom(was, l) /\ was \in Walking(quantity) /\ f[k] \in Walking(quantity)
  BY <1>1 DEF TakenUpTo
<1>5. l.price \in Nat /\ l.size \in Nat
  BY <1>1 DEF Level
<1>6. was.cost \in Nat /\ f[k].cost \in Nat
  BY <1>4 DEF Walking
<1>7. f[k].cost = IF was.remaining = 0 THEN was.cost ELSE was.cost + take * l.price
  BY <1>4 DEF TakeFrom
<1> HIDE DEF was, l
<1>8. Smaller(quantity, d[k]) - Smaller(quantity, d[k - 1]) = IF was.remaining = 0 THEN 0 ELSE take
  BY <1>2, <1>3, <1>5 DEF Smaller
<1>9. Smaller(quantity, d[k]) - Smaller(quantity, d[k - 1]) \in Nat /\ d[k - 1] <= d[k]
  BY <1>3, <1>5 DEF Smaller
<1>10. 0 * l.price = 0
  BY <1>5
<1>11. f[k].cost = was.cost + (Smaller(quantity, d[k]) - Smaller(quantity, d[k - 1])) * l.price
  BY <1>6, <1>7, <1>8, <1>10
<1> QED
  BY <1>3, <1>5, <1>6, <1>9, <1>11 DEF LevelCosts, Taken, was, l

\* A larger factor makes a larger product.
LEMMA ProductGrows ==
  ASSUME NEW m \in Nat, NEW j \in Nat, NEW k \in Nat, j <= k
  PROVE  m * j <= m * k
  OBVIOUS

\* On sorted levels no share cost more than the next level would.
LEMMA NextIsDearer ==
  ASSUME NEW levels \in Seq(Level), Ascending(levels), NEW quantity \in Nat, NEW f, NEW d,
         TakenUpTo(levels, quantity, f), DepthUpTo(levels, d)
  PROVE  \A k \in 1..Len(levels) :
           f[k - 1].cost <= Taken(quantity, d, k - 1) * levels[k].price
<1>1. Len(levels) \in Nat
  OBVIOUS
<1> DEFINE S == {k \in Nat : k + 1 <= Len(levels) =>
                   f[k].cost <= Taken(quantity, d, k) * levels[k + 1].price}
<1>2. 0 \in S
  <2> SUFFICES ASSUME 1 <= Len(levels)
               PROVE  f[0].cost <= Taken(quantity, d, 0) * levels[1].price
    OBVIOUS
  <2>1. f[0].cost = 0 /\ d[0] = 0
    BY DEF TakenUpTo, DepthUpTo
  <2>2. Taken(quantity, d, 0) = 0
    BY <2>1 DEF Taken, Smaller
  <2>3. levels[1] \in Level
    BY <1>1
  <2>4. levels[1].price \in Nat
    BY <2>3 DEF Level
  <2> QED
    BY <2>1, <2>2, <2>4
<1>3. ASSUME NEW k \in Nat, k \in S PROVE k + 1 \in S
  <2> SUFFICES ASSUME k + 2 <= Len(levels)
               PROVE  f[k + 1].cost <= Taken(quantity, d, k + 1) * levels[k + 2].price
    OBVIOUS
  <2> DEFINE a == Taken(quantity, d, k)
             b == Taken(quantity, d, k + 1)
             p == levels[k + 1].price
             r == levels[k + 2].price
  <2>1. /\ k + 1 \in 1..Len(levels) /\ k + 2 \in 1..Len(levels) /\ (k + 1) - 1 = k
        /\ (k + 2) - 1 = k + 1
    BY <1>1
  <2>2. f[k].cost <= a * p
    BY <1>3, <2>1
  <2>3. /\ p \in Nat /\ d[k] \in Nat /\ f[k].cost \in Nat /\ b - a \in Nat
        /\ f[k + 1].cost = f[k].cost + (b - a) * p /\ d[k + 1] \in Nat
    <3>1. LevelCosts(levels, quantity, f, d, k + 1)
      BY <2>1, WalkCosts
    <3> QED
      BY <2>1, <3>1 DEF LevelCosts
  <2>4. r \in Nat /\ p <= r
    <3>1. LevelCosts(levels, quantity, f, d, k + 2)
      BY <2>1, WalkCosts
    <3>2. p <= r
      BY <2>1 DEF Ascending
    <3> QED
      BY <3>1, <3>2 DEF LevelCosts
  <2>5. a \in Nat /\ b \in Nat
    BY <2>3 DEF Taken, Smaller
  <2> HIDE DEF a, b, p, r
  <2>6. (b - a) * p = b * p - a * p /\ b * p \in Nat /\ a * p \in Nat
    BY <2>3, <2>5
  <2>7. f[k + 1].cost <= b * p
    BY <2>2, <2>3, <2>6
  <2>8. b * p <= b * r /\ b * r \in Nat
    BY <2>3, <2>4, <2>5, ProductGrows
  <2> QED
    BY <2>3, <2>6, <2>7, <2>8 DEF b, r
<1> HIDE DEF S
<1>4. Nat \subseteq S
  BY <1>2, <1>3, SetInduction
<1>5. ASSUME NEW k \in 1..Len(levels)
      PROVE  f[k - 1].cost <= Taken(quantity, d, k - 1) * levels[k].price
  <2>1. k - 1 \in Nat /\ (k - 1) + 1 = k /\ k - 1 \in S /\ k <= Len(levels)
    BY <1>1, <1>4
  <2> QED
    BY <2>1 DEF S
<1> QED
  BY <1>5

\* Two walks that cost the same so far: the one that takes less pays no more a share.
LEMMA ShorterStep ==
  ASSUME NEW c \in Nat, NEW t \in Nat, NEW p \in Nat, NEW less \in Nat, NEW more \in Nat,
         less <= more, c <= t * p
  PROVE  (c + less * p) * (t + more) <= (c + more * p) * (t + less)
<1>1. PICK a \in Nat : more = less + a
  <2>1. more - less \in Nat /\ more = less + (more - less)
    OBVIOUS
  <2> QED
    BY <2>1
<1>2. a * c <= a * (t * p)
  BY ProductGrows
<1>3. (c + more * p) * (t + less) - (c + less * p) * (t + more) = a * (t * p) - a * c
  BY <1>1
<1> DEFINE x == (c + more * p) * (t + less)
           y == (c + less * p) * (t + more)
           u == a * (t * p)
           v == a * c
<1>4. x \in Int /\ y \in Int /\ u \in Int /\ v \in Int /\ v <= u /\ x - y = u - v
  BY <1>2, <1>3
<1> HIDE DEF x, y, u, v
<1>5. y <= x
  BY <1>4
<1> QED
  BY <1>5 DEF x, y

\* A walk that goes on at no lower a price than another one paid.
LEMMA LongerStep ==
  ASSUME NEW c \in Nat, NEW k \in Nat, NEW p \in Nat, NEW cost \in Nat, NEW t \in Nat,
         NEW more \in Nat, cost * t <= c * k, cost <= k * p
  PROVE  cost * (t + more) <= (c + more * p) * k
<1>1. more * cost <= more * (k * p)
  BY ProductGrows
<1>2. cost * (t + more) = cost * t + more * cost
  OBVIOUS
<1>3. (c + more * p) * k = c * k + more * (k * p)
  OBVIOUS
<1> DEFINE x == cost * t
           y == more * cost
           u == c * k
           v == more * (k * p)
<1>4. x \in Int /\ y \in Int /\ u \in Int /\ v \in Int /\ x <= u /\ y <= v
  BY <1>1
<1> HIDE DEF x, y, u, v
<1>5. x + y <= u + v
  BY <1>4
<1> QED
  BY <1>2, <1>3, <1>5 DEF x, y, u, v

\* The average price of a walk for less is no higher, level by level.
Cheaper(f, g, more, less, d, k) ==
  /\ d[k] <= less => f[k].cost = g[k].cost
  /\ g[k].cost * Taken(more, d, k) <= f[k].cost * Taken(less, d, k)

\* One level more leaves the smaller walk no dearer on average than the larger.
LEMMA CheaperStep ==
  ASSUME NEW levels \in Seq(Level), Ascending(levels), NEW more \in Nat, NEW less \in Nat,
         less <= more, NEW f, NEW g, NEW d, NEW k \in 1..Len(levels),
         TakenUpTo(levels, more, f), TakenUpTo(levels, less, g), DepthUpTo(levels, d),
         Cheaper(f, g, more, less, d, k - 1)
  PROVE  Cheaper(f, g, more, less, d, k)
<1> DEFINE p == levels[k].price
           F == Taken(more, d, k - 1)
           G == Taken(less, d, k - 1)
           A == Taken(more, d, k) - F
           B == Taken(less, d, k) - G
           cf == f[k - 1].cost
           cg == g[k - 1].cost
<1>1. LevelCosts(levels, more, f, d, k) /\ LevelCosts(levels, less, g, d, k)
  BY WalkCosts
<1>2. cf <= F * p /\ cg <= G * p
  BY NextIsDearer
<1>3. /\ p \in Nat /\ d[k] \in Nat /\ d[k - 1] \in Nat /\ d[k - 1] <= d[k]
      /\ cf \in Nat /\ cg \in Nat /\ A \in Nat /\ B \in Nat
  BY <1>1 DEF LevelCosts
<1>4. f[k].cost = cf + A * p /\ g[k].cost = cg + B * p
  BY <1>1 DEF LevelCosts
<1>5. F = Smaller(more, d[k - 1]) /\ G = Smaller(less, d[k - 1]) /\ F \in Nat /\ G \in Nat
  BY <1>3 DEF Taken, Smaller
<1>6. /\ Taken(more, d, k) = Smaller(more, d[k]) /\ Taken(more, d, k) \in Nat
      /\ Taken(less, d, k) = Smaller(less, d[k]) /\ Taken(less, d, k) \in Nat
  BY <1>3 DEF Taken, Smaller
<1>7. Taken(more, d, k) = F + A /\ Taken(less, d, k) = G + B
  <2> HIDE DEF F, G
  <2> QED
    BY <1>5, <1>6
<1>8. (d[k - 1] <= less => cf = cg) /\ cg * F <= cf * G
  BY DEF Cheaper
<1> HIDE DEF p, F, G, A, B, cf, cg
<1>9. F + A = Smaller(more, d[k]) /\ G + B = Smaller(less, d[k])
  BY <1>6, <1>7
<1>10. d[k] <= less => f[k].cost = g[k].cost
  <2> SUFFICES ASSUME d[k] <= less PROVE f[k].cost = g[k].cost
    OBVIOUS
  <2>1. F = G /\ F + A = G + B
    BY <1>3, <1>5, <1>9 DEF Smaller
  <2>2. A = B
    BY <1>3, <1>5, <2>1
  <2>3. cf = cg
    BY <1>3, <1>8
  <2> QED
    BY <1>4, <2>2, <2>3
<1>11. (cg + B * p) * (F + A) <= (cf + A * p) * (G + B)
  <2>1. CASE d[k - 1] <= less
    <3>1. cf = cg /\ F = G
      BY <1>3, <1>5, <1>8, <2>1 DEF Smaller
    <3>2. G + B <= F + A
      BY <1>3, <1>9 DEF Smaller
    <3>3. B <= A
      BY <1>3, <1>5, <3>1, <3>2
    <3>4. (cg + B * p) * (G + A) <= (cg + A * p) * (G + B)
      BY <1>2, <1>3, <1>5, <3>3, ShorterStep
    <3> QED
      BY <3>1, <3>4
  <2>2. CASE ~(d[k - 1] <= less)
    <3>1. G = less /\ G + B = less
      BY <1>3, <1>5, <1>9, <2>2 DEF Smaller
    <3>2. B = 0
      BY <1>3, <1>5, <3>1
    <3>3. B * p = 0 /\ cg + B * p = cg /\ G + B = G
      BY <1>3, <1>5, <3>2
    <3>4. cg * (F + A) <= (cf + A * p) * G
      BY <1>2, <1>3, <1>5, <1>8, LongerStep
    <3> QED
      BY <3>3, <3>4
  <2> QED
    BY <2>1, <2>2
<1> QED
  BY <1>4, <1>7, <1>10, <1>11 DEF Cheaper

\* On sorted levels a smaller quantity pays no higher average price.
LEMMA SmallerWalk ==
  ASSUME NEW levels \in Seq(Level), Ascending(levels), NEW more \in Nat, NEW less \in Nat,
         less <= more, WalkQuantity(levels, more).full
  PROVE  /\ WalkQuantity(levels, less).full
         /\ WalkQuantity(levels, less).cost * more <= WalkQuantity(levels, more).cost * less
<1> DEFINE n == Len(levels)
<1>1. PICK f : /\ TakenUpTo(levels, more, f)
               /\ WalkQuantity(levels, more) =
                     [quantity |-> more - f[n].remaining, cost |-> f[n].cost,
                      full |-> f[n].remaining = 0, consumed |-> f[n].consumed]
  BY WalkTrace
<1>2. PICK g : /\ TakenUpTo(levels, less, g)
               /\ WalkQuantity(levels, less) =
                     [quantity |-> less - g[n].remaining, cost |-> g[n].cost,
                      full |-> g[n].remaining = 0, consumed |-> g[n].consumed]
  BY WalkTrace
<1>3. PICK d : DepthUpTo(levels, d) /\ Depth(levels) = d[n]
  BY DepthTrace
<1>4. Len(levels) \in Nat
  OBVIOUS
<1> DEFINE S == {k \in Nat : k <= Len(levels) => Cheaper(f, g, more, less, d, k)}
<1>5. 0 \in S
  <2>1. f[0].cost = 0 /\ g[0].cost = 0 /\ d[0] = 0
    BY <1>1, <1>2, <1>3 DEF TakenUpTo, DepthUpTo
  <2>2. Taken(more, d, 0) = 0 /\ Taken(less, d, 0) = 0
    BY <2>1 DEF Taken, Smaller
  <2>3. Cheaper(f, g, more, less, d, 0)
    BY <2>1, <2>2 DEF Cheaper
  <2> QED
    BY <2>3
<1>6. ASSUME NEW k \in Nat, k \in S PROVE k + 1 \in S
  <2>1. CASE k + 1 <= Len(levels)
    <3> DEFINE j == k + 1
    <3>1. j \in 1..Len(levels) /\ j - 1 = k /\ Cheaper(f, g, more, less, d, k)
      BY <1>4, <1>6, <2>1
    <3> HIDE DEF j
    <3>2. Cheaper(f, g, more, less, d, j)
      BY <1>1, <1>2, <1>3, <3>1, CheaperStep
    <3> QED
      BY <3>2 DEF j
  <2> QED
    BY <1>4, <2>1
<1> HIDE DEF S
<1>7. n \in S
  BY <1>4, <1>5, <1>6, SetInduction
<1>8. Cheaper(f, g, more, less, d, n)
  BY <1>4, <1>7 DEF S
<1>9. (WalkQuantity(levels, less).full <=> less <= d[n]) /\ more <= d[n]
  BY <1>3, WalkType
<1>10. d[n] \in Nat
  BY <1>3, DepthType
<1>11. less <= d[n] /\ Taken(more, d, n) = more /\ Taken(less, d, n) = less
  BY <1>9, <1>10 DEF Taken, Smaller
<1>12. WalkQuantity(levels, less).cost = g[n].cost /\ WalkQuantity(levels, more).cost = f[n].cost
  BY <1>1, <1>2
<1> HIDE DEF n
<1> QED
  BY <1>8, <1>9, <1>11, <1>12 DEF Cheaper

-----------------------------------------------------------------------------
\* f[k] spends like a walk as far as it goes; a level it left short is too dear.
SpendsInOrder(levels, f, d, k) ==
  /\ \A i \in 0..k : f[i].quantity = Taken(f[k].quantity, d, i)
  /\ f[k].quantity < d[k] => k \in 1..Len(levels) /\ f[k].remaining < levels[k].price

\* The levels of a book: all have a price and a size.
Offers == {l \in Level : l.price > 0 /\ l.size > 0}

\* A sum of depths grows.
LEMMA DepthGrows ==
  ASSUME NEW levels \in Seq(Level), NEW d, DepthUpTo(levels, d), NEW k \in 0..Len(levels)
  PROVE  \A i \in 0..k : d[i] \in Nat /\ d[i] <= d[k]
<1>1. Len(levels) \in Nat /\ k \in Nat /\ k <= Len(levels)
  OBVIOUS
<1> DEFINE S == {j \in Nat : j <= k => \A i \in 0..j : d[i] \in Nat /\ d[i] <= d[j]}
<1>2. 0 \in S
  BY <1>1 DEF DepthUpTo
<1>3. ASSUME NEW j \in Nat, j \in S PROVE j + 1 \in S
  <2>1. CASE j + 1 <= k
    <3>1. j + 1 \in 1..Len(levels) /\ (j + 1) - 1 = j /\ levels[j + 1] \in Level
      BY <1>1, <2>1
    <3>2. d[j + 1] = d[j] + levels[j + 1].size /\ levels[j + 1].size \in Nat
      BY <3>1 DEF DepthUpTo, Level
    <3>3. \A i \in 0..j : d[i] \in Nat /\ d[i] <= d[j]
      BY <1>3, <2>1, <1>1
    <3>4. d[j] \in Nat
      BY <3>3
    <3>5. \A i \in 0..(j + 1) : d[i] \in Nat /\ d[i] <= d[j + 1]
      <4> SUFFICES ASSUME NEW i \in 0..(j + 1) PROVE d[i] \in Nat /\ d[i] <= d[j + 1]
        OBVIOUS
      <4>1. CASE i = j + 1
        BY <3>2, <3>4, <4>1
      <4>2. CASE i \in 0..j
        BY <3>2, <3>3, <3>4, <4>2
      <4> QED
        BY <4>1, <4>2
    <3> QED
      BY <3>5
  <2> QED
    BY <1>1, <2>1
<1> HIDE DEF S
<1>4. k \in S
  BY <1>1, <1>2, <1>3, SetInduction
<1> QED
  BY <1>1, <1>4 DEF S

\* One turn buys what the level has, or what the budget pays of it.
LEMMA SpendCosts ==
  ASSUME NEW levels \in Seq(Offers), NEW budget \in Nat, NEW f, NEW k \in 1..Len(levels),
         SpentUpTo(levels, budget, f)
  PROVE  LET p == levels[k].price
             left == f[k - 1].remaining
             take == f[k].quantity - f[k - 1].quantity
         IN  /\ p \in Nat /\ p > 0 /\ levels[k].size \in Nat /\ left \in 0..budget
             /\ f[k - 1].quantity \in Nat /\ f[k].quantity \in Nat
             /\ take = Smaller(left \div p, levels[k].size)
             /\ f[k].remaining = left - take * p
<1> DEFINE l == levels[k]
           p == l.price
           was == f[k - 1]
           left == was.remaining
           take == Smaller(left \div p, l.size)
<1>1. k - 1 \in 0..Len(levels) /\ k \in 0..Len(levels) /\ l \in Offers
  OBVIOUS
<1>2. p \in Nat /\ p > 0 /\ l.size \in Nat
  BY <1>1 DEF Offers, Level
<1>3. was \in Spending(budget) /\ f[k] \in Spending(budget) /\ f[k] = SpendOn(was, l)
  BY <1>1 DEF SpentUpTo
<1>4. left \in 0..budget /\ was.quantity \in Nat /\ f[k].quantity \in Nat
  BY <1>3 DEF Spending
<1>5. f[k] = IF left = 0 \/ p = 0 THEN was
             ELSE [remaining |-> left - take * p, quantity |-> was.quantity + take,
                   consumed |-> was.consumed + 1]
  BY <1>3 DEF SpendOn
<1> HIDE DEF l, p, was, left
<1>6. left = 0 => take = 0
  <2>1. 0 \div p = 0
    BY <1>2
  <2> QED
    BY <1>2, <2>1 DEF Smaller
<1>7. left \div p \in Nat /\ take \in Nat
  <2>1. left \div p \in Nat
    BY <1>2, <1>4
  <2> QED
    BY <1>2, <2>1 DEF Smaller
<1> HIDE DEF take
<1>8. f[k].quantity = was.quantity + take /\ f[k].remaining = left - take * p
  <2>1. CASE left = 0
    <3>1. f[k] = was /\ take = 0 /\ take * p = 0
      BY <1>2, <1>5, <1>6, <2>1
    <3> QED
      BY <1>4, <3>1 DEF left
  <2>2. CASE left # 0
    BY <1>2, <1>5, <2>2
  <2> QED
    BY <2>1, <2>2
<1>9. f[k].quantity - was.quantity = take
  BY <1>4, <1>7, <1>8
<1> QED
  BY <1>2, <1>4, <1>8, <1>9 DEF l, p, was, left, take

\* What a division leaves over is less than the divisor; a smaller number has no quotient.
LEMMA Remainder ==
  ASSUME NEW m \in Nat, NEW k \in Nat, k > 0
  PROVE  \E j \in Nat : j = m \div k /\ j * k <= m /\ m - j * k < k /\ (m < k => j = 0)
<1>1. m \div k \in Nat /\ (m \div k) * k <= m /\ m - (m \div k) * k < k
  OBVIOUS
<1>2. m < k => m \div k = 0
  OBVIOUS
<1> QED
  BY <1>1, <1>2

\* One level more: a walk for a budget takes what a walk in order does.
LEMMA SpendsInOrderStep ==
  ASSUME NEW levels \in Seq(Offers), Ascending(levels), NEW budget \in Nat, NEW f, NEW d,
         SpentUpTo(levels, budget, f), DepthUpTo(levels, d), NEW k \in 1..Len(levels),
         SpendsInOrder(levels, f, d, k - 1)
  PROVE  SpendsInOrder(levels, f, d, k)
<1> DEFINE p == levels[k].price
           size == levels[k].size
           left == f[k - 1].remaining
           q == f[k - 1].quantity
           take == f[k].quantity - q
<1>0. levels \in Seq(Level)
  <2>1. Offers \subseteq Level
    BY DEF Offers
  <2> QED
    BY <2>1, SeqMonotonic
<1>1. /\ p \in Nat /\ p > 0 /\ size \in Nat /\ left \in 0..budget
      /\ q \in Nat /\ f[k].quantity \in Nat
      /\ take = Smaller(left \div p, size)
      /\ f[k].remaining = left - take * p
  BY SpendCosts
<1>2. d[k] = d[k - 1] + size
  BY DEF DepthUpTo
<1>3. \A i \in 0..k : d[i] \in Nat /\ d[i] <= d[k]
  BY <1>0, DepthGrows
<1>4. k - 1 \in 0..Len(levels) /\ k - 1 \in 0..(k - 1) /\ k - 1 \in 0..k /\ k \in Nat /\ k \in 0..k
  OBVIOUS
<1>5. \A i \in 0..(k - 1) : d[i] \in Nat /\ d[i] <= d[k - 1]
  <2> DEFINE j == k - 1
  <2>1. j \in 0..Len(levels)
    BY <1>4
  <2> HIDE DEF j
  <2>2. \A i \in 0..j : d[i] \in Nat /\ d[i] <= d[j]
    BY <1>0, <2>1, DepthGrows
  <2> QED
    BY <2>2 DEF j
<1>6. \A i \in 0..(k - 1) : f[i].quantity = Smaller(q, d[i])
  BY DEF SpendsInOrder, Taken
<1>7. q <= d[k - 1]
  <2>1. q = Smaller(q, d[k - 1])
    BY <1>4, <1>6
  <2> QED
    BY <1>1, <1>4, <1>5, <2>1 DEF Smaller
<1>8. q < d[k - 1] => left < p
  <2> SUFFICES ASSUME q < d[k - 1] PROVE left < p
    OBVIOUS
  <2>1. k - 1 \in 1..Len(levels) /\ left < levels[k - 1].price
    BY DEF SpendsInOrder
  <2>2. levels[k - 1].price <= levels[k].price
    BY <2>1 DEF Ascending
  <2>3. levels[k - 1] \in Level
    BY <1>0, <2>1
  <2>4. levels[k - 1].price \in Nat
    BY <2>3 DEF Level
  <2> QED
    BY <1>1, <2>1, <2>2, <2>4
<1> HIDE DEF p, size, left, q
<1>9. PICK whole \in Nat : /\ whole = left \div p /\ left - whole * p < p
                           /\ left < p => whole = 0
  <2>1. left \in Nat
    BY <1>1
  <2> QED
    BY <1>1, <2>1, Remainder
<1>10. take \in Nat /\ take <= size /\ take = Smaller(whole, size)
  <2>1. take = Smaller(whole, size)
    BY <1>1, <1>9
  <2> HIDE DEF take
  <2> QED
    BY <1>1, <2>1 DEF Smaller
<1>11. f[k].quantity = q + take
  BY <1>1
<1> HIDE DEF take
<1>12. CASE q < d[k - 1]
  <2>1. take = 0 /\ take * p = 0
    BY <1>1, <1>8, <1>9, <1>10, <1>12 DEF Smaller
  <2>2. f[k].quantity = q /\ f[k].remaining = left /\ left < p
    BY <1>1, <1>8, <1>11, <1>12, <2>1
  <2>3. q = Smaller(q, d[k])
    BY <1>1, <1>3, <1>4, <1>12 DEF Smaller
  <2>4. ASSUME NEW i \in 0..k PROVE f[i].quantity = Taken(f[k].quantity, d, i)
    <3>1. i = k \/ i \in 0..(k - 1)
      BY <1>4
    <3> QED
      BY <1>6, <2>2, <2>3, <3>1 DEF Taken
  <2> QED
    BY <2>2, <2>4 DEF SpendsInOrder, p
<1>13. CASE ~(q < d[k - 1])
  <2>1. q = d[k - 1]
    BY <1>1, <1>4, <1>5, <1>7, <1>13
  <2>2. f[k].quantity <= d[k]
    BY <1>1, <1>2, <1>10, <1>11, <2>1
  <2>3. ASSUME NEW i \in 0..k PROVE f[i].quantity = Taken(f[k].quantity, d, i)
    <3>1. CASE i = k
      BY <1>1, <1>3, <1>4, <2>2, <3>1 DEF Taken, Smaller
    <3>2. CASE i \in 0..(k - 1)
      <4>1. f[i].quantity = d[i]
        BY <1>1, <1>5, <1>6, <2>1, <3>2 DEF Smaller
      <4>a. d[i] <= d[k - 1] /\ d[i] \in Nat /\ d[k - 1] \in Nat
        BY <1>1, <1>5, <3>2
      <4>b. f[k].quantity = d[k - 1] + take
        BY <1>11, <2>1
      <4>2. d[i] <= f[k].quantity
        BY <1>10, <4>a, <4>b
      <4> QED
        BY <1>1, <1>5, <3>2, <4>1, <4>2 DEF Taken, Smaller
    <3> QED
      BY <1>4, <3>1, <3>2
  <2>4. f[k].quantity < d[k] => f[k].remaining < p
    <3> SUFFICES ASSUME f[k].quantity < d[k] PROVE f[k].remaining < p
      OBVIOUS
    <3>1. take < size
      BY <1>1, <1>2, <1>10, <1>11, <2>1
    <3>2. take = whole
      BY <1>1, <1>10, <3>1 DEF Smaller
    <3> QED
      BY <1>1, <1>9, <3>2
  <2> QED
    BY <2>3, <2>4 DEF SpendsInOrder, p
<1> QED
  BY <1>12, <1>13

\* An offer is a level.
LEMMA OffersAreLevels ==
  ASSUME NEW levels \in Seq(Offers)
  PROVE  levels \in Seq(Level)
<1>1. Offers \subseteq Level
  BY DEF Offers
<1> QED
  BY <1>1, SeqMonotonic

\* A walk for a budget takes all of a level before any of the next.
LEMMA SpendingInOrder ==
  ASSUME NEW levels \in Seq(Offers), Ascending(levels), NEW budget \in Nat, NEW f, NEW d,
         SpentUpTo(levels, budget, f), DepthUpTo(levels, d)
  PROVE  \A k \in 0..Len(levels) : SpendsInOrder(levels, f, d, k)
<1>1. Len(levels) \in Nat
  OBVIOUS
<1> DEFINE S == {k \in Nat : k <= Len(levels) => SpendsInOrder(levels, f, d, k)}
<1>2. 0 \in S
  <2>1. f[0].quantity = 0 /\ d[0] = 0
    BY DEF SpentUpTo, DepthUpTo
  <2>2. SpendsInOrder(levels, f, d, 0)
    BY <2>1 DEF SpendsInOrder, Taken, Smaller
  <2> QED
    BY <2>2
<1>3. ASSUME NEW k \in Nat, k \in S PROVE k + 1 \in S
  <2>1. CASE k + 1 <= Len(levels)
    <3> DEFINE j == k + 1
    <3>1. j \in 1..Len(levels) /\ j - 1 = k /\ SpendsInOrder(levels, f, d, k)
      BY <1>1, <1>3, <2>1
    <3> HIDE DEF j
    <3>2. SpendsInOrder(levels, f, d, j)
      BY <3>1, SpendsInOrderStep
    <3> QED
      BY <3>2 DEF j
  <2> QED
    BY <1>1, <2>1
<1> HIDE DEF S
<1>4. Nat \subseteq S
  BY <1>2, <1>3, SetInduction
<1> QED
  BY <1>1, <1>4 DEF S

\* What a budget buys costs as much as a walk for that many.
LEMMA SpentLikeWalk ==
  ASSUME NEW levels \in Seq(Offers), Ascending(levels), NEW budget \in Nat, NEW f, NEW d, NEW g, NEW Q,
         SpentUpTo(levels, budget, f), DepthUpTo(levels, d),
         Q = f[Len(levels)].quantity, TakenUpTo(levels, Q, g)
  PROVE  \A k \in 0..Len(levels) : f[k].remaining = budget - g[k].cost
<1> DEFINE n == Len(levels)
<1>1. n \in Nat /\ n \in 0..Len(levels) /\ levels \in Seq(Level)
  BY OffersAreLevels
<1>2. Q \in Nat
  BY <1>1 DEF SpentUpTo, Spending
<1>3. SpendsInOrder(levels, f, d, n)
  BY <1>1, SpendingInOrder
<1>4. \A i \in 0..n : f[i].quantity = Taken(Q, d, i)
  BY <1>3 DEF SpendsInOrder
<1>5. TakenUpTo(levels, Q, g)
  OBVIOUS
<1> DEFINE S == {k \in Nat : k <= n => f[k].remaining = budget - g[k].cost}
<1>6. 0 \in S
  BY <1>5 DEF SpentUpTo, TakenUpTo
<1>7. ASSUME NEW j \in Nat, j \in S PROVE j + 1 \in S
  <2>1. CASE j + 1 <= n
    <3> DEFINE k == j + 1
    <3>1. k \in 1..Len(levels) /\ k - 1 = j /\ f[j].remaining = budget - g[j].cost
          /\ k \in 0..n /\ j \in 0..n
      BY <1>1, <1>7, <2>1
    <3> HIDE DEF k
    <3> DEFINE p == levels[k].price
               take == f[k].quantity - f[k - 1].quantity
    <3>2. /\ f[k].remaining = f[k - 1].remaining - take * p
          /\ f[k].quantity \in Nat /\ f[k - 1].quantity \in Nat /\ p \in Nat
      BY <3>1, SpendCosts
    <3>3. LevelCosts(levels, Q, g, d, k)
      BY <1>1, <1>2, <1>5, <3>1, WalkCosts
    <3>4. g[k].cost = g[k - 1].cost + (Taken(Q, d, k) - Taken(Q, d, k - 1)) * p
          /\ g[k - 1].cost \in Nat
      BY <3>3 DEF LevelCosts
    <3>5. Taken(Q, d, k) - Taken(Q, d, k - 1) = take
      BY <1>4, <3>1
    <3>6. take \in Int
      BY <3>2
    <3> HIDE DEF take, p
    <3>7. f[k].remaining = budget - g[k].cost
      BY <3>1, <3>2, <3>4, <3>5, <3>6
    <3> QED
      BY <3>7 DEF k
  <2> QED
    BY <1>1, <2>1
<1> HIDE DEF S
<1>8. Nat \subseteq S
  BY <1>6, <1>7, SetInduction
<1> QED
  BY <1>1, <1>8 DEF S

\* One more share than a budget buys: the same cost up to where the budget
\* stopped, and more than the budget from there on.
Exceeds(f, g, h, d, Q, budget, k) ==
  /\ d[k] <= Q => h[k].cost = g[k].cost
  /\ d[k] > Q => h[k].cost > budget

\* One share more takes the same of a level within reach, and one more of the level that ends it.
LEMMA TakeOneMore ==
  ASSUME NEW q \in Nat, NEW a \in Nat, NEW b \in Nat, b <= a
  PROVE  /\ a <= q => Smaller(q, a) - Smaller(q, b) = Smaller(q + 1, a) - Smaller(q + 1, b)
         /\ a > q /\ b <= q =>
              /\ Smaller(q + 1, a) - Smaller(q + 1, b) = (Smaller(q, a) - Smaller(q, b)) + 1
              /\ Smaller(q, a) = q
  BY DEF Smaller

\* One level more: what a share more costs is over the budget once it is there.
LEMMA ExceedsStep ==
  ASSUME NEW levels \in Seq(Offers), Ascending(levels), NEW budget \in Nat,
         NEW f, NEW d, NEW g, NEW h, NEW Q, NEW k \in 1..Len(levels),
         SpentUpTo(levels, budget, f), DepthUpTo(levels, d),
         Q = f[Len(levels)].quantity, TakenUpTo(levels, Q, g), TakenUpTo(levels, Q + 1, h),
         Exceeds(f, g, h, d, Q, budget, k - 1)
  PROVE  Exceeds(f, g, h, d, Q, budget, k)
<1>0. \A j \in 0..Len(levels) : f[j].remaining = budget - g[j].cost
  BY SpentLikeWalk
<1> DEFINE n == Len(levels)
           p == levels[k].price
<1>1. n \in Nat /\ n \in 0..Len(levels) /\ levels \in Seq(Level) /\ k \in 0..Len(levels)
  BY OffersAreLevels
<1>2. Q \in Nat /\ Q + 1 \in Nat
  BY <1>1 DEF SpentUpTo, Spending
<1>3. f[k].quantity = Taken(Q, d, k)
  <2>1. SpendsInOrder(levels, f, d, n)
    BY <1>1, SpendingInOrder
  <2> QED
    BY <1>1, <2>1 DEF SpendsInOrder
<1>4. f[k].quantity < d[k] => f[k].remaining < p
  <2>1. SpendsInOrder(levels, f, d, k)
    BY <1>1, SpendingInOrder
  <2> QED
    BY <2>1 DEF SpendsInOrder
<1>5. f[k].remaining = budget - g[k].cost
  BY <1>0, <1>1
<1>6. TakenUpTo(levels, Q, g) /\ TakenUpTo(levels, Q + 1, h) /\ Exceeds(f, g, h, d, Q, budget, k - 1)
  OBVIOUS
<1>7. LevelCosts(levels, Q, g, d, k) /\ LevelCosts(levels, Q + 1, h, d, k)
  BY <1>1, <1>2, <1>6, WalkCosts
<1> DEFINE G == Taken(Q, d, k) - Taken(Q, d, k - 1)
           H == Taken(Q + 1, d, k) - Taken(Q + 1, d, k - 1)
<1>8. /\ p \in Nat /\ d[k] \in Nat /\ d[k - 1] \in Nat /\ d[k - 1] <= d[k]
      /\ g[k].cost \in Nat /\ g[k - 1].cost \in Nat /\ h[k].cost \in Nat /\ h[k - 1].cost \in Nat
      /\ G \in Nat /\ H \in Nat
  BY <1>7 DEF LevelCosts
<1>a. /\ d[k] <= Q => G = H
      /\ d[k] > Q /\ d[k - 1] <= Q => H = G + 1 /\ Taken(Q, d, k) = Q
  <2>1. /\ d[k] <= Q => Smaller(Q, d[k]) - Smaller(Q, d[k - 1]) = Smaller(Q + 1, d[k]) - Smaller(Q + 1, d[k - 1])
        /\ d[k] > Q /\ d[k - 1] <= Q =>
             /\ Smaller(Q + 1, d[k]) - Smaller(Q + 1, d[k - 1]) = (Smaller(Q, d[k]) - Smaller(Q, d[k - 1])) + 1
             /\ Smaller(Q, d[k]) = Q
    <3>1. Q \in Nat /\ d[k] \in Nat /\ d[k - 1] \in Nat /\ d[k - 1] <= d[k]
      BY <1>2, <1>8
    <3> QED
      BY <3>1, TakeOneMore
  <2> QED
    BY <2>1 DEF Taken
<1>9. g[k].cost = g[k - 1].cost + G * p /\ h[k].cost = h[k - 1].cost + H * p
  BY <1>7 DEF LevelCosts
<1> HIDE DEF p
<1>10. CASE d[k] <= Q
  <2>1. G = H
    BY <1>a, <1>10
  <2>2. h[k - 1].cost = g[k - 1].cost
    BY <1>2, <1>6, <1>8, <1>10 DEF Exceeds
  <2> HIDE DEF G, H
  <2>3. h[k].cost = g[k].cost
    BY <1>9, <2>1, <2>2
  <2> QED
    BY <1>2, <1>8, <1>10, <2>3 DEF Exceeds
<1>11. CASE d[k] > Q /\ d[k - 1] <= Q
  <2>1. H = G + 1 /\ Taken(Q, d, k) = Q
    BY <1>a, <1>11
  <2>2. h[k - 1].cost = g[k - 1].cost
    BY <1>6, <1>11 DEF Exceeds
  <2>3. f[k].remaining < p
    BY <1>3, <1>4, <1>11, <2>1 DEF p
  <2> HIDE DEF G, H
  <2>4. H * p = G * p + p
    BY <1>8, <2>1
  <2>5. G * p \in Nat
    BY <1>8
  <2> DEFINE x == G * p
  <2>6. g[k].cost = g[k - 1].cost + x /\ h[k].cost = g[k - 1].cost + (x + p) /\ x \in Nat
    <3>1. g[k].cost = g[k - 1].cost + x
      BY <1>9
    <3>2. h[k].cost = g[k - 1].cost + (x + p)
      BY <1>9, <2>2, <2>4
    <3> QED
      BY <2>5, <3>1, <3>2
  <2> HIDE DEF x
  <2>7. budget - g[k].cost < p
    BY <1>5, <2>3
  <2>8. h[k].cost > budget
    BY <1>8, <2>6, <2>7
  <2> QED
    BY <1>2, <1>8, <1>11, <2>8 DEF Exceeds
<1>12. CASE d[k] > Q /\ d[k - 1] > Q
  <2>1. h[k - 1].cost > budget
    BY <1>6, <1>12 DEF Exceeds
  <2> HIDE DEF G, H
  <2>2. H * p \in Nat
    BY <1>8
  <2>3. h[k].cost > budget
    BY <1>8, <1>9, <2>1, <2>2
  <2> QED
    BY <1>2, <1>8, <1>12, <2>3 DEF Exceeds
<1> QED
  BY <1>2, <1>8, <1>10, <1>11, <1>12

(***************************************************************************)
(* What a budget buys: as many as cost that much, so that one share more   *)
(* would cost more than the budget, as far as there is one more.           *)
(***************************************************************************)
LEMMA BudgetWalk ==
  ASSUME NEW levels \in Seq(Offers), Ascending(levels), NEW budget \in Nat,
         NEW Q, Q = WalkForNotional(levels, budget).quantity
  PROVE  /\ Q \in Nat /\ Q <= Depth(levels)
         /\ WalkQuantity(levels, Q).full
         /\ WalkQuantity(levels, Q).cost = WalkForNotional(levels, budget).cost
         /\ Q + 1 <= Depth(levels) => WalkQuantity(levels, Q + 1).cost > budget
<1> DEFINE n == Len(levels)
<1>1. n \in Nat /\ n \in 0..Len(levels) /\ levels \in Seq(Level)
  BY OffersAreLevels
<1>2. PICK f : /\ SpentUpTo(levels, budget, f)
               /\ WalkForNotional(levels, budget) =
                     [quantity |-> f[n].quantity, cost |-> budget - f[n].remaining,
                      full |-> f[n].remaining = 0, consumed |-> f[n].consumed]
  BY <1>1, SpendTrace
<1>3. PICK d : DepthUpTo(levels, d) /\ Depth(levels) = d[n]
  BY <1>1, DepthTrace
<1>4. Q = f[Len(levels)].quantity
  BY <1>2
<1>5. Q \in Nat /\ Q + 1 \in Nat
  BY <1>1, <1>2, <1>4 DEF SpentUpTo, Spending
<1>6. PICK g : /\ TakenUpTo(levels, Q, g)
               /\ WalkQuantity(levels, Q) =
                     [quantity |-> Q - g[n].remaining, cost |-> g[n].cost,
                      full |-> g[n].remaining = 0, consumed |-> g[n].consumed]
  BY <1>1, <1>5, WalkTrace
<1>7. PICK h : /\ TakenUpTo(levels, Q + 1, h)
               /\ WalkQuantity(levels, Q + 1).cost = h[n].cost
  <2> DEFINE more == Q + 1
  <2>1. more \in Nat
    BY <1>5
  <2> HIDE DEF more
  <2>2. PICK h : /\ TakenUpTo(levels, more, h)
                 /\ WalkQuantity(levels, more) =
                       [quantity |-> more - h[n].remaining, cost |-> h[n].cost,
                        full |-> h[n].remaining = 0, consumed |-> h[n].consumed]
    BY <1>1, <2>1, WalkTrace
  <2>3. TakenUpTo(levels, more, h) /\ WalkQuantity(levels, more).cost = h[n].cost
    BY <2>2
  <2> QED
    BY <2>3 DEF more
<1> DEFINE S == {k \in Nat : k <= n => Exceeds(f, g, h, d, Q, budget, k)}
<1>8. 0 \in S
  <2>1. d[0] = 0 /\ g[0].cost = 0 /\ h[0].cost = 0
    BY <1>3, <1>6, <1>7 DEF DepthUpTo, TakenUpTo
  <2> QED
    BY <1>5, <2>1 DEF Exceeds
<1>9. ASSUME NEW k \in Nat, k \in S PROVE k + 1 \in S
  <2>1. CASE k + 1 <= n
    <3> DEFINE j == k + 1
    <3>1. j \in 1..Len(levels) /\ j - 1 = k /\ Exceeds(f, g, h, d, Q, budget, k)
      BY <1>1, <1>9, <2>1
    <3> HIDE DEF j
    <3>2. Exceeds(f, g, h, d, Q, budget, j)
      BY <1>2, <1>3, <1>4, <1>6, <1>7, <3>1, ExceedsStep
    <3> QED
      BY <3>2 DEF j
  <2> QED
    BY <1>1, <2>1
<1> HIDE DEF S
<1>10. n \in S
  BY <1>1, <1>8, <1>9, SetInduction
<1>11. Exceeds(f, g, h, d, Q, budget, n)
  BY <1>1, <1>10 DEF S
<1>12. f[n].remaining = budget - g[n].cost /\ f[n].remaining \in Int
  <2>1. \A k \in 0..Len(levels) : f[k].remaining = budget - g[k].cost
    BY <1>2, <1>3, <1>4, <1>6, SpentLikeWalk
  <2>2. f[n].remaining \in 0..budget
    BY <1>1, <1>2 DEF SpentUpTo, Spending
  <2> QED
    BY <1>1, <2>1, <2>2
<1>13. g[n].cost \in Nat /\ h[n].cost \in Nat
  BY <1>1, <1>5, <1>6, <1>7 DEF TakenUpTo, Walking
<1>14. Q = Taken(Q, d, n) /\ d[n] \in Nat
  <2>1. SpendsInOrder(levels, f, d, n)
    BY <1>1, <1>2, <1>3, SpendingInOrder
  <2>2. d[n] \in Nat
    BY <1>1, <1>3, DepthType
  <2> QED
    BY <1>1, <1>4, <2>1, <2>2 DEF SpendsInOrder
<1>15. Q <= d[n]
  BY <1>5, <1>14 DEF Taken, Smaller
<1>16. WalkQuantity(levels, Q).full
  BY <1>1, <1>3, <1>5, <1>15, WalkType
<1> HIDE DEF n
<1>17. WalkQuantity(levels, Q).cost = WalkForNotional(levels, budget).cost
  BY <1>2, <1>6, <1>12, <1>13
<1>18. Q + 1 <= d[n] => WalkQuantity(levels, Q + 1).cost > budget
  BY <1>5, <1>7, <1>11, <1>14 DEF Exceeds
<1> QED
  BY <1>3, <1>5, <1>15, <1>16, <1>17, <1>18

-----------------------------------------------------------------------------
(***************************************************************************)
(* Sums over a finite set, in whatever order they take its elements.       *)
(***************************************************************************)
\* Induction over the subsets of a finite set.
LEMMA SubsetInduction ==
  ASSUME NEW S, IsFiniteSet(S), NEW Q, {} \in Q,
         \A T \in SUBSET S : T # {} /\ (\A x \in T : T \ {x} \in Q) => T \in Q
  PROVE  SUBSET S \subseteq Q
<1> DEFINE N == {n \in Nat : \A T \in SUBSET S : Cardinality(T) = n => T \in Q}
<1>1. \A T \in SUBSET S : IsFiniteSet(T) /\ Cardinality(T) \in Nat
  BY FS_Subset, FS_CardinalityType
<1>2. 0 \in N
  BY <1>1, FS_EmptySet
<1>3. ASSUME NEW n \in Nat, n \in N PROVE n + 1 \in N
  <2> SUFFICES ASSUME NEW T \in SUBSET S, Cardinality(T) = n + 1 PROVE T \in Q
    OBVIOUS
  <2>1. T # {}
    BY FS_EmptySet
  <2>2. ASSUME NEW x \in T PROVE T \ {x} \in Q
    <3>1. Cardinality(T \ {x}) = Cardinality(T) - 1
      BY <1>1, FS_RemoveElement
    <3>2. Cardinality(T \ {x}) = n /\ T \ {x} \in SUBSET S
      BY <3>1
    <3> QED
      BY <1>3, <3>2
  <2> QED
    BY <2>1, <2>2
<1> HIDE DEF N
<1>4. Nat \subseteq N
  BY <1>2, <1>3, SetInduction
<1> QED
  BY <1>1, <1>4 DEF N

\* Which element a sum takes first.
First(T) == CHOOSE x \in T : TRUE

\* sums[T] is the sum of f over T, the first element taken first.
SumsOf(sums, f, S) ==
  \A T \in SUBSET S :
    sums[T] = IF T = {} THEN 0 ELSE f[First(T)] + sums[T \ {First(T)}]

\* There is such a table of sums.
LEMMA SumsExist ==
  ASSUME NEW S, IsFiniteSet(S), NEW f, Numbers(f, S)
  PROVE  \E sums \in [SUBSET S -> Int] : SumsOf(sums, f, S)
<1> DEFINE H == [SUBSET S -> Int]
           None == [T \in SUBSET S |-> 0]
           Add(h) == [T \in SUBSET S |->
                        IF T = {} THEN 0 ELSE f[First(T)] + h[T \ {First(T)}]]
           step == [p \in H \X Nat |-> Add(p[1])]
           N == Cardinality(S)
<1>1. \A T \in SUBSET S : /\ IsFiniteSet(T) /\ Cardinality(T) \in Nat
                          /\ Cardinality(T) <= N
  BY FS_Subset, FS_CardinalityType
<1>2. N \in Nat
  BY FS_CardinalityType
<1>3. \A T \in SUBSET S : T # {} => First(T) \in T
  BY DEF First
<1>4. None \in H
  OBVIOUS
<1>5. ASSUME NEW h \in H PROVE Add(h) \in H
  BY <1>3 DEF Numbers
<1>6. step \in [H \X Nat -> H]
  BY <1>5
<1>7. ASSUME NEW h \in H, NEW k \in Nat PROVE step[<<h, k>>] = Add(h)
  OBVIOUS
<1> HIDE DEF None, step, N
<1>8. PICK t : Traces(t, H, None, step, N)
  <2> HIDE DEF H
  <2> QED
    BY <1>2, <1>4, <1>6, TraceExists
<1> DEFINE sums == [T \in SUBSET S |-> t[Cardinality(T)][T]]
<1>9. ASSUME NEW T \in SUBSET S, T # {}
      PROVE  sums[T] = f[First(T)] + sums[T \ {First(T)}]
  <2>1. /\ First(T) \in T /\ T \ {First(T)} \in SUBSET S
        /\ Cardinality(T \ {First(T)}) = Cardinality(T) - 1
    BY <1>1, <1>3, <1>9, FS_RemoveElement
  <2>2. Cardinality(T) # 0
    BY <1>1, <1>9, FS_EmptySet
  <2> DEFINE c == Cardinality(T)
  <2>3. c \in 1..N /\ c \in Nat /\ c - 1 \in 0..N
    BY <1>1, <1>2, <2>2
  <2>4. t[c] = step[<<t[c - 1], c>>] /\ t[c - 1] \in H
    BY <1>8, <2>3 DEF Traces
  <2>5. t[c] = Add(t[c - 1])
    BY <1>7, <2>3, <2>4
  <2>6. t[c][T] = f[First(T)] + t[c - 1][T \ {First(T)}]
    BY <1>9, <2>5
  <2> QED
    BY <2>1, <2>6
<1>10. sums[{}] = 0
  <2>1. t[0] = None /\ Cardinality({}) = 0
    BY <1>8, FS_EmptySet DEF Traces
  <2> QED
    BY <2>1 DEF None
<1>11. sums \in [SUBSET S -> Int]
  <2>1. ASSUME NEW T \in SUBSET S PROVE t[Cardinality(T)][T] \in Int
    <3>1. Cardinality(T) \in 0..N
      BY <1>1, <1>2
    <3>2. t[Cardinality(T)] \in H
      BY <1>8, <3>1 DEF Traces
    <3> QED
      BY <3>2
  <2> QED
    BY <2>1
<1> HIDE DEF sums
<1> QED
  BY <1>9, <1>10, <1>11 DEF SumsOf

\* Two tables of sums agree where their summands do.
LEMMA SumsAgree ==
  ASSUME NEW S, IsFiniteSet(S), NEW f, NEW g, NEW h, NEW k,
         SumsOf(h, f, S), SumsOf(k, g, S), \A x \in S : f[x] = g[x]
  PROVE  \A T \in SUBSET S : h[T] = k[T]
<1> DEFINE Q == {T \in SUBSET S : h[T] = k[T]}
<1>1. {} \in Q
  BY DEF SumsOf
<1>2. ASSUME NEW T \in SUBSET S, T # {}, \A x \in T : T \ {x} \in Q PROVE T \in Q
  <2>1. First(T) \in T /\ f[First(T)] = g[First(T)]
    BY <1>2 DEF First
  <2>2. h[T \ {First(T)}] = k[T \ {First(T)}]
    BY <1>2, <2>1
  <2> QED
    BY <1>2, <2>1, <2>2 DEF SumsOf
<1> HIDE DEF Q
<1>3. SUBSET S \subseteq Q
  BY <1>1, <1>2, SubsetInduction
<1> QED
  BY <1>3 DEF Q

\* SumFunctionOnSet is the last entry of such a table.
LEMMA SumIsLast ==
  ASSUME NEW S, IsFiniteSet(S), NEW f, Numbers(f, S), NEW h, SumsOf(h, f, S)
  PROVE  SumFunctionOnSet(f, S) = h[S]
<1> DEFINE Eq(iter) == iter = [T \in SUBSET S |->
                         IF T = {} THEN 0
                         ELSE f[CHOOSE x \in T : TRUE] + iter[T \ {CHOOSE x \in T : TRUE}]]
           chosen == CHOOSE iter : Eq(iter)
<1>1. SumFunctionOnSet(f, S) = chosen[S]
  BY DEF SumFunctionOnSet, FoldFunctionOnSet, MapThenFoldSet
<1>2. PICK sums \in [SUBSET S -> Int] : SumsOf(sums, f, S)
  BY SumsExist
<1>3. Eq(sums)
  BY <1>2 DEF SumsOf, First
<1>4. Eq(chosen)
  BY <1>3
<1> HIDE DEF chosen
<1>5. SumsOf(chosen, f, S)
  BY <1>4 DEF SumsOf, First
<1>6. chosen[S] = h[S]
  BY <1>5, SumsAgree
<1> QED
  BY <1>1, <1>6

\* What a table of sums says of each subset.
IsTable(h, f, S) ==
  \A T \in SUBSET S :
    /\ h[T] \in Int /\ h[T] = SumFunctionOnSet(f, T)
    /\ T # {} => h[T] = f[First(T)] + h[T \ {First(T)}]

\* One table has the sums over all subsets.
LEMMA SumTable ==
  ASSUME NEW S, IsFiniteSet(S), NEW f, Numbers(f, S)
  PROVE  \E h : IsTable(h, f, S)
<1>1. PICK h \in [SUBSET S -> Int] : SumsOf(h, f, S)
  BY SumsExist
<1>2. ASSUME NEW T \in SUBSET S PROVE h[T] = SumFunctionOnSet(f, T)
  <2>1. IsFiniteSet(T) /\ Numbers(f, T)
    BY FS_Subset DEF Numbers
  <2>2. SumsOf(h, f, T)
    BY <1>1 DEF SumsOf
  <2> QED
    BY <2>1, <2>2, SumIsLast
<1>3. ASSUME NEW T \in SUBSET S
      PROVE  /\ h[T] \in Int
             /\ T # {} => h[T] = f[First(T)] + h[T \ {First(T)}]
  BY <1>1 DEF SumsOf
<1>4. IsTable(h, f, S)
  BY <1>2, <1>3 DEF IsTable
<1> QED
  BY <1>4

\* A sum may start with any element.
StartsWith(h, f, T, x) == h[T] = f[x] + h[T \ {x}]

\* A sum may start with any of its elements.
LEMMA SumsAnyOrder ==
  ASSUME NEW S, IsFiniteSet(S), NEW f, Numbers(f, S), NEW h, IsTable(h, f, S)
  PROVE  \A T \in SUBSET S : \A x \in T : StartsWith(h, f, T, x)
<1> DEFINE Q == {T \in SUBSET S : \A x \in T : StartsWith(h, f, T, x)}
<1>1. {} \in Q
  OBVIOUS
<1>2. ASSUME NEW T \in SUBSET S, T # {}, \A x \in T : T \ {x} \in Q PROVE T \in Q
  <2> SUFFICES ASSUME NEW x \in T PROVE StartsWith(h, f, T, x)
    OBVIOUS
  <2> DEFINE y == First(T)
  <2>1. y \in T /\ StartsWith(h, f, T, y)
    BY <1>2 DEF IsTable, First, StartsWith
  <2> HIDE DEF y
  <2>2. CASE x = y
    BY <2>1, <2>2
  <2>3. CASE x # y
    <3> DEFINE rest == (T \ {x}) \ {y}
    <3>1. StartsWith(h, f, T \ {y}, x) /\ StartsWith(h, f, T \ {x}, y)
      BY <1>2, <2>1, <2>3
    <3>2. (T \ {y}) \ {x} = rest /\ rest \in SUBSET S
      OBVIOUS
    <3>3. h[T \ {y}] = f[x] + h[rest] /\ h[T \ {x}] = f[y] + h[rest]
      BY <3>1, <3>2 DEF StartsWith
    <3>4. f[x] \in Int /\ f[y] \in Int /\ h[rest] \in Int
      BY <2>1, <3>2 DEF Numbers, IsTable
    <3> HIDE DEF rest
    <3>5. h[T] = f[y] + h[T \ {y}]
      BY <2>1 DEF StartsWith
    <3>6. h[T] = f[x] + h[T \ {x}]
      BY <3>3, <3>4, <3>5
    <3> QED
      BY <3>6 DEF StartsWith
  <2> QED
    BY <2>2, <2>3
<1> HIDE DEF Q
<1>3. SUBSET S \subseteq Q
  BY <1>1, <1>2, SubsetInduction
<1> QED
  BY <1>3 DEF Q

\* A sum is a number, and an element without an amount may be left out of it.
LEMMA SumWithout ==
  ASSUME NEW S, IsFiniteSet(S), NEW f, Numbers(f, S), NEW x, x \notin S => f[x] = 0
  PROVE  /\ SumFunctionOnSet(f, S) \in Int /\ SumFunctionOnSet(f, S \ {x}) \in Int
         /\ SumFunctionOnSet(f, S) = f[x] + SumFunctionOnSet(f, S \ {x})
<1>1. PICK h : IsTable(h, f, S)
  BY SumTable
<1>2. S \in SUBSET S /\ S \ {x} \in SUBSET S
  OBVIOUS
<1>3. /\ h[S] \in Int /\ h[S] = SumFunctionOnSet(f, S)
      /\ h[S \ {x}] \in Int /\ h[S \ {x}] = SumFunctionOnSet(f, S \ {x})
  BY <1>1, <1>2 DEF IsTable
<1>4. CASE x \in S
  BY <1>1, <1>2, <1>3, <1>4, SumsAnyOrder DEF StartsWith
<1>5. CASE x \notin S
  <2>1. S \ {x} = S /\ f[x] = 0
    BY <1>5
  <2>2. h[S] = f[x] + h[S]
    BY <1>3, <2>1
  <2>3. h[S] = f[x] + h[S \ {x}]
    BY <2>1, <2>2
  <2> QED
    BY <1>3, <2>3
<1> QED
  BY <1>4, <1>5

\* A sum of numbers is a number.
LEMMA SumType ==
  ASSUME NEW S, IsFiniteSet(S), NEW f, Numbers(f, S)
  PROVE  SumFunctionOnSet(f, S) \in Int
<1>1. PICK h : IsTable(h, f, S)
  BY SumTable
<1>2. S \in SUBSET S
  OBVIOUS
<1> QED
  BY <1>1, <1>2 DEF IsTable

\* Nothing sums up to nothing.
LEMMA SumEmpty ==
  ASSUME NEW f
  PROVE  SumFunctionOnSet(f, {}) = 0
<1>1. IsFiniteSet({}) /\ Numbers(f, {})
  BY FS_EmptySet DEF Numbers
<1>2. PICK h : SumsOf(h, f, {})
  BY <1>1, SumsExist
<1>3. h[{}] = 0
  BY <1>2 DEF SumsOf
<1> QED
  BY <1>1, <1>2, <1>3, SumIsLast

\* A sum depends on the summands of its set alone.
LEMMA SumSame ==
  ASSUME NEW S, IsFiniteSet(S), NEW f, NEW g, Numbers(f, S), \A x \in S : f[x] = g[x]
  PROVE  SumFunctionOnSet(f, S) = SumFunctionOnSet(g, S)
<1>1. Numbers(g, S)
  BY DEF Numbers
<1>2. PICK h \in [SUBSET S -> Int] : SumsOf(h, f, S)
  BY SumsExist
<1>3. PICK k \in [SUBSET S -> Int] : SumsOf(k, g, S)
  BY <1>1, SumsExist
<1>4. h[S] = k[S]
  BY <1>2, <1>3, SumsAgree
<1> QED
  BY <1>1, <1>2, <1>3, <1>4, SumIsLast

\* The sum of differences is the difference of the sums.
LEMMA SumDifference ==
  ASSUME NEW S, IsFiniteSet(S), NEW f, NEW g, NEW d, Numbers(f, S), Numbers(g, S),
         \A x \in S : d[x] = f[x] - g[x]
  PROVE  SumFunctionOnSet(d, S) = SumFunctionOnSet(f, S) - SumFunctionOnSet(g, S)
<1>1. Numbers(d, S)
  BY DEF Numbers
<1>2. PICK h : IsTable(h, f, S)
  BY SumTable
<1>3. PICK k : IsTable(k, g, S)
  BY SumTable
<1>4. PICK e : IsTable(e, d, S)
  BY <1>1, SumTable
<1> DEFINE Q == {T \in SUBSET S : e[T] = h[T] - k[T]}
<1>5. {} \in Q
  <2>1. {} \in SUBSET S
    OBVIOUS
  <2>2. h[{}] = 0 /\ k[{}] = 0 /\ e[{}] = 0
    BY <1>2, <1>3, <1>4, <2>1, SumEmpty DEF IsTable
  <2>3. e[{}] = h[{}] - k[{}]
    BY <2>2
  <2> QED
    BY <2>1, <2>3
<1>6. ASSUME NEW T \in SUBSET S, T # {}, \A x \in T : T \ {x} \in Q PROVE T \in Q
  <2> DEFINE y == First(T)
             U == T \ {y}
  <2>1. y \in T /\ y \in S /\ U \in SUBSET S
    BY <1>6 DEF First
  <2>2. /\ h[T] = f[y] + h[U] /\ k[T] = g[y] + k[U] /\ e[T] = d[y] + e[U]
        /\ h[U] \in Int /\ k[U] \in Int
    BY <1>2, <1>3, <1>4, <1>6, <2>1 DEF IsTable
  <2>3. e[U] = h[U] - k[U]
    BY <1>6, <2>1
  <2> HIDE DEF y, U
  <2>4. f[y] \in Int /\ g[y] \in Int /\ d[y] = f[y] - g[y]
    BY <2>1 DEF Numbers
  <2>5. e[T] = h[T] - k[T]
    BY <2>2, <2>3, <2>4
  <2> QED
    BY <2>5
<1> HIDE DEF Q
<1>7. SUBSET S \subseteq Q
  BY <1>5, <1>6, SubsetInduction
<1>8. e[S] = h[S] - k[S]
  BY <1>7 DEF Q
<1>9. S \in SUBSET S
  OBVIOUS
<1> QED
  BY <1>2, <1>3, <1>4, <1>8, <1>9 DEF IsTable

\* a[k] is the sum of h[1] to h[k].
RunningSum(h, n, a) ==
  /\ n \in Nat /\ a \in [0..n -> Int] /\ a[0] = 0
  /\ \A k \in 1..n : h[k] \in Int /\ a[k] = a[k - 1] + h[k]

\* The sum over 1..n is the last of the running sums.
LEMMA RunningSumExists ==
  ASSUME NEW n \in Nat, NEW h, Numbers(h, 1..n)
  PROVE  \E a : RunningSum(h, n, a) /\ a[n] = SumFunctionOnSet(h, 1..n)
<1> DEFINE a == [k \in 0..n |-> SumFunctionOnSet(h, 1..k)]
<1>1. ASSUME NEW k \in 0..n PROVE IsFiniteSet(1..k) /\ Numbers(h, 1..k)
  <2>1. IsFiniteSet(1..k)
    BY FS_Interval
  <2> QED
    BY <2>1 DEF Numbers
<1>2. ASSUME NEW k \in 0..n PROVE SumFunctionOnSet(h, 1..k) \in Int
  BY <1>1, SumType
<1>3. a \in [0..n -> Int]
  BY <1>2
<1>4. a[0] = 0
  <2>1. 1..0 = {} /\ 0 \in 0..n
    OBVIOUS
  <2> QED
    BY <2>1, SumEmpty
<1>5. ASSUME NEW k \in 1..n PROVE h[k] \in Int /\ a[k] = a[k - 1] + h[k]
  <2>1. k \in 0..n /\ k - 1 \in 0..n /\ k \in 1..k /\ (1..k) \ {k} = 1..(k - 1) /\ h[k] \in Int
    BY DEF Numbers
  <2>2. SumFunctionOnSet(h, 1..k) = h[k] + SumFunctionOnSet(h, (1..k) \ {k})
    BY <1>1, <2>1, SumWithout
  <2>3. a[k] = SumFunctionOnSet(h, 1..k) /\ a[k - 1] = SumFunctionOnSet(h, 1..(k - 1))
    BY <2>1
  <2>4. a[k - 1] \in Int
    BY <1>3, <2>1
  <2>5. a[k] = h[k] + a[k - 1]
    BY <2>1, <2>2, <2>3
  <2> HIDE DEF a
  <2>6. a[k] = a[k - 1] + h[k]
    BY <2>1, <2>4, <2>5
  <2> QED
    BY <2>1, <2>6
<1>6. a[n] = SumFunctionOnSet(h, 1..n)
  OBVIOUS
<1> HIDE DEF a
<1>7. RunningSum(h, n, a)
  BY <1>3, <1>4, <1>5 DEF RunningSum
<1> QED
  BY <1>6, <1>7

\* Any running sums end there.
LEMMA RunningSumIs ==
  ASSUME NEW n, NEW h, NEW a, RunningSum(h, n, a)
  PROVE  a[n] = SumFunctionOnSet(h, 1..n)
<1>1. n \in Nat /\ Numbers(h, 1..n)
  BY DEF RunningSum, Numbers
<1>2. PICK b : RunningSum(h, n, b) /\ b[n] = SumFunctionOnSet(h, 1..n)
  BY <1>1, RunningSumExists
<1> DEFINE S == {k \in Nat : k <= n => a[k] = b[k]}
<1>3. 0 \in S
  BY <1>2 DEF RunningSum
<1>4. ASSUME NEW k \in Nat, k \in S PROVE k + 1 \in S
  <2>1. CASE k + 1 <= n
    <3>1. k + 1 \in 1..n /\ (k + 1) - 1 = k /\ a[k] = b[k]
      BY <1>1, <1>4, <2>1
    <3>2. a[k + 1] = a[k] + h[k + 1] /\ b[k + 1] = b[k] + h[k + 1]
      BY <1>2, <3>1 DEF RunningSum
    <3> QED
      BY <3>1, <3>2
  <2> QED
    BY <1>1, <2>1
<1> HIDE DEF S
<1>5. n \in S
  BY <1>1, <1>3, <1>4, SetInduction
<1> QED
  BY <1>1, <1>2, <1>5 DEF S

-----------------------------------------------------------------------------
(***************************************************************************)
(* What the levels of a side amount to, whatever their order.              *)
(***************************************************************************)
\* The sum of g over the levels.
AmountOf(levels, g) == SumFunctionOnSet([i \in 1..Len(levels) |-> g[levels[i]]], 1..Len(levels))

\* a[k] is what the first k levels amount to.
AmountUpTo(levels, g, a) ==
  /\ a \in [0..Len(levels) -> Int] /\ a[0] = 0
  /\ \A k \in 1..Len(levels) : a[k] = a[k - 1] + g[levels[k]]

\* An amount is the last of the amounts so far.
LEMMA AmountTrace ==
  ASSUME NEW R, NEW levels \in Seq(R), NEW g, \A l \in R : g[l] \in Int
  PROVE  /\ \E a : AmountUpTo(levels, g, a) /\ AmountOf(levels, g) = a[Len(levels)]
         /\ \A a : AmountUpTo(levels, g, a) => AmountOf(levels, g) = a[Len(levels)]
         /\ AmountOf(levels, g) \in Int
<1> DEFINE n == Len(levels)
           h == [i \in 1..n |-> g[levels[i]]]
<1>1. /\ n \in Nat /\ Numbers(h, 1..n)
      /\ \A k \in 1..n : h[k] = g[levels[k]] /\ h[k] \in Int
  BY DEF Numbers
<1>2. AmountOf(levels, g) = SumFunctionOnSet(h, 1..n)
  BY DEF AmountOf
<1> HIDE DEF h, n
<1>3. \A a : AmountUpTo(levels, g, a) <=> RunningSum(h, n, a)
  BY <1>1 DEF AmountUpTo, RunningSum, n
<1>4. PICK a : RunningSum(h, n, a)
  BY <1>1, RunningSumExists
<1>5. \A b : AmountUpTo(levels, g, b) => AmountOf(levels, g) = b[n]
  BY <1>2, <1>3, RunningSumIs
<1>6. a[n] \in Int
  BY <1>1, <1>4 DEF RunningSum
<1> QED
  BY <1>3, <1>4, <1>5, <1>6 DEF n

\* A level put in anywhere adds its own amount.
LEMMA InsertAmount ==
  ASSUME NEW R, NEW s \in Seq(R), NEW at \in 1..(Len(s) + 1), NEW x \in R,
         NEW g, \A l \in R : g[l] \in Int
  PROVE  AmountOf(InsertAt(s, at, x), g) = AmountOf(s, g) + g[x]
<1>0. /\ InsertAt(s, at, x) \in Seq(R) /\ Len(InsertAt(s, at, x)) = Len(s) + 1
      /\ \A i \in 1..(Len(s) + 1) : InsertAt(s, at, x)[i] =
           IF i < at THEN s[i] ELSE IF i = at THEN x ELSE s[i - 1]
  BY InsertAtShape
<1> DEFINE n == Len(s)
           t == InsertAt(s, at, x)
<1>1. PICK a : AmountUpTo(s, g, a)
  BY AmountTrace
<1>2. /\ a \in [0..n -> Int] /\ a[0] = 0
      /\ \A k \in 1..n : a[k] = a[k - 1] + g[s[k]]
      /\ AmountOf(s, g) = a[n]
  BY <1>1, AmountTrace DEF AmountUpTo
<1>3. /\ t \in Seq(R) /\ Len(t) = n + 1
      /\ \A i \in 1..(n + 1) : t[i] = IF i < at THEN s[i] ELSE IF i = at THEN x ELSE s[i - 1]
  BY <1>0
<1> DEFINE b == [k \in 0..(n + 1) |-> IF k < at THEN a[k] ELSE a[k - 1] + g[x]]
<1>4. n \in Nat /\ g[x] \in Int /\ at \in Nat /\ at >= 1 /\ at <= n + 1
  OBVIOUS
<1> HIDE DEF t, n
<1>5. b \in [0..(n + 1) -> Int]
  <2>1. ASSUME NEW k \in 0..(n + 1) PROVE (IF k < at THEN a[k] ELSE a[k - 1] + g[x]) \in Int
    <3>1. CASE k < at
      <4>1. k \in 0..n
        BY <1>4, <3>1
      <4> QED
        BY <1>2, <3>1, <4>1
    <3>2. CASE ~(k < at)
      <4>1. k - 1 \in 0..n
        BY <1>4, <3>2
      <4>2. a[k - 1] \in Int
        BY <1>2, <4>1
      <4> QED
        BY <1>4, <3>2, <4>2
    <3> QED
      BY <3>1, <3>2
  <2> QED
    BY <2>1
<1>6. b[0] = 0 /\ b[n + 1] = a[n] + g[x]
  <2>1. 0 \in 0..(n + 1) /\ 0 < at /\ n + 1 \in 0..(n + 1) /\ ~(n + 1 < at) /\ (n + 1) - 1 = n
    BY <1>4
  <2> QED
    BY <1>2, <2>1
<1>7. ASSUME NEW k \in 1..(n + 1) PROVE b[k] = b[k - 1] + g[t[k]]
  <2>0. k \in 0..(n + 1) /\ k - 1 \in 0..(n + 1)
    BY <1>4
  <2>1. CASE k < at
    <3>1. k \in 1..n /\ k - 1 < at /\ t[k] = s[k]
      BY <1>3, <1>4, <2>1
    <3> QED
      BY <1>2, <2>0, <2>1, <3>1
  <2>2. CASE k = at
    <3>1. ~(k < at) /\ k - 1 < at /\ t[k] = x
      BY <1>3, <1>4, <2>2
    <3> QED
      BY <2>0, <2>2, <3>1
  <2>3. CASE k > at
    <3>1. ~(k < at) /\ ~(k - 1 < at) /\ t[k] = s[k - 1] /\ k - 1 \in 1..n
      BY <1>3, <1>4, <2>3
    <3>2. a[k - 1] = a[(k - 1) - 1] + g[s[k - 1]]
      BY <1>2, <3>1
    <3>3. a[k - 1] \in Int /\ a[(k - 1) - 1] \in Int /\ g[s[k - 1]] \in Int
      <4>1. k - 1 \in 0..n /\ (k - 1) - 1 \in 0..n /\ s[k - 1] \in R
        BY <1>4, <3>1 DEF n
      <4> QED
        BY <1>2, <4>1
    <3>4. b[k] = a[k - 1] + g[x] /\ b[k - 1] = a[(k - 1) - 1] + g[x]
      BY <2>0, <3>1
    <3> HIDE DEF b
    <3> QED
      BY <1>4, <3>1, <3>2, <3>3, <3>4
  <2> QED
    BY <1>4, <2>1, <2>2, <2>3
<1> HIDE DEF b
<1>8. AmountUpTo(t, g, b)
  <2>1. t \in Seq(R) /\ \A l \in R : g[l] \in Int
    BY <1>3
  <2>2. /\ b \in [0..Len(t) -> Int] /\ b[0] = 0
        /\ \A k \in 1..Len(t) : b[k] = b[k - 1] + g[t[k]]
    BY <1>3, <1>5, <1>6, <1>7
  <2> QED
    BY <2>1, <2>2 DEF AmountUpTo
<1>9. AmountOf(t, g) = b[n + 1]
  BY <1>3, <1>8, AmountTrace
<1> QED
  BY <1>2, <1>6, <1>9 DEF t

\* So does one put in at the end.
LEMMA AppendAmount ==
  ASSUME NEW R, NEW s \in Seq(R), NEW x \in R, NEW g, \A l \in R : g[l] \in Int
  PROVE  AmountOf(Append(s, x), g) = AmountOf(s, g) + g[x]
<1> DEFINE n == Len(s)
           t == Append(s, x)
<1>1. n \in Nat /\ t \in Seq(R) /\ Len(t) = n + 1 /\ t[n + 1] = x
      /\ \A k \in 1..n : t[k] = s[k]
  OBVIOUS
<1>2. PICK b : AmountUpTo(t, g, b) /\ AmountOf(t, g) = b[Len(t)]
  BY <1>1, AmountTrace
<1>3. /\ b \in [0..Len(t) -> Int] /\ b[0] = 0
      /\ \A k \in 1..Len(t) : b[k] = b[k - 1] + g[t[k]]
      /\ AmountOf(t, g) = b[Len(t)]
  BY <1>2 DEF AmountUpTo
<1> HIDE DEF t
<1> DEFINE a == [k \in 0..n |-> b[k]]
<1>4. a \in [0..n -> Int] /\ a[0] = 0 /\ a[n] = b[n]
  BY <1>1, <1>3
<1>5. ASSUME NEW k \in 1..n PROVE a[k] = a[k - 1] + g[s[k]]
  <2>1. k \in 0..n /\ k - 1 \in 0..n /\ k \in 1..(n + 1)
    BY <1>1
  <2> QED
    BY <1>1, <1>3, <2>1
<1> HIDE DEF a
<1>6. AmountUpTo(s, g, a)
  BY <1>4, <1>5 DEF AmountUpTo, n
<1>7. AmountOf(s, g) = a[n]
  BY <1>6, AmountTrace DEF n
<1>8. b[n + 1] = b[n] + g[x]
  <2>1. n + 1 \in 1..(n + 1) /\ (n + 1) - 1 = n
    BY <1>1
  <2> QED
    BY <1>1, <1>3, <2>1
<1> QED
  BY <1>1, <1>3, <1>4, <1>7, <1>8 DEF t

\* No levels amount to nothing.
LEMMA EmptyAmount ==
  ASSUME NEW g
  PROVE  AmountOf(<<>>, g) = 0
<1>1. Len(<<>>) = 0 /\ 1..0 = {}
  OBVIOUS
<1> QED
  BY <1>1, SumEmpty DEF AmountOf

\* Levels of no amount may be left out.
LEMMA SelectAmount ==
  ASSUME NEW R, NEW rows \in Seq(R), NEW S, NEW g, \A l \in R : g[l] \in Int,
         \A l \in R : l \notin S => g[l] = 0
  PROVE  AmountOf(Select(rows, S), g) = AmountOf(rows, g)
<1> DEFINE n == Len(rows)
<1>1. PICK f : SelectedUpTo(rows, S, R \intersect S, f) /\ Select(rows, S) = f[n]
  BY SelectTrace
<1>2. /\ f \in [0..n -> Seq(R \intersect S)] /\ f[0] = <<>>
      /\ \A k \in 1..n : f[k] = IF rows[k] \in S THEN Append(f[k - 1], rows[k]) ELSE f[k - 1]
  BY <1>1 DEF SelectedUpTo
<1> DEFINE b == [k \in 0..n |-> AmountOf(f[k], g)]
<1>3. n \in Nat /\ \A k \in 1..n : rows[k] \in R
  OBVIOUS
<1> HIDE DEF n
<1>4. b \in [0..n -> Int]
  BY <1>2, AmountTrace
<1>5. b[0] = 0 /\ b[n] = AmountOf(f[n], g)
  BY <1>2, <1>3, EmptyAmount
<1>6. ASSUME NEW k \in 1..n PROVE b[k] = b[k - 1] + g[rows[k]]
  <2>1. k \in 0..n /\ k - 1 \in 0..n /\ rows[k] \in R
    BY <1>3
  <2>2. f[k - 1] \in Seq(R) /\ AmountOf(f[k - 1], g) \in Int
    BY <1>2, <2>1, AmountTrace
  <2>3. CASE rows[k] \in S
    <3>1. f[k] = Append(f[k - 1], rows[k])
      BY <1>2, <2>3
    <3>2. AmountOf(f[k], g) = AmountOf(f[k - 1], g) + g[rows[k]]
      BY <2>1, <2>2, <3>1, AppendAmount
    <3> QED
      BY <2>1, <3>2
  <2>4. CASE rows[k] \notin S
    <3>1. f[k] = f[k - 1] /\ g[rows[k]] = 0
      BY <1>2, <2>1, <2>4
    <3> QED
      BY <2>1, <2>2, <3>1
  <2> QED
    BY <2>3, <2>4
<1> HIDE DEF b
<1>7. AmountUpTo(rows, g, b)
  BY <1>4, <1>5, <1>6 DEF AmountUpTo, n
<1>8. AmountOf(rows, g) = b[n]
  BY <1>7, AmountTrace DEF n
<1> QED
  BY <1>1, <1>5, <1>8 DEF n

\* Sorting keeps what the levels amount to.
LEMMA SortAmount ==
  ASSUME NEW R, NEW key, Numbers(key, R), NEW levels \in Seq(R), NEW f,
         SortedUpTo(levels, R, key, f), NEW g, Numbers(g, R)
  PROVE  AmountOf(f[Len(levels)], g) = AmountOf(levels, g)
<1> DEFINE n == Len(levels)
           b == [k \in 0..n |-> AmountOf(f[k], g)]
<1>1. /\ f[0] = <<>>
      /\ \A k \in 0..n : f[k] \in Seq(R) /\ InOrder(f[k], key)
      /\ \A k \in 1..n : f[k] = PlaceBy(f[k - 1], levels[k], key)
  BY DEF SortedUpTo, SortedBy
<1>2. n \in Nat /\ (\A k \in 1..n : levels[k] \in R) /\ \A l \in R : g[l] \in Int
  BY DEF Numbers
<1> HIDE DEF n
<1>3. b \in [0..n -> Int]
  <2>1. \A k \in 0..n : AmountOf(f[k], g) \in Int
    BY <1>1, <1>2, AmountTrace
  <2> QED
    BY <2>1
<1>4. b[0] = 0 /\ b[n] = AmountOf(f[n], g)
  BY <1>1, <1>2, EmptyAmount
<1>5. ASSUME NEW k \in 1..n PROVE b[k] = b[k - 1] + g[levels[k]]
  <2>1. k \in 0..n /\ k - 1 \in 0..n /\ levels[k] \in R
    BY <1>2
  <2>2. f[k - 1] \in Seq(R) /\ InOrder(f[k - 1], key) /\ f[k] = PlaceBy(f[k - 1], levels[k], key)
    BY <1>1, <2>1
  <2> DEFINE was == f[k - 1]
  <2>3. was \in Seq(R) /\ InOrder(was, key) /\ f[k] = PlaceBy(was, levels[k], key)
    BY <2>2
  <2> HIDE DEF was
  <2>4. PICK at \in 1..(Len(was) + 1) : PlaceBy(was, levels[k], key) = InsertAt(was, at, levels[k])
    BY <2>1, <2>3, PlaceBySorts
  <2>5. AmountOf(InsertAt(was, at, levels[k]), g) = AmountOf(was, g) + g[levels[k]]
    BY <1>2, <2>1, <2>3, <2>4, InsertAmount
  <2>6. AmountOf(f[k], g) = AmountOf(f[k - 1], g) + g[levels[k]]
    BY <2>3, <2>4, <2>5 DEF was
  <2> QED
    BY <2>1, <2>6
<1> HIDE DEF b
<1>6. AmountUpTo(levels, g, b)
  BY <1>2, <1>3, <1>4, <1>5 DEF AmountUpTo, n
<1>7. AmountOf(levels, g) = b[n]
  BY <1>2, <1>6, AmountTrace DEF n
<1> QED
  BY <1>4, <1>7 DEF n

-----------------------------------------------------------------------------
(***************************************************************************)
(* Counts: how many rows of a table are of a kind, and how many times each *)
(* value is there.                                                         *)
(***************************************************************************)
\* The first n numbers are n.
LEMMA CountTo ==
  ASSUME NEW n \in Nat
  PROVE  IsFiniteSet(1..n) /\ Cardinality(1..n) = n
BY FS_Interval

\* f says of each k how many of D are of class k.
Counts(f, c, D, K) == \A k \in K : f[k] = Cardinality({i \in D : c[i] = k})

\* Counted class by class, each is counted once.
LEMMA ClassesAddUp ==
  ASSUME NEW D, IsFiniteSet(D), NEW K, IsFiniteSet(K), NEW c, NEW f, Counts(f, c, D, K)
  PROVE  /\ SumFunctionOnSet(f, K) = Cardinality({i \in D : c[i] \in K})
         /\ Numbers(f, K)
<1> DEFINE Of(k) == {i \in D : c[i] = k}
           In(L) == {i \in D : c[i] \in L}
           Q == {L \in SUBSET K : SumFunctionOnSet(f, L) = Cardinality(In(L))}
<1>1. \A L : IsFiniteSet(In(L)) /\ Cardinality(In(L)) \in Nat
  BY FS_Subset, FS_CardinalityType
<1>2. \A k : IsFiniteSet(Of(k)) /\ Cardinality(Of(k)) \in Nat
  BY FS_Subset, FS_CardinalityType
<1>3. Numbers(f, K)
  <2> SUFFICES ASSUME NEW k \in K PROVE f[k] \in Int
    BY DEF Numbers
  <2>1. f[k] = Cardinality(Of(k))
    BY DEF Counts
  <2> HIDE DEF Of
  <2> QED
    BY <1>2, <2>1
<1>4. {} \in Q
  <2>1. In({}) = {}
    OBVIOUS
  <2> QED
    BY <2>1, FS_EmptySet, SumEmpty
<1>5. ASSUME NEW L \in SUBSET K, L # {}, \A x \in L : L \ {x} \in Q PROVE L \in Q
  <2>1. PICK x \in L : TRUE
    BY <1>5
  <2>2. SumFunctionOnSet(f, L \ {x}) = Cardinality(In(L \ {x}))
    BY <1>5, <2>1
  <2>3. SumFunctionOnSet(f, L) = f[x] + SumFunctionOnSet(f, L \ {x})
    <3>1. IsFiniteSet(L) /\ Numbers(f, L)
      BY <1>3, FS_Subset DEF Numbers
    <3> QED
      BY <2>1, <3>1, SumWithout
  <2>4. In(L) = Of(x) \cup In(L \ {x}) /\ Of(x) \cap In(L \ {x}) = {}
    BY <2>1
  <2>5. Cardinality(In(L)) = Cardinality(Of(x)) + Cardinality(In(L \ {x}))
    <3> HIDE DEF Of, In
    <3>1. Cardinality(Of(x) \cup In(L \ {x}))
            = Cardinality(Of(x)) + Cardinality(In(L \ {x})) - Cardinality(Of(x) \cap In(L \ {x}))
      BY <1>1, <1>2, FS_Union
    <3>2. Cardinality(Of(x) \cap In(L \ {x})) = 0
      BY <2>4, FS_EmptySet
    <3> QED
      BY <1>1, <1>2, <2>4, <3>1, <3>2
  <2>6. f[x] = Cardinality(Of(x))
    BY <2>1 DEF Counts
  <2> QED
    BY <2>2, <2>3, <2>5, <2>6
<1> HIDE DEF Q
<1>6. SUBSET K \subseteq Q
  BY <1>4, <1>5, SubsetInduction
<1>7. K \in Q
  BY <1>6
<1> QED
  BY <1>3, <1>7 DEF Q

\* How many of the rows are in V.
Tally(rows, V) == Cardinality({i \in DOMAIN rows : rows[i] \in V})

\* One for each row in V.
Each(R, V) == [r \in R |-> IF r \in V THEN 1 ELSE 0]

\* A tally is an amount.
LEMMA TallyIsAmount ==
  ASSUME NEW R, NEW rows \in Seq(R), NEW V
  PROVE  Tally(rows, V) = AmountOf(rows, Each(R, V)) /\ Tally(rows, V) \in Nat
<1> DEFINE n == Len(rows)
           K == 1..n
           D == {i \in K : rows[i] \in V}
           id == [i \in K |-> i]
           h == [i \in K |-> Each(R, V)[rows[i]]]
<1>1. n \in Nat /\ DOMAIN rows = K /\ \A i \in K : rows[i] \in R
  OBVIOUS
<1>2. IsFiniteSet(K) /\ IsFiniteSet(D) /\ Cardinality(D) \in Nat
  <2>1. IsFiniteSet(K)
    BY <1>1, CountTo
  <2>2. IsFiniteSet(D)
    BY <2>1, FS_Subset
  <2> QED
    BY <2>1, <2>2, FS_CardinalityType
<1>3. Counts(h, id, D, K)
  <2> SUFFICES ASSUME NEW k \in K PROVE h[k] = Cardinality({i \in D : id[i] = k})
    BY DEF Counts
  <2>1. CASE rows[k] \in V
    <3>1. {i \in D : id[i] = k} = {k} /\ h[k] = 1
      BY <1>1, <2>1 DEF Each
    <3> QED
      BY <3>1, FS_Singleton
  <2>2. CASE rows[k] \notin V
    <3>1. {i \in D : id[i] = k} = {} /\ h[k] = 0
      BY <1>1, <2>2 DEF Each
    <3> QED
      BY <3>1, FS_EmptySet
  <2> QED
    BY <2>1, <2>2
<1>4. {i \in D : id[i] \in K} = D
  OBVIOUS
<1>5. AmountOf(rows, Each(R, V)) = SumFunctionOnSet(h, K)
  BY DEF AmountOf
<1>6. Tally(rows, V) = Cardinality(D)
  BY <1>1 DEF Tally
<1> HIDE DEF D, K, id, h
<1> QED
  BY <1>2, <1>3, <1>4, <1>5, <1>6, ClassesAddUp

\* W is what S and V have in common.
IsBoth(W, S, V) == W = S \intersect V

\* A selection counts the rows selected, and a sort counts every row.
LEMMA TallySelect ==
  ASSUME NEW R, NEW rows \in Seq(R), NEW S, NEW V, NEW W, IsBoth(W, S, V)
  PROVE  Tally(Select(rows, S), V) = Tally(rows, W)
<1> DEFINE T == R \intersect S
           g == Each(R, W)
           kept == Select(rows, S)
<1>1. kept \in Seq(T)
  BY SelectType
<1>2. AmountOf(kept, g) = AmountOf(rows, g)
  <2>1. (\A l \in R : g[l] \in Int) /\ \A l \in R : l \notin S => g[l] = 0
    BY DEF Each, IsBoth
  <2> HIDE DEF g
  <2> QED
    BY <2>1, SelectAmount
<1>3. \A l \in T : g[l] = Each(T, V)[l]
  BY DEF Each, IsBoth
<1>4. AmountOf(kept, g) = AmountOf(kept, Each(T, V))
  <2>1. Len(kept) \in Nat /\ \A i \in 1..Len(kept) : kept[i] \in T
    BY <1>1
  <2>2. [i \in 1..Len(kept) |-> g[kept[i]]] = [i \in 1..Len(kept) |-> Each(T, V)[kept[i]]]
    BY <1>3, <2>1
  <2> QED
    BY <2>2 DEF AmountOf
<1>5. Tally(kept, V) = AmountOf(kept, Each(T, V)) /\ Tally(rows, W) = AmountOf(rows, g)
  BY <1>1, TallyIsAmount
<1> QED
  BY <1>1, <1>2, <1>4, <1>5

\* A sort counts every row as often as before.
LEMMA TallySort ==
  ASSUME NEW R, NEW rows \in Seq(R), NEW key, Numbers(key, R), NEW V
  PROVE  /\ StableSort(rows, key) \in Seq(R) /\ InOrder(StableSort(rows, key), key)
         /\ Tally(StableSort(rows, key), V) = Tally(rows, V)
<1>1. PICK f : SortedUpTo(rows, R, key, f) /\ StableSort(rows, key) = f[Len(rows)]
  BY SortTrace
<1>2. f[Len(rows)] \in Seq(R) /\ InOrder(f[Len(rows)], key)
  BY <1>1 DEF SortedUpTo, SortedBy
<1>3. Numbers(Each(R, V), R)
  BY DEF Numbers, Each
<1>4. AmountOf(f[Len(rows)], Each(R, V)) = AmountOf(rows, Each(R, V))
  BY <1>1, <1>3, SortAmount
<1> QED
  BY <1>1, <1>2, <1>4, TallyIsAmount

\* All rows are counted.
LEMMA TallyAll ==
  ASSUME NEW R, NEW rows \in Seq(R), NEW V, \A i \in DOMAIN rows : rows[i] \in V
  PROVE  Tally(rows, V) = Len(rows)
<1>1. {i \in DOMAIN rows : rows[i] \in V} = 1..Len(rows)
  OBVIOUS
<1>2. Len(rows) \in Nat
  OBVIOUS
<1>3. Cardinality(1..Len(rows)) = Len(rows)
  BY <1>2, CountTo
<1> QED
  BY <1>1, <1>3 DEF Tally

\* The numbers of a bag made of a sequence add up to its length.
LEMMA BagOfSequence ==
  ASSUME NEW R, NEW s \in Seq(R)
  PROVE  /\ SumFunction(ToBag(s)) = Len(s)
         /\ IsFiniteSet(DOMAIN ToBag(s)) /\ DOMAIN ToBag(s) = Range(s)
         /\ Counts(ToBag(s), s, DOMAIN s, Range(s))
<1>1. DOMAIN s = 1..Len(s) /\ Len(s) \in Nat
  OBVIOUS
<1>2. IsFiniteSet(DOMAIN s) /\ Cardinality(DOMAIN s) = Len(s)
  BY <1>1, CountTo
<1>3. IsFiniteSet(Range(s))
  <2>1. s \in Surjection(DOMAIN s, Range(s))
    BY DEF Surjection, Range
  <2> QED
    BY <1>2, <2>1, FS_Surjection
<1>4. ToBag(s) = [x \in Range(s) |-> Cardinality({i \in DOMAIN s : s[i] = x})]
  BY DEF ToBag
<1>5. Counts(ToBag(s), s, DOMAIN s, Range(s)) /\ DOMAIN ToBag(s) = Range(s)
  BY <1>4 DEF Counts
<1>6. {i \in DOMAIN s : s[i] \in Range(s)} = DOMAIN s
  BY DEF Range
<1>7. SumFunctionOnSet(ToBag(s), Range(s)) = Len(s)
  BY <1>2, <1>3, <1>5, <1>6, ClassesAddUp
<1>8. SumFunction(ToBag(s)) = SumFunctionOnSet(ToBag(s), DOMAIN ToBag(s))
  BY DEF SumFunction, SumFunctionOnSet, FoldFunction
<1> QED
  BY <1>3, <1>5, <1>7, <1>8

-----------------------------------------------------------------------------
(***************************************************************************)
(* A stable sort, row by row: it puts each row between those up to it and  *)
(* those beyond, and to sort what is selected is to select of what is      *)
(* sorted.                                                                 *)
(***************************************************************************)
\* Induction over the sequences of R, for a set of them.
LEMMA SequenceInduction ==
  ASSUME NEW R, NEW Q, <<>> \in Q, \A s \in Seq(R), x \in R : s \in Q => Append(s, x) \in Q
  PROVE  Seq(R) \subseteq Q
<1> DEFINE S == {n \in Nat : \A s \in Seq(R) : Len(s) = n => s \in Q}
<1>1. 0 \in S
  <2>1. ASSUME NEW s \in Seq(R), Len(s) = 0 PROVE s = <<>>
    BY <2>1, EmptySeq
  <2> QED
    BY <2>1
<1>2. ASSUME NEW n \in Nat, n \in S PROVE n + 1 \in S
  <2> SUFFICES ASSUME NEW s \in Seq(R), Len(s) = n + 1 PROVE s \in Q
    OBVIOUS
  <2> DEFINE t == SubSeq(s, 1, n)
             x == s[n + 1]
  <2>1. t \in Seq(R) /\ Len(t) = n /\ x \in R /\ \A i \in 1..n : t[i] = s[i]
    OBVIOUS
  <2> HIDE DEF t
  <2>2. t \in Q
    BY <1>2, <2>1
  <2>3. Append(t, x) \in Seq(R) /\ Len(Append(t, x)) = n + 1
    BY <2>1
  <2>4. \A i \in 1..(n + 1) : Append(t, x)[i] = s[i]
    BY <2>1
  <2>5. Append(t, x) = s
    BY <2>3, <2>4, SeqEqual
  <2>6. Append(t, x) \in Q
    BY <2>1, <2>2
  <2> QED
    BY <2>5, <2>6
<1> HIDE DEF S
<1>3. Nat \subseteq S
  BY <1>1, <1>2, SetInduction
<1>4. \A s \in Seq(R) : Len(s) \in Nat
  OBVIOUS
<1> QED
  BY <1>3, <1>4 DEF S

-----------------------------------------------------------------------------
\* A selection from two parts is made of the selections from each.
LEMMA SelectConcat ==
  ASSUME NEW R, NEW s \in Seq(R), NEW t \in Seq(R), NEW S
  PROVE  Select(s \o t, S) = Select(s, S) \o Select(t, S)
<1> DEFINE Q == {u \in Seq(R) : Select(s \o u, S) = Select(s, S) \o Select(u, S)}
<1>1. Select(s, S) \in Seq(R)
  BY SelectType
<1>2. <<>> \in Q
  <2>1. s \o <<>> = s /\ Select(s, S) \o <<>> = Select(s, S)
    BY <1>1, ConcatEmptySeq
  <2>2. Select(<<>>, S) = <<>> /\ <<>> \in Seq(R)
    BY SelectEmpty
  <2> QED
    BY <2>1, <2>2
<1>3. ASSUME NEW u \in Seq(R), NEW x \in R, u \in Q PROVE Append(u, x) \in Q
  <2>1. s \o Append(u, x) = Append(s \o u, x) /\ s \o u \in Seq(R) /\ Append(u, x) \in Seq(R)
    OBVIOUS
  <2>2. /\ Select(Append(s \o u, x), S)
             = IF x \in S THEN Append(Select(s \o u, S), x) ELSE Select(s \o u, S)
        /\ Select(Append(u, x), S)
             = IF x \in S THEN Append(Select(u, S), x) ELSE Select(u, S)
    BY <2>1, SelectAppend
  <2>3. Select(u, S) \in Seq(R)
    BY SelectType
  <2>4. Select(s, S) \o Append(Select(u, S), x) = Append(Select(s, S) \o Select(u, S), x)
    BY <1>1, <2>3
  <2>5. Select(s \o u, S) = Select(s, S) \o Select(u, S)
    BY <1>3
  <2> QED
    BY <2>1, <2>2, <2>4, <2>5
<1> HIDE DEF Q
<1>4. Seq(R) \subseteq Q
  BY <1>2, <1>3, SequenceInduction
<1> QED
  BY <1>4 DEF Q

\* Row by row, s has in S what t has in T.
SameRows(s, S, t, T) ==
  /\ Len(s) = Len(t)
  /\ \A k \in 1..Len(s) : (s[k] \in S <=> t[k] \in T) /\ (s[k] \in S => s[k] = t[k])

\* Then they are the same selections.
LEMMA SelectSame ==
  ASSUME NEW R, NEW s \in Seq(R), NEW t \in Seq(R), NEW S, NEW T, SameRows(s, S, t, T)
  PROVE  Select(s, S) = Select(t, T)
<1>1. PICK f : SelectedUpTo(s, S, R \intersect S, f) /\ Select(s, S) = f[Len(s)]
  BY SelectTrace
<1>2. PICK g : SelectedUpTo(t, T, R \intersect T, g) /\ Select(t, T) = g[Len(t)]
  BY SelectTrace
<1>3. Len(s) \in Nat /\ Len(t) = Len(s)
  BY DEF SameRows
<1> DEFINE A == {k \in Nat : k <= Len(s) => f[k] = g[k]}
<1>4. 0 \in A
  BY <1>1, <1>2 DEF SelectedUpTo
<1>5. ASSUME NEW k \in Nat, k \in A PROVE k + 1 \in A
  <2>1. CASE k + 1 <= Len(s)
    <3>1. k + 1 \in 1..Len(s) /\ (k + 1) - 1 = k /\ f[k] = g[k]
      BY <1>3, <1>5, <2>1
    <3>2. /\ f[k + 1] = IF s[k + 1] \in S THEN Append(f[k], s[k + 1]) ELSE f[k]
          /\ g[k + 1] = IF t[k + 1] \in T THEN Append(g[k], t[k + 1]) ELSE g[k]
      BY <1>1, <1>2, <1>3, <3>1 DEF SelectedUpTo
    <3>3. (s[k + 1] \in S <=> t[k + 1] \in T) /\ (s[k + 1] \in S => s[k + 1] = t[k + 1])
      BY <3>1 DEF SameRows
    <3> QED
      BY <3>1, <3>2, <3>3
  <2> QED
    BY <1>3, <2>1
<1> HIDE DEF A
<1>6. Len(s) \in A
  BY <1>3, <1>4, <1>5, SetInduction
<1> QED
  BY <1>1, <1>2, <1>3, <1>6 DEF A

\* All rows are selected, or none.
LEMMA SelectAll ==
  ASSUME NEW R, NEW S, NEW s \in Seq(R), R \subseteq S
  PROVE  Select(s, S) = s
<1> DEFINE Q == {u \in Seq(R) : Select(u, S) = u}
<1>1. <<>> \in Q
  BY SelectEmpty
<1>2. ASSUME NEW u \in Seq(R), NEW x \in R, u \in Q PROVE Append(u, x) \in Q
  <2>1. Select(Append(u, x), S) = IF x \in S THEN Append(Select(u, S), x) ELSE Select(u, S)
    BY SelectAppend
  <2> QED
    BY <1>2, <2>1
<1> HIDE DEF Q
<1>3. Seq(R) \subseteq Q
  BY <1>1, <1>2, SequenceInduction
<1> QED
  BY <1>3 DEF Q

\* Where no row is in the set, nothing is selected.
LEMMA SelectNone ==
  ASSUME NEW R, NEW S, NEW s \in Seq(R), R \intersect S = {}
  PROVE  Select(s, S) = <<>>
<1>1. Select(s, S) \in Seq(R \intersect S)
  BY SelectType
<1>2. Select(s, S) \in Seq({})
  BY <1>1
<1> DEFINE t == Select(s, S)
<1>3. t \in Seq({}) /\ (t # <<>> => t[1] \in {})
  <2>1. t \in Seq({})
    BY <1>2
  <2> HIDE DEF t
  <2>2. t # <<>> => Len(t) \in Nat \ {0}
    BY <2>1, EmptySeq
  <2>3. t # <<>> => 1 \in 1..Len(t)
    BY <2>2
  <2> QED
    BY <2>1, <2>3, ElementOfSeq
<1> QED
  BY <1>3

\* A selection from a selection.
LEMMA SelectSelect ==
  ASSUME NEW R, NEW s \in Seq(R), NEW S, NEW T
  PROVE  Select(Select(s, S), T) = Select(s, S \intersect T)
<1> DEFINE Q == {u \in Seq(R) : Select(Select(u, S), T) = Select(u, S \intersect T)}
<1>1. <<>> \in Q
  BY SelectEmpty
<1>2. ASSUME NEW u \in Seq(R), NEW x \in R, u \in Q PROVE Append(u, x) \in Q
  <2>1. /\ Select(Append(u, x), S) = IF x \in S THEN Append(Select(u, S), x) ELSE Select(u, S)
        /\ Select(Append(u, x), S \intersect T)
             = IF x \in S \intersect T THEN Append(Select(u, S \intersect T), x)
               ELSE Select(u, S \intersect T)
    BY SelectAppend
  <2>2. Select(u, S) \in Seq(R)
    BY SelectType
  <2>3. Select(Append(Select(u, S), x), T)
          = IF x \in T THEN Append(Select(Select(u, S), T), x) ELSE Select(Select(u, S), T)
    BY <2>2, SelectAppend
  <2>4. Select(Select(u, S), T) = Select(u, S \intersect T)
    BY <1>2
  <2>5. Append(u, x) \in Seq(R)
    OBVIOUS
  <2>6. Select(Select(Append(u, x), S), T) = Select(Append(u, x), S \intersect T)
    <3>1. CASE x \in S
      <4>1. Select(Append(u, x), S) = Append(Select(u, S), x) /\ (x \in S \intersect T <=> x \in T)
        BY <2>1, <3>1
      <4> QED
        BY <2>1, <2>3, <2>4, <4>1
    <3>2. CASE x \notin S
      <4>1. Select(Append(u, x), S) = Select(u, S) /\ x \notin S \intersect T
        BY <2>1, <3>2
      <4> QED
        BY <2>1, <2>4, <4>1
    <3> QED
      BY <3>1, <3>2
  <2> QED
    BY <2>5, <2>6
<1> HIDE DEF Q
<1>3. Seq(R) \subseteq Q
  BY <1>1, <1>2, SequenceInduction
<1> QED
  BY <1>3 DEF Q

-----------------------------------------------------------------------------
\* Sorting goes on from what is sorted.
LEMMA SortAppend ==
  ASSUME NEW R, NEW key, Numbers(key, R), NEW s \in Seq(R), NEW x \in R
  PROVE  StableSort(Append(s, x), key) = PlaceBy(StableSort(s, key), x, key)
<1> DEFINE t == Append(s, x)
           n == Len(s)
<1>1. t \in Seq(R) /\ n \in Nat /\ Len(t) = n + 1 /\ t[n + 1] = x /\ \A k \in 1..n : t[k] = s[k]
  OBVIOUS
<1>2. PICK f : SortedUpTo(s, R, key, f) /\ StableSort(s, key) = f[n]
  BY SortTrace
<1> HIDE DEF t
<1>3. PICK g : SortedUpTo(t, R, key, g) /\ StableSort(t, key) = g[Len(t)]
  BY <1>1, SortTrace
<1> DEFINE A == {k \in Nat : k <= n => f[k] = g[k]}
<1>4. 0 \in A
  BY <1>2, <1>3 DEF SortedUpTo
<1>5. ASSUME NEW k \in Nat, k \in A PROVE k + 1 \in A
  <2>1. CASE k + 1 <= n
    <3>1. k + 1 \in 1..n /\ k + 1 \in 1..Len(t) /\ (k + 1) - 1 = k /\ f[k] = g[k] /\ t[k + 1] = s[k + 1]
      BY <1>1, <1>5, <2>1
    <3>2. f[k + 1] = PlaceBy(f[k], s[k + 1], key) /\ g[k + 1] = PlaceBy(g[k], t[k + 1], key)
      BY <1>2, <1>3, <3>1 DEF SortedUpTo
    <3> QED
      BY <3>1, <3>2
  <2> QED
    BY <1>1, <2>1
<1> HIDE DEF A
<1>6. n \in A
  BY <1>1, <1>4, <1>5, SetInduction
<1>7. f[n] = g[n]
  BY <1>1, <1>6 DEF A
<1>8. n + 1 \in 1..Len(t) /\ (n + 1) - 1 = n
  BY <1>1
<1>9. g[n + 1] = PlaceBy(g[n], t[n + 1], key)
  BY <1>3, <1>8 DEF SortedUpTo
<1> QED
  BY <1>1, <1>2, <1>3, <1>7, <1>9 DEF t

\* Nothing, sorted, is nothing.
LEMMA SortEmpty ==
  ASSUME NEW key
  PROVE  StableSort(<<>>, key) = <<>>
<1> DEFINE R == {}
           s == <<>>
<1>1. s \in Seq(R) /\ Len(s) = 0 /\ Numbers(key, R)
  BY DEF Numbers
<1> HIDE DEF R, s
<1>2. PICK f : SortedUpTo(s, R, key, f) /\ StableSort(s, key) = f[Len(s)]
  BY <1>1, SortTrace
<1>3. f[0] = <<>>
  BY <1>2 DEF SortedUpTo
<1> QED
  BY <1>1, <1>2, <1>3 DEF s

\* A sort returns rows in the order of their keys.
LEMMA SortType ==
  ASSUME NEW R, NEW key, Numbers(key, R), NEW s \in Seq(R)
  PROVE  StableSort(s, key) \in Seq(R) /\ InOrder(StableSort(s, key), key)
<1>1. PICK f : SortedUpTo(s, R, key, f) /\ StableSort(s, key) = f[Len(s)]
  BY SortTrace
<1> QED
  BY <1>1 DEF SortedUpTo, SortedBy

\* Only the keys of the rows matter.
LEMMA SortByKeys ==
  ASSUME NEW R, NEW key, NEW other, Numbers(key, R), \A r \in R : other[r] = key[r], NEW s \in Seq(R)
  PROVE  StableSort(s, other) = StableSort(s, key)
<1> DEFINE Q == {u \in Seq(R) : StableSort(u, other) = StableSort(u, key)}
<1>1. Numbers(other, R)
  BY DEF Numbers
<1>2. <<>> \in Q
  BY SortEmpty
<1>3. ASSUME NEW u \in Seq(R), NEW x \in R, u \in Q PROVE Append(u, x) \in Q
  <2> DEFINE v == StableSort(u, key)
  <2>1. v \in Seq(R) /\ StableSort(u, other) = v
    BY <1>3, SortType
  <2>2. StableSort(Append(u, x), key) = PlaceBy(v, x, key)
    BY SortAppend
  <2>3. StableSort(Append(u, x), other) = PlaceBy(StableSort(u, other), x, other)
    BY <1>1, SortAppend
  <2> HIDE DEF v
  <2>4. {i \in DOMAIN v : other[x] < other[v[i]]} = {i \in DOMAIN v : key[x] < key[v[i]]}
    BY <2>1
  <2>5. PlaceBy(v, x, other) = PlaceBy(v, x, key)
    BY <2>4 DEF PlaceBy
  <2>6. Append(u, x) \in Seq(R)
    OBVIOUS
  <2> QED
    BY <2>1, <2>2, <2>3, <2>5, <2>6
<1> HIDE DEF Q
<1>4. Seq(R) \subseteq Q
  BY <1>2, <1>3, SequenceInduction
<1> QED
  BY <1>4 DEF Q

-----------------------------------------------------------------------------
(***************************************************************************)
(* A sort is stable: what is selected from the sorted rows is what is      *)
(* selected, sorted.                                                       *)
(***************************************************************************)
UpTo(R, key, x) == {r \in R : key[r] <= key[x]}
Beyond(R, key, x) == {r \in R : key[x] < key[r]}

Splits(s, R, key, x, a, b) ==
  a \in Seq(UpTo(R, key, x)) /\ b \in Seq(Beyond(R, key, x)) /\ s = a \o b

\* Rows in order are those up to x and then those beyond it.
LEMMA SortedSplits ==
  ASSUME NEW R, NEW key, Numbers(key, R), NEW s \in Seq(R), InOrder(s, key), NEW x \in R
  PROVE  \E a, b : Splits(s, R, key, x, a, b)
<1> DEFINE n == Len(s)
           later == {i \in 1..n : key[x] < key[s[i]]}
<1>1. n \in Nat /\ DOMAIN s = 1..n /\ key[x] \in Int
      /\ \A i \in 1..n : s[i] \in R /\ key[s[i]] \in Int
  BY DEF Numbers
<1>2. \A i \in 1..n, j \in 1..n : i < j => key[s[i]] <= key[s[j]]
  BY <1>1 DEF InOrder
<1>3. PICK m \in 0..n : /\ \A i \in 1..m : ~(key[x] < key[s[i]])
                        /\ \A i \in (m + 1)..n : key[x] < key[s[i]]
  <2>1. CASE later = {}
    <3>1. n \in 0..n /\ \A i \in 1..n : ~(key[x] < key[s[i]])
      BY <1>1, <2>1
    <3>2. \A i \in (n + 1)..n : key[x] < key[s[i]]
      BY <1>1
    <3> QED
      BY <3>1, <3>2
  <2>2. CASE later # {}
    <3>1. later \in SUBSET Nat
      OBVIOUS
    <3>2. PICK l \in later : \A y \in later : l <= y
      <4> HIDE DEF later
      <4> QED
        BY <2>2, <3>1, LeastOf
    <3>3. l \in 1..n /\ key[x] < key[s[l]] /\ l - 1 \in 0..n /\ (l - 1) + 1 = l
      BY <1>1, <3>2
    <3>4. ASSUME NEW i \in 1..(l - 1) PROVE ~(key[x] < key[s[i]])
      BY <1>1, <3>2, <3>3
    <3>5. ASSUME NEW i \in l..n PROVE key[x] < key[s[i]]
      <4>1. i \in 1..n /\ (i = l \/ l < i)
        BY <1>1, <3>3
      <4>2. key[s[l]] <= key[s[i]] /\ key[s[l]] \in Int /\ key[s[i]] \in Int
        BY <1>1, <1>2, <3>3, <4>1
      <4> QED
        BY <1>1, <3>3, <4>2
    <3> QED
      BY <3>3, <3>4, <3>5
  <2> QED
    BY <2>1, <2>2
<1> DEFINE a == SubSeq(s, 1, m)
           b == SubSeq(s, m + 1, n)
<1>4. a \in Seq(UpTo(R, key, x))
  <2>1. \A i \in 1..m : i \in 1..n /\ s[i] \in UpTo(R, key, x)
    BY <1>1, <1>3 DEF UpTo
  <2> QED
    BY <1>1, <2>1, SubSeqProperties
<1>5. b \in Seq(Beyond(R, key, x))
  <2>1. \A i \in (m + 1)..n : i \in 1..n
    BY <1>1
  <2>2. \A i \in (m + 1)..n : s[i] \in Beyond(R, key, x)
    BY <1>1, <1>3, <2>1 DEF Beyond
  <2> QED
    BY <1>1, <2>2, SubSeqProperties
<1>6. s = a \o b
  <2>1. 1 \in 1..(n + 1) /\ m \in (1 - 1)..n /\ n \in m..n
    BY <1>1
  <2>2. SubSeq(s, 1, m) \o SubSeq(s, m + 1, n) = SubSeq(s, 1, n)
    BY <2>1, ConcatAdjacentSubSeq
  <2> QED
    BY <2>2, SubSeqFull
<1> HIDE DEF a, b
<1> QED
  BY <1>4, <1>5, <1>6 DEF Splits

\* And x goes between the two.
LEMMA PlaceBetween ==
  ASSUME NEW R, NEW key, Numbers(key, R), NEW x \in R,
         NEW a \in Seq(UpTo(R, key, x)), NEW b \in Seq(Beyond(R, key, x))
  PROVE  PlaceBy(a \o b, x, key) = Append(a, x) \o b
<1> DEFINE s == a \o b
           m == Len(a)
           n == Len(b)
           later == {i \in DOMAIN s : key[x] < key[s[i]]}
<1>1. a \in Seq(R) /\ b \in Seq(R)
  <2>1. UpTo(R, key, x) \subseteq R /\ Beyond(R, key, x) \subseteq R
    BY DEF UpTo, Beyond
  <2> QED
    BY <2>1, SeqMonotonic
<1>2. /\ m \in Nat /\ n \in Nat /\ s \in Seq(R) /\ Len(s) = m + n /\ DOMAIN s = 1..(m + n)
      /\ \A i \in 1..(m + n) : s[i] = IF i <= m THEN a[i] ELSE b[i - m]
  BY <1>1, ConcatProperties
<1>3. ASSUME NEW i \in 1..(m + n) PROVE i \in later <=> i > m
  <2>1. CASE i <= m
    <3>1. s[i] = a[i] /\ a[i] \in UpTo(R, key, x)
      BY <1>2, <2>1
    <3> QED
      BY <1>2, <2>1, <3>1 DEF UpTo, Numbers
  <2>2. CASE i > m
    <3>1. i - m \in 1..n /\ s[i] = b[i - m]
      BY <1>2, <2>2
    <3>2. b[i - m] \in Beyond(R, key, x)
      BY <3>1
    <3> QED
      BY <1>2, <2>2, <3>1, <3>2 DEF Beyond
  <2> QED
    BY <1>2, <2>1, <2>2
<1>4. later = (m + 1)..(m + n)
  <2>1. later \subseteq 1..(m + n)
    BY <1>2
  <2> HIDE DEF later
  <2>2. (m + 1)..(m + n) \subseteq 1..(m + n)
    BY <1>2
  <2>3. ASSUME NEW i \in 1..(m + n) PROVE i \in later <=> i \in (m + 1)..(m + n)
    BY <1>2, <1>3
  <2> QED
    BY <2>1, <2>2, <2>3
<1> HIDE DEF s, later
<1>5. PlaceOf(s, later) = m + 1
  <2>1. CASE n = 0
    BY <1>2, <1>4, <2>1 DEF PlaceOf
  <2>2. CASE n # 0
    <3>1. m + 1 \in later /\ later # {} /\ \A j \in later : m + 1 <= j
      BY <1>2, <1>4, <2>2
    <3>2. \A i \in later : i \in Int /\ m + 1 <= i
      BY <1>2, <1>4
    <3>3. (CHOOSE i \in later : \A j \in later : i <= j) = m + 1
      BY <1>2, <3>1, <3>2
    <3> QED
      BY <3>1, <3>3 DEF PlaceOf
  <2> QED
    BY <2>1, <2>2
<1>6. PlaceBy(s, x, key) = InsertAt(s, m + 1, x)
  BY <1>5 DEF PlaceBy, later
<1> DEFINE t == InsertAt(s, m + 1, x)
<1>7. /\ t \in Seq(R) /\ Len(t) = m + n + 1
      /\ \A i \in 1..(m + n + 1) : t[i] = IF i < m + 1 THEN s[i] ELSE IF i = m + 1 THEN x ELSE s[i - 1]
  <2>1. PICK at \in 1..(Len(s) + 1) : at = m + 1
    BY <1>2
  <2>2. Inserted(InsertAt(s, at, x), s, at, x, R)
    <3>1. s \in Seq(R) /\ x \in R
      BY <1>2
    <3> HIDE DEF t, m, n
    <3> QED
      BY <3>1, InsertAtInserts
  <2>3. t = InsertAt(s, at, x) /\ Len(s) + 1 = m + n + 1
    BY <1>2, <2>1
  <2> HIDE DEF t
  <2> QED
    BY <2>1, <2>2, <2>3 DEF Inserted
<1> DEFINE ax == Append(a, x)
<1>8. ax \in Seq(R) /\ Len(ax) = m + 1 /\ ax[m + 1] = x /\ \A i \in 1..m : ax[i] = a[i]
  BY <1>1
<1> HIDE DEF ax
<1>9. /\ ax \o b \in Seq(R) /\ Len(ax \o b) = m + 1 + n
      /\ \A i \in 1..(m + 1 + n) : (ax \o b)[i] = IF i <= m + 1 THEN ax[i] ELSE b[i - (m + 1)]
  <2>1. /\ ax \o b \in Seq(R) /\ Len(ax \o b) = Len(ax) + Len(b)
        /\ \A i \in 1..(Len(ax) + Len(b)) :
             (ax \o b)[i] = IF i <= Len(ax) THEN ax[i] ELSE b[i - Len(ax)]
    BY <1>1, <1>8, ConcatProperties
  <2>2. Len(ax) = m + 1 /\ Len(b) = n
    BY <1>8
  <2> QED
    BY <2>1, <2>2
<1> HIDE DEF t
<1>10. ASSUME NEW i \in 1..(m + n + 1) PROVE t[i] = (ax \o b)[i]
  <2>0. i \in 1..(m + 1 + n)
    BY <1>2
  <2>1. CASE i < m + 1
    <3>1. i \in 1..m /\ i \in 1..(m + n) /\ i <= m /\ i <= m + 1
      BY <1>2, <2>1
    <3> QED
      BY <1>2, <1>7, <1>8, <1>9, <2>0, <2>1, <3>1
  <2>2. CASE i = m + 1
    <3>1. t[i] = x /\ (ax \o b)[i] = ax[i] /\ ax[i] = x
      BY <1>2, <1>7, <1>8, <1>9, <2>0, <2>2
    <3> QED
      BY <3>1
  <2>3. CASE i > m + 1
    <3>1. /\ i - 1 \in 1..(m + n) /\ ~(i - 1 <= m) /\ ~(i < m + 1) /\ i # m + 1 /\ ~(i <= m + 1)
          /\ (i - 1) - m = i - (m + 1)
      BY <1>2, <2>3
    <3>2. s[i - 1] = b[(i - 1) - m]
      BY <1>2, <3>1
    <3>3. t[i] = s[i - 1] /\ (ax \o b)[i] = b[i - (m + 1)]
      BY <1>7, <1>9, <2>0, <3>1
    <3> QED
      BY <3>1, <3>2, <3>3
  <2>4. i < m + 1 \/ i = m + 1 \/ i > m + 1
    BY <1>2
  <2> QED
    BY <2>1, <2>2, <2>3, <2>4
<1>11. Len(t) = Len(ax \o b)
  BY <1>2, <1>7, <1>9
<1>12. t = ax \o b
  BY <1>2, <1>7, <1>9, <1>10, <1>11, SeqEqual
<1> QED
  BY <1>6, <1>12 DEF s, ax, t

\* What is selected of sorted rows is what is selected, sorted.
LEMMA SortSelect ==
  ASSUME NEW R, NEW key, Numbers(key, R), NEW rows \in Seq(R), NEW S
  PROVE  Select(StableSort(rows, key), S) = StableSort(Select(rows, S), key)
<1> DEFINE Q == {u \in Seq(R) : Select(StableSort(u, key), S) = StableSort(Select(u, S), key)}
<1>1. <<>> \in Q
  BY SelectEmpty, SortEmpty
<1>2. ASSUME NEW u \in Seq(R), NEW x \in R, u \in Q PROVE Append(u, x) \in Q
  <2>0. Append(u, x) \in Seq(R)
    OBVIOUS
  <2> DEFINE s == StableSort(u, key)
  <2>1. s \in Seq(R) /\ InOrder(s, key)
    BY SortType
  <2>2. StableSort(Append(u, x), key) = PlaceBy(s, x, key)
    BY SortAppend
  <2>3. Select(s, S) = StableSort(Select(u, S), key)
    BY <1>2
  <2>4. Select(u, S) \in Seq(R)
    BY SelectType
  <2> HIDE DEF s
  <2>4a. PICK a, b : Splits(s, R, key, x, a, b)
    BY <2>1, SortedSplits
  <2>5. a \in Seq(UpTo(R, key, x)) /\ b \in Seq(Beyond(R, key, x)) /\ s = a \o b
    BY <2>4a DEF Splits
  <2>6. PlaceBy(s, x, key) = Append(a, x) \o b
    BY <2>5, PlaceBetween
  <2>7. a \in Seq(R) /\ b \in Seq(R) /\ Append(a, x) \in Seq(R)
    <3>1. UpTo(R, key, x) \subseteq R /\ Beyond(R, key, x) \subseteq R
      BY DEF UpTo, Beyond
    <3>2. a \in Seq(R) /\ b \in Seq(R)
      BY <2>5, <3>1, SeqMonotonic
    <3> QED
      BY <3>2
  <2> DEFINE sa == Select(a, S)
             sb == Select(b, S)
  <2>8. sa \in Seq(UpTo(R, key, x)) /\ sb \in Seq(Beyond(R, key, x))
    BY <2>5, SelectType
  <2>9. sa \in Seq(R) /\ sb \in Seq(R)
    BY <2>7, SelectType
  <2>10. Select(s, S) = sa \o sb
    BY <2>5, <2>7, SelectConcat
  <2>11. Select(PlaceBy(s, x, key), S) = Select(Append(a, x), S) \o sb
    <3>1. PICK ax \in Seq(R) : ax = Append(a, x)
      BY <2>7
    <3>2. b \in Seq(R)
      BY <2>7
    <3> HIDE DEF sa, sb, Q
    <3>3. Select(ax \o b, S) = Select(ax, S) \o Select(b, S)
      BY <3>2, SelectConcat
    <3> QED
      BY <2>6, <3>1, <3>3 DEF sb
  <2>12. Select(Append(a, x), S) = IF x \in S THEN Append(sa, x) ELSE sa
    BY <2>7, SelectAppend
  <2>13. Select(Append(u, x), S) = IF x \in S THEN Append(Select(u, S), x) ELSE Select(u, S)
    BY SelectAppend
  <2> HIDE DEF sa, sb
  <2>14. CASE x \in S
    <3>1. StableSort(Append(Select(u, S), x), key) = PlaceBy(StableSort(Select(u, S), key), x, key)
      BY <2>4, SortAppend
    <3>2. PlaceBy(sa \o sb, x, key) = Append(sa, x) \o sb
      BY <2>8, PlaceBetween
    <3> QED
      BY <2>0, <2>2, <2>3, <2>10, <2>11, <2>12, <2>13, <2>14, <3>1, <3>2
  <2>15. CASE x \notin S
    BY <2>0, <2>2, <2>3, <2>10, <2>11, <2>12, <2>13, <2>15
  <2> QED
    BY <2>14, <2>15
<1> HIDE DEF Q
<1>3. Seq(R) \subseteq Q
  BY <1>1, <1>2, SequenceInduction
<1> QED
  BY <1>3 DEF Q

\* A sort rearranges the rows and no more.
LEMMA SortLength ==
  ASSUME NEW R, NEW key, Numbers(key, R), NEW rows \in Seq(R)
  PROVE  Len(StableSort(rows, key)) = Len(rows)
<1> DEFINE s == StableSort(rows, key)
<1>1. s \in Seq(R) /\ Tally(s, R) = Tally(rows, R)
  BY TallySort
<1> HIDE DEF s
<1>2. (\A i \in DOMAIN s : s[i] \in R) /\ \A i \in DOMAIN rows : rows[i] \in R
  BY <1>1
<1>3. Tally(s, R) = Len(s) /\ Tally(rows, R) = Len(rows)
  BY <1>1, <1>2, TallyAll
<1> QED
  BY <1>1, <1>3 DEF s

\* What is not in a sequence is there no times.
LEMMA TallyOfOne ==
  ASSUME NEW R, NEW s \in Seq(R), NEW x
  PROVE  x \in Range(s) <=> Tally(s, {x}) # 0
<1> DEFINE D == {i \in DOMAIN s : s[i] \in {x}}
<1>1. DOMAIN s = 1..Len(s) /\ Len(s) \in Nat
  OBVIOUS
<1>2. IsFiniteSet(1..Len(s))
  BY <1>1, CountTo
<1>3. IsFiniteSet(D)
  BY <1>1, <1>2, FS_Subset
<1>4. x \in Range(s) <=> D # {}
  BY DEF Range
<1> HIDE DEF D
<1>5. Cardinality(D) = 0 <=> D = {}
  BY <1>3, FS_EmptySet
<1> QED
  BY <1>4, <1>5 DEF Tally, D

\* A sort keeps each row as many times as it was there.
LEMMA SortBag ==
  ASSUME NEW R, NEW key, Numbers(key, R), NEW rows \in Seq(R)
  PROVE  ToBag(StableSort(rows, key)) = ToBag(rows)
<1> DEFINE s == StableSort(rows, key)
<1>1. s \in Seq(R) /\ \A x : Tally(s, {x}) = Tally(rows, {x})
  BY TallySort
<1> HIDE DEF s
<1>2. \A t : ToBag(t) = [x \in Range(t) |-> Tally(t, {x})]
  <2> SUFFICES ASSUME NEW t PROVE ToBag(t) = [x \in Range(t) |-> Tally(t, {x})]
    OBVIOUS
  <2>1. \A x : {i \in DOMAIN t : t[i] = x} = {i \in DOMAIN t : t[i] \in {x}}
    OBVIOUS
  <2>2. \A x : Cardinality({i \in DOMAIN t : t[i] = x}) = Tally(t, {x})
    BY <2>1 DEF Tally
  <2> QED
    BY <2>2 DEF ToBag
<1>3. \A x : x \in Range(s) <=> x \in Range(rows)
  BY <1>1, TallyOfOne
<1>4. Range(s) = Range(rows)
  BY <1>3
<1>5. [x \in Range(s) |-> Tally(s, {x})] = [x \in Range(rows) |-> Tally(rows, {x})]
  BY <1>1, <1>4
<1> QED
  BY <1>2, <1>5 DEF s

\* A selection is as long as there are rows in the set.
LEMMA SelectLength ==
  ASSUME NEW R, NEW rows \in Seq(R), NEW S
  PROVE  Len(Select(rows, S)) = Tally(rows, S)
<1> DEFINE s == Select(rows, S)
<1>1. s \in Seq(R \intersect S) /\ Tally(s, S) = Tally(rows, S)
  <2>1. IsBoth(S, S, S)
    BY DEF IsBoth
  <2>2. s \in Seq(R \intersect S)
    BY SelectType
  <2> QED
    BY <2>1, <2>2, TallySelect
<1> HIDE DEF s
<1>2. \A i \in DOMAIN s : s[i] \in S
  BY <1>1
<1>3. Tally(s, S) = Len(s)
  BY <1>1, <1>2, TallyAll
<1> QED
  BY <1>1, <1>3 DEF s

-----------------------------------------------------------------------------
(***************************************************************************)
(* Sequences turned round, and sequences in strict order.                  *)
(***************************************************************************)
\* Turned round, the last row comes first.
LEMMA ReverseType ==
  ASSUME NEW R, NEW s \in Seq(R)
  PROVE  /\ Reverse(s) \in Seq(R) /\ Len(Reverse(s)) = Len(s)
         /\ \A i \in 1..Len(s) : Reverse(s)[i] = s[(Len(s) - i) + 1]
<1> DEFINE t == Reverse(s)
<1>1. t = [i \in 1..Len(s) |-> s[(Len(s) - i) + 1]] /\ Len(s) \in Nat
  BY DEF Reverse
<1>2. \A i \in 1..Len(s) : (Len(s) - i) + 1 \in 1..Len(s)
  BY <1>1
<1>3. \A i \in 1..Len(s) : s[(Len(s) - i) + 1] \in R
  BY <1>2
<1> HIDE DEF t
<1>4. t \in Seq(R) /\ Len(t) = Len(s)
  BY <1>1, <1>3
<1> QED
  BY <1>1, <1>4 DEF t

\* The row that came last comes first.
LEMMA ReverseAppend ==
  ASSUME NEW R, NEW s \in Seq(R), NEW x \in R
  PROVE  Reverse(Append(s, x)) = <<x>> \o Reverse(s)
<1> DEFINE more == Append(s, x)
           n == Len(s)
           t == Reverse(s)
           u == Reverse(more)
<1>1. more \in Seq(R) /\ Len(more) = n + 1 /\ more[n + 1] = x /\ n \in Nat
      /\ \A i \in 1..n : more[i] = s[i]
  OBVIOUS
<1> HIDE DEF more
<1>2. t \in Seq(R) /\ Len(t) = n /\ \A i \in 1..n : t[i] = s[(n - i) + 1]
  BY ReverseType
<1>3. u \in Seq(R) /\ Len(u) = n + 1 /\ \A i \in 1..(n + 1) : u[i] = more[((n + 1) - i) + 1]
  BY <1>1, ReverseType
<1> HIDE DEF t, u, n
<1>4. /\ <<x>> \o t \in Seq(R) /\ Len(<<x>> \o t) = n + 1
      /\ \A i \in 1..(n + 1) : (<<x>> \o t)[i] = IF i = 1 THEN x ELSE t[i - 1]
  BY <1>1, <1>2
<1>5. ASSUME NEW i \in 1..(n + 1) PROVE u[i] = (<<x>> \o t)[i]
  <2>1. CASE i = 1
    <3>1. ((n + 1) - i) + 1 = n + 1
      BY <1>1, <2>1
    <3> QED
      BY <1>1, <1>3, <1>4, <2>1, <3>1
  <2>2. CASE i # 1
    <3>1. i - 1 \in 1..n /\ ((n + 1) - i) + 1 \in 1..n /\ ((n + 1) - i) + 1 = (n - (i - 1)) + 1
      BY <1>1, <2>2
    <3>2. u[i] = s[(n - (i - 1)) + 1]
      BY <1>1, <1>3, <3>1
    <3>3. t[i - 1] = s[(n - (i - 1)) + 1]
      BY <1>2, <3>1
    <3> QED
      BY <1>4, <2>2, <3>2, <3>3
  <2> QED
    BY <2>1, <2>2
<1>6. u = <<x>> \o t
  BY <1>3, <1>4, <1>5, SeqEqual
<1> QED
  BY <1>6 DEF u, t, more

\* What is selected of rows turned round is what is selected, turned round.
LEMMA SelectReversed ==
  ASSUME NEW R, NEW s \in Seq(R), NEW S
  PROVE  Select(Reverse(s), S) = Reverse(Select(s, S))
<1> DEFINE Q == {u \in Seq(R) : Select(Reverse(u), S) = Reverse(Select(u, S))}
<1>1. <<>> \in Q
  <2>1. <<>> \in Seq(R) /\ Select(<<>>, S) = <<>>
    BY SelectEmpty
  <2>2. Reverse(<<>>) = <<>>
    <3> DEFINE none == <<>>
    <3>1. none \in Seq(R) /\ Len(none) = 0
      OBVIOUS
    <3> HIDE DEF none
    <3>2. Reverse(none) \in Seq(R) /\ Len(Reverse(none)) = 0
      BY <3>1, ReverseType
    <3>3. Reverse(none) = <<>>
      BY <3>2, EmptySeq
    <3> QED
      BY <3>3 DEF none
  <2> QED
    BY <2>1, <2>2
<1>2. ASSUME NEW u \in Seq(R), NEW x \in R, u \in Q PROVE Append(u, x) \in Q
  <2>1. Reverse(u) \in Seq(R) /\ <<x>> \in Seq(R) /\ Append(u, x) \in Seq(R)
    BY ReverseType
  <2>2. Select(Reverse(Append(u, x)), S) = Select(<<x>>, S) \o Select(Reverse(u), S)
    <3>1. Reverse(Append(u, x)) = <<x>> \o Reverse(u)
      BY ReverseAppend
    <3>2. ASSUME NEW a \in Seq(R), NEW b \in Seq(R)
          PROVE  Select(a \o b, S) = Select(a, S) \o Select(b, S)
      BY SelectConcat
    <3>3. Select(<<x>> \o Reverse(u), S) = Select(<<x>>, S) \o Select(Reverse(u), S)
      BY <2>1, <3>2
    <3> QED
      BY <3>1, <3>3
  <2>3. Select(<<x>>, S) = IF x \in S THEN <<x>> ELSE <<>>
    <3>1. <<x>> = Append(<<>>, x) /\ <<>> \in Seq(R)
      OBVIOUS
    <3>2. Select(Append(<<>>, x), S) = IF x \in S THEN Append(Select(<<>>, S), x) ELSE Select(<<>>, S)
      BY <3>1, SelectAppend
    <3>3. Select(<<>>, S) = <<>>
      BY SelectEmpty
    <3> QED
      BY <3>1, <3>2, <3>3
  <2>4. Select(Append(u, x), S) = IF x \in S THEN Append(Select(u, S), x) ELSE Select(u, S)
    BY SelectAppend
  <2>5. Select(u, S) \in Seq(R) /\ Select(Reverse(u), S) = Reverse(Select(u, S))
    BY <1>2, SelectType
  <2>6. Reverse(Select(u, S)) \in Seq(R)
    BY <2>5, ReverseType
  <2>7. CASE x \in S
    <3>1. Reverse(Append(Select(u, S), x)) = <<x>> \o Reverse(Select(u, S))
      BY <2>5, ReverseAppend
    <3> QED
      BY <2>1, <2>2, <2>3, <2>4, <2>5, <2>7, <3>1
  <2>8. CASE x \notin S
    <3>1. <<>> \o Reverse(Select(u, S)) = Reverse(Select(u, S))
      BY <2>6
    <3> QED
      BY <2>1, <2>2, <2>3, <2>4, <2>5, <2>8, <3>1
  <2> QED
    BY <2>7, <2>8
<1> HIDE DEF Q
<1>3. Seq(R) \subseteq Q
  BY <1>1, <1>2, SequenceInduction
<1> QED
  BY <1>3 DEF Q

\* No two rows have one key; the later row has the higher key.
KeysApart(s, key) == \A i, j \in 1..Len(s) : key[s[i]] = key[s[j]] => i = j
Strictly(s, key) == \A i, j \in 1..Len(s) : i < j => key[s[i]] < key[s[j]]

\* There is one strict order of given rows.
LEMMA OneStrictOrder ==
  ASSUME NEW R, NEW key, Numbers(key, R), NEW s \in Seq(R), NEW t \in Seq(R),
         Strictly(s, key), Strictly(t, key), Range(s) = Range(t), Len(s) = Len(t)
  PROVE  s = t
<1> DEFINE n == Len(s)
           S == {k \in Nat : \A i \in 1..n : i <= k => s[i] = t[i]}
<1>0. n \in Nat /\ Len(t) = n /\ DOMAIN s = 1..n /\ DOMAIN t = 1..n
      /\ \A i \in 1..n : key[s[i]] \in Int /\ key[t[i]] \in Int
  BY DEF Numbers
<1>1. 0 \in S
  OBVIOUS
<1>2. ASSUME NEW k \in Nat, k \in S, k + 1 <= n PROVE s[k + 1] = t[k + 1]
  <2>1. k + 1 \in 1..n /\ \A i \in 1..n : i <= k => s[i] = t[i]
    BY <1>0, <1>2
  <2>2. PICK j \in 1..n : s[k + 1] = t[j]
    BY <1>0, <2>1 DEF Range
  <2>3. PICK i \in 1..n : t[k + 1] = s[i]
    BY <1>0, <2>1 DEF Range
  <2>4. j >= k + 1
    <3> SUFFICES ASSUME j < k + 1 PROVE FALSE
      BY <2>1
    <3>1. s[j] = s[k + 1] /\ key[s[j]] < key[s[k + 1]]
      BY <1>0, <2>1, <2>2 DEF Strictly
    <3> QED
      BY <1>0, <2>1, <3>1
  <2>5. i >= k + 1
    <3> SUFFICES ASSUME i < k + 1 PROVE FALSE
      BY <2>1
    <3>1. t[i] = t[k + 1] /\ key[t[i]] < key[t[k + 1]]
      BY <1>0, <2>1, <2>3 DEF Strictly
    <3> QED
      BY <1>0, <2>1, <3>1
  <2>6. CASE j = k + 1
    BY <2>2, <2>6
  <2>7. CASE i = k + 1
    BY <2>3, <2>7
  <2>8. CASE j > k + 1 /\ i > k + 1
    <3>1. key[t[k + 1]] < key[t[j]]
      BY <1>0, <2>1, <2>8 DEF Strictly
    <3>2. key[s[k + 1]] < key[s[i]]
      BY <1>0, <2>1, <2>8 DEF Strictly
    <3> QED
      BY <1>0, <2>1, <2>2, <2>3, <3>1, <3>2
  <2> QED
    BY <2>1, <2>4, <2>5, <2>6, <2>7, <2>8
<1>3. ASSUME NEW k \in Nat, k \in S PROVE k + 1 \in S
  <2>1. ASSUME NEW i \in 1..n, i <= k + 1 PROVE s[i] = t[i]
    <3>1. CASE i <= k
      BY <1>3, <3>1
    <3>2. CASE i = k + 1
      BY <1>2, <1>3, <2>1, <3>2
    <3> QED
      BY <2>1, <3>1, <3>2
  <2> QED
    BY <2>1
<1> HIDE DEF S
<1>4. n \in S
  BY <1>0, <1>1, <1>3, SetInduction
<1>5. \A i \in 1..n : s[i] = t[i]
  BY <1>0, <1>4 DEF S
<1> QED
  BY <1>0, <1>5, SeqEqual

\* Rows of keys apart are sorted strictly, and are the same rows.
LEMMA SortStrictly ==
  ASSUME NEW R, NEW key, Numbers(key, R), NEW s \in Seq(R), KeysApart(s, key)
  PROVE  /\ StableSort(s, key) \in Seq(R) /\ Strictly(StableSort(s, key), key)
         /\ Range(StableSort(s, key)) = Range(s) /\ Len(StableSort(s, key)) = Len(s)
<1> DEFINE t == StableSort(s, key)
<1>1. t \in Seq(R) /\ InOrder(t, key) /\ \A V : Tally(t, V) = Tally(s, V)
  BY TallySort
<1>2. Len(t) = Len(s)
  BY SortLength
<1> HIDE DEF t
<1>3. Range(t) = Range(s)
  <2>1. ASSUME NEW x PROVE x \in Range(t) <=> x \in Range(s)
    <3>1. x \in Range(t) <=> Tally(t, {x}) # 0
      BY <1>1, TallyOfOne
    <3>2. x \in Range(s) <=> Tally(s, {x}) # 0
      BY TallyOfOne
    <3> QED
      BY <1>1, <3>1, <3>2
  <2> QED
    BY <2>1
<1>4. ASSUME NEW i \in 1..Len(t), NEW j \in 1..Len(t), i < j, key[t[i]] = key[t[j]] PROVE FALSE
  <2> DEFINE V == {r \in R : key[r] = key[t[i]]}
             A == {m \in DOMAIN t : t[m] \in V}
             B == {m \in DOMAIN s : s[m] \in V}
  <2>1. DOMAIN t = 1..Len(t) /\ DOMAIN s = 1..Len(s) /\ Len(t) \in Nat /\ Len(s) \in Nat
        /\ (\A m \in DOMAIN t : t[m] \in R) /\ \A m \in DOMAIN s : s[m] \in R
    BY <1>1
  <2>2. Cardinality(A) = Cardinality(B)
    BY <1>1 DEF Tally
  <2>3. {i, j} \subseteq A /\ A \subseteq 1..Len(t) /\ B \subseteq 1..Len(s)
    BY <1>4, <2>1
  <2>4. \A m, l \in B : m = l
    BY <2>1 DEF KeysApart
  <2> HIDE DEF A, B
  <2>5. Cardinality({i, j}) = 2 /\ IsFiniteSet({i, j})
    <3>1. Cardinality({i}) = 1 /\ IsFiniteSet({i})
      BY FS_Singleton
    <3>2. j \notin {i} /\ {i, j} = {i} \cup {j}
      BY <1>4, <2>1
    <3>3. Cardinality({i} \cup {j}) = Cardinality({i}) + 1 /\ IsFiniteSet({i} \cup {j})
      <4>1. /\ IsFiniteSet({i} \cup {j})
            /\ Cardinality({i} \cup {j})
                 = IF j \in {i} THEN Cardinality({i}) ELSE Cardinality({i}) + 1
        BY <3>1, FS_AddElement
      <4> QED
        BY <3>2, <4>1
    <3>4. Cardinality({i, j}) = 1 + 1 /\ IsFiniteSet({i, j})
      BY <3>1, <3>2, <3>3
    <3> QED
      BY <3>4
  <2>6. IsFiniteSet(A) /\ IsFiniteSet(B)
    <3>1. IsFiniteSet(1..Len(t)) /\ IsFiniteSet(1..Len(s))
      BY <2>1, FS_Interval
    <3>2. IsFiniteSet(A)
      BY <2>3, <3>1, FS_Subset
    <3>3. IsFiniteSet(B)
      BY <2>3, <3>1, FS_Subset
    <3> QED
      BY <3>2, <3>3
  <2>7. Cardinality({i, j}) <= Cardinality(A)
    BY <2>3, <2>6, FS_Subset
  <2>8. Cardinality(B) \in 0..1
    <3>1. CASE B = {}
      BY <3>1, FS_EmptySet
    <3>2. CASE B # {}
      <4>1. PICK m : B = {m}
        BY <2>4, <3>2
      <4>2. Cardinality({m}) = 1
        BY FS_Singleton
      <4>3. Cardinality(B) = 1
        BY <4>1, <4>2
      <4> QED
        BY <4>3
    <3> QED
      BY <3>1, <3>2
  <2> QED
    BY <2>2, <2>5, <2>7, <2>8
<1>5. Strictly(t, key)
  <2> SUFFICES ASSUME NEW i \in 1..Len(t), NEW j \in 1..Len(t), i < j PROVE key[t[i]] < key[t[j]]
    BY DEF Strictly
  <2>1. key[t[i]] \in Int /\ key[t[j]] \in Int
    BY <1>1 DEF Numbers
  <2>2. key[t[i]] <= key[t[j]]
    BY <1>1 DEF InOrder
  <2> QED
    BY <1>4, <2>1, <2>2
<1> QED
  BY <1>1, <1>2, <1>3, <1>5 DEF t

-----------------------------------------------------------------------------
(***************************************************************************)
(* Totals of amounts that are not negative, and of squares.                *)
(***************************************************************************)
\* Such a total is none only of nothing.
LEMMA TotalOfAmounts ==
  ASSUME NEW R, NEW rows \in Seq(R), NEW field, \A row \in R : row[field] \in Nat
  PROVE  /\ TotalOf(rows, field) \in Nat
         /\ TotalOf(rows, field) = 0 <=> \A i \in 1..Len(rows) : rows[i][field] = 0
<1> DEFINE Q == {s \in Seq(R) : /\ TotalOf(s, field) \in Nat
                                /\ TotalOf(s, field) = 0 <=> \A i \in 1..Len(s) : s[i][field] = 0}
<1>1. <<>> \in Q
  <2>1. TotalOf(<<>>, field) = 0 /\ <<>> \in Seq(R) /\ Len(<<>>) = 0
    BY TotalEmpty
  <2> QED
    BY <2>1
<1>2. ASSUME NEW s \in Seq(R), NEW x \in R, s \in Q PROVE Append(s, x) \in Q
  <2> DEFINE more == Append(s, x)
             total == TotalOf(s, field)
             least == TotalOf(more, field)
  <2>1. total \in Nat /\ (total = 0 <=> \A i \in 1..Len(s) : s[i][field] = 0)
    BY <1>2
  <2>2. least = total + x[field] /\ x[field] \in Nat
    <3>1. HasField(R, field)
      BY DEF HasField
    <3> QED
      BY <3>1, TotalAppend
  <2>3. more \in Seq(R) /\ Len(more) = Len(s) + 1 /\ Len(s) \in Nat
        /\ more[Len(s) + 1] = x /\ \A i \in 1..Len(s) : more[i] = s[i]
    OBVIOUS
  <2> HIDE DEF more, total, least
  <2>4. (\A i \in 1..Len(more) : more[i][field] = 0)
          <=> x[field] = 0 /\ \A i \in 1..Len(s) : s[i][field] = 0
    <3>1. \A i \in 1..(Len(s) + 1) : i \in 1..Len(s) \/ i = Len(s) + 1
      BY <2>3
    <3>2. Len(s) + 1 \in 1..(Len(s) + 1) /\ \A i \in 1..Len(s) : i \in 1..(Len(s) + 1)
      BY <2>3
    <3> QED
      BY <2>3, <3>1, <3>2
  <2>5. least \in Nat /\ (least = 0 <=> total = 0 /\ x[field] = 0)
    BY <2>1, <2>2
  <2>6. least = 0 <=> \A i \in 1..Len(more) : more[i][field] = 0
    BY <2>1, <2>4, <2>5
  <2> QED
    BY <2>3, <2>5, <2>6 DEF more, least
<1> HIDE DEF Q
<1>3. rows \in Q
  BY <1>1, <1>2, SequenceInduction
<1> QED
  BY <1>3 DEF Q

\* The square of a sum is at most the squares, as often as there are any.
LEMMA SquareStep ==
  ASSUME NEW k \in Nat, NEW a \in Int, NEW b \in Int, NEW x \in Int,
         k * b - a * a >= 0, b >= 0, k = 0 => a = 0
  PROVE  (k + 1) * (b + x * x) - (a + x) * (a + x) >= 0
<1> DEFINE kb == k * b
           aa == a * a
           ax == a * x
           xx == x * x
           kxx == k * xx
           rest == b - 2 * ax + kxx
<1>1. kb \in Int /\ aa \in Int /\ ax \in Int /\ xx \in Nat /\ kxx \in Int
  OBVIOUS
<1>2. (k + 1) * (b + xx) = kb + b + kxx + xx /\ (a + x) * (a + x) = aa + 2 * ax + xx
  OBVIOUS
<1>3. CASE k = 0
  <2>1. ax = 0 /\ kxx = 0
    BY <1>3
  <2>2. rest >= 0
    BY <2>1
  <2> HIDE DEF kb, aa, ax, xx, kxx
  <2>3. kb - aa >= 0
    BY DEF kb, aa
  <2> QED
    BY <1>1, <1>2, <2>2, <2>3 DEF xx
<1>4. CASE k > 0
  <2>1. k * rest = kb - 2 * (k * ax) + k * kxx
    OBVIOUS
  <2>2. (a - k * x) * (a - k * x) = aa - 2 * (k * ax) + k * kxx
    OBVIOUS
  <2>3. (a - k * x) * (a - k * x) >= 0
    <3>1. a - k * x \in Int
      OBVIOUS
    <3>2. \A y \in Int : y * y >= 0
      OBVIOUS
    <3> HIDE DEF kb, aa, ax, xx, kxx, rest
    <3> QED
      BY <3>1, <3>2
  <2>4. k * rest >= 0
    <3> DEFINE p == (a - k * x) * (a - k * x)
               q == k * ax
               r == k * kxx
               t == k * rest
    <3>1. q \in Int /\ r \in Int
      OBVIOUS
    <3>2. kb - aa >= 0
      OBVIOUS
    <3>3. t = kb - 2 * q + r /\ p = aa - 2 * q + r /\ p >= 0
      BY <2>1, <2>2, <2>3
    <3> HIDE DEF p, q, r, t, kb, aa
    <3>4. t >= 0
      BY <1>1, <3>1, <3>2, <3>3
    <3> QED
      BY <3>4 DEF t
  <2>5. rest \in Int
    OBVIOUS
  <2> HIDE DEF rest, kb, aa, ax, xx, kxx
  <2>6. rest >= 0
    <3>1. ASSUME NEW y \in Int, y < 0 PROVE k * y < 0
      BY <1>4, <3>1
    <3> QED
      BY <2>4, <2>5, <3>1
  <2>7. kb - aa >= 0
    BY DEF kb, aa
  <2>8. (k + 1) * (b + xx) - (a + x) * (a + x) = (kb - aa) + rest
    BY <1>1, <1>2 DEF rest
  <2> QED
    BY <1>1, <2>5, <2>6, <2>7, <2>8 DEF xx
<1> QED
  BY <1>3, <1>4

\* The rows of a table of numbers and their squares.
IsSquared(R, field, square) == \A row \in R : row[field] \in Int /\ row[square] = row[field] * row[field]

\* As often as there are rows, their squares are no less than the square of their sum.
LEMMA SquaresBound ==
  ASSUME NEW R, NEW rows \in Seq(R), NEW field, NEW square, IsSquared(R, field, square)
  PROVE  /\ TotalOf(rows, field) \in Int /\ TotalOf(rows, square) \in Nat
         /\ Len(rows) * TotalOf(rows, square) - TotalOf(rows, field) * TotalOf(rows, field) >= 0
<1> DEFINE Bound(s) ==
             /\ TotalOf(s, field) \in Int /\ TotalOf(s, square) \in Nat
             /\ Len(s) * TotalOf(s, square) - TotalOf(s, field) * TotalOf(s, field) >= 0
             /\ Len(s) = 0 => TotalOf(s, field) = 0
           Q == {s \in Seq(R) : Bound(s)}
<1>0. HasField(R, field) /\ HasField(R, square) /\ \A row \in R : row[square] \in Nat
  <2>1. \A y \in Int : y * y \in Nat
    OBVIOUS
  <2> QED
    BY <2>1 DEF IsSquared, HasField
<1>1. <<>> \in Q
  <2>1. /\ TotalOf(<<>>, field) = 0 /\ TotalOf(<<>>, square) = 0
        /\ <<>> \in Seq(R) /\ Len(<<>>) = 0
    BY TotalEmpty
  <2> QED
    BY <2>1
<1>2. ASSUME NEW s \in Seq(R), NEW row \in R, s \in Q PROVE Append(s, row) \in Q
  <2> DEFINE k == Len(s)
             a == TotalOf(s, field)
             b == TotalOf(s, square)
             x == row[field]
             more == Append(s, row)
  <2>1. k \in Nat /\ a \in Int /\ b \in Nat /\ k * b - a * a >= 0 /\ (k = 0 => a = 0)
    BY <1>2
  <2>2. x \in Int /\ row[square] = x * x
    BY DEF IsSquared
  <2>3. TotalOf(more, field) = a + x /\ TotalOf(more, square) = b + row[square]
    BY <1>0, TotalAppend
  <2>4. more \in Seq(R) /\ Len(more) = k + 1
    OBVIOUS
  <2> HIDE DEF k, a, b, x, more
  <2>5. (k + 1) * (b + x * x) - (a + x) * (a + x) >= 0
    <3>1. b \in Int /\ b >= 0
      BY <2>1
    <3> QED
      BY <2>1, <2>2, <3>1, SquareStep
  <2>6. a + x \in Int /\ b + x * x \in Nat
    <3>1. x * x \in Nat
      BY <2>2
    <3> HIDE <2>5
    <3> QED
      BY <2>1, <2>2, <3>1
  <2>7. Bound(more)
    BY <2>1, <2>2, <2>3, <2>4, <2>5, <2>6
  <2> QED
    BY <2>4, <2>7 DEF more
<1> HIDE DEF Q
<1>3. rows \in Q
  BY <1>1, <1>2, SequenceInduction
<1> QED
  BY <1>3 DEF Q

-----------------------------------------------------------------------------
(***************************************************************************)
(* Rounding to a quantum.                                                  *)
(***************************************************************************)
\* A positive factor cancels.
LEMMA Cancel ==
  ASSUME NEW F \in Nat, F > 0, NEW x \in Int, NEW y \in Int
  PROVE  (x <= y <=> x * F <= y * F) /\ x * F \in Int
<1>1. x * F \in Int /\ y * F \in Int
  OBVIOUS
<1>2. ASSUME x <= y PROVE x * F <= y * F
  <2>1. PICK d \in Nat : y = x + d
    BY <1>2
  <2>2. y * F = x * F + d * F /\ d * F >= 0
    BY <2>1
  <2> QED
    BY <1>1, <2>2
<1>3. ASSUME ~(x <= y) PROVE ~(x * F <= y * F)
  <2>1. PICK d \in Nat : x = y + d /\ d > 0
    BY <1>3
  <2>2. x * F = y * F + d * F /\ d * F > 0
    BY <2>1
  <2> QED
    BY <1>1, <2>2
<1> QED
  BY <1>1, <1>2, <1>3

\* A fraction and what it is rounded to are at most a half apart.
LEMMA HalfEvenIs ==
  ASSUME NEW n \in Int, NEW d \in Nat, d > 0
  PROVE  /\ RoundHalfEven(n, d) \in Int
         /\ 2 * (RoundHalfEven(n, d) * d) <= 2 * n + d
         /\ 2 * (RoundHalfEven(n, d) * d) >= 2 * n - d
<1> DEFINE whole == n \div d
           rest == n % d
           r == RoundHalfEven(n, d)
<1>1. whole \in Int /\ rest \in Nat /\ rest < d /\ n = d * whole + rest
  OBVIOUS
<1>2. r = IF 2 * rest > d \/ (2 * rest = d /\ whole % 2 = 1) THEN whole + 1 ELSE whole
  BY DEF RoundHalfEven
<1> HIDE DEF whole, rest, r
<1>3. PICK a \in Int : a = whole * d
  BY <1>1
<1>4. n = a + rest /\ (whole + 1) * d = a + d
  BY <1>1, <1>3
<1>5. (r = whole + 1 /\ 2 * rest >= d) \/ (r = whole /\ 2 * rest <= d)
  BY <1>1, <1>2
<1>6. r \in Int /\ ((r * d = a + d /\ 2 * rest >= d) \/ (r * d = a /\ 2 * rest <= d))
  BY <1>1, <1>3, <1>4, <1>5
<1>7. PICK m \in Int : m = r * d
  BY <1>6
<1>8. 2 * m <= 2 * n + d /\ 2 * m >= 2 * n - d
  BY <1>1, <1>4, <1>6, <1>7
<1> QED
  BY <1>6, <1>7, <1>8 DEF r
=============================================================================
