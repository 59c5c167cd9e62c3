-------------------------- MODULE PatternDiscovery --------------------------
(***************************************************************************)
(* The reverse engineering of a wallet (analysis/reverse_engineer): the    *)
(* busiest window of its day, and the patterns found in the earlier half   *)
(* of its purchases and judged on the later half.                          *)
(***************************************************************************)
EXTENDS WalletAnalysis

CONSTANT TopPatterns     \* patterns kept: 5 in the code

ASSUME PatternsAssumption == TopPatterns \in Nat

Width == 3               \* hours of a window, and of a band

CopiesOf(hours, h) == IF h \in DOMAIN hours THEN hours[h] ELSE 0

InWindow(hours, start) == SumFunction([i \in 1..Width |-> CopiesOf(hours, (start + i - 1) % 24)])

Starts == 0..23

\* The first of the windows with the most trades; None without any.
BusiestWindow(hours, total) ==
  IF total = 0 THEN None
  ELSE LET count == [s \in Starts |-> InWindow(hours, s)]
           start == CHOOSE s \in Starts :
                      \A r \in Starts : count[r] < count[s] \/ (count[r] = count[s] /\ s <= r)
       IN  [start |-> start, end |-> (start + Width - 1) % 24,
            coverage |-> RoundHalfEven(1000 * count[start], total)]

Chronological(items) == StableSort(Dated(items), [a \in Range(items) |-> a.time])

Purchases(items) ==
  Select(Chronological(items), {a \in Range(items) : a.side = "BUY" /\ a.price # None})

\* The earlier half of the purchases and the rest; fewer than four are none.
Segments(items) ==
  LET buys == Purchases(items)
      mid == IF Len(buys) < 4 THEN 0 ELSE Len(buys) \div 2
  IN  [discovery  |-> SubSeq(buys, 1, mid),
       validation |-> IF mid = 0 THEN <<>> ELSE SubSeq(buys, mid + 1, Len(buys))]

BandEdges == <<0, 10, 30, 50, 70, 90, 101>>

\* Mutant: the band is of the hour in UTC.
Key_Utc(a) == [bucket |-> Bucket(a.price, BandEdges), band |-> Hour(a.time) \div Width]

Key(a) == [bucket |-> Bucket(a.price, BandEdges), band |-> LocalHour(a.time) \div Width]

KeysOf(buys) == [i \in DOMAIN buys |-> Key(buys[i])]

Support(key, buys) == CopiesOf(ToBag(KeysOf(buys)), key)

Coverage(support, buys) == RoundHalfEven(1000 * support, Len(buys))

Distance(m, n) == IF m <= n THEN n - m ELSE m - n

Stability(found, again) ==
  IF again = 0 THEN "gone" ELSE IF Distance(found, again) <= 100 THEN "stable" ELSE "shifted"

\* Mutant: the patterns are ranked on everything there is.
Ranked_LookAhead(segments) ==
  MostCommon(KeysOf(segments.discovery \o segments.validation), TopPatterns)

Ranked(segments) == MostCommon(KeysOf(segments.discovery), TopPatterns)

\* _discover_candidates.
Candidates(items) ==
  LET s == Segments(items)
      ranked == Ranked(s)
      Candidate(r) ==
        LET found == Coverage(r.count, s.discovery)
            again == Coverage(Support(r.value, s.validation), s.validation)
        IN  [pattern |-> r.value, support |-> r.count, coverage |-> found,
             validation |-> Support(r.value, s.validation), validationCoverage |-> again,
             stability |-> Stability(found, again), weak |-> r.count < 5]
  IN  [i \in DOMAIN ranked |-> Candidate(ranked[i])]

\* Money of the purchases or of the sales that state theirs.
Flow(items, side) ==
  FoldLeft(LAMBDA n, a : IF a.side = side /\ a.usdc # None THEN n + a.usdc ELSE n, 0, items)

\* build_reverse_engineering, of what it derives, estimates and proposes.
ReverseEngineer(items) ==
  LET a == AnalyzeWallet(items)
  IN  [analysis |-> a, busiest |-> BusiestWindow(a.hourLocal, a.dated),
       netCashFlow |-> Flow(items, "SELL") - Flow(items, "BUY"),
       candidates |-> Candidates(items), small |-> a.records < 50]
=============================================================================
