---------------------------- MODULE PaperReport ----------------------------
(***************************************************************************)
(* `edge-lab paper-report` (paper/report.py) beside the followers: it      *)
(* reads one table after the other, each SELECT on its own, while they     *)
(* commit trades in between.  Percentiles, the fill rate and the market    *)
(* concentration are left out.                                             *)
(***************************************************************************)
EXTENDS PaperFollower

CONSTANTS
  Prices,          \* bids a position may be marked at
  NoPrice          \* the price is not known, or not asked for (--mark)

\* Mutant: the fills are read before the signals.
Tables_FillsFirst == <<"fills", "signals", "closures", "positions", "marks", "skips">>

\* The order in which build_report reads.
Tables == <<"signals", "fills", "closures", "positions", "marks", "skips">>

ASSUME PricesAssumption == Prices \subseteq Nat

VARIABLES
  step,        \* the table to read next; 0 when no report is under way
  subject,     \* the run reported on
  read,        \* what was read of it
  quiet        \* history: nothing was committed since the first table

reportVars == <<step, subject, read, quiet>>

NothingRead ==
  [signals |-> <<>>, fills |-> <<>>, closures |-> <<>>,
   positions |-> [a \in Assets |-> NoPosition],
   marks |-> [a \in Assets |-> NoPrice],
   skips |-> [r \in Reasons |-> 0]]

ReportInit ==
  /\ Init
  /\ step = 0 /\ subject = 0 /\ read = NothingRead /\ quiet = TRUE

\* The latest run, or any one by --run-id.
StartReport ==
  /\ step = 0 /\ step' = 1
  /\ subject' \in 1..db.runs
  /\ quiet' = TRUE
  /\ UNCHANGED <<vars, read>>

RowsOf(rows) ==
  Select(rows, {row \in SignalRow \union FillRow \union ClosureRow : row.run = subject})

SkipCounts(rows) ==
  [r \in Reasons |-> Len(Select(rows, {s \in SignalRow : ~s.filled /\ s.reason = r}))]

\* What a table answers now.
Content(table) ==
  CASE table = "signals"   -> RowsOf(db.signals)
    [] table = "fills"     -> RowsOf(db.fills)
    [] table = "closures"  -> RowsOf(db.closures)
    [] table = "positions" -> [a \in Assets |-> db.positions[<<subject, a>>]]
    [] table = "skips"     -> SkipCounts(RowsOf(db.signals))

Reading(table) == step \in DOMAIN Tables /\ Tables[step] = table

Take(table, content) ==
  /\ Reading(table)
  /\ step' = step + 1
  /\ read' = [read EXCEPT ![table] = content]
  /\ UNCHANGED <<vars, subject, quiet>>

ReadTable == \E t \in DOMAIN NothingRead \ {"marks"} : Take(t, Content(t))

\* The price of each open position is asked for in turn; any may fail.
MarkPositions ==
  \E m \in [Assets -> Prices \union {NoPrice}] : Take("marks", m)

Done == step = Len(Tables) + 1

PrintReport ==
  /\ Done
  /\ step' = 0 /\ subject' = 0 /\ read' = NothingRead /\ quiet' = TRUE
  /\ UNCHANGED vars

ReportNext ==
  \/ Next /\ quiet' = (quiet /\ db' = db) /\ UNCHANGED <<step, subject, read>>
  \/ StartReport \/ ReadTable \/ MarkPositions \/ PrintReport

ReportSpec == ReportInit /\ [][ReportNext]_<<vars, reportVars>>

-----------------------------------------------------------------------------
(***************************************************************************)
(* What the report makes of the rows.                                      *)
(***************************************************************************)
Filled == Select(read.signals, {s \in SignalRow : s.filled})
Side(side) == Select(read.fills, {f \in FillRow : f.side = side})

Realized == TotalOf(read.closures, "realized")

\* Mutant: the curve has its first point for a peak, not the start.
Drawdown_FromFirst(closures) ==
  LET Fall(c, row) ==
        LET sum == c.sum + row.realized
            peak == IF c.sum = 0 THEN sum ELSE -Smaller(-c.peak, -sum)
        IN  [sum |-> sum, peak |-> peak, worst |-> -Smaller(-c.worst, sum - peak)]
  IN  FoldLeft(Fall, [sum |-> 0, peak |-> 0, worst |-> 0], closures).worst

\* _max_realized_drawdown: the worst fall of the curve from a peak so far.
Drawdown(closures) ==
  LET Fall(c, row) ==
        LET sum == c.sum + row.realized
            peak == -Smaller(-c.peak, -sum)
        IN  [sum |-> sum, peak |-> peak, worst |-> -Smaller(-c.worst, sum - peak)]
  IN  FoldLeft(Fall, [sum |-> 0, peak |-> 0, worst |-> 0], closures).worst

OpenAssets == {a \in Assets : read.positions[a] # NoPosition}
Known == \A a \in OpenAssets : read.marks[a] # NoPrice

\* Mutant: a position is worth its price, whatever it cost.
Unrealized_NoBasis ==
  SumFunction([a \in OpenAssets |-> read.marks[a] * read.positions[a].quantity])

\* (price - avg_price) * quantity, over the open positions.
Unrealized ==
  SumFunction([a \in OpenAssets |->
                 read.marks[a] * read.positions[a].quantity - read.positions[a].cost])

-----------------------------------------------------------------------------
(***************************************************************************)
(* A report made while followers trade errs in one direction: what an      *)
(* earlier table mentions, a later one has.  No signal is counted filled   *)
(* without its fill, no sale without its realized profit, no skip without  *)
(* its reason (the order of the reads of build_report).                    *)
(***************************************************************************)
ReportMovesForward ==
  Done =>
    /\ Len(Filled) <= Len(read.fills)
    /\ Len(Side("SELL")) <= Len(read.closures)
    /\ \A r \in Reasons : SkipCounts(read.signals)[r] <= read.skips[r]

\* What the open positions would bring at their marks.
Worth == SumFunction([a \in OpenAssets |-> read.marks[a] * read.positions[a].quantity])

(***************************************************************************)
(* Realized and unrealized profit, computed apart from different tables,   *)
(* add up to the money: what the sales brought plus what the open          *)
(* positions would bring at their marks, less what was paid, up to a unit  *)
(* of rounding per sale.  Asserted of a report nothing was committed       *)
(* during (build_report, PaperReport.total_net_pnl).                       *)
(***************************************************************************)
ProfitAddsUp ==
  Done /\ quiet /\ Known =>
    LET money == TotalOf(Side("SELL"), "notional") + Worth - TotalOf(Side("BUY"), "notional")
    IN  Realized + Unrealized - money \in 0..Len(Side("SELL"))

(***************************************************************************)
(* The drawdown is the most a stretch of consecutive closures lost, from   *)
(* any start, the beginning included (_max_realized_drawdown).             *)
(***************************************************************************)
DrawdownIsTheWorstStretch ==
  Done =>
    LET n == Len(read.closures)
        Loss(i, j) == -TotalOf(SubSeq(read.closures, i, j), "realized")
        losses == {0} \union {Loss(i, j) : i, j \in 1..n}
    IN  /\ Drawdown(read.closures) \in losses
        /\ \A l \in losses : l <= Drawdown(read.closures)
=============================================================================
