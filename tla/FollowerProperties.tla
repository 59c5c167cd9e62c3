------------------------- MODULE FollowerProperties -------------------------
(***************************************************************************)
(* What the paper follower must guarantee, whatever is interleaved with    *)
(* it and wherever it dies.                                                *)
(***************************************************************************)
EXTENDS PaperFollower

\* Every variable keeps its type, and a poll never holds more than --latest.
TypeOK ==
  /\ clock \in 0..MaxClock /\ published \subseteq Activities
  /\ db \in Image /\ work \in Image /\ writer \in Procs \union {NoProc}
  /\ pc \in [Procs -> Places] /\ run \in [Procs -> 0..MaxRuns]
  /\ now \in [Procs -> 0..MaxClock] /\ queue \in [Procs -> Seq(Activities)]
  /\ pos \in [Procs -> Position] /\ est \in [Procs -> Estimate]
  /\ reason \in [Procs -> Reasons] /\ deaths \in 0..MaxDeaths
  /\ \A p \in Procs : Len(queue[p]) <= Latest

(***************************************************************************)
(* Whatever process dies wherever, the committed file never holds half a   *)
(* trade: each signal row marked filled has exactly one fill row, for the  *)
(* same run, and each fill row belongs to a filled signal (db.atomic).     *)
(***************************************************************************)
FillsMatchSignalsIn(img) ==
  /\ \A i \in DOMAIN img.signals : img.signals[i].filled =>
       \E j \in DOMAIN img.fills : img.fills[j].ref = i
  /\ \A j \in DOMAIN img.fills :
       /\ img.fills[j].ref \in DOMAIN img.signals
       /\ img.signals[img.fills[j].ref].filled
       /\ img.signals[img.fills[j].ref].run = img.fills[j].run
       /\ \A k \in DOMAIN img.fills : img.fills[k].ref = img.fills[j].ref => k = j

FillsMatchSignals == FillsMatchSignalsIn(db)

(***************************************************************************)
(* The positions cache never desyncs from the fills: what a run holds of   *)
(* an asset is what it bought less what it sold (comments in follower.py   *)
(* and db.py).  Needs one follower per run.                                *)
(***************************************************************************)
PositionsReconcile ==
  \A r \in Runs, a \in Assets :
    db.positions[<<r, a>>].quantity =
      TotalOf(FillsOf(db, r, a, "BUY"), "quantity") - TotalOf(FillsOf(db, r, a, "SELL"), "quantity")

(***************************************************************************)
(* A run never sells more of an asset than it bought.                      *)
(***************************************************************************)
NeverOversold ==
  \A r \in Runs, a \in Assets :
    TotalOf(FillsOf(db, r, a, "SELL"), "quantity") <= TotalOf(FillsOf(db, r, a, "BUY"), "quantity")

(***************************************************************************)
(* The k-th closure of a run and asset reports the k-th sale: same         *)
(* quantity, same proceeds.  So the realized P&L of the report covers the  *)
(* sales and nothing else, also after a crash between the two rows.        *)
(***************************************************************************)
ClosuresMatchSells ==
  \A r \in Runs, a \in Assets :
    LET sells == FillsOf(db, r, a, "SELL")
        closures == ClosuresOf(db, r, a)
    IN  /\ Len(closures) = Len(sells)
        /\ \A k \in DOMAIN sells :
             /\ closures[k].quantity = sells[k].quantity
             /\ closures[k].proceeds = sells[k].notional

(***************************************************************************)
(* No money is made or lost by bookkeeping: cash out plus realized profit  *)
(* is cash in plus the basis still open, up to one unit of rounding per    *)
(* sale, along any sequence of purchases and partial exits.                *)
(***************************************************************************)
CashReconciles ==
  \A r \in Runs, a \in Assets :
    LET sells == FillsOf(db, r, a, "SELL")
        closures == ClosuresOf(db, r, a)
        realized == TotalOf(closures, "realized")
        gap == (TotalOf(FillsOf(db, r, a, "BUY"), "notional") + realized)
                 - (TotalOf(sells, "notional") + db.positions[<<r, a>>].cost)
    IN  gap \in 0..Len(sells)

(***************************************************************************)
(* has_signal before the work is enough: no follower that has its run to   *)
(* itself is ever killed by the UNIQUE constraint, also when two           *)
(* activities of one batch have the same signal id.                        *)
(***************************************************************************)
NeverViolatesUnique ==
  \A p \in Procs : pc[p] \in {"skip", "signal"} => ~HasSignal(db, run[p], act(p).sid)

(***************************************************************************)
(* A burst is replayed in causal order (process_activities): a sale is     *)
(* never given up for want of the shares that an earlier purchase, still   *)
(* waiting in the same poll, would have brought.  Ids are in the order in  *)
(* which the wallet traded, within one second of the feed too.             *)
(***************************************************************************)
BurstsReplayInOrder ==
  \A p \in Procs : pc[p] = "skip" /\ reason[p] = "invalid_market_state" =>
    \A i \in 2..Len(queue[p]) :
      LET waiting == queue[p][i]
      IN  waiting.side = "BUY" /\ waiting.asset = act(p).asset => waiting.id > act(p).id

(***************************************************************************)
(* A commit trades one fill at most, and moves only the position of its    *)
(* own run and asset, by exactly that fill.                                *)
(***************************************************************************)
PositionsMove ==
  \/ db'.fills = db.fills /\ db'.positions = db.positions
  \/ LET f == db'.fills[Len(db'.fills)]
         k == <<f.run, f.asset>>
         moved == IF f.side = "BUY" THEN f.quantity ELSE -f.quantity
     IN  /\ db'.fills = Append(db.fills, f)
         /\ db'.positions[k].quantity = db.positions[k].quantity + moved
         /\ \A other \in (Runs \X Assets) \ {k} :
              db'.positions[other] = db.positions[other]

PositionsFollowFills == [][PositionsMove]_db

(***************************************************************************)
(* The abstract ledger this module implements.                             *)
(***************************************************************************)
Ledger == INSTANCE PaperLedger WITH
  created <- db.runs, disposed <- Disposed(db),
  fills <- db.fills, positions <- db.positions

ImplementsLedger == Ledger!Spec

(***************************************************************************)
(* Liveness: a follower of a run that stays up disposes sometime of every  *)
(* published activity, when the feed window holds them all.                *)
(***************************************************************************)
EverySignalDisposed ==
  \A p \in Procs, a \in Activities :
    (a \in published /\ run[p] # 0) ~>
      (run[p] = 0 \/ HasSignal(db, run[p], a.sid))

\* The write lock never stays with one process.
LockReleased == \A p \in Procs : writer = p ~> writer # p
=============================================================================
