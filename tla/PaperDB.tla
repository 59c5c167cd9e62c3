------------------------------ MODULE PaperDB ------------------------------
(***************************************************************************)
(* The content of the SQLite file of paper trading (paper/db.py), as one   *)
(* value called an image: rows of observed_signals, paper_fills and        *)
(* paper_closures in the order of their ids, and paper_positions as a      *)
(* function, a missing row being NoPosition.  signal_ref of a fill is the  *)
(* id of its signal row; runs are numbered from 1 in the order of their    *)
(* creation, so the latest one is also how many there are.                 *)
(***************************************************************************)
EXTENDS Rows

CONSTANTS
  SignalIds,       \* WalletActivity.signal_id values
  Assets,          \* token ids
  MaxRuns          \* bound: runs created

Runs == 1..MaxRuns

\* Why a signal is skipped; "none" for a filled one.
Reasons == {"none", "unsupported_activity", "missing_token_id",
            "missing_source_price", "signal_too_old", "invalid_market_state",
            "order_book_unavailable", "insufficient_liquidity",
            "price_drift_too_large"}

SignalRow == [run : Runs, sid : SignalIds, filled : BOOLEAN, reason : Reasons]

FillRow == [run : Runs, ref : Nat, asset : Assets, side : {"BUY", "SELL"},
            quantity : Nat, notional : Nat, price : Nat, age : Nat]

ClosureRow == [run : Runs, asset : Assets, quantity : Nat, proceeds : Nat,
               realized : Int]

Position == [quantity : Nat, cost : Nat]
NoPosition == [quantity |-> 0, cost |-> 0]

Image == [runs : 0..MaxRuns, signals : Seq(SignalRow), fills : Seq(FillRow),
          closures : Seq(ClosureRow), positions : [Runs \X Assets -> Position]]

EmptyImage == [runs |-> 0, signals |-> <<>>, fills |-> <<>>, closures |-> <<>>,
               positions |-> [k \in Runs \X Assets |-> NoPosition]]

HasSignal(img, r, sid) ==
  \E i \in DOMAIN img.signals : img.signals[i].run = r /\ img.signals[i].sid = sid

\* Writing a holding of nothing deletes the row.
UpsertPosition(img, r, a, held) ==
  [img EXCEPT !.positions[<<r, a>>] =
     IF held.quantity <= 0 THEN NoPosition ELSE held]

-----------------------------------------------------------------------------
\* What reports and properties read off an image.
FillsOf(img, r, a, side) ==
  Select(img.fills, {f \in FillRow : f.run = r /\ f.asset = a /\ f.side = side})

ClosuresOf(img, r, a) ==
  Select(img.closures, {c \in ClosureRow : c.run = r /\ c.asset = a})

Disposed(img) == {<<img.signals[i].run, img.signals[i].sid>> : i \in DOMAIN img.signals}
=============================================================================
