------------------------- MODULE FollowerInvariant -------------------------
(***************************************************************************)
(* The inductive invariant of PaperFollower: what is true between any two  *)
(* steps, beside the types, and why the properties hold.                   *)
(***************************************************************************)
EXTENDS FollowerProperties

Idle == {"down", "create"}
Quoted == {"signal"} \union InTransaction
Decided == {"book"} \union Quoted

\* The position a transaction of p is about to leave.
NewPosition(p) ==
  LET held == IF act(p).side = "BUY"
                THEN AfterBuy(db.positions[<<run[p], act(p).asset>>], est[p])
                ELSE AfterSell(pos[p], est[p])
  IN  IF held.quantity <= 0 THEN NoPosition ELSE held

(***************************************************************************)
(* What a process knows at each place: it follows a run that exists, the   *)
(* activity in hand passed the checks made so far, and what it quoted is a *)
(* trade, of no more than the position it read.                            *)
(***************************************************************************)
HandAt(p) ==
  /\ pc[p] \in Idle => run[p] = 0
  /\ pc[p] \notin Idle => run[p] \in 1..db.runs
  /\ pc[p] \notin Idle \union {"poll", "next"} => queue[p] # <<>>
  /\ pc[p] \in Decided \union {"held"} => PreValidate(act(p), now[p]) = "none"
  /\ pc[p] \in {"held", "closure"} => act(p).side = "SELL"
  /\ pc[p] \in Decided /\ act(p).side = "SELL" => pos[p].quantity > 0
  /\ pc[p] \in Quoted => est[p].quantity > 0
  /\ pc[p] \in Quoted /\ act(p).side = "SELL" => est[p].quantity <= pos[p].quantity

HandInv == \A p \in Procs : HandAt(p)

(***************************************************************************)
(* Only the process in a transaction holds the write lock, and its image   *)
(* is the committed one with exactly the rows written so far.              *)
(***************************************************************************)
TransactionAt(p) ==
  /\ work.runs = db.runs
  /\ work.signals = Append(db.signals, SignalRowOf(p, TRUE, "none"))
  /\ work.fills = IF pc[p] = "fill" THEN db.fills
                  ELSE Append(db.fills, FillRowOf(p, Len(db.signals) + 1))
  /\ work.positions =
       IF pc[p] \in {"fill", "position"} THEN db.positions
       ELSE [db.positions EXCEPT ![<<run[p], act(p).asset>>] = NewPosition(p)]
  /\ work.closures =
       IF pc[p] = "commit" /\ act(p).side = "SELL"
         THEN Append(db.closures, ClosureOf(run[p], act(p).asset, pos[p], est[p]))
         ELSE db.closures

TransactionInv ==
  /\ writer = NoProc => work = db
  /\ \A p \in Procs : pc[p] \in InTransaction <=> writer = p
  /\ \A p \in Procs : writer = p => TransactionAt(p)

(***************************************************************************)
(* A follower that has its run to itself decides on what is still there    *)
(* when it commits: the signal is new and the position is the one it read. *)
(***************************************************************************)
DistinctRuns == \A p, q \in Procs : p # q /\ run[p] = run[q] => run[p] = 0

ExclusiveAt(p) ==
  /\ pc[p] \notin Idle \union {"poll", "next"} =>
       ~HasSignal(db, run[p], act(p).sid)
  /\ pc[p] \in Decided /\ act(p).side = "SELL" =>
       pos[p] = db.positions[<<run[p], act(p).asset>>]

ExclusiveInv == ExclusiveRuns => DistinctRuns /\ \A p \in Procs : ExclusiveAt(p)

(***************************************************************************)
(* The inductive invariant, from which the theorems of FollowerProofs      *)
(* follow.                                                                 *)
(***************************************************************************)
IInv == TypeOK /\ HandInv /\ TransactionInv /\ ExclusiveInv /\ FillsMatchSignals
=============================================================================
