--------------------------- MODULE PaperFollower ---------------------------
(***************************************************************************)
(* The paper follower of edge_lab: processes that poll the public activity *)
(* of a wallet, simulate each trade they see against the current order     *)
(* book, and keep signals, fills, positions and closures in one SQLite     *)
(* file.  One process is one `edge-lab paper-follow`; several may share    *)
(* the file.                                                               *)
(*                                                                         *)
(* Between two of its steps a process may be overtaken by another, by the  *)
(* clock or by new activity, and may die.  A step is one access to the     *)
(* database or to the network, with the computation that follows it.       *)
(***************************************************************************)
EXTENDS PaperDB, OrderBooks, FiniteSets

CONSTANTS
  Procs,           \* follower processes
  Activities,      \* what the wallet may do: records, see ActivityType
  Books,           \* order books the CLOB may answer with
  PaperUsdc,       \* FollowConfig.paper_usdc, money spent on a BUY
  MaxAge,          \* FollowConfig.max_age_seconds
  MaxDriftBps,     \* FollowConfig.max_drift_bps
  Latest,          \* activities fetched per poll (--latest)
  ExclusiveRuns,   \* TRUE: no two live processes follow the same run
  MaxClock,        \* bound: seconds elapsed
  MaxDeaths,       \* bound: processes that die
  NoTime,          \* a missing timestamp
  NoProc           \* nobody

ActivityType ==
  [id : Nat, sid : SignalIds, side : {"BUY", "SELL", "OTHER"},
   asset : Assets \union {""}, price : Nat, ts : Nat \union {NoTime}]

Estimate == [quantity : Nat, cost : Nat, full : BOOLEAN, consumed : Nat]

ASSUME ConstantsAssumption ==
  /\ PaperUsdc \in Nat \ {0} /\ MaxAge \in Nat /\ MaxDriftBps \in Nat
  /\ Latest \in Nat \ {0} /\ ExclusiveRuns \in BOOLEAN
  /\ MaxRuns \in Nat /\ MaxClock \in Nat /\ MaxDeaths \in Nat
  /\ NoProc \notin Procs /\ NoTime \notin Int
  /\ Activities \subseteq ActivityType /\ IsFiniteSet(Activities)
  /\ "" \notin Assets

\* The books are ones get_order_book can return, the budget divides exactly on their asks.
ASSUME BooksAssumption ==
  \A b \in Books :
    /\ b.asks \in Seq(Level) /\ b.bids \in Seq(Level)
    /\ b = OrderBook(b.asks, b.bids)
    /\ ExactBudget(b.asks, PaperUsdc)

VARIABLES
  clock,       \* time.time() of the follower's machine
  published,   \* activities the data API serves
  db,          \* the committed content of the database file
  work,        \* what the connection in a transaction sees; else equal to db
  writer,      \* the process holding SQLite's write lock, or NoProc
  pc,          \* where each process is
  run,         \* the run a process follows, 0 when it has none
  now,         \* the clock of its current poll
  queue,       \* the activities of its current poll not yet processed
  pos,         \* the position it read for the SELL in hand
  est,         \* the fill it estimated for the activity in hand
  reason,      \* why it is about to skip the activity in hand
  deaths       \* how many processes died so far

world == <<clock, published>>
hand == <<pos, est, reason>>
vars == <<world, db, work, writer, pc, run, now, queue, hand, deaths>>
\* Mutant: an autocommit after every statement, inside atomic() too.
CommitUnlessDeferred_Always(deferred, img) == img

\* The committed content after a statement: unchanged inside atomic().
CommitUnlessDeferred(deferred, img) == IF deferred THEN db ELSE img

-----------------------------------------------------------------------------
(***************************************************************************)
(* The rules of one activity.                                              *)
(***************************************************************************)
SortKey(a) == IF a.ts = NoTime THEN 0 ELSE a.ts

\* The first objection to an activity, before any book is fetched.
PreValidate(a, t) ==
  IF a.side = "OTHER" THEN "unsupported_activity"
  ELSE IF a.asset = "" THEN "missing_token_id"
  ELSE IF a.price = 0 THEN "missing_source_price"
  ELSE IF a.ts = NoTime THEN "signal_too_old"
  ELSE IF t - a.ts \notin 0..MaxAge THEN "signal_too_old"
  ELSE "none"

\* vwap above the source price by more than max_drift_bps.
DriftTooLarge(e, price) ==
  (e.cost - price * e.quantity) * 10000 > MaxDriftBps * price * e.quantity

\* How a BUY of activity a against book b is decided: a skip reason or "none".
BuyObjection(a, e) ==
  IF ~e.full \/ e.quantity = 0 THEN "insufficient_liquidity"
  ELSE IF DriftTooLarge(e, a.price) THEN "price_drift_too_large"
  ELSE "none"

\* Mutant: the whole depth of the bids is sold, whatever is held.
SellQuantity_Depth(held, b) == Depth(b.bids)

SellQuantity(held, b) == Smaller(held.quantity, Depth(b.bids))

\* avg_price times a quantity of what is held, in whole units.
BasisOf(held, q) == (held.cost * q) \div held.quantity

\* Mutant: the position is replaced by the last purchase.
AfterBuy_Overwrite(held, e) == [quantity |-> e.quantity, cost |-> e.cost]

AfterBuy(held, e) ==
  [quantity |-> held.quantity + e.quantity, cost |-> held.cost + e.cost]

\* Mutant: a partial exit keeps the whole cost basis.
AfterSell_KeepCost(held, e) ==
  [quantity |-> held.quantity - e.quantity, cost |-> held.cost]

AfterSell(held, e) ==
  LET kept == held.quantity - e.quantity
  IN  [quantity |-> kept, cost |-> BasisOf(held, kept)]

\* Mutant: the closure closes the whole position.
ClosureOf_WholePosition(r, a, held, e) ==
  [run |-> r, asset |-> a, quantity |-> held.quantity, proceeds |-> e.cost,
   realized |-> e.cost - BasisOf(held, e.quantity)]

ClosureOf(r, a, held, e) ==
  [run |-> r, asset |-> a, quantity |-> e.quantity, proceeds |-> e.cost,
   realized |-> e.cost - BasisOf(held, e.quantity)]

-----------------------------------------------------------------------------
(***************************************************************************)
(* The feed.  GET /activity answers with the newest `Latest` activities of *)
(* what is published; activities of one timestamp come in any order, and   *)
(* the stable sort oldest-first keeps that order.                          *)
(***************************************************************************)
Windows(feed) ==
  {W \in SUBSET feed :
     /\ Cardinality(W) = Smaller(Latest, Cardinality(feed))
     /\ \A a \in W, b \in feed \ W : SortKey(b) <= SortKey(a)}

Batches(feed) ==
  {s \in UNION {SetToSeqs(W) : W \in Windows(feed)} :
     IsSorted(s, LAMBDA a, b : SortKey(a) <= SortKey(b))}

-----------------------------------------------------------------------------
(***************************************************************************)
(* The processes.                                                          *)
(***************************************************************************)
NoEstimate == [quantity |-> 0, cost |-> 0, full |-> FALSE, consumed |-> 0]

InTransaction == {"fill", "position", "closure", "commit"}
Places == {"down", "create", "poll", "next", "held", "book", "skip", "signal"}
            \union InTransaction

Init ==
  /\ clock = 0 /\ published = {}
  /\ db = EmptyImage /\ work = EmptyImage /\ writer = NoProc
  /\ pc = [p \in Procs |-> "down"]
  /\ run = [p \in Procs |-> 0]
  /\ now = [p \in Procs |-> 0]
  /\ queue = [p \in Procs |-> <<>>]
  /\ pos = [p \in Procs |-> NoPosition]
  /\ est = [p \in Procs |-> NoEstimate]
  /\ reason = [p \in Procs |-> "none"]
  /\ deaths = 0

act(p) == Head(queue[p])

Goto(p, from, to) == pc[p] = from /\ pc' = [pc EXCEPT ![p] = to]

\* One statement committed on its own: it waits for the write lock.
Autocommit(img) ==
  /\ writer = NoProc
  /\ db' = CommitUnlessDeferred(FALSE, img)
  /\ work' = db'
  /\ UNCHANGED writer

\* One statement of process p inside atomic(): it holds the write lock.
Deferred(p, img) ==
  /\ writer' = p
  /\ work' = img
  /\ db' = CommitUnlessDeferred(TRUE, img)

ForgetHand(p) ==
  /\ pos' = [pos EXCEPT ![p] = NoPosition]
  /\ est' = [est EXCEPT ![p] = NoEstimate]
  /\ reason' = [reason EXCEPT ![p] = "none"]

\* The activity in hand is done with; on to the next one of the batch.
Finish(p, from) ==
  /\ Goto(p, from, "next")
  /\ queue' = [queue EXCEPT ![p] = Tail(@)]
  /\ ForgetHand(p)

Decline(p, from, why) ==
  /\ Goto(p, from, "skip")
  /\ reason' = [reason EXCEPT ![p] = why]

-----------------------------------------------------------------------------
(***************************************************************************)
(* Starting: a follower resumes the latest run of the wallet, or creates   *)
(* one when there is none or it was started with --new-run.                *)
(***************************************************************************)
ResumeRun(p) ==
  /\ db.runs > 0
  /\ ExclusiveRuns => \A q \in Procs : run[q] # db.runs
  /\ Goto(p, "down", "poll")
  /\ run' = [run EXCEPT ![p] = db.runs]
  /\ UNCHANGED <<world, db, work, writer, now, queue, hand, deaths>>

AskForRun(p) ==
  /\ db.runs < MaxRuns
  /\ Goto(p, "down", "create")
  /\ UNCHANGED <<world, db, work, writer, run, now, queue, hand, deaths>>

CreateRun(p) ==
  /\ db.runs < MaxRuns
  /\ Goto(p, "create", "poll")
  /\ Autocommit([db EXCEPT !.runs = @ + 1])
  /\ run' = [run EXCEPT ![p] = db.runs + 1]
  /\ UNCHANGED <<world, now, queue, hand, deaths>>

\* One poll: get_activity answers, then the clock is read once for the batch.
FetchActivity(p) ==
  /\ Goto(p, "poll", "next")
  /\ \E batch \in Batches(published) : queue' = [queue EXCEPT ![p] = batch]
  /\ now' = [now EXCEPT ![p] = clock]
  /\ UNCHANGED <<world, db, work, writer, run, hand, deaths>>

\* The batch is processed: sleep, then poll again.
EndPoll(p) ==
  /\ queue[p] = <<>>
  /\ Goto(p, "next", "poll")
  /\ now' = [now EXCEPT ![p] = 0]
  /\ UNCHANGED <<world, db, work, writer, run, queue, hand, deaths>>

-----------------------------------------------------------------------------
(***************************************************************************)
(* One activity (_process_one), up to the decision.                        *)
(***************************************************************************)
\* Mutant: signals already in the run are not recognised.
Seen_Never(p) == FALSE

Seen(p) == HasSignal(db, run[p], act(p).sid)

IgnoreDuplicate(p) ==
  /\ pc[p] = "next" /\ queue[p] # <<>> /\ Seen(p)
  /\ Finish(p, "next")
  /\ UNCHANGED <<world, db, work, writer, run, now, deaths>>

RejectEarly(p) ==
  /\ pc[p] = "next" /\ queue[p] # <<>> /\ ~Seen(p)
  /\ PreValidate(act(p), now[p]) # "none"
  /\ Decline(p, "next", PreValidate(act(p), now[p]))
  /\ UNCHANGED <<world, db, work, writer, run, now, queue, pos, est, deaths>>

Accept(p) ==
  /\ pc[p] = "next" /\ queue[p] # <<>> /\ ~Seen(p)
  /\ PreValidate(act(p), now[p]) = "none"
  /\ Goto(p, "next", IF act(p).side = "BUY" THEN "book" ELSE "held")
  /\ UNCHANGED <<world, db, work, writer, run, now, queue, hand, deaths>>

\* A SELL first reads the position, outside any transaction.
ReadPosition(p) ==
  LET held == db.positions[<<run[p], act(p).asset>>]
  IN  /\ pc[p] = "held"
      /\ IF held.quantity = 0
           THEN Decline(p, "held", "invalid_market_state") /\ UNCHANGED pos
           ELSE /\ Goto(p, "held", "book")
                /\ pos' = [pos EXCEPT ![p] = held]
                /\ UNCHANGED reason
      /\ UNCHANGED <<world, db, work, writer, run, now, queue, est, deaths>>

\* _safe_book: any failure of the request is an unavailable book.
BookUnavailable(p) ==
  /\ Decline(p, "book", "order_book_unavailable")
  /\ UNCHANGED <<world, db, work, writer, run, now, queue, pos, est, deaths>>

Quote(p, e, objection) ==
  /\ IF objection # "none"
       THEN Decline(p, "book", objection) /\ UNCHANGED est
       ELSE /\ Goto(p, "book", "signal")
            /\ est' = [est EXCEPT ![p] = e]
            /\ UNCHANGED reason
  /\ UNCHANGED <<world, db, work, writer, run, now, queue, pos, deaths>>

QuoteBuy(p) ==
  /\ pc[p] = "book" /\ act(p).side = "BUY"
  /\ \E b \in Books :
       LET e == WalkForNotional(b.asks, PaperUsdc)
       IN  Quote(p, e, BuyObjection(act(p), e))

QuoteSell(p) ==
  /\ pc[p] = "book" /\ act(p).side = "SELL"
  /\ \E b \in Books :
       LET e == WalkBids(b.bids, SellQuantity(pos[p], b))
       IN  Quote(p, e, IF e.quantity = 0 THEN "insufficient_liquidity" ELSE "none")

-----------------------------------------------------------------------------
(***************************************************************************)
(* Recording the decision.  A skip is one autocommitted row; a fill is the *)
(* transaction of atomic(): signal row, fill row, position, and for a SELL *)
(* the closure, committed together.                                        *)
(***************************************************************************)
SignalRowOf(p, filled, why) ==
  [run |-> run[p], sid |-> act(p).sid, filled |-> filled, reason |-> why]

\* signal_ref, the last row id of the transaction, is the id of its signal.
FillRowOf(p, ref) ==
  [run |-> run[p], ref |-> ref, asset |-> act(p).asset, side |-> act(p).side,
   quantity |-> est[p].quantity, notional |-> est[p].cost,
   price |-> act(p).price, age |-> now[p] - act(p).ts]

Recorded(img, row) == [img EXCEPT !.signals = Append(@, row)]

\* Mutant: a rejected activity leaves no row.
Skip_Forgets(p) ==
  /\ pc[p] = "skip"
  /\ Finish(p, "skip")
  /\ UNCHANGED <<world, db, work, writer, run, now, deaths>>

Skip(p) ==
  /\ pc[p] = "skip"
  /\ ~HasSignal(db, run[p], act(p).sid)
  /\ Autocommit(Recorded(db, SignalRowOf(p, FALSE, reason[p])))
  /\ Finish(p, "skip")
  /\ UNCHANGED <<world, run, now, deaths>>

InsertSignal(p) ==
  /\ pc[p] = "signal" /\ writer = NoProc
  /\ ~HasSignal(db, run[p], act(p).sid)
  /\ Goto(p, "signal", "fill")
  /\ Deferred(p, Recorded(work, SignalRowOf(p, TRUE, "none")))
  /\ UNCHANGED <<world, run, now, queue, hand, deaths>>

InsertFill(p) ==
  /\ Goto(p, "fill", "position")
  /\ Deferred(p, [work EXCEPT !.fills = Append(@, FillRowOf(p, Len(work.signals)))])
  /\ UNCHANGED <<world, run, now, queue, hand, deaths>>

\* A BUY adds to the position as read here, under the write lock.
MovePositionBuy(p) ==
  LET held == work.positions[<<run[p], act(p).asset>>]
  IN  /\ pc[p] = "position" /\ act(p).side = "BUY"
      /\ Goto(p, "position", "commit")
      /\ Deferred(p, UpsertPosition(work, run[p], act(p).asset,
                                    AfterBuy(held, est[p])))
      /\ UNCHANGED <<world, run, now, queue, hand, deaths>>

\* A SELL subtracts from the position it read before fetching the book.
MovePositionSell(p) ==
  /\ pc[p] = "position" /\ act(p).side = "SELL"
  /\ Goto(p, "position", "closure")
  /\ Deferred(p, UpsertPosition(work, run[p], act(p).asset,
                                AfterSell(pos[p], est[p])))
  /\ UNCHANGED <<world, run, now, queue, hand, deaths>>

InsertClosure(p) ==
  /\ Goto(p, "closure", "commit")
  /\ Deferred(p, [work EXCEPT !.closures =
       Append(@, ClosureOf(run[p], act(p).asset, pos[p], est[p]))])
  /\ UNCHANGED <<world, run, now, queue, hand, deaths>>

\* Mutant: atomic() ends without a commit.
Commit_Never(p) ==
  /\ Finish(p, "commit")
  /\ UNCHANGED <<db, work, writer, world, run, now, deaths>>

Commit(p) ==
  /\ Finish(p, "commit")
  /\ db' = work /\ writer' = NoProc
  /\ UNCHANGED <<work, world, run, now, deaths>>

-----------------------------------------------------------------------------
(***************************************************************************)
(* A process ends.  Whatever ends it (a crash, Ctrl-C, an exception of     *)
(* get_activity, "database is locked", a violated constraint) the open     *)
(* transaction rolls back and everything it kept in memory is gone.        *)
(***************************************************************************)
Die(p) ==
  /\ pc' = [pc EXCEPT ![p] = "down"]
  /\ run' = [run EXCEPT ![p] = 0]
  /\ now' = [now EXCEPT ![p] = 0]
  /\ queue' = [queue EXCEPT ![p] = <<>>]
  /\ ForgetHand(p)
  /\ work' = IF writer = p THEN db ELSE work
  /\ writer' = IF writer = p THEN NoProc ELSE writer
  /\ UNCHANGED <<db, world>>

Crash(p) ==
  /\ pc[p] # "down" /\ deaths < MaxDeaths
  /\ deaths' = deaths + 1
  /\ Die(p)

\* UNIQUE(run_id, signal_id): another process recorded the signal meanwhile.
UniqueViolation(p) ==
  /\ pc[p] \in {"skip", "signal"} /\ writer = NoProc
  /\ HasSignal(db, run[p], act(p).sid)
  /\ Die(p)
  /\ UNCHANGED deaths

-----------------------------------------------------------------------------
(***************************************************************************)
(* The world: time passes, and the wallet's trades appear in the feed, in  *)
(* any order and at any delay with respect to their timestamps.            *)
(***************************************************************************)
Tick ==
  /\ clock < MaxClock
  /\ clock' = clock + 1
  /\ UNCHANGED <<published, db, work, writer, pc, run, now, queue, hand, deaths>>

Publish(a) ==
  /\ a \notin published
  /\ published' = published \union {a}
  /\ UNCHANGED <<clock, db, work, writer, pc, run, now, queue, hand, deaths>>

Start(p) == ResumeRun(p) \/ AskForRun(p)

Work(p) ==
  \/ CreateRun(p) \/ FetchActivity(p) \/ EndPoll(p)
  \/ IgnoreDuplicate(p) \/ RejectEarly(p) \/ Accept(p)
  \/ ReadPosition(p) \/ BookUnavailable(p) \/ QuoteBuy(p) \/ QuoteSell(p)
  \/ Skip(p)
  \/ InsertSignal(p) \/ InsertFill(p)
  \/ MovePositionBuy(p) \/ MovePositionSell(p) \/ InsertClosure(p) \/ Commit(p)
  \/ UniqueViolation(p)

Next ==
  \/ Tick
  \/ \E a \in Activities : Publish(a)
  \/ \E p \in Procs : Start(p) \/ Work(p) \/ Crash(p)

Spec == Init /\ [][Next]_vars

(***************************************************************************)
(* A running process keeps running: nothing in its loop waits for another  *)
(* event, except for a write lock whose holder also keeps running.         *)
(***************************************************************************)
FairSpec == Spec /\ \A p \in Procs : WF_vars(Work(p))
=============================================================================
