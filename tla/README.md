# edge-lab in TLA+

A verification development for edge-lab, the research and paper-trading toolkit
in `src/` (Python in `src/edge_lab`, a TypeScript bridge in
`src/dreamdex-bridge`). TLA+ modules model the parts that keep state or decide
something hard; TLC checks them on small instances; TLAPS proves the properties
that matter most for every value of the constants.

1. [The system](#the-system) 2. [What is modelled](#what-is-modelled) 3. [The
paper follower](#the-paper-follower) 4. [Order books and complete
sets](#order-books-and-complete-sets) 5. [The paper report](#the-paper-report)
6. [The signal engine and DreamDEX paper
trading](#the-signal-engine-and-dreamdex-paper-trading) 7. [DreamDEX
execution](#dreamdex-execution) 8. [HTTP client and
pages](#http-client-and-pages) 9. [Analyses and
series](#analyses-and-series) 10. [Scans](#scans) 11. [The dashboard
cache](#the-dashboard-cache) 12. [Runs](#runs) 13. [Divergences
found](#divergences-found) 14. [Proofs](#proofs) 15. [What is not
modelled](#what-is-not-modelled) 16. [Plan](#plan)

## The system

edge-lab has two halves that share only the HTTP client and the models. The
Polymarket half follows a wallet on paper, scans for arbitrage and analyses
wallets. The DreamDEX half turns a market, its book and its underlying into a
signal, passes it through a risk engine, and records paper trades or asks a
TypeScript bridge to place an order on a test network.

| component | code | state it keeps | operations | talks to |
|---|---|---|---|---|
| paper follower | `paper/follower.py` | none between polls; the activity in hand | process_activities: validate, simulate BUY or SELL, record | order books (HTTP), paper database |
| paper database | `paper/db.py` | SQLite file: runs, signals, fills, positions, closures | create_run, latest_run, has_signal, record_*, upsert_position, atomic | used by follower and report |
| paper report | `paper/report.py` | none | build_report: counts, P&L, drawdown, open positions at the bids | paper database, order books |
| command line | `cli.py` | poll loop | paper-follow, paper-report, scan-arbs and the analyses | everything above |
| API clients | `api/*.py`, `http.py` | none | get_activity, get_order_book, pagination; one retrying GET under them all | public HTTP APIs |
| arbitrage | `analysis/arb.py` | none | analyze_complete_set, size at a required edge | order books |
| analyses | `analysis/wallet.py`, `cohort.py`, `reverse_engineer.py`, `price_series.py` | none | summaries of past activity | activity, prices |
| signal engine | `core/*.py`, `strategies/event_contracts.py` | none | probability, edge, risk, rank | venue adapter |
| DreamDEX paper | `paper/dreamdex_paper.py`, `dreamdex_cli.py` | SQLite file: one table of trades | record_trade, settle_trade, summary | signal engine |
| DreamDEX venue | `venues/dreamdex/*.py` | none | market, book, price, preview, place order | bridge subprocess |
| DreamDEX bridge | `dreamdex-bridge/src/*.ts` | none; reads the chain | discover, orderbook, price, preview, place-order | DreamDEX SDK |
| dashboard | `dashboard/*.py` | a cache shared by handler threads | scan, inspect | signal engine |

What is hard in each, and the properties that make it correct:

* **Paper follower and database.** The follower is one process in a loop, but
  nothing stops two of them from following the same run, and a process may die
  between any two statements. A trade is up to four rows that must appear
  together; signals must be recorded once; a position is computed from one read
  earlier; the signal's age is the poll's. Correct means: no half trade in the
  file, positions equal to what the fills add up to, realized profit equal to
  what the sales brought, nothing sold that was not bought, every published
  trade disposed of exactly once.
* **Order books.** Four loops walk one side of a book. Correct means: the best
  price the side offers for that quantity, never more than the depth, and a
  budget never overspent.
* **Paper report.** Reads tables in several statements while a follower writes;
  correct means its totals come from one state of the file.
* **API clients.** Retries on timeouts, 429 and 5xx; correct means bounded
  attempts, no request after an answer that settles it. Pagination over a feed
  that moves; correct means that nothing is passed over or read twice but what
  the moves explain, and that a reading ends.
* **Analyses.** Hours that wrap past midnight, shares rounded twice, a feed that
  comes newest first, gaps and ties in a series. Correct means every trade
  counted once, tables that agree with one another, and no look-ahead from the
  segment a pattern is judged on.
* **Scans.** Several requests for each of many markets; correct means that a
  market that fails costs itself only.
* **Signal engine.** Caps on the size of a trade, rounded prices and edges;
  correct means that a BUY never exceeds a cap, and that a size cut to the cap
  keeps the edge it was approved for, to within the rounding.
* **DreamDEX paper.** A command reads, decides and records; a settlement reads
  the trade's status and then updates it. Correct means that a trade is settled
  once, and that caps bind over the trades of a market together.
* **DreamDEX bridge.** A write needs several guards to hold at once, a timeout
  leaves it unknown whether the order was placed.
* **Dashboard.** Handler threads share a cache; correct means an answer is no
  older than the time to live allows, and one slow scan is not repeated.

`PROJECT.json` lists every hazard at the line where it bites.

## What is modelled

| module | models |
|---|---|
| `Rows` | selecting rows of a table and adding up a column (the `WHERE` and the `SUM` of the code) |
| `OrderBooks` | the book a payload becomes, and the walks over one side (`clob.py`, `arb.py`, `edge.py`, `follower.py`) |
| `CompleteSet` | the quote of a complete set and its two searches (`arb.py`) |
| `MCOrderBooks` | what both promise, and the payloads of the instance |
| `LoopProofs` | lemmas about the loops of `Rows` and `OrderBooks`: selections, totals, walks, counts, the sort |
| `WalletAnalysis` | the tables of a wallet's activity, claims about its hours, cohorts (`wallet.py`, `cohort.py`) |
| `PatternDiscovery` | the busiest window and the patterns of a wallet (`reverse_engineer.py`) |
| `PriceSeries` | price histories, returns, drawdown and volatility (`clob.py`, `price_series.py`, `probability.py`) |
| `MarketScan` | `scan_signals` and `scan-arbs` (`service.py`, `cli.py`, `discover` of the bridge) |
| `MCAlgorithms` | checks all of these against what they promise, on every small input |
| `AlgorithmProofs` | the theorems about what they promise of every input |
| `PaperDB` | the content of the SQLite file as one value (`paper/db.py`) |
| `PaperLedger` | the abstract specification: what a paper run promises |
| `PaperFollower` | the follower processes, the file with its write lock, the feed and the clock |
| `FollowerProperties` | what the follower must guarantee |
| `FollowerInvariant` | the inductive invariant |
| `FollowerProofs` | the theorems about it, proved by TLAPS |
| `MCPaperFollower` | instances for TLC |
| `PaperReport` | `build_report`, read by read, beside the followers (composes `PaperFollower`) |
| `ReportProofs` | the theorems about the books of a run and the report |
| `MCPaperReport` | its instance |
| `RiskEngine` | confidence, edge, risk checks, caps and the decision of the signal engine (`core/*.py`) |
| `DreamdexPaper` | `dreamdex paper-trade` and `settle` from several terminals (uses `RiskEngine`, `OrderBooks`) |
| `DreamdexProofs` | the theorems about it |
| `MCDreamdexPaper` | its instances |
| `DreamdexExecution` | `dreamdex preview` and `execute`, the bridge's write gates and `placeOrder`, the chain |
| `ExecutionProofs` | the theorems about it |
| `MCDreamdexExecution` | its instance |
| `HttpGet` | the retrying GET (`http.py`) |
| `ActivityPages` | the reading of a wallet's activity, page by page over `HttpGet` (`api/data.py`) |
| `MarketPages` | the reading of the open markets, in the same way (`api/gamma.py`) |
| `MCPages` | the instance of both, and of the dashboard's cache |
| `PagesProofs` | the theorems about `HttpGet`, `ActivityPages` and `MarketPages` |
| `DashboardCache` | the cache shared by the dashboard's handler threads (`dashboard/server.py`) |
| `DashboardProofs` | the theorems about it |

An operator whose name is that of another followed by an underscore
(`Status_Indexed` beside `Status`) is a mutant: the other one with a plausible
bug in it, used nowhere in the specifications. Each checked property is checked
to fail on one of them.

Amounts are natural numbers of a smallest unit. The code computes with
`Decimal`: sums, products and comparisons are the same. Where it calls
`quantize` the model rounds as it does (`RoundHalfEven` of `OrderBooks`): shares
and percentages of a wallet, the average price and the edge of the signal
engine, the edge and the sizes of a complete set. Two divisions that the code
leaves unrounded, to 28 digits, are either assumed to leave nothing over (a
budget by a price, `ExactBudget`) or rounded down to a unit (a cost basis by a
quantity, `BasisOf`), which the property about cash allows for.

## The paper follower

A process of `Procs` is one `edge-lab paper-follow`. Its `pc` is where it is
between two accesses to the network or to the database; the computation that
follows an access belongs to its step.

| place | action | code |
|---|---|---|
| `down` | `ResumeRun`, `AskForRun` | `cli.py` 517-522: the latest run, or a new one |
| `create` | `CreateRun` | `PaperDB.create_run` |
| `poll` | `FetchActivity` | `get_activity`, then `time.time()` once for the batch |
| `next` | `EndPoll`, `IgnoreDuplicate`, `RejectEarly`, `Accept` | `process_activities`, `_process_one`, `_pre_validate` |
| `held` | `ReadPosition` | `_simulate_sell`: the position, outside the transaction |
| `book` | `BookUnavailable`, `QuoteBuy`, `QuoteSell` | `_safe_book` and the walk |
| `skip` | `Skip` | the row of a rejected signal, committed on its own |
| `signal`, `fill`, `position`, `closure`, `commit` | `InsertSignal`, `InsertFill`, `MovePositionBuy`, `MovePositionSell`, `InsertClosure`, `Commit` | the transaction of `PaperDB.atomic` |
| any | `Crash`, `UniqueViolation` | the process ends; SQLite rolls its transaction back |

`db` is the committed file. `work` is what the connection with an open
transaction sees, and equals `db` when there is none. `writer` holds SQLite's
write lock, which the first insert takes and the commit or rollback gives back;
reads never wait for it and see `db`. `ReadPosition` and `Seen` therefore read
`db`, while `MovePositionBuy`, inside the transaction, reads `work`: this
difference between a BUY and a SELL is what the run `oversell` turns on.

`CommitUnlessDeferred` is `_commit`: a statement outside `atomic()` goes to the
file at once, a statement inside it does not.

`Crash` stands for everything that ends a process: a kill, Ctrl-C, an exception
of `get_activity` (which `paper-follow` does not survive), "database is locked",
and `--once`. A process that ended may start again.

The feed answers with the newest `Latest` published activities. Activities of
one timestamp come in either order, and the sort of `process_activities` keeps
it; the run `burst` shows what that does to a sale in the second of its
purchase. Activities are published in any order and at any delay: late and
back-dated ones are included. `Tick` moves the clock at any moment.

What is left out: the creation race on the schema version row when two
processes make a new file together; the tolerance of 1e-9 in `fully_filled`;
the tables' descriptive columns (titles, hashes, raw JSON).

The fetch of the feed and the reading of the clock after it are one step. Time
between them would make every signal look older, never fresher, so nothing the
properties forbid is hidden.

`ExclusiveRuns` says whether two live processes may follow one run. The code
does not prevent it: `latest_run` picks the newest run of the wallet whoever
follows it. The properties about positions need it TRUE, and the run `oversell`
shows why; `FillsMatchSignals` and the liveness properties are checked, and the
former proved, without it.

## Order books and complete sets

`OrderBook` drops levels without a positive price and size and sorts both sides
best first. `WalkQuantity` is the loop of `walk_asks`, `walk_bids` and
`walk_book`; `WalkForNotional` spends a budget. `MCOrderBooks` builds every
payload of up to three levels with prices 0..3 and sizes 0..2 and compares each
walk with all other ways of taking the same number of shares. Three levels are
enough for a walk to skip, exhaust and split a level, and for ties.

`CompleteSet` is `analyze_complete_set`: one YES and one NO share pay 1
together, so buying both below 1 is a profit. `_max_qty_within_budget` and
`_max_size_at_edge` halve an interval a fixed number of times (60 in the code,
`Halvings` in the model) on sizes in units fine enough that each half is exact.
The first rounds its answer down to a quantum, the second to the nearest one,
and the properties say just that: a budget is never overspent, and the answer at
most a quantum below the most it buys; the size for an edge is at most a quantum
away from where the edge is lost (together `ArbSearchesAreTight`).

The search for an edge compares it as it is (`KeepsEdge`). The verdict on the
budget's size, `candidate`, compares one that was rounded to 1e-4 bps (`Grain`
quanta are an edge of 1) before and after the buffers were taken off
(`GrossEdge`, `NetEdge`). The two may differ: `ArbEdgeHolds` says by less than a
quantum of the edge, either way, and that the size found is no less than the
budget's if that one keeps the exact edge. A candidate whose exact edge falls
just short may therefore have a smaller size that keeps it, or none. Buffers and
the least edge are given in `Parts` of a quantum, since nothing rounds them.

The tightness needs
enough halvings for the depth of the book: `BoundsAssumption` asks that twice
the depth, in quanta, be at most 2 to the number of halvings (`Fine`). Four do
for three levels of 2; the code's 60 for books of up to 5.7 billion shares,
since a quantum is 1e-8 shares.

## The paper report

`build_report` takes one SELECT after another, each in its own right, while a
follower may write. `PaperReport` has one step per SELECT (`step`, in the order
of the code) and keeps what each returned. Between two of them the followers of
`PaperFollower` take any steps. Totals are computed from what was read. Each
open position is marked at a price, or at none when its price is not known.

The order of the code matters: signals are read first, closures and positions
last, so that what an earlier table mentions is in every later one
(`ReportMovesForward`). The sums are those of a single state whenever nothing
was committed meanwhile (`quiet`; `ProfitAddsUp`: realized plus unrealized
profit equals the money that came in, less the money that went out, plus the
value of the open positions). The percentiles of delay and drift, the fill rate
and the concentration of markets are left out: they divide and sort one list.

## The signal engine and DreamDEX paper trading

`RiskEngine` is one evaluation: `build_event_signal` with `build_probability`
and its confidence, `compute_edge` over `walk_book`, and `RiskEngine.evaluate`
with its checks, its caps and the state that the first failed check gives.
Prices and probabilities are counted in the quantum the code rounds both to
(1e-6; `One` of them are 1), money in quanta times tokens. An average price is
rounded to the quantum and booked so; its edge has the same quantum (0.01 bps)
and is rounded again after the buffers (`SideEdge`, `NetEdge`). Buffers and the
least edge are in `Parts` of a quantum. So a trade may pass with up to a quantum
less edge than wanted, and cost up to half a quantum a token more than it is
booked at: `BuyKeepsItsEdge` says that this is all, also after a cut to the
caps. A capped size is rounded down to a token. The Gaussian estimate of
the probability and the volatility behind it are an input (`pUp`, whether there
is a volatility, how many samples).

A terminal of `DreamdexPaper` runs one command at a time.

| place | action | code |
|---|---|---|
| `idle` | `StartTrade`, `SelectTrade` | the command; `settle_trade` reads the trade |
| `market`, `book`, `price` | `ReadMarket`, `ReadBook`, `ReadPrice` | three bridge calls, in `_signal_for`'s order, each normalized by `mapper.py` |
| `record` | `RecordTrade` | `record_trade`, if the decision is a BUY |
| `update` | `UpdateTrade` | the UPDATE of `settle_trade` |
| any | `Fail` | a bridge failure or timeout, or the end of the process |

`now` is read before the market, and a book and a price carry the bridge's clock
of their own, later moment: an age is never positive on this path, and the state
`DATA_STALE` is not reached by it. `feed` is when the price was published,
`received` when the bridge got it; the code takes the age from the latter (run
`stale_price`). `ExclusiveSettle` says whether two settlements of one trade may
overlap. The code does not prevent it (run `settle_race`).

## DreamDEX execution

`DreamdexExecution` has one operator who runs one command after another: each
may be a preview or an order, on any market, with any environment, unset and
misspelt variables included. Commands share no state, so several operators are
several copies. An order passes the places below; a command may fail at each.

| place | action | code |
|---|---|---|
| `idle` | `Preview`, `Execute` | the command; `execute` ends at once in paper mode |
| `preview` | `Rehearse` | `previewOrder`: a read, no signer asked for |
| `market`, `quotes` | `ReadMarket`, `Decide` | market, book and price are read and approve of the trade or not; then `--yes`, and the bridge process of the order starts |
| `gate` | `PassGate` | `readEnv`, `assertWriteAllowed`, `buildExchange` |
| `row` | `ResolvePool` | `placeOrder`: the market's row and its pool |
| `status` | `CheckStatus` | `placeOrder`: the market's status on the chain |
| `sign` | `Send`, `WouldRevert` | `trader.placeOrder` |
| `sent` | `Reply` | the receipt |
| any | `Fail`, `TimeOut` | no answer, the bridge dies; `subprocess.run(timeout=...)` |

`subprocess.run` kills the bridge when `Timeout` has passed, so no clock tick
goes beyond it while a bridge runs. The chain is external: a market trades from
`Opens` to `Closes`, its pool may then serve another, and an order lands within
`Latency` in whatever market its pool serves by then. `placeOrder` guards
against this by reading the status again just before it signs; that covers the
operator's delays and those of the bridge before that read, and not the time
after it. `RecycledSlowly` is the assumption that closes the gap: the next
market of a pool opens no sooner than a timeout and a latency after the last
one closed. Nothing in the code enforces it. It is the weakest that will do:
with one second less TLC finds an order in the next market.

A refusal, an error code of before the signature, tells the operator that
nothing was placed. After a timeout or an error of the send it is unknown
whether something was, and the operator of the model stops there.

Left out: a Python process killed by SIGKILL (its bridge lives on, past the
timeout), the approval transaction that `autoApprove` may send first, and the
rounding of price and quantity.

## HTTP client and pages

`HttpGet` is `get_json`: the server answers anything (a good body, 429, a
server error that is retried or not, a redirect, 404, no answer in time, a
broken connection, a body that is not JSON; not one that cannot be
decompressed, whose `httpx.DecodingError` the code does not catch), and every
attempt but the last may be followed by a wait that doubles up to a cap. The
jitter is left out of the delay.

`ActivityPages` reads a wallet's activity with it, as `iter_activity` does:
pages at growing offsets, newest first, until a short page or the maximum; a
failed page ends it with an exception. While it reads, activities are inserted
anywhere, and each shifts the pages behind it. A page shows the feed as of its
answer. What is promised is therefore not a snapshot: consecutive pages leave no
gap (`PagesJoin`), a reading that ends by itself has everything that was there
at its start (`NothingLost`), and at most as many records come twice as were
published meanwhile (`RepeatsAreNews`).

`MarketPages` is `iter_markets`. Its list shrinks as well: a market that closes
moves those after it up, under the offset, and one of them is passed over.
`MarketsJoin` counts: no more open markets are passed over than others left, and
no more come twice than were listed. A row that is malformed (`DataError`) is
dropped after the rows were counted, and costs nothing.

What `_as_list` makes of a body decides when a reading ends. A row that is no
object is dropped, and its page is then short and taken for the last one; in
`ActivityPages` this is `odd`, in `MarketPages` the kind `"other"`. A body that
is JSON of another shape is an empty page for `data.py`, and for `gamma.py` one
row that is no market if it is an object (`Junk`), else an empty page
(`Bodies`, `Pages`). With pages of more than one row, each of these ends the
reading as if it were complete. `misread` and `garbled` remember that it
happened; `NothingLost` and `MarketsComplete` speak of readings without it, and
so does the first half of `MarketsJoin`, since a junk row moves the offset over
a row that was never sent. `PagesJoin` and `RepeatsAreNews` hold even so.

`MCPages` runs one reader or the other, or the cache of the dashboard. Its
fairness is that of the reader's own steps: a request is answered or times out,
and a sleep is over. Nothing is assumed of the feed, nor of what the server
answers. `ReadingsEnd` says that every reading ends.

## Analyses and series

These are functions of a list, and the modules write them as such, over
`FoldLeft`, bags and sorts of the community modules. What could be wrong with
them is that two pieces of code that should agree do not, or that an order or a
boundary is forgotten, and `MCAlgorithms` states that on every small input.

`WalletAnalysis` is `analyze_wallet`, `window_share`, `window_claim` and
`build_cohort`. Times are ticks of half an hour and the time zone is 5 hours
behind UTC, so that hours and weekdays wrap; the seven activities of the
instance are on both sides of midnight and of a bucket's edge, share a time, or
lack a field. The two properties about percentages need larger counts than a
list of activities allows, and get the hours themselves, two of one window.
Rounding is that of `Decimal`, half to even; with halves rounded up the two
percentages do not add up.

`PatternDiscovery` is `_busiest_window` and `_discover_candidates`.
`WindowsAgree` compares what a claim, a cohort and the busiest window say of
the same hours. A claim rounds its share to 1/10000 and then to tenths of a
percent, the coverage of the busiest window is rounded once: 6 trades of 11 are
54.6 in the claim and 54.5 in the window, so that the two agree to a tenth
only. `NoLookAhead` says that the two segments follow each other in time, and
changes a purchase of the later one in every possible way, expecting the same
patterns with the same support. `PatternsAreInTheTables` compares its keys with
the tables of `analyze_wallet`, which have hours and finer price buckets of
their own.

`PriceSeries` is `get_price_history`, `summarize_price_series` and the two
volatility estimators with the choice between them. Fractions are pairs, a
volatility stands for its square. The logarithm is a constant (`Log`): in the
runs prices of an underlying are powers of two and it counts the doublings, and
the proofs use only that it is a number that differs for different prices. The
drawdown is compared with its definition, the worst fall from any price to a
later one.

## Scans

`MarketScan` folds the body of each loop over the markets. A market says which
request of its own will fail, if any. `Visit` is the body of `scan_signals`:
market, book, underlying (asked for until one request for the asset succeeds),
signal. Its `raised` is the one exception the loop does not catch: a price that
is not positive makes the probability model raise `ValueError`.
`ScanArbs` is the loop of `scan-arbs` with its two counters, ranking and cut.
`FailuresStayLocal` removes a failing market from either list and expects the
same signals or results in the same order; and one price for all signals of an
asset, which is asked for again only after it failed.

## The dashboard cache

Handler threads share a dictionary under a lock. A lookup and a store are one
step each; between them a thread computes without the lock, and another may miss
the same key, compute the same scan, and store a newer or an older value first.
`MaxCompute` bounds a computation: its bridge calls have a timeout.
`AnswersAreFresh` says that no answer is older than the time to live plus one
computation, whoever stored it and in which order.

## Runs

| run | instance | shows |
|---|---|---|
| `algorithms` | one input at a time: payloads of up to 3 levels, prices 0..3, sizes 0..2, also cut into a YES and a NO side; up to 5 activities; two hours of one window with up to 8 trades each; up to 4 prices; up to 3 markets of a scan | walks and complete sets: `BestExecution`, `BudgetBuysTheMost`, `SmallerIsNoDearer`, `ArbSearchesAreTight`; wallets: `EveryTradeCountedOnce`, `ClaimPercentagesAddUp`, `WindowsAgree`; patterns: `NoLookAhead`, `PatternsAreInTheTables`; series: `FallsMeasured`, `VolatilityMeasured`; scans: `FailuresStayLocal` |
| `solo` | one follower, 3 purchases (two with one signal id) and 2 sales, window 3, clock 0..2, one crash | `IInv`, with its types and no half trade; `PositionsReconcile`, `ClosuresMatchSells` and `CashReconciles`; `NeverViolatesUnique`; the refinement `ImplementsLedger` |
| `shared` | two fair followers of one run, a purchase and a sale, clock 0..1, one crash | `FillsMatchSignals` even then, `EverySignalDisposed`, `LockReleased` |
| `report` | one follower, a purchase and 2 sales, and reports one after another, bid prices 1 and 3 | `ReportMovesForward`, `ProfitAddsUp`, `DrawdownIsTheWorstStretch` |
| `desk` | two terminals, one market, 3 books, 5 estimates, clock 0, 40, 80 | `DeskInv`, with its types; `BuyKeepsItsEdge`, `SettledForGood` |
| `execute` | two markets on one pool, timeout 2, latency 1, clock 0..8, 3 commands | `OnlyPermittedWrites`, `NeverInAnotherMarket`, `RefusedMeansNotPlaced` |
| `readers` | 2 retries, pages of 2; at most 5 records, 0 to 4 activities and 2 inserted; or at most 4 markets, 0 to 4 listed and 2 that leave or come; any body of another shape; or two threads, two keys, time to live 2, computations of up to 2, clock 0..5 | `BoundedRetries`, `OutcomeExplained`; `PagesJoin`, `RepeatsAreNews`, `NothingLost`; `MarketsJoin`, `MarketsComplete`; `ReadingsEnd`; `AnswersAreFresh` |
| `oversell` | two followers on one run | a violation of `NeverOversold` |
| `burst` | one follower, a purchase and a sale of one second | a violation of `BurstsReplayInOrder` |
| `settle_race` | two terminals settle one trade | a violation of `SettledForGood` |
| `exposure` | one terminal, two trades of one market | a violation of `PositionCapped` |
| `stale_price` | one terminal | a violation of `NoTradeOnStalePrice` |

Bounds of the follower: `MaxRuns` runs, `MaxClock` seconds, `MaxDeaths` crashes
(deaths by `UNIQUE` are not counted: the signal they stop at is recorded by
then). The three books make every decision reachable with a budget of 8 and a
drift cap of 5000 bps: filled over two levels, too little depth, too much drift,
a position sold whole and sold partly, no bids. Two purchases and two sales at
different prices give the sequences that the cost basis depends on:
buy-buy-sell-sell, buy-sell-buy-sell, a sale before any purchase; the fifth
activity is a repeated signal id. With one second of `MaxAge` and a clock of
0..2, signals are fresh, at the limit and too old. Two processes and one crash
suffice for the interleavings, since a process meets others only in the file and
through the write lock. Activities without a usable price or asset take the
same path as those too old (`RejectEarly`, `Skip`) and are in no instance.

Fairness of the follower (`FairSpec`) is weak fairness of each live process's
steps. The loop of `paper-follow` never waits for anything but the HTTP client,
which gives up after a bounded number of attempts, and the write lock, which
its holder gives back after a bounded number of statements. Nothing is assumed
of starting, crashing, publishing or the clock. `EverySignalDisposed` is
conditional on the process staying up and is checked with a window as large as
the feed: with a burst larger than `--latest` the oldest trades are never seen.

Bounds of the desk: a probability of 1 is 400 quanta and the size 4 tokens, the
thresholds are the defaults of `RiskConfig`, with smaller caps; the edge wanted
is 6 quanta and the buffer 4 and a half. One book has an edge up over two levels
(sent worst first), at an average of 202.5 quanta that is booked at 202, so that
an edge of 5.5 passes for 6; it is too small at another estimate, and down at a
third. One has an empty level and slips too far, one can fill DOWN only. The
five estimates reach each decision, too few samples and no volatility included.
The caps of 810 and 1050 cut the size of a trade. The clock, in steps of 40
before a market that expires at 100, passes the distance to expiry (45) and, by
source time, the age of a price (30). One trade is enough for two settlements
to meet; terminals are alike (symmetry).

Bounds of the other runs: in `execute` the two markets are as close as
`RecycledSlowly` allows, and with three commands one follows a refusal that
follows a refusal. In `readers`, two pages of two and a short one, an insertion
before, inside and behind each, a market that closes on each side of the
offset, a bad row or a body of another shape anywhere, and every sequence of
answers that three attempts allow. In `algorithms`, three levels, three ticks
and four purchases are where the algorithms stop being trivial (a level split,
a volatility, two segments), and each instance has one more or all ties and
gaps of that length; three markets let two of one asset stand on either side of
a failure. An edge of 1 is 6 quanta there and the buffer half a quantum, so
that an edge rounds up past the least wanted and down below it; two hours of up
to 8 trades make shares whose two roundings differ from one. The threads of
`readers` see entries expire, compute one key at once and store in either
order.

`CHECK_DEADLOCK FALSE` stands where a system stops: an input of `algorithms` is
as large as it gets, a reading of `readers` ends, the operator of `execute`
stops when not refused.

## Divergences found

Each has a run whose counterexample shows it.

* `oversell`: two followers of one run can both sell the whole position, since
  a SELL reads it before the transaction (`follower.py` 195). The docs say a
  sale never exceeds what the position owns.
* `burst`: trades of one second are replayed in the order of the feed, newest
  first, since the sort on whole seconds is stable (`follower.py` 105). A sale
  that exits a purchase of its own second comes first, finds no position, and is
  skipped for good; the docstring (103) says "so bursts replay in causal order".
* `settle_race`: `settle_trade` reads the status and then updates by the id
  alone (`dreamdex_paper.py` 156, 172); of two settlements at once, both go
  through, and the second replaces the first's outcome and profit.
* `exposure`: `_signal_for` passes no existing exposure (`dreamdex_cli.py` 70),
  so the cap of a market binds each trade and not the trades together;
  `risk.py` 6 says the maximum position always overrides.
* `stale_price`: the age of a price is counted from its reception
  (`commands.ts` 139, `types.py` 130), so an old price of a feed that stopped
  passes; `types.py` 138 and `DREAMDEX_HACKATHON.md` 1463 say it does not.

Also noticed while modelling, without a run:

* The drift cap is applied to purchases only (`follower.py` 208).
* The age of a signal is that of the poll, taken before its book is fetched
  (`cli.py` 526): a fill may come at any later age.
* `scan_signals` catches `EdgeLabError` only (`service.py` 60), and a price that
  is not positive raises `ValueError` (`probability.py` 96): the scan ends, where
  the docstring at 36 has a bad market "skipped, never aborting the whole scan".
  A listed row that does not map raises outside the loop (`adapter.py` 35).
* A row that is no object makes its page short, and a reading takes it for the
  last one (`data.py` 69, `gamma.py` 96); the docstring of `iter_markets` counts
  "raw rows".
* A body of another shape (`{"error": ...}`, `null`) ends a reading as if it were
  complete, and what was read so far passes for everything (`data.py` 93,
  `gamma.py` 148-149; `test_api_data.py` 81-83 asks for the empty list), where
  `docs/02-data-sources.md` 49 wants partial retrieval handled clearly and the
  docstring of `iter_activity` has it explicit.
* Markets that close while the list is read make `iter_markets` pass over open
  ones (`gamma.py` 98).
* `discover` applies its limit to all live markets and filters the assets
  afterwards (`commands.ts` 77).
* Ticks of one second are left out of the volatility together with the move
  between them (`probability.py` 71); if all are of one second, the fallback
  takes them in the order they came.
* Two threads that miss together compute the same scan (`server.py` 58; the
  comment at 29 says the cache avoids it).
* The largest size at an edge is rounded to the nearest quantum (`arb.py` 253)
  and may be past the edge by less than one.
* A candidate is decided on an edge rounded to 1e-4 bps (`arb.py` 139-146), the
  size at that edge on the exact one (219, 230): a candidate may be reported with
  a smaller size that keeps the edge than its quantity, or with none. An edge of
  24.99996 bps where 25 is wanted is one.
* The coverage of the busiest window and the claim of the same window may differ
  by a tenth of a percent: 100 trades of 199 are 50.3 in the one
  (`reverse_engineer.py` 171) and 50.2 in the other (`wallet.py` 63, 77).
* The average price is rounded before its edge is taken, and the edge again
  (`edge.py` 55, 121): a trade passes with up to 0.01 bps less edge than the
  minimum, and may cost up to 5e-7 a token more than it is booked at.
* `placeOrder` checks the status alone again before it signs;
  `DREAMDEX_HACKATHON.md` 1235 lists more (time remaining, slippage, spend).

## Proofs

The theorems are checked by `tlapm` for any set of processes, activities,
markets, books and keys, and any value of the parameters.

| module | theorem | says |
|---|---|---|
| `FollowerProofs` | `InvariantHolds` | `Spec => []IInv` |
| | `TypeCorrect` | `Spec => []TypeOK` |
| | `FillsAlwaysMatchSignals` | no half trade in the file, however many processes share a run |
| | `ExclusiveNeverViolatesUnique` | with a run to itself a follower is never stopped by `UNIQUE` |
| | `PositionsAlwaysFollowFills` | with exclusive runs, each commit moves one position by exactly its fill |
| | `FollowerImplementsLedger` | with exclusive runs, `Spec => Ledger!Spec` |
| `ReportProofs` | `PositionsAlwaysReconcile` | with exclusive runs, a position is its purchases less its sales |
| | `ClosuresAlwaysMatchSells` | the k-th closure is of the k-th sale, even when processes share a run |
| | `CashAlwaysReconciles` | with exclusive runs, cash, realized profit and open basis balance, up to a unit per sale |
| | `ExclusiveNeverOversells` | with exclusive runs, no more is sold than was bought |
| | `ReportInvariantHolds` | `ReportSpec => [](IInv /\ ReportInv)` |
| | `ReportsAlwaysMoveForward` | whatever is committed between two reads, what an earlier one mentions a later one has |
| | `DrawdownIsAlwaysTheWorst` | the drawdown is the worst loss of a stretch of closures |
| | `ProfitAlwaysAddsUp` | with exclusive runs, a report made in a quiet time accounts for the money |
| `AlgorithmProofs` | `SmallerNeverDearer` | a smaller walk never pays a higher average, on a side of any length |
| | `BudgetAlwaysBuysTheMost` | a budget buys the most that it can pay, on a side of any length |
| | `WalksAlwaysExecuteBest` | no taking of as many shares from a payload costs less than a purchase or brings more than a sale |
| | `TradesAlwaysCountedOnce` | the tables of a wallet's hours, weekdays and buckets add up, and so do a window and the hours outside it |
| | `PercentagesAlwaysAddUp` | the two percentages of a claim make 100.0 |
| | `WindowsAlwaysAgree` | a cohort and a claim say the same of a window, the coverage of the busiest window is that of its claim to a tenth of a percent, and no window counts more |
| | `NeverLooksAhead` | patterns are found on the earlier half of the purchases, and the same ones whatever the later half is |
| | `PatternsAlwaysInTheTables` | the purchases of a pattern are among the trades that the tables count in its hours and prices |
| | `FallsAlwaysMeasured` | the drawdown is the worst fall of a series of any length |
| | `VolatilityAlwaysMeasured` | a volatility exists from three ticks on, does not depend on the direction of the feed, and is zero only for prices that stand still |
| | `FailuresAlwaysLocal` | a failing market costs either scan that market only, and an asset has one price per scan |
| | `ArbSearchesAlwaysTight` | both searches for a complete set end within a quantum of what they look for, and the rounded verdict on a size is wrong by less than a quantum of the edge |
| `DreamdexProofs` | `DeskInvariant` | `Spec => []DeskInv` |
| | `BuyAlwaysKeepsItsEdge` | a size cut to the caps keeps the edge it was approved for to within a quantum, and costs at most half a quantum a token more than it is booked at |
| | `DeskTypesHold` | `Spec => []TypeOK` |
| | `SettledOnce` | with exclusive settlements, a settled trade never changes |
| `ExecutionProofs` | `ExecutionInvariant` | `Spec => []ExecutionInv` |
| | `WritesArePermitted` | an order goes only where the operator's variables ask |
| | `OrdersStayHome` | no order ends in another market, if pools are recycled slowly |
| | `RefusalsAreSafe` | a refused command placed nothing and never will |
| `DashboardProofs` | `CacheInvariant` | `Spec => []CacheInv` |
| | `AnswersStayFresh` | no answer is older than the time to live plus one computation |
| `PagesProofs` | `PagesInvariant` | `SpecActivity => []PagesInv` |
| | `PagesAlwaysJoin` | nothing is passed over on the way to an older activity, and no more is yielded than asked for |
| | `RepeatsAreAlwaysNews` | an activity is read twice only as others are published above it |
| | `NothingIsLost` | a reading that ends by itself has everything there was at its start, if every body was a list of objects |
| | `RetriesAreBounded` | no request beyond the retries, nor after a settled answer |
| | `OutcomesAreExplained` | the outcome follows from the answers as the docstring says |
| | `MarketsInvariant` | `SpecMarkets => []MarketsInv` |
| | `MarketsAlwaysJoin` | no more markets are passed over than left, if every body was a list, and no more come twice than came |
| | `MarketsAlwaysComplete` | a reading that ends by itself lacks no more markets that stayed than left, if every body was a list of objects |

The invariants `PagesInv`, `MarketsInv`, `ReportInv`, `ExecutionInv` and
`CacheInv` and the step form `PositionsFollowFills` are proved and in no run:
the runs check what follows from them.

### Assumptions

`ConstantsAssumption`, `DeskAssumption`, `ExecutionAssumption`,
`CacheAssumption`, `HttpAssumption`, `PagesAssumption`,
`MarketPagesAssumption`, `SearchAssumption`, `PricesAssumption`,
`WalletAssumption`, `PatternsAssumption` and the `BooksAssumption` of
`DreamdexPaper` give the constants their types, and `InputsAssumption` those of
the activities, ticks and markets that inputs are made of (a price is at most
1, an amount below the last edge of its buckets, 1e30 in the code; a rank is a
number, and of a market the detail, the book, the price or nothing fails; the
logarithms of different prices are different numbers). Three say more.
`BooksAssumption` of `PaperFollower`: the books are ones `get_order_book`
returns, so that parsing and sorting them again changes nothing, and the budget
divides exactly on their asks. `BoundsAssumption`: a payload is not too deep
for the searches of complete sets to come to their end, as said there; only
`ArbSearchesAlwaysTight` uses that. `RecycledSlowly` is about the exchange, and
is discussed with the model. TLC evaluates all of them in the runs.

### Loops

The code's loops are folds (`FoldLeft`), which the library defines by recursion
over the set of indices. No theorem about them by induction can be cited, since
those of the library take an operator. `LoopProofs` unfolds a fold to the
function behind it, the value after each turn, and proves that there is one
(`TraceExists`, `FoldTraces`): `SelectTrace`, `TotalTrace`, `WalkTrace`,
`SpendTrace` and, in `ReportProofs`, `DrawdownTrace` say in first-order words
what a turn does. An induction is then over the set of turns at which a claim
holds (`SetInduction`, from the least element of a set of numbers). A fold whose
step is an operator parameter cannot be unfolded this way, which is why `Select`
and `TotalOf` take a set of rows and the name of a field.

### Walks

`SmallerWalk` compares two walks over one side level by level. While the
smaller is not full they took the same; from the level where it stops on, the
larger pays prices at least as high as any the smaller paid (`CheaperStep`).
That the side is sorted is proved of the stable sort (`AsksSorted`): an
insertion behind the last element that is not dearer keeps the order.
`BudgetWalk` follows the budget beside the walk for what it bought
(`SpendsInOrder`: only the last level touched is split, and what remains does
not pay for one share of it), and then beside the walk for one share more
(`Exceeds`).

`WalksAlwaysExecuteBest` compares a walk with every way of taking as many
shares from the payload, whose levels are in any order. A walk takes all of each
level cheaper than the price at which it stops and none of a dearer one
(`StopBounds`). Against that price, what a taking saves is at most what the
cheaper levels offer, whatever it takes (`TakeSaves`), and the walk saves
exactly that. Cheaper levels offer the same before and after parsing and
sorting, since both keep the sums over levels: `LoopProofs` defines such sums as
functions that follow a sequence level by level (`AmountOf`) and shows what an
insertion, an appended level and a selection add to them (`InsertAmount`,
`AppendAmount`, `SelectAmount`). That the minimum is reached needs a taking:
all that is cheaper, and a part of the levels at that price. A sale is a
purchase with the prices negated.

### Complete sets

A search keeps its lower end good and its upper end not. They start a number of
quanta apart, and each round halves that (`Closer`); after all rounds they are
as many of the finest units apart as they were quanta before (`BisectEnds`),
which the assumption makes half a quantum at most. Good quantities are all
below bad ones, for a budget as for an edge, because a set costs no more apiece
when fewer are bought: that is `SmallerWalk` on both sides (`FewerSets`,
`FewerAffordable`, `FewerKeepEdge`). In the finest unit a walk is the same walk
(`FinerWalk`), so that what is found in it holds of whole quanta (`FinerSets`).
What is left is rounding (`RoundingIs`): down, it stays good and ends less than
a quantum lower (`BudgetIsTight`); to the nearest, it moves half a quantum,
which with the half that the search leaves never reaches the next one but one
(`EdgeIsTight`). A budget's size that keeps the exact edge is hence none above
the size that was found. The verdict rounds twice, and the second rounding is
of a number of quanta less the buffer: each moves by half a quantum at most, so
that the verdict is that of an edge less than one away. The two halves of a
payload are no deeper than all its levels (`HalvesBounded`), of which there are
at most `MaxLevels` (`PayloadLength`).

### Counts and sorts

A bag says of each value how often it is in a sequence, and a table of buckets
how many activities are in each. Counted class by class, every element of a
finite set is counted once (`ClassesAddUp`), so that both add up to the number
of those that have a class. The rest of `TradesAlwaysCountedOnce` is that every
time has an hour, every price a bucket, and that an hour is either in a window
or in the one that begins after its end and ends before its start
(`HoursPart`). For `WindowsAlwaysAgree` an hour has a place in the three from a
start, and the places of a window are its hours (`WindowFrom`), whether or not
it wraps; the busiest start exists because a finite table has a maximum
(`BusiestExists`). Rounding to 1/10000 and then to tenths is at most a tenth
away from rounding once, because the two are within half a tenth and half of
1/10000 of the same number.

`StableSort` places one row after another. A sorted sequence splits into the
rows up to the new one and those beyond it (`SortedSplits`), and the new row
goes between them (`PlaceBetween`). By induction over the sequences of a set
(`SequenceInduction`), to sort what is selected is to select of what is sorted
(`SortSelect`), and a sort keeps every row as often as it was there
(`SortBag`).

`NeverLooksAhead` follows from that. The later purchases can change in any way
but in number; what is selected of the purchases up to the last of the earlier
half is then the same before and after the change (`SameRows`), so it is the
same sorted, and sorted purchases begin with it (`BeginningUpTo`). The earlier
half is a part of that beginning, and what is found is read off it alone
(`FoundIs`).

`FallsAlwaysMeasured` follows the peak and the worst fall through the series
(`Measured`): a fall from an earlier, lower price is no greater a share than one
from the peak (`HigherFallsMore`), and to be no greater is transitive for shares
(`SharesCompare`).

`VolatilityAlwaysMeasured` writes each estimate as sums over the moves from one
tick to the next. Ticks of different times have one order only
(`OneStrictOrder`), so that the series and its reverse are the same once sorted
(`SortStrictly`, `TicksReversed`). Their moves all take time, hence the sum of
squares is zero only if every logarithm, and so every price, is the one before.
When no move takes time the closes are used: their variance is not negative,
because the square of a sum is at most the sum of squares times their number
(`SquaresBound`), and it divides by a product of positive numbers.

`PatternsAlwaysInTheTables` counts all three in one way, as how many activities
of the feed have some property (`Tally`). The support of a pattern in both
halves is that of its purchases (`CandidateCounts`), a window of hours that of
the times in it (`InsideIsTally`), the finer buckets that of their prices
(`FilledIsTally`); and the edge of a price's finer bucket is in the band of the
price (`FinerBucket`).

### The scans

`VisitIs` writes a visit as what it does to each part of a scan, and is all
that the proofs use of it. Two scans that differ by a failed market are
followed side by side: up to it they are the same, its own visit changes
nothing but its signal, if it has one (`FailedVisit`), and each later visit
finds the same prices in both (`VisitAlike`), since a scan that has not raised
at its end never did (`RaisedStays`). Sorting keeps that, because selecting and
sorting commute. For the prices, a scan has one per asset, and each of its
signals tells of one it has (`Honest`); the requests made for an asset are no
more than its failures and its one success (`Patient`). `scan-arbs` selects
before it ranks, so that a market that is not selected is not missed
(`SelectRest`).

### The follower

`FillsMatchSignals` is not inductive: `Commit` publishes whatever `work` holds.
`IInv` adds what is true of `work` at each place of the transaction
(`TransactionInv`: exactly the rows written so far, by the one process that
holds the lock), what a process knows of the activity in hand (`HandInv`), and,
under `ExclusiveRuns`, that the position a SELL read is still the one in the
file when it is overwritten and that the signal is still new (`ExclusiveInv`).
The commit step is the only one that changes fills: there `TransactionInv` says
that it appends one signal, one fill that refers to it, and one moved position,
which is the step `Buy` or `Sell` of the ledger.

### The books of a run

The sums over all fills need no more of the followers than `IInv`: a step either
leaves fills, closures and positions alone or is the commit of one trade, whose
rows `CommitRows` names, and a selection grows by a row that it selects and by
no other (`SelectGrows`). `PositionReconciles` and `CashBalances` are then kept
by each commit. For cash that needs the basis of a sale: `BasisOf` divides and
rounds down, and `SplitBasis` shows that what is taken out and what stays lose
less than a unit between them, and nothing when all is sold. Without exclusive
runs both fail, as run `oversell` shows. `ClosuresMatchSells` holds without
them, because a closure and its fill are one transaction.

### The report

`ReportInv` compares what was read with what the tables hold now. `Forward`
counts, at every moment, no more filled signals than fills and no more sales
than closures. `ReadForward` adds that each table read so far counts no more
than the table of the same rows counts now: tables only grow, so a later read
answers at least as much as an earlier one (`ReadsKeep`). `ReadQuietly` says
that reads are what the tables hold as long as nothing was committed. The
drawdown is proved along the running sums: at each point of the curve the peak
is the highest sum so far and the worst fall the deepest one between two points
(`Measured`), and a stretch of closures is the difference of two sums.

`ProfitAddsUp` needs the cash of a whole run at once. `RunBalances` is
`CashBalances` with the basis summed over the assets held (`OpenCost`), which
are finitely many. A sum over a set takes its elements in an order that nobody
chose; `LoopProofs` shows by induction over subsets that the order does not
matter (`SumsAnyOrder`), so that a position that moves is added or taken out of
the sum by itself (`OpenCostMoves`). Worth and basis of the same positions then
differ by the unrealized profit (`SumDifference`).

### The desk

`BuyKeepsItsEdge` is established by `ReadPrice` from lemmas about the caps (the
size after the caps is at most `Size`, and at the average price of the whole
walk it costs no more than either cap), about `walk_book`, and about the
decision (a BUY has passed all checks, so the edge of the whole size clears the
minimum). `SmallerWalk` carries the edge over to the smaller size. The two
roundings cost half a quantum each: the booked price is within half of the
average, and the edge that passed within half of that of the booked price.
`HandInv` says what a command holds at each place; `SettleInv`, that the trade
being settled is open and nobody else settles it, which is where
`ExclusiveSettle` comes in. Run `settle_race` shows that `SettledOnce` fails
without it.

### Execution

`GateInv`: at the places past the gate, the environment allows the write.
`TimeInv`: the bridge's status was read while the market traded and at most
`Timeout` ago, and an order on its way was sent at most `Latency` ago; with
`RecycledSlowly`, whatever the pool serves when it lands is the same market or
none. `AttemptInv`: orders carry the number of the command that sent them, and a
command that has not come to `sign` has none.

### The cache

Every entry is under its own key, and was stored at most `MaxCompute` after the
start of its computation (`EntryOK`); every computation in hand is for the key
asked and at most `MaxCompute` old (`ComputationOK`). A store keeps this
whichever value it replaces.

### Pages

A page in hand is not yet among what was read, and an activity published above
it moves what the offset means. `Passed` is how far down the feed the reader
has come: the offset, and with a page in hand its length more. `PagesInv` says
that every activity up to there is read (`Read`, the page in hand included) or
was published since the start; that above whatever was read everything is read
or news, which is `PagesJoin` without its exception for odd rows; and that a
short page in hand is the rest of the feed, unless a body was no list. Odd rows
need no exception there: the page that has one is short, so that it is the
last. An insertion moves at most one activity across each of these lines, and
then itself stands above it. `GetInv`, under it, counts requests, answers and
sleeps at each place of a call and says that all answers but the last are
transient. For `RepeatsAreNews` the lemmas count: the offset is how many were
yielded, and what is above it is read or inserted, so that more are yielded
than read only by those inserted.

### Markets

A market that closes moves the list up under the offset, one that is listed
moves it down. `MarketsInv` therefore counts. With the page in hand taken for
yielded, what lies before the offset and was not yielded is no more than what
left (`FewMissed`), and what lies behind it and was yielded no more than what
came (`FewAgain`); what came twice so far no more than that either (`Repeats`).
A departure or arrival moves at most one row across the offset, and is itself
counted. A page is taken from the offset on, so that a reading moves rows from
behind it to before it; the malformed are dropped after the offset was moved by
all of them. A short page without a row of another kind is the rest of the list.
After a body that was no list (`garbled`) nothing is claimed of what was missed:
its row, if it is one, moves the offset. What comes twice is still bounded.

### Only model-checked

Liveness (`EverySignalDisposed`, `LockReleased`, `ReadingsEnd`), which the
prover does not reach. Every invariant and action property of a run is a
theorem, save those whose run expects a violation.

## What is not modelled

* The moments of a series' returns (mean, deviation) and the Gaussian estimate
  of a probability (`price_series.py`, `probability.py`): square roots and
  floating point; every estimate is an input of `RiskEngine`, every score one of
  `MarketScan`.
* What the analyses and commands print and write: `summary.json`, CSV files,
  `report.md`, the `to_dict`s, `geo`, `market`, `inspect`, `export-wallet`,
  `paper-runs`; routing and page of the dashboard; the summary of DreamDEX
  paper trades.
* The fields of a market and its lookup by slug (`gamma.py`), geoblock and
  positions: one request each.
* The schema version of the two databases, including two processes that make
  one new file together (the version row of one of them meets the PRIMARY KEY);
  columns that only describe.
* `health` of the bridge, and the fixtures of the venue, which are data.
* The SDK, the chain, SQLite, the HTTP servers: external, modelled only as the
  code uses them.

## Plan

The order so far was: the follower with its database and ledger; the walks; the
report; the signal engine with its paper desk; the client, the cache; execution;
the proofs of pages; markets, analyses, series and scans. What is left:

1. The schema of a new file, with two processes that create it.
2. The summary of DreamDEX trades beside settlements, and the fields that
   mapping a market drops or replaces.
