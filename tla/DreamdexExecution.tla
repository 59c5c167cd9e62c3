------------------------- MODULE DreamdexExecution -------------------------
(***************************************************************************)
(* `edge-lab dreamdex preview` and `execute`: the command in Python and,   *)
(* for the order, one bridge process that re-reads the market, signs and   *)
(* sends.  An operator goes on while told that nothing was placed.         *)
(* What a book and a price make of a market is DreamdexPaper's matter:     *)
(* here they approve of the trade or do not.                               *)
(*                                                                         *)
(* The chain is external.  A market trades on its pool from Opens to       *)
(* Closes, then the pool serves another market; an order reaches the       *)
(* chain within Latency of being sent, and goes to whatever market its     *)
(* pool serves by then.                                                    *)
(***************************************************************************)
EXTENDS Naturals

CONSTANTS
  Markets, Pool, Opens, Closes,   \* markets, and the pool and times of each
  Timeout,                        \* DREAMDEX_BRIDGE_TIMEOUT, 30 seconds
  Latency,                        \* of an order on its way
  MaxClock,                       \* bound: seconds elapsed
  MaxAttempts                     \* bound: commands run

ASSUME ExecutionAssumption ==
  /\ Opens \in [Markets -> Nat] /\ Closes \in [Markets -> Nat]
  /\ Timeout \in Nat \ {0} /\ Latency \in Nat
  /\ MaxClock \in Nat /\ MaxAttempts \in Nat

\* A pool serves its next market only when an order of its last is settled.
ASSUME RecycledSlowly ==
  \A m, n \in Markets : m # n /\ Pool[m] = Pool[n] =>
    \/ Opens[n] >= Closes[m] + Timeout + Latency
    \/ Opens[m] >= Closes[n] + Timeout + Latency

\* What an operator may have put in the environment; "" is an unset variable.
Environments ==
  [network : {"", "testnet", "mainnet", "main"}, mode : {"", "testnet", "mainnet", "test"},
   enable : {"", "true"}, key : BOOLEAN, indexer : BOOLEAN]

NoEnvironment == [network |-> "", mode |-> "", enable |-> "", key |-> FALSE, indexer |-> FALSE]

VARIABLES
  clock,
  pc,        \* where the command is
  attempt,   \* how many commands were run
  env,       \* the environment of the command
  target,    \* the market it was given
  yes,       \* --yes
  trading,   \* whether the market traded when it was read
  since,     \* when the bridge process of the order was started
  pool,      \* the pool the bridge resolved
  told,      \* the code the last command ended with
  orders     \* the orders ever sent

command == <<pc, env, target, yes, trading, since, pool, told>>
vars == <<clock, command, attempt, orders>>

NoMarket == "no market"
NoPool == "no pool"

Init ==
  /\ clock = 0 /\ attempt = 0 /\ orders = {}
  /\ pc = "idle" /\ env = NoEnvironment /\ target = NoMarket /\ yes = FALSE
  /\ trading = FALSE /\ since = 0 /\ pool = NoPool /\ told = "nothing yet"

\* The command ends with a code, and everything it knew is gone.
End(code) ==
  /\ pc' = "idle" /\ env' = NoEnvironment /\ target' = NoMarket /\ yes' = FALSE
  /\ trading' = FALSE /\ since' = 0 /\ pool' = NoPool /\ told' = code

-----------------------------------------------------------------------------
(***************************************************************************)
(* The gates.                                                              *)
(***************************************************************************)
Modes == {"paper", "testnet", "mainnet"}

\* A mode that is none of TradingMode is paper.
Mode(e) == IF e.mode \in Modes THEN e.mode ELSE "paper"

\* DreamdexConfig.from_env, and what env_for_subprocess hands the bridge.
Config(e) ==
  [network |-> IF e.network = "" THEN "testnet" ELSE e.network,
   mode    |-> Mode(e),
   enable  |-> e.enable = "true",
   key     |-> e.key,
   indexer |-> e.indexer]

\* readEnv: the bridge knows two networks and three modes.
WellFormed(c) == c.network \in {"testnet", "mainnet"} /\ c.mode \in Modes

\* Mutant: either of the two names the main network.
TripleGate_Either(c) ==
  (c.network = "mainnet" \/ c.mode = "mainnet") /\ c.enable

TripleGate(c) == c.network = "mainnet" /\ c.mode = "mainnet" /\ c.enable

NoObjection == "none"

\* buildExchange for a write: assertWriteAllowed, then the indexer.
WriteObjection(c) ==
  IF ~WellFormed(c) THEN "CONFIG_ERROR"
  ELSE IF c.mode = "paper" THEN "PAPER_MODE"
  ELSE IF "mainnet" \in {c.network, c.mode} /\ ~TripleGate(c) THEN "MAINNET_DISABLED"
  ELSE IF ~c.key THEN "SIGNER_REQUIRED"
  ELSE IF ~c.indexer THEN "CONFIG_ERROR"
  ELSE NoObjection

\* buildExchange for a read.
ReadObjection(c) ==
  IF WellFormed(c) /\ c.indexer THEN NoObjection ELSE "CONFIG_ERROR"

-----------------------------------------------------------------------------
(***************************************************************************)
(* The chain and the indexer.                                              *)
(***************************************************************************)
TradesAt(m, t) == Opens[m] <= t /\ t < Closes[m]

\* Mutant: the status of the indexer, which may lag.
Status_Indexed(m) == {TradesAt(m, t) : t \in 0..clock}

\* getMarketOnchain.
Status(m) == {TradesAt(m, clock)}

InFlight == "in flight"
Reverted == "reverted"

\* The market a pool serves, if one trades on it now.
Served(q) ==
  LET now == {m \in Markets : Pool[m] = q /\ TradesAt(m, clock)}
  IN  IF now = {} THEN Reverted ELSE CHOOSE m \in now : TRUE

\* An order reaches the chain.
Land(o) ==
  /\ o \in orders /\ o.landed = InFlight
  /\ orders' = (orders \ {o}) \union {[o EXCEPT !.landed = Served(o.pool)]}
  /\ UNCHANGED <<clock, command, attempt>>

-----------------------------------------------------------------------------
(***************************************************************************)
(* The command.                                                            *)
(***************************************************************************)
\* Codes that say that nothing was placed.
Refusals ==
  {"nothing yet", "would submit", "would not submit", "TRADING_MODE=paper", "not executable", "no --yes", "CONFIG_ERROR",
   "PAPER_MODE", "MAINNET_DISABLED", "SIGNER_REQUIRED", "MARKET_NOT_FOUND",
   "STALE_PRICE_DATA", "MARKET_NOT_TRADING", "ContractRevertError"}

\* The operator repeats a command that was refused, and no other.
Execute(e, m, y) ==
  /\ pc = "idle" /\ told \in Refusals /\ attempt < MaxAttempts
  /\ attempt' = attempt + 1
  /\ IF Config(e).mode = "paper" THEN End("TRADING_MODE=paper")
     ELSE /\ pc' = "market" /\ env' = e /\ target' = m /\ yes' = y
          /\ UNCHANGED <<trading, since, pool, told>>
  /\ UNCHANGED <<clock, orders>>

\* preview asks for no mode, no signer and no --yes.
Preview(e, m) ==
  /\ pc = "idle" /\ told \in Refusals /\ attempt < MaxAttempts
  /\ attempt' = attempt + 1
  /\ pc' = "preview" /\ env' = e /\ target' = m
  /\ UNCHANGED <<clock, yes, trading, since, pool, told, orders>>

\* previewOrder; without --side and --price there may be no signal to preview.
Rehearse ==
  /\ pc = "preview"
  /\ LET objection == ReadObjection(Config(env))
     IN  IF objection # NoObjection THEN End(objection)
         ELSE \/ End("not executable") \/ End("MARKET_NOT_FOUND")
              \/ \E now \in Status(target), bound \in BOOLEAN :
                   End(IF now /\ bound THEN "would submit" ELSE "would not submit")
  /\ UNCHANGED <<clock, attempt, orders>>

\* get_market: the indexer's row, then the status on the chain.
ReadMarket ==
  /\ pc = "market"
  /\ \/ ReadObjection(Config(env)) # NoObjection /\ End(ReadObjection(Config(env)))
     \/ ReadObjection(Config(env)) = NoObjection /\ End("MARKET_NOT_FOUND")
     \/ /\ ReadObjection(Config(env)) = NoObjection
        /\ pc' = "quotes" /\ trading' \in Status(target)
        /\ UNCHANGED <<env, target, yes, since, pool, told>>
  /\ UNCHANGED <<clock, attempt, orders>>

(***************************************************************************)
(* The book and the underlying are read, the risk engine decides, and the  *)
(* order is asked for: adapter.place_order starts its bridge process.      *)
(***************************************************************************)
Decide ==
  /\ pc = "quotes"
  /\ \/ \E code \in {"not executable", "MARKET_NOT_FOUND", "STALE_PRICE_DATA"} : End(code)
     \/ trading /\ ~yes /\ End("no --yes")
     \/ /\ trading /\ yes
        /\ pc' = "gate" /\ since' = clock
        /\ UNCHANGED <<env, target, yes, trading, pool, told>>
  /\ UNCHANGED <<clock, attempt, orders>>

PassGate ==
  /\ pc = "gate"
  /\ LET objection == WriteObjection(Config(env))
     IN  IF objection # NoObjection THEN End(objection)
         ELSE pc' = "row" /\ UNCHANGED <<env, target, yes, trading, since, pool, told>>
  /\ UNCHANGED <<clock, attempt, orders>>

\* The indexer may not know the market, nor its pool, any more.
ResolvePool ==
  /\ pc = "row"
  /\ \/ End("MARKET_NOT_FOUND")
     \/ /\ pc' = "status" /\ pool' = Pool[target]
        /\ UNCHANGED <<env, target, yes, trading, since, told>>
  /\ UNCHANGED <<clock, attempt, orders>>

CheckStatus ==
  /\ pc = "status"
  /\ \E now \in Status(target) :
       IF ~now THEN End("MARKET_NOT_TRADING")
       ELSE pc' = "sign" /\ UNCHANGED <<env, target, yes, trading, since, pool, told>>
  /\ UNCHANGED <<clock, attempt, orders>>

\* trader.placeOrder signs and sends to the pool, on the chain of the network.
Send ==
  /\ pc = "sign" /\ pc' = "sent"
  /\ orders' = orders \union
       {[attempt |-> attempt, market |-> target, pool |-> pool, at |-> clock,
         chain |-> Config(env).network, env |-> env, yes |-> yes, landed |-> InFlight]}
  /\ UNCHANGED <<clock, attempt, env, target, yes, trading, since, pool, told>>

Mine == {o \in orders : o.attempt = attempt}

\* The SDK waits for the receipt; an order that reverts is an error of its own.
Reply ==
  /\ pc = "sent"
  /\ \E o \in Mine : o.landed # InFlight /\
       End(IF o.landed = Reverted THEN "ContractRevertError" ELSE "submitted")
  /\ UNCHANGED <<clock, attempt, orders>>

\* Mutant: a call that timed out failed.
Code_Failed(error) ==
  IF error \in {"no answer", "timed out"} THEN "ContractRevertError" ELSE error

\* mapErrorCode, and what invoke makes of a bridge that times out or dies.
Code(error) ==
  IF error \in {"no answer", "timed out"} THEN "RPC_ERROR" ELSE error

BridgeCalls == {"preview", "market", "quotes", "gate", "row", "status", "sign", "sent"}

\* An endpoint gives no answer, or the bridge dies, wherever the command is.
Fail ==
  /\ pc \in BridgeCalls
  /\ \E error \in {"no answer", "BRIDGE_UNAVAILABLE"} : End(Code(error))
  /\ UNCHANGED <<clock, attempt, orders>>

\* The SDK finds that the order would revert, before it is sent.
WouldRevert ==
  /\ pc = "sign" /\ End("ContractRevertError")
  /\ UNCHANGED <<clock, attempt, orders>>

PlacingOrder == pc \in {"gate", "row", "status", "sign", "sent"}

\* subprocess.run kills the bridge; what it sent stays sent.
TimeOut ==
  /\ PlacingOrder /\ clock >= since + Timeout
  /\ End(Code("timed out"))
  /\ UNCHANGED <<clock, attempt, orders>>

\* No bridge runs longer than its timeout.
MayRunOn(t) == PlacingOrder => t <= since + Timeout

Tick ==
  /\ clock < MaxClock /\ clock' = clock + 1
  /\ MayRunOn(clock')
  /\ \A o \in orders : o.landed = InFlight => clock' <= o.at + Latency
  /\ UNCHANGED <<command, attempt, orders>>

Next ==
  \/ Tick
  \/ \E e \in Environments, m \in Markets, y \in BOOLEAN : Execute(e, m, y)
  \/ \E e \in Environments, m \in Markets : Preview(e, m)
  \/ Rehearse \/ ReadMarket \/ Decide \/ PassGate \/ ResolvePool \/ CheckStatus \/ Send \/ Reply
  \/ Fail \/ WouldRevert \/ TimeOut
  \/ \E o \in orders : Land(o)

Spec == Init /\ [][Next]_vars

-----------------------------------------------------------------------------
\* Every variable keeps its type.
Order ==
  [attempt : Nat, market : Markets, pool : {Pool[m] : m \in Markets}, at : Nat,
   chain : {"testnet", "mainnet", "main"}, env : Environments, yes : BOOLEAN,
   landed : Markets \union {InFlight, Reverted}]

TypeOK ==
  /\ clock \in Nat /\ attempt \in Nat /\ since \in Nat
  /\ pc \in BridgeCalls \union {"idle"}
  /\ env \in Environments /\ yes \in BOOLEAN /\ trading \in BOOLEAN
  /\ pc # "idle" => target \in Markets
  /\ orders \subseteq Order

(***************************************************************************)
(* An order is sent only with --yes and a signer, and only to the network  *)
(* the operator's own variables ask for: the test network by NETWORK unset *)
(* or testnet and TRADING_MODE=testnet, the main network by all three of   *)
(* its variables (DREAMDEX_TESTNET_RUNBOOK, "Gates").                      *)
(***************************************************************************)
Permits(e, chain) ==
  \/ chain = "testnet" /\ e.network \in {"", "testnet"} /\ e.mode = "testnet"
  \/ chain = "mainnet" /\ e.network = "mainnet" /\ e.mode = "mainnet" /\ e.enable = "true"

OnlyPermittedWrites ==
  \A o \in orders : o.yes /\ o.env.key /\ Permits(o.env, o.chain)

(***************************************************************************)
(* An order is never placed in a market other than the one it was meant    *)
(* for, though its pool is recycled: the status is read on the chain and   *)
(* the bridge cannot outlive its timeout (place-order, bridge.invoke).     *)
(***************************************************************************)
NeverInAnotherMarket ==
  \A o \in orders : o.landed \in {InFlight, Reverted, o.market}

(***************************************************************************)
(* A command that was refused has placed nothing and never will: repeating *)
(* it cannot double an order (placeOrder, bridge.invoke, mapErrorCode).    *)
(***************************************************************************)
RefusedMeansNotPlaced ==
  pc = "idle" /\ told \in Refusals => \A o \in orders : o.landed = Reverted

(***************************************************************************)
(* The three together are not inductive.  To them belongs what the command *)
(* has checked by the time it signs, when the bridge and an order on its   *)
(* way must be done, and that commands before this one left nothing.       *)
(***************************************************************************)
Signing == pc \in {"row", "status", "sign", "sent"}

\* The market traded when its status was read, no longer than Timeout ago.
TradedBefore(m, t) == \E u \in 0..t : TradesAt(m, u) /\ t <= u + Timeout

OnItsWay(o) ==
  o.at <= clock /\ clock <= o.at + Latency /\ TradedBefore(o.market, o.at)

TimeInv ==
  /\ PlacingOrder => since <= clock /\ clock <= since + Timeout
  /\ pc \in {"status", "sign"} => pool = Pool[target]
  /\ pc = "sign" => \E u \in since..clock : TradesAt(target, u)
  /\ \A o \in orders : o.pool = Pool[o.market] /\ (o.landed = InFlight => OnItsWay(o))

AttemptInv ==
  /\ \A o \in orders : o.attempt <= attempt
  /\ pc \notin {"idle", "sent"} => \A o \in orders : o.landed = Reverted /\ o.attempt < attempt
  /\ pc = "sent" => /\ \A o \in orders : o.attempt < attempt => o.landed = Reverted
                    /\ \A o1, o2 \in Mine : o1 = o2

GateInv ==
  /\ PlacingOrder => yes
  /\ Signing => WriteObjection(Config(env)) = NoObjection

ExecutionInv ==
  /\ TypeOK /\ GateInv /\ TimeInv /\ AttemptInv
  /\ OnlyPermittedWrites /\ NeverInAnotherMarket /\ RefusedMeansNotPlaced
=============================================================================
