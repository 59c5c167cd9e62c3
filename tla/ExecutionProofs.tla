-------------------------- MODULE ExecutionProofs --------------------------
(***************************************************************************)
(* Whatever the markets, their times and the bridge's timeout, an order is *)
(* sent only where the operator allows it, never ends in another market of *)
(* its pool, and a refused command has placed none.                        *)
(***************************************************************************)
EXTENDS DreamdexExecution, TLAPS

LEMMA ExecutionBounds ==
  /\ Timeout \in Nat /\ Latency \in Nat /\ MaxAttempts \in Nat
  /\ \A m \in Markets : Opens[m] \in Nat /\ Closes[m] \in Nat
  BY ExecutionAssumption

\* No code of Refusals is the one of a placed order, or of an unknown outcome.
LEMMA UnknownIsNoRefusal ==
  {"submitted", "RPC_ERROR", "BRIDGE_UNAVAILABLE"} \cap Refusals = {}
  BY DEF Refusals

\* What a command is told when it gets no answer is no refusal.
LEMMA NoAnswerIsNoRefusal ==
  \A error \in {"no answer", "timed out", "BRIDGE_UNAVAILABLE"} : Code(error) \notin Refusals
  BY UnknownIsNoRefusal DEF Code

\* A pool serves a market that trades on it, or none.
LEMMA ServedTrades ==
  \A q : Served(q) = Reverted \/ (/\ Served(q) \in Markets /\ Pool[Served(q)] = q
                                  /\ TradesAt(Served(q), clock))
<1> SUFFICES ASSUME NEW q, Served(q) # Reverted
             PROVE  /\ Served(q) \in Markets /\ Pool[Served(q)] = q
                    /\ TradesAt(Served(q), clock)
  OBVIOUS
<1> DEFINE now == {m \in Markets : Pool[m] = q /\ TradesAt(m, clock)}
<1>1. now # {} /\ Served(q) = CHOOSE m \in now : TRUE
  BY DEF Served
<1>2. PICK m : m \in now
  BY <1>1
<1>3. (CHOOSE n \in now : TRUE) \in now
  BY <1>2
<1> QED
  BY <1>1, <1>3

\* The idle command: nothing was sent.
LEMMA ExecutionInit == Init => ExecutionInv
<1> SUFFICES ASSUME Init PROVE ExecutionInv
  OBVIOUS
<1>1. TypeOK
  BY DEF Init, TypeOK, NoEnvironment, Environments
<1>2. GateInv /\ TimeInv /\ AttemptInv
  BY DEF Init, GateInv, Signing, TimeInv, AttemptInv, PlacingOrder
<1>3. OnlyPermittedWrites /\ NeverInAnotherMarket /\ RefusedMeansNotPlaced
  BY DEF Init, OnlyPermittedWrites, NeverInAnotherMarket, RefusedMeansNotPlaced
<1> QED
  BY <1>1, <1>2, <1>3 DEF ExecutionInv

\* A command that ends keeps the invariant, if a refusal leaves nothing behind.
LEMMA EndKeeps ==
  ASSUME ExecutionInv, NEW code, End(code), UNCHANGED <<clock, orders>>,
         attempt' \in Nat, attempt' >= attempt,
         code \in Refusals => \A o \in orders : o.landed = Reverted
  PROVE  ExecutionInv'
<1>1. TypeOK'
  BY DEF ExecutionInv, TypeOK, End, NoEnvironment, Environments
<1>2. GateInv' /\ TimeInv'
  BY DEF ExecutionInv, End, GateInv, Signing, TimeInv, OnItsWay, PlacingOrder
<1>3. AttemptInv'
  <2>1. \A o \in orders : o.attempt \in Nat /\ o.attempt <= attempt
    BY DEF ExecutionInv, TypeOK, AttemptInv, Order
  <2> QED
    BY <2>1 DEF ExecutionInv, TypeOK, AttemptInv, End
<1>4. (OnlyPermittedWrites /\ NeverInAnotherMarket /\ RefusedMeansNotPlaced)'
  BY DEF ExecutionInv, End, OnlyPermittedWrites, NeverInAnotherMarket, RefusedMeansNotPlaced
<1> QED
  BY <1>1, <1>2, <1>3, <1>4 DEF ExecutionInv

\* A command that has sent nothing may end in any way.
LEMMA EndUnsentKeeps ==
  ASSUME ExecutionInv, NEW code, End(code), UNCHANGED <<clock, attempt, orders>>,
         pc \notin {"idle", "sent"}
  PROVE  ExecutionInv'
<1>1. \A o \in orders : o.landed = Reverted
  BY DEF ExecutionInv, AttemptInv
<1>2. attempt' \in Nat /\ attempt' >= attempt
  BY DEF ExecutionInv, TypeOK
<1> QED
  BY <1>1, <1>2, EndKeeps

\* A command moves on between two places before it signs.
LEMMA AdvanceKeeps ==
  ASSUME ExecutionInv, UNCHANGED <<clock, attempt, orders>>,
         pc \notin {"idle", "sent"}, pc' \notin {"idle", "sent"}
  PROVE  AttemptInv' /\ (OnlyPermittedWrites /\ NeverInAnotherMarket /\ RefusedMeansNotPlaced)'
<1>1. AttemptInv'
  BY DEF ExecutionInv, AttemptInv
<1>2. (OnlyPermittedWrites /\ NeverInAnotherMarket /\ RefusedMeansNotPlaced)'
  BY DEF ExecutionInv, OnlyPermittedWrites, NeverInAnotherMarket, RefusedMeansNotPlaced
<1> QED
  BY <1>1, <1>2

\* A command starts only after a refusal, when no order is left.
LEMMA ExecuteKeeps ==
  ASSUME ExecutionInv, NEW e \in Environments, NEW m \in Markets, NEW y \in BOOLEAN,
         Execute(e, m, y)
  PROVE  ExecutionInv'
<1>1. \A o \in orders : o.landed = Reverted
  BY DEF ExecutionInv, RefusedMeansNotPlaced, Execute
<1>2. attempt \in Nat /\ attempt' = attempt + 1 /\ UNCHANGED <<clock, orders>>
  BY DEF ExecutionInv, TypeOK, Execute
<1>3. CASE Config(e).mode = "paper"
  BY <1>1, <1>2, <1>3, EndKeeps DEF Execute
<1>4. CASE Config(e).mode # "paper"
  <2>1. /\ pc' = "market" /\ env' = e /\ target' = m /\ yes' = y
        /\ UNCHANGED <<trading, since, pool, told>>
    BY <1>4 DEF Execute
  <2>2. TypeOK'
    BY <1>2, <2>1 DEF ExecutionInv, TypeOK, BridgeCalls
  <2>3. GateInv' /\ TimeInv'
    BY <1>2, <2>1 DEF ExecutionInv, GateInv, Signing, TimeInv, OnItsWay, PlacingOrder
  <2>4. AttemptInv'
    <3>1. \A o \in orders : o.attempt \in Nat /\ o.attempt <= attempt
      BY DEF ExecutionInv, TypeOK, AttemptInv, Order
    <3> QED
      BY <1>1, <1>2, <2>1, <3>1 DEF AttemptInv
  <2>5. (OnlyPermittedWrites /\ NeverInAnotherMarket /\ RefusedMeansNotPlaced)'
    BY <1>2, <2>1
       DEF ExecutionInv, OnlyPermittedWrites, NeverInAnotherMarket, RefusedMeansNotPlaced
  <2> QED
    BY <2>2, <2>3, <2>4, <2>5 DEF ExecutionInv
<1> QED
  BY <1>3, <1>4

\* So does a preview, which sends nothing.
LEMMA PreviewKeeps ==
  ASSUME ExecutionInv, NEW e \in Environments, NEW m \in Markets, Preview(e, m)
  PROVE  ExecutionInv'
<1>1. \A o \in orders : o.landed = Reverted
  BY DEF ExecutionInv, RefusedMeansNotPlaced, Preview
<1>2. /\ attempt \in Nat /\ attempt' = attempt + 1 /\ pc' = "preview" /\ env' = e
      /\ target' = m /\ UNCHANGED <<clock, yes, trading, since, pool, told, orders>>
  BY DEF ExecutionInv, TypeOK, Preview
<1>3. TypeOK'
  BY <1>2 DEF ExecutionInv, TypeOK, BridgeCalls
<1>4. GateInv' /\ TimeInv'
  BY <1>2 DEF ExecutionInv, GateInv, Signing, TimeInv, OnItsWay, PlacingOrder
<1>5. AttemptInv'
  <2>1. \A o \in orders : o.attempt \in Nat /\ o.attempt <= attempt
    BY DEF ExecutionInv, TypeOK, AttemptInv, Order
  <2> QED
    BY <1>1, <1>2, <2>1 DEF AttemptInv
<1>6. (OnlyPermittedWrites /\ NeverInAnotherMarket /\ RefusedMeansNotPlaced)'
  BY <1>2 DEF ExecutionInv, OnlyPermittedWrites, NeverInAnotherMarket, RefusedMeansNotPlaced
<1> QED
  BY <1>3, <1>4, <1>5, <1>6 DEF ExecutionInv

LEMMA RehearseKeeps ==
  ASSUME ExecutionInv, Rehearse
  PROVE  ExecutionInv'
<1>1. PICK code : End(code)
  BY DEF Rehearse
<1> QED
  BY <1>1, EndUnsentKeeps DEF Rehearse

\* The market is read.
LEMMA ReadMarketKeeps ==
  ASSUME ExecutionInv, ReadMarket
  PROVE  ExecutionInv'
<1>1. CASE \E code : End(code)
  BY <1>1, EndUnsentKeeps DEF ReadMarket
<1>2. CASE /\ pc' = "quotes" /\ trading' \in Status(target)
           /\ UNCHANGED <<env, target, yes, since, pool, told>>
  <2>1. trading' \in BOOLEAN
    BY <1>2 DEF Status, TradesAt
  <2>2. TypeOK'
    BY <1>2, <2>1 DEF ExecutionInv, TypeOK, ReadMarket, BridgeCalls
  <2>3. GateInv' /\ TimeInv'
    BY <1>2 DEF ExecutionInv, ReadMarket, GateInv, Signing, TimeInv, OnItsWay, PlacingOrder
  <2> QED
    BY <1>2, <2>2, <2>3, AdvanceKeeps DEF ExecutionInv, ReadMarket
<1> QED
  BY <1>1, <1>2 DEF ReadMarket

\* The bridge process of the order starts now.
LEMMA DecideKeeps ==
  ASSUME ExecutionInv, Decide
  PROVE  ExecutionInv'
<1>1. CASE \E code : End(code)
  BY <1>1, EndUnsentKeeps DEF Decide
<1>2. CASE /\ trading /\ yes /\ pc' = "gate" /\ since' = clock
           /\ UNCHANGED <<env, target, yes, trading, pool, told>>
  <2>1. TypeOK'
    BY <1>2 DEF ExecutionInv, TypeOK, Decide, BridgeCalls
  <2>2. GateInv'
    BY <1>2 DEF GateInv, Signing
  <2>3. TimeInv'
    BY <1>2, ExecutionBounds DEF ExecutionInv, TypeOK, Decide, TimeInv, OnItsWay, PlacingOrder
  <2> QED
    BY <1>2, <2>1, <2>2, <2>3, AdvanceKeeps DEF ExecutionInv, Decide
<1> QED
  BY <1>1, <1>2 DEF Decide

\* Only a command that may write goes on, and only one with --yes got here.
LEMMA PassGateKeeps ==
  ASSUME ExecutionInv, PassGate
  PROVE  ExecutionInv'
<1>1. CASE WriteObjection(Config(env)) # NoObjection
  BY <1>1, EndUnsentKeeps DEF PassGate
<1>2. CASE WriteObjection(Config(env)) = NoObjection
  <2>1. pc' = "row" /\ UNCHANGED <<env, target, yes, trading, since, pool, told>>
    BY <1>2 DEF PassGate
  <2>2. TypeOK'
    BY <2>1 DEF ExecutionInv, TypeOK, PassGate, BridgeCalls
  <2>3. GateInv'
    BY <1>2, <2>1 DEF ExecutionInv, GateInv, PassGate, PlacingOrder
  <2>4. TimeInv'
    BY <2>1 DEF ExecutionInv, PassGate, TimeInv, OnItsWay, PlacingOrder
  <2> QED
    BY <2>1, <2>2, <2>3, <2>4, AdvanceKeeps DEF ExecutionInv, PassGate
<1> QED
  BY <1>1, <1>2

\* The pool is the market's own.
LEMMA ResolvePoolKeeps ==
  ASSUME ExecutionInv, ResolvePool
  PROVE  ExecutionInv'
<1>1. CASE End("MARKET_NOT_FOUND")
  BY <1>1, EndUnsentKeeps DEF ResolvePool
<1>2. CASE /\ pc' = "status" /\ pool' = Pool[target]
           /\ UNCHANGED <<env, target, yes, trading, since, told>>
  <2>1. TypeOK'
    BY <1>2 DEF ExecutionInv, TypeOK, ResolvePool, BridgeCalls
  <2>2. GateInv'
    BY <1>2 DEF ExecutionInv, ResolvePool, GateInv, Signing, PlacingOrder
  <2>3. TimeInv'
    BY <1>2 DEF ExecutionInv, ResolvePool, TimeInv, OnItsWay, PlacingOrder
  <2> QED
    BY <1>2, <2>1, <2>2, <2>3, AdvanceKeeps DEF ExecutionInv, ResolvePool
<1> QED
  BY <1>1, <1>2 DEF ResolvePool

\* The market trades at the moment its status is read.
LEMMA CheckStatusKeeps ==
  ASSUME ExecutionInv, CheckStatus
  PROVE  ExecutionInv'
<1>1. CASE ~TradesAt(target, clock)
  BY <1>1, EndUnsentKeeps DEF CheckStatus, Status
<1>2. CASE TradesAt(target, clock)
  <2>1. pc' = "sign" /\ UNCHANGED <<env, target, yes, trading, since, pool, told>>
    BY <1>2 DEF CheckStatus, Status
  <2>2. TypeOK'
    BY <2>1 DEF ExecutionInv, TypeOK, CheckStatus, BridgeCalls
  <2>3. GateInv'
    BY <2>1 DEF ExecutionInv, CheckStatus, GateInv, Signing, PlacingOrder
  <2>4. TimeInv'
    <3>1. clock \in since..clock
      BY DEF ExecutionInv, TypeOK, TimeInv, PlacingOrder, CheckStatus
    <3>2. \E u \in since..clock : TradesAt(target, u)
      BY <1>2, <3>1
    <3> QED
      BY <2>1, <3>2 DEF ExecutionInv, CheckStatus, TimeInv, OnItsWay, PlacingOrder, TradesAt
  <2> QED
    BY <2>1, <2>2, <2>3, <2>4, AdvanceKeeps DEF ExecutionInv, CheckStatus
<1> QED
  BY <1>1, <1>2

\* What passes the gates is what the operator's variables ask for.
LEMMA GateIsPermission ==
  ASSUME NEW e \in Environments, WriteObjection(Config(e)) = NoObjection
  PROVE  e.key /\ Permits(e, Config(e).network)
<1>1. /\ WellFormed(Config(e)) /\ Config(e).mode # "paper" /\ Config(e).key
      /\ "mainnet" \in {Config(e).network, Config(e).mode} => TripleGate(Config(e))
  BY DEF WriteObjection, NoObjection
<1>2. /\ Config(e).network = (IF e.network = "" THEN "testnet" ELSE e.network)
      /\ Config(e).mode = Mode(e)
      /\ Config(e).enable = (e.enable = "true") /\ Config(e).key = e.key
  BY DEF Config
<1>3. e.key
  BY <1>1, <1>2
<1>4. CASE "mainnet" \in {Config(e).network, Config(e).mode}
  <2>1. Config(e).network = "mainnet" /\ Config(e).mode = "mainnet" /\ Config(e).enable
    BY <1>1, <1>4 DEF TripleGate
  <2>2. e.enable = "true"
    BY <1>2, <2>1
  <2>3. e.network = "mainnet" /\ e.mode = "mainnet"
    BY <1>2, <2>1 DEF Mode, Modes
  <2> QED
    BY <1>3, <2>1, <2>2, <2>3 DEF Permits
<1>5. CASE "mainnet" \notin {Config(e).network, Config(e).mode}
  <2>1. Config(e).network = "testnet" /\ Config(e).mode = "testnet"
    BY <1>1, <1>5 DEF WellFormed, Modes
  <2>2. e.network \in {"", "testnet"} /\ e.mode = "testnet"
    BY <1>2, <2>1 DEF Mode, Modes
  <2> QED
    BY <1>3, <2>1, <2>2 DEF Permits
<1> QED
  BY <1>4, <1>5

\* An order is sent to the pool of a market that traded within the timeout.
LEMMA SendKeeps ==
  ASSUME ExecutionInv, Send
  PROVE  ExecutionInv'
<1> DEFINE new == [attempt |-> attempt, market |-> target, pool |-> pool, at |-> clock,
                   chain |-> Config(env).network, env |-> env, yes |-> yes,
                   landed |-> InFlight]
<1>1. /\ orders' = orders \union {new} /\ pc = "sign" /\ pc' = "sent"
      /\ UNCHANGED <<clock, attempt, env, target, yes, trading, since, pool, told>>
  BY DEF Send
<1>2. /\ TypeOK /\ target \in Markets /\ pool = Pool[target] /\ yes
      /\ WriteObjection(Config(env)) = NoObjection
      /\ clock \in Nat /\ since \in Nat /\ since <= clock /\ clock <= since + Timeout
  BY <1>1 DEF ExecutionInv, TypeOK, GateInv, TimeInv, PlacingOrder, Signing
<1>3. env.key /\ Permits(env, new.chain)
  BY <1>2, GateIsPermission DEF TypeOK
<1>4. new \in Order
  BY <1>2, <1>3 DEF TypeOK, Order, Permits
<1>5. TypeOK'
  BY <1>1, <1>2, <1>4 DEF TypeOK, BridgeCalls
<1>6. GateInv'
  BY <1>1 DEF ExecutionInv, GateInv, Signing, PlacingOrder
<1>7. TimeInv'
  <2>1. PICK u \in since..clock : TradesAt(target, u)
    BY <1>1 DEF ExecutionInv, TimeInv
  <2>2. u \in 0..clock /\ clock <= u + Timeout
    BY <1>2, <2>1, ExecutionBounds
  <2>3. TradedBefore(new.market, new.at)
    BY <2>1, <2>2 DEF TradedBefore
  <2>4. new.at <= clock /\ clock <= new.at + Latency /\ new.pool = Pool[new.market]
    BY <1>2, ExecutionBounds
  <2> QED
    BY <1>1, <2>3, <2>4 DEF ExecutionInv, TimeInv, PlacingOrder, OnItsWay, TradedBefore, TradesAt
<1>8. AttemptInv'
  <2>1. \A o \in orders : o.landed = Reverted /\ o.attempt < attempt /\ o.attempt \in Nat
    BY <1>1 DEF ExecutionInv, AttemptInv, TypeOK, Order
  <2>2. attempt \in Nat
    BY <1>2 DEF TypeOK
  <2>3. \A o \in orders' : o.attempt <= attempt /\ (o.attempt < attempt => o.landed = Reverted)
    BY <1>1, <2>1, <2>2
  <2>4. \A o \in orders' : o.attempt = attempt => o = new
    BY <1>1, <2>1, <2>2
  <2> QED
    BY <1>1, <2>3, <2>4 DEF AttemptInv, Mine
<1>9. (OnlyPermittedWrites /\ NeverInAnotherMarket /\ RefusedMeansNotPlaced)'
  <2>1. /\ new.yes /\ new.env.key /\ Permits(new.env, new.chain)
        /\ new.landed \in {InFlight, Reverted, new.market}
    BY <1>2, <1>3
  <2>2. OnlyPermittedWrites' /\ NeverInAnotherMarket'
    BY <1>1, <2>1 DEF ExecutionInv, OnlyPermittedWrites, NeverInAnotherMarket
  <2> QED
    BY <1>1, <2>2 DEF RefusedMeansNotPlaced
<1> QED
  BY <1>5, <1>6, <1>7, <1>8, <1>9 DEF ExecutionInv

\* A receipt tells a refusal only of an order that was reverted.
LEMMA ReplyKeeps ==
  ASSUME ExecutionInv, Reply
  PROVE  ExecutionInv'
<1>1. PICK o \in Mine : o.landed # InFlight /\
        End(IF o.landed = Reverted THEN "ContractRevertError" ELSE "submitted")
  BY DEF Reply
<1>2. pc = "sent" /\ UNCHANGED <<clock, attempt, orders>>
  BY DEF Reply
<1>3. attempt' \in Nat /\ attempt' >= attempt
  BY <1>2 DEF ExecutionInv, TypeOK
<1>4. CASE o.landed = Reverted
  <2>1. \A p \in orders : p.landed = Reverted
    <3> SUFFICES ASSUME NEW p \in orders PROVE p.landed = Reverted
      OBVIOUS
    <3>1. CASE p \in Mine
      BY <1>1, <1>2, <1>4, <3>1 DEF ExecutionInv, AttemptInv
    <3>2. CASE p \notin Mine
      <4>1. p.attempt \in Nat /\ attempt \in Nat /\ p.attempt <= attempt /\ p.attempt # attempt
        BY <3>2 DEF ExecutionInv, TypeOK, Order, AttemptInv, Mine
      <4> QED
        BY <1>2, <4>1 DEF ExecutionInv, AttemptInv
    <3> QED
      BY <3>1, <3>2
  <2> QED
    BY <1>1, <1>2, <1>3, <1>4, <2>1, EndKeeps
<1>5. CASE o.landed # Reverted
  <2>1. End("submitted")
    BY <1>1, <1>5
  <2> QED
    BY <1>2, <1>3, <2>1, EndKeeps, UnknownIsNoRefusal
<1> QED
  BY <1>4, <1>5

\* No answer is no refusal, whatever was sent.
LEMMA NoAnswerKeeps ==
  ASSUME ExecutionInv, Fail \/ TimeOut \/ WouldRevert
  PROVE  ExecutionInv'
<1>1. UNCHANGED <<clock, attempt, orders>>
  BY DEF Fail, TimeOut, WouldRevert
<1>2. attempt' \in Nat /\ attempt' >= attempt
  BY <1>1 DEF ExecutionInv, TypeOK
<1>3. CASE Fail \/ TimeOut
  <2>1. PICK error \in {"no answer", "timed out", "BRIDGE_UNAVAILABLE"} : End(Code(error))
    BY <1>3 DEF Fail, TimeOut
  <2> QED
    BY <1>1, <1>2, <2>1, EndKeeps, NoAnswerIsNoRefusal
<1>4. CASE WouldRevert
  BY <1>1, <1>4, EndUnsentKeeps DEF WouldRevert
<1> QED
  BY <1>3, <1>4

\* The clock stops at the timeout of the bridge and at an order's latency.
LEMMA TickKeeps ==
  ASSUME ExecutionInv, Tick
  PROVE  ExecutionInv'
<1>1. clock' = clock + 1 /\ UNCHANGED <<command, attempt, orders>> /\ clock \in Nat
  BY DEF Tick, ExecutionInv, TypeOK
<1>2. TypeOK' /\ GateInv'
  BY <1>1 DEF ExecutionInv, TypeOK, GateInv, Signing, PlacingOrder, command
<1>3. TimeInv'
  <2>1. PlacingOrder => since <= clock' /\ clock' <= since + Timeout
    BY <1>1, ExecutionBounds DEF ExecutionInv, TypeOK, TimeInv, Tick, MayRunOn
  <2>2. pc = "sign" => \E u \in since..clock' : TradesAt(target, u)
    BY <1>1 DEF ExecutionInv, TypeOK, TimeInv
  <2>3. \A o \in orders : o.landed = InFlight => o.at <= clock' /\ clock' <= o.at + Latency
    BY <1>1, ExecutionBounds DEF ExecutionInv, TypeOK, Order, TimeInv, OnItsWay, Tick
  <2>4. \A o \in orders : /\ o.pool = Pool[o.market]
                          /\ o.landed = InFlight => TradedBefore(o.market, o.at)
    BY DEF ExecutionInv, TimeInv, OnItsWay
  <2>5. pc \in {"status", "sign"} => pool = Pool[target]
    BY DEF ExecutionInv, TimeInv
  <2>6. UNCHANGED <<pc, target, since, pool, orders>>
    BY <1>1 DEF command
  <2>7. (PlacingOrder => since <= clock /\ clock <= since + Timeout)'
    BY <2>1, <2>6 DEF PlacingOrder
  <2>8. (pc = "sign" => \E u \in since..clock : TradesAt(target, u))'
    BY <2>2, <2>6 DEF TradesAt
  <2>9. (\A o \in orders : o.pool = Pool[o.market] /\ (o.landed = InFlight => OnItsWay(o)))'
    BY <2>3, <2>4, <2>6 DEF OnItsWay, TradedBefore, TradesAt
  <2> QED
    BY <2>5, <2>6, <2>7, <2>8, <2>9 DEF TimeInv
<1>4. (AttemptInv /\ OnlyPermittedWrites /\ NeverInAnotherMarket /\ RefusedMeansNotPlaced)'
  BY <1>1 DEF ExecutionInv, AttemptInv, Mine, OnlyPermittedWrites, NeverInAnotherMarket,
              RefusedMeansNotPlaced, command
<1> QED
  BY <1>2, <1>3, <1>4 DEF ExecutionInv

\* The pool has no time to serve another market before the order is there.
LEMMA LandsAtHome ==
  ASSUME ExecutionInv, NEW o \in orders, o.landed = InFlight
  PROVE  Served(o.pool) \in {Reverted, o.market}
<1> DEFINE m == Served(o.pool)
<1> SUFFICES ASSUME m # Reverted, m # o.market PROVE FALSE
  OBVIOUS
<1>1. o \in Order /\ clock \in Nat
  BY DEF ExecutionInv, TypeOK
<1>2. m \in Markets /\ Pool[m] = Pool[o.market] /\ TradesAt(m, clock)
  BY ServedTrades DEF ExecutionInv, TimeInv
<1>3. clock <= o.at + Latency /\ TradedBefore(o.market, o.at)
  BY DEF ExecutionInv, TimeInv, OnItsWay
<1>4. PICK u \in 0..o.at : TradesAt(o.market, u) /\ o.at <= u + Timeout
  BY <1>3 DEF TradedBefore
<1>5. /\ o.market \in Markets /\ o.at \in Nat /\ o.at <= clock
  BY <1>1 DEF ExecutionInv, TimeInv, OnItsWay, Order
<1>6. \/ Opens[m] >= Closes[o.market] + Timeout + Latency
      \/ Opens[o.market] >= Closes[m] + Timeout + Latency
  BY <1>2, <1>5, RecycledSlowly
<1>7. /\ Opens[m] <= clock /\ clock < Closes[m]
      /\ Opens[o.market] <= u /\ u < Closes[o.market]
  BY <1>2, <1>4 DEF TradesAt
<1>8. /\ Opens[m] \in Nat /\ Closes[m] \in Nat
      /\ Opens[o.market] \in Nat /\ Closes[o.market] \in Nat
  BY <1>2, <1>5, ExecutionBounds
<1> HIDE DEF m
<1> QED
  BY <1>1, <1>3, <1>4, <1>5, <1>6, <1>7, <1>8, ExecutionBounds

\* An order reaches the chain.
LEMMA LandKeeps ==
  ASSUME ExecutionInv, NEW o \in orders, Land(o)
  PROVE  ExecutionInv'
<1> DEFINE there == [o EXCEPT !.landed = Served(o.pool)]
<1>1. /\ orders' = (orders \ {o}) \union {there} /\ o.landed = InFlight
      /\ UNCHANGED <<clock, command, attempt>>
  BY DEF Land
<1>2. o \in Order /\ TypeOK
  BY DEF ExecutionInv, TypeOK
<1>3. Served(o.pool) \in {Reverted, o.market}
  BY <1>1, LandsAtHome
<1>4. /\ there \in Order /\ there.landed = Served(o.pool)
      /\ there.attempt = o.attempt /\ there.market = o.market /\ there.pool = o.pool
      /\ there.at = o.at /\ there.chain = o.chain /\ there.env = o.env /\ there.yes = o.yes
  BY <1>2, <1>3 DEF Order
<1> HIDE DEF there
<1>5. TypeOK' /\ GateInv'
  BY <1>1, <1>2, <1>4 DEF ExecutionInv, TypeOK, GateInv, Signing, PlacingOrder, command
<1>6. TimeInv'
  BY <1>1, <1>4 DEF ExecutionInv, TimeInv, PlacingOrder, OnItsWay, TradedBefore, TradesAt, command
<1>7. pc \notin {"idle", "sent"} => FALSE
  BY <1>1 DEF ExecutionInv, AttemptInv, InFlight, Reverted
<1>8. AttemptInv'
  <2>1. \A p \in orders : p.attempt <= attempt
    BY DEF ExecutionInv, AttemptInv
  <2>2. pc = "sent" => ~(o.attempt < attempt)
    BY <1>1 DEF ExecutionInv, AttemptInv, InFlight, Reverted
  <2>3. pc = "sent" => \A p \in orders \ {o} : p.attempt < attempt => p.landed = Reverted
    BY DEF ExecutionInv, AttemptInv
  <2>4. pc = "sent" => \A p \in orders : p.attempt = attempt /\ o.attempt = attempt => p = o
    BY DEF ExecutionInv, AttemptInv, Mine
  <2>5. o.attempt \in Nat /\ attempt \in Nat
    BY <1>2 DEF TypeOK, Order
  <2>6. pc = "sent" => o.attempt = attempt
    BY <2>1, <2>2, <2>5
  <2>7. pc' = pc /\ attempt' = attempt
    BY <1>1 DEF command
  <2> QED
    BY <1>1, <1>4, <1>7, <2>1, <2>2, <2>3, <2>4, <2>6, <2>7 DEF AttemptInv, Mine
<1>9. (OnlyPermittedWrites /\ NeverInAnotherMarket)'
  BY <1>1, <1>3, <1>4 DEF ExecutionInv, OnlyPermittedWrites, NeverInAnotherMarket
<1>10. RefusedMeansNotPlaced'
  BY <1>1 DEF ExecutionInv, RefusedMeansNotPlaced, InFlight, Reverted, command
<1> QED
  BY <1>5, <1>6, <1>8, <1>9, <1>10 DEF ExecutionInv

LEMMA ExecutionNext == ExecutionInv /\ [Next]_vars => ExecutionInv'
<1> SUFFICES ASSUME ExecutionInv, [Next]_vars PROVE ExecutionInv'
  OBVIOUS
<1>1. CASE Next
  BY <1>1, ExecuteKeeps, PreviewKeeps, RehearseKeeps, ReadMarketKeeps, DecideKeeps, PassGateKeeps, ResolvePoolKeeps,
     CheckStatusKeeps, SendKeeps, ReplyKeeps, NoAnswerKeeps, TickKeeps, LandKeeps DEF Next
<1>2. CASE UNCHANGED vars
  <2>1. TypeOK' /\ GateInv' /\ TimeInv' /\ AttemptInv'
    BY <1>2 DEF ExecutionInv, TypeOK, GateInv, TimeInv, AttemptInv, Signing, PlacingOrder,
                OnItsWay, TradedBefore, TradesAt, Mine, vars, command
  <2>2. (OnlyPermittedWrites /\ NeverInAnotherMarket /\ RefusedMeansNotPlaced)'
    BY <1>2 DEF ExecutionInv, OnlyPermittedWrites, NeverInAnotherMarket,
                RefusedMeansNotPlaced, vars, command
  <2> QED
    BY <2>1, <2>2 DEF ExecutionInv
<1> QED
  BY <1>1, <1>2

\* The inductive invariant: what a command has checked by the time it signs,
\* and when the bridge and an order on its way must be done.
THEOREM ExecutionInvariant == Spec => []ExecutionInv
  BY ExecutionInit, ExecutionNext, PTL DEF Spec

\* An order goes only to the network the operator's variables ask for
\* (assertWriteAllowed, DreamdexConfig.from_env, env_for_subprocess).
THEOREM WritesArePermitted == Spec => []OnlyPermittedWrites
<1>1. ExecutionInv => OnlyPermittedWrites
  BY DEF ExecutionInv
<1> QED
  BY <1>1, ExecutionInvariant, PTL

\* If pools are recycled slowly, no order ends in another market of its pool
\* (placeOrder, the timeout of bridge.invoke).
THEOREM OrdersStayHome == Spec => []NeverInAnotherMarket
<1>1. ExecutionInv => NeverInAnotherMarket
  BY DEF ExecutionInv
<1> QED
  BY <1>1, ExecutionInvariant, PTL

\* Repeating what was refused never doubles an order (execute, bridge.invoke).
THEOREM RefusalsAreSafe == Spec => []RefusedMeansNotPlaced
<1>1. ExecutionInv => RefusedMeansNotPlaced
  BY DEF ExecutionInv
<1> QED
  BY <1>1, ExecutionInvariant, PTL
=============================================================================
