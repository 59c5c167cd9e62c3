---------------------------- MODULE PaperLedger ----------------------------
(***************************************************************************)
(* What a paper run promises its owner, whatever the follower does inside: *)
(* every signal of a run is disposed of at most once, in one indivisible   *)
(* step; a fill moves the position of its own run and asset by exactly     *)
(* what it trades, at its price; and a sale never exceeds the position.    *)
(* PaperFollower implements this ledger.                                   *)
(***************************************************************************)
EXTENDS Integers, Sequences

CONSTANTS Runs,        \* identifiers a run may get
          SignalIds,   \* identifiers of observed signals
          Assets       \* tokens that can be traded

VARIABLES created,     \* the runs that exist: 1..created
          disposed,    \* <<run, signal id>> of every signal disposed of
          fills,       \* the fills, oldest first
          positions    \* what each run holds of each asset

ledger == <<created, disposed, fills, positions>>

Holding == [quantity : Nat, cost : Nat]
Nothing == [quantity |-> 0, cost |-> 0]

Init ==
  /\ created = 0
  /\ disposed = {}
  /\ fills = <<>>
  /\ positions = [k \in Runs \X Assets |-> Nothing]

CreateRun ==
  /\ created' = created + 1
  /\ UNCHANGED <<disposed, fills, positions>>

\* A signal is disposed of without a trade.
Skip(r, s) ==
  /\ <<r, s>> \notin disposed
  /\ disposed' = disposed \union {<<r, s>>}
  /\ UNCHANGED <<created, fills, positions>>

\* Common part of a trade; the fill is whatever the step appends.
Trade(r, s, a, side, fill) ==
  /\ <<r, s>> \notin disposed
  /\ disposed' = disposed \union {<<r, s>>}
  /\ fills' = Append(fills, fill)
  /\ fill.run = r /\ fill.asset = a /\ fill.side = side
  /\ fill.quantity > 0
  /\ UNCHANGED created

Buy(r, s, a) ==
  LET fill == fills'[Len(fills')]
      held == positions[<<r, a>>]
  IN  /\ fills' # <<>>
      /\ Trade(r, s, a, "BUY", fill)
      /\ positions' = [positions EXCEPT ![<<r, a>>] =
                         [quantity |-> held.quantity + fill.quantity,
                          cost     |-> held.cost + fill.notional]]

\* The basis of what is kept never grows, and selling out leaves nothing.
Sell(r, s, a) ==
  LET fill == fills'[Len(fills')]
      held == positions[<<r, a>>]
      kept == positions'[<<r, a>>]
  IN  /\ fills' # <<>>
      /\ Trade(r, s, a, "SELL", fill)
      /\ fill.quantity <= held.quantity
      /\ kept \in Holding
      /\ kept.quantity = held.quantity - fill.quantity
      /\ kept.cost <= held.cost
      /\ kept.quantity = 0 => kept = Nothing
      /\ positions' = [positions EXCEPT ![<<r, a>>] = kept]

Next ==
  \/ CreateRun
  \/ \E r \in Runs, s \in SignalIds :
       \/ Skip(r, s)
       \/ \E a \in Assets : Buy(r, s, a) \/ Sell(r, s, a)

Spec == Init /\ [][Next]_ledger
=============================================================================
