-------------------------- MODULE MCPaperFollower --------------------------
(***************************************************************************)
(* Instances of PaperFollower for TLC.  With a budget of 8 and a drift cap *)
(* of 5000 bps the three books make every decision reachable: `wide` fills *)
(* a BUY of 3 shares over two levels and can only take a position of more  *)
(* than 3 partly, `dear` fills a BUY beyond the drift cap of a signal at 2 *)
(* but not of one at 4, and has no bids, `thin` cannot fill a BUY and      *)
(* takes any position whole.                                               *)
(***************************************************************************)
EXTENDS FollowerInvariant

wide == [asks |-> <<[price |-> 2, size |-> 2], [price |-> 4, size |-> 3]>>,
         bids |-> <<[price |-> 3, size |-> 1], [price |-> 1, size |-> 1]>>]
dear == [asks |-> <<[price |-> 4, size |-> 2]>>, bids |-> <<>>]
thin == [asks |-> <<[price |-> 2, size |-> 1]>>,
         bids |-> <<[price |-> 2, size |-> 9]>>]

MCBooks == {wide, dear, thin}

Activity(i, s, side, a, price, ts) ==
  [id |-> i, sid |-> s, side |-> side, asset |-> a, price |-> price, ts |-> ts]

\* Two purchases and two sales of one asset, two of them in one second, and a
\* purchase with the signal id of another.
Trades ==
  {Activity(1, "s1", "BUY", "x", 2, 0),
   Activity(2, "s2", "SELL", "x", 4, 0),
   Activity(3, "s3", "BUY", "x", 4, 1),
   Activity(4, "s4", "SELL", "x", 4, 2),
   Activity(5, "s3", "BUY", "x", 2, 1)}

\* One purchase, and one sale seen by two followers.
Few ==
  {Activity(1, "s1", "BUY", "x", 2, 0),
   Activity(2, "s2", "SELL", "x", 6, 0)}

\* As Few, with a second sale in the same second.
TwoSales == Few \union {Activity(3, "s3", "SELL", "x", 4, 0)}
=============================================================================
