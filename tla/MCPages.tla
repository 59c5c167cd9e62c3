------------------------------ MODULE MCPages ------------------------------
(***************************************************************************)
(* What reads the venues: the two pagers of the API clients, each a whole  *)
(* reading over the same get_json, and the cache through which the threads *)
(* of the dashboard do.  One of them runs, the others stay at their start. *)
(***************************************************************************)
EXTENDS ActivityPages, MarketPages, DashboardCache

VARIABLE reader

NoActivity == InitActivity /\ initial = 0
NoMarkets == InitMarkets /\ listed = 0
NoThreads == InitCache /\ key = [t \in Threads |-> CHOOSE k \in Keys : TRUE]

Init ==
  /\ InitGet
  /\ \/ reader = "activity" /\ InitActivity /\ NoMarkets /\ NoThreads
     \/ reader = "markets" /\ InitMarkets /\ NoActivity /\ NoThreads
     \/ reader = "cache" /\ InitCache /\ NoActivity /\ NoMarkets

Next ==
  /\ \/ reader = "activity" /\ NextActivity /\ UNCHANGED <<marketVars, cacheVars>>
     \/ reader = "markets" /\ NextMarkets /\ UNCHANGED <<activityVars, cacheVars>>
     \/ reader = "cache" /\ NextCache /\ UNCHANGED <<getVars, activityVars, marketVars>>
  /\ UNCHANGED reader

vars == <<getVars, activityVars, marketVars, cacheVars, reader>>

\* A step of the reader; the feed and the list move on their own.
ReadOn ==
  /\ \/ reader = "activity" /\ (RequestPage \/ TakePage \/ Raise)
        /\ UNCHANGED <<marketVars, cacheVars>>
     \/ reader = "markets" /\ (RequestMarkets \/ TakeMarkets \/ RaiseMarkets)
        /\ UNCHANGED <<activityVars, cacheVars>>
  /\ UNCHANGED reader

\* A request is answered or times out, and a sleep is over.
Spec == Init /\ [][Next]_vars /\ WF_vars(ReadOn)

-----------------------------------------------------------------------------
(***************************************************************************)
(* Every reading ends, whatever the server answers and however the pages   *)
(* move under it: by itself, at its maximum, or with an exception          *)
(* (iter_activity, iter_markets over get_json).                            *)
(***************************************************************************)
ReadingsEnd ==
  <>(IF reader = "activity" THEN outcome # "reading"
     ELSE reader = "markets" => reading # "more")
=============================================================================
