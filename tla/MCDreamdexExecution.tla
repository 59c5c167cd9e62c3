------------------------ MODULE MCDreamdexExecution ------------------------
(***************************************************************************)
(* Two markets, one after the other on a pool, as close to each other as   *)
(* RecycledSlowly allows: early trades until 3, and the pool serves late  *)
(* from 6 on.                                                              *)
(***************************************************************************)
EXTENDS DreamdexExecution

MCMarkets == {"early", "late"}
MCPool == [m \in MCMarkets |-> "pool"]
MCOpens == [m \in MCMarkets |-> IF m = "early" THEN 1 ELSE 6]
MCCloses == [m \in MCMarkets |-> IF m = "early" THEN 3 ELSE 8]
=============================================================================
