--------------------------- MODULE MCPaperReport ---------------------------
(***************************************************************************)
(* One follower and one report at a time, on the instances of              *)
(* MCPaperFollower: a purchase of three shares and two sales of them, of   *)
(* which the first may be partial, at a loss or not.                       *)
(***************************************************************************)
EXTENDS PaperReport, MCPaperFollower
=============================================================================
