-------------------------- MODULE MCDreamdexPaper --------------------------
(***************************************************************************)
(* Instances of DreamdexPaper for TLC, with the default thresholds of      *)
(* RiskConfig, and caps small enough to cut a size.  A probability of 1 is *)
(* 400 quanta and the size is 4 tokens; the edge wanted is 6 quanta, and   *)
(* the buffer 4 and a half.                                                *)
(* Of the books, `fair` sells UP over two levels, sent worst first, at an  *)
(* average of 202.5 quanta that is booked at 202: at a probability of 212  *)
(* its edge is 5.5, which passes for 6, at 210 it is too small.  At 165 it *)
(* has an edge down.  `steep` has an empty level and slips by more than    *)
(* 300 bps; `shallow` can fill DOWN only, which the caps cut to 3 tokens.  *)
(***************************************************************************)
EXTENDS DreamdexPaper

fair == [up |-> <<[price |-> 205, size |-> 3], [price |-> 200, size |-> 2]>>,
         down |-> <<[price |-> 200, size |-> 9]>>]
steep == [up |-> <<[price |-> 200, size |-> 1], [price |-> 100, size |-> 0],
                   [price |-> 240, size |-> 9]>>,
          down |-> <<>>]
shallow == [up |-> <<[price |-> 100, size |-> 3]>>,
            down |-> <<[price |-> 220, size |-> 4]>>]

MCBooks == {fair, steep, shallow}

Estimate(p, hasVol, samples) == [pUp |-> p, hasVol |-> hasVol, samples |-> samples]

MCEstimates == {Estimate(210, TRUE, 30), Estimate(212, TRUE, 30), Estimate(165, TRUE, 30),
                Estimate(260, TRUE, 8), Estimate(260, FALSE, 1)}

\* Terminals are alike.
Alike == Permutations(Procs)

MCExpiry == [m \in Markets |-> 100]
=============================================================================
