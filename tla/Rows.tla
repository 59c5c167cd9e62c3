-------------------------------- MODULE Rows --------------------------------
(***************************************************************************)
(* Selecting the rows of a table and adding up a column of it.  Both are   *)
(* folds over first-order arguments, a set of rows and the name of a       *)
(* field: LoopProofs unfolds them, which it could not do with SelectSeq    *)
(* and a test given as an operator.                                        *)
(***************************************************************************)
EXTENDS Integers, Sequences, SequencesExt

\* The rows that are in S, in their order.
Select(rows, S) ==
  FoldLeft(LAMBDA kept, row : IF row \in S THEN Append(kept, row) ELSE kept, <<>>, rows)

\* The sum of a field over all rows.
TotalOf(rows, field) == FoldLeft(LAMBDA n, row : n + row[field], 0, rows)
=============================================================================
