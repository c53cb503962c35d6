---------------------------- MODULE MCTitheImport ----------------------------
(* A small instance of TitheImport for TLC.                                *)
EXTENDS TitheImport, TLC

CONSTANTS b1, b2, p1, w1, w2, q1, q2

\* One payer listed twice, in every file.
SameTwice == {<<p1, p1>>}

Symmetry == Permutations(Workers) \cup Permutations(Batches) \cup Permutations(Reviews)
=============================================================================
