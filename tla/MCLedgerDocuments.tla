-------------------------- MODULE MCLedgerDocuments --------------------------
(* A small instance of LedgerDocuments for TLC.                            *)
EXTENDS LedgerDocuments, TLC

CONSTANTS d1, d2, h1, h2

Symmetry == Permutations(Handlers) \cup Permutations(Docs)
=============================================================================
