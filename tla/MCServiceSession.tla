-------------------------- MODULE MCServiceSession --------------------------
(* Small instances of ServiceSession for TLC. *)
EXTENDS ServiceSession, TLC

CONSTANTS h1, h2

BackAndForth == {1, -1}

Symmetry == Permutations({h1, h2})
=============================================================================
