----------------------------- MODULE MCBilling -----------------------------
(* Small instances of BranchLinks, with Subscriptions, for TLC. *)
EXTENDS BranchLinks, TLC

CONSTANTS c1, c2, x1, h1, h2

\* Every session is c1's; c2 comes by a plan only if the platform grants one.
BoughtByFirst == [s \in Sessions |-> c1]
BoughtPro == [s \in Sessions |-> "pro"]

Symmetry == Permutations(Handlers)
=============================================================================
