------------------------------ MODULE MCJournal -----------------------------
(* Small instances of Journal for TLC. *)
EXTENDS Journal, TLC

CONSTANTS k1, k2, bank, income, alice, bob, h1, h2

\* k1 brings money in; k2 pays some out, so that it needs k1 posted first.
InAndOut ==
  [k \in Keys |-> [a \in Accounts |-> IF k = k1 THEN 2 ELSE -1]]
Submits == [k \in Keys |-> IF k = k1 THEN 2 ELSE 1]
ByAlice == [k \in Keys |-> alice]

Symmetry == Permutations({h1, h2})
=============================================================================
