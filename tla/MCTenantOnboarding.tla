------------------------- MODULE MCTenantOnboarding -------------------------
(* Small instances of TenantOnboarding for TLC. *)
EXTENDS TenantOnboarding, TLC

CONSTANTS t1, t2, t3, s1, s2, r1, r2, r3, k1

AnySubdomain == [r \in Requests |-> Subdomains]

\* One church per request: nobody asks for a subdomain twice.
OwnSubdomain == [r \in Requests |-> IF r = r1 THEN {s1} ELSE {s2}]

AllSteps == Provisioning
BeforeLive == {"ensure", "schema", "seed", "subscribe", "activate", "complete"}

Symmetry == Permutations(TenantIds) \cup Permutations(Requests)
=============================================================================
