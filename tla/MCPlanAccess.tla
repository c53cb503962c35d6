---------------------------- MODULE MCPlanAccess ----------------------------
(* Small instances of PlanAccess for TLC. *)
EXTENDS PlanAccess

CONSTANTS r1, r2

Closed == [has |-> FALSE, limit |-> NoLimit]
Once == [has |-> TRUE, limit |-> 1]

ClosedOrOnce == {Closed, Once}
=============================================================================
