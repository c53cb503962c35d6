------------------------ MODULE OnboardingLifecycle -------------------------
(***************************************************************************)
(* What the status page promises a church: its workspace is asked for,     *)
(* perhaps held for review, built (unseen, when the console builds it      *)
(* while somebody waits), and then open for good or failed.                *)
(***************************************************************************)
CONSTANT Churches

VARIABLE stage

Stages == {"none", "asked", "held", "building", "open", "failed"}

After == [none |-> {"asked"},
          asked |-> {"held", "building", "open", "failed"},
          held |-> {"building"},
          building |-> {"open", "failed"},
          failed |-> {},
          open |-> {}]

Init == stage = [c \in Churches |-> "none"]

Advance(c) ==
  \E to \in After[stage[c]] : stage' = [stage EXCEPT ![c] = to]

Next == \E c \in Churches : Advance(c)

Spec == Init /\ [][Next]_stage

=============================================================================
