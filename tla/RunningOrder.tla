---------------------------- MODULE RunningOrder ----------------------------
(***************************************************************************)
(* What the live page promises: the slots of a service run one after       *)
(* another, the clock of the current one counts every second that is not   *)
(* a pause, and the pause log counts the others.                           *)
(***************************************************************************)
EXTENDS Integers

CONSTANTS Slots, Deltas

VARIABLES
  stage,   \* DRAFT, LIVE or COMPLETED
  rows,    \* the position, status and measured seconds of each slot
  at,      \* the position of the slot that runs
  ran,     \* the seconds on its clock
  paused,
  halted   \* the seconds of all pauses so far

vars == <<stage, rows, at, ran, paused, halted>>

LastSlot == CHOOSE p \in Slots : \A q \in Slots : q <= p

Set(p, status, secs) ==
  [s \in Slots |-> IF rows[s].pos = p THEN [pos |-> p, status |-> status, secs |-> secs]
                   ELSE rows[s]]

Init ==
  /\ stage = "DRAFT"
  /\ rows = [s \in Slots |-> [pos |-> s, status |-> "PENDING", secs |-> 0]]
  /\ at = 0 /\ ran = 0 /\ paused = FALSE /\ halted = 0

Start ==
  /\ stage = "DRAFT" /\ stage' = "LIVE"
  /\ rows' = Set(0, "IN_PROGRESS", 0)
  /\ UNCHANGED <<at, ran, paused, halted>>

Second ==
  /\ stage = "LIVE"
  /\ IF paused THEN halted' = halted + 1 /\ UNCHANGED ran
     ELSE ran' = ran + 1 /\ UNCHANGED halted
  /\ UNCHANGED <<stage, rows, at, paused>>

Advance ==
  /\ stage = "LIVE" /\ at < LastSlot /\ at' = at + 1
  /\ rows' = [s \in Slots |->
                IF rows[s].pos = at + 1 THEN [rows[s] EXCEPT !.status = "IN_PROGRESS"]
                ELSE Set(at, "COMPLETED", ran)[s]]
  /\ ran' = 0 /\ paused' = FALSE
  /\ UNCHANGED <<stage, halted>>

Back ==
  /\ stage = "LIVE" /\ at > 0 /\ at' = at - 1
  /\ rows' = [s \in Slots |->
                IF rows[s].pos = at - 1 THEN Set(at - 1, "IN_PROGRESS", 0)[s]
                ELSE Set(at, "PENDING", 0)[s]]
  /\ ran' = 0 /\ paused' = FALSE
  /\ UNCHANGED <<stage, halted>>

Pause ==
  /\ stage = "LIVE" /\ paused' = ~paused
  /\ UNCHANGED <<stage, rows, at, ran, halted>>

Adjust ==
  /\ stage = "LIVE"
  /\ \E d \in Deltas : ran' = IF d > ran THEN 0 ELSE ran - d
  /\ UNCHANGED <<stage, rows, at, paused, halted>>

\* What has run keeps its place; what has not is shuffled.
Reorder ==
  /\ stage = "LIVE"
  /\ \A s \in Slots :
       /\ rows'[s] = [rows[s] EXCEPT !.pos = rows'[s].pos]
       /\ IF rows[s].pos <= at THEN rows'[s] = rows[s] ELSE rows'[s].pos \in at + 1 .. LastSlot
  /\ \A s, t \in Slots : rows'[s].pos = rows'[t].pos => s = t
  /\ UNCHANGED <<stage, at, ran, paused, halted>>

Finish ==
  /\ stage = "LIVE" /\ stage' = "COMPLETED"
  /\ rows' = [s \in Slots |->
                IF rows[s].pos # at /\ rows[s].status = "PENDING"
                THEN [rows[s] EXCEPT !.status = "SKIPPED"]
                ELSE Set(at, "COMPLETED", ran)[s]]
  /\ at' = 0 /\ ran' = 0 /\ paused' = FALSE
  /\ UNCHANGED halted

Next ==
  \/ Start \/ Second \/ Advance \/ Back \/ Pause \/ Adjust \/ Reorder \/ Finish

Spec == Init /\ [][Next]_vars

=============================================================================
