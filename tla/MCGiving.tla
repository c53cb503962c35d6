------------------------------ MODULE MCGiving ------------------------------
(* Small instances of Giving for TLC. *)
EXTENDS Giving

CONSTANTS g1, c1, p1, v1, h1, h2

ToOne == [c \in Claims |-> p1]
OneEach == [x \in Payments |-> 1]
Two == [p \in Pledges |-> 2]
=============================================================================
