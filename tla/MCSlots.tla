------------------------------- MODULE MCSlots -------------------------------
(***************************************************************************)
(* The instances of Slots that TLC checks.                                 *)
(***************************************************************************)
EXTENDS Slots, TLC

CONSTANTS red, blue, r1, b1, b2, b3, nolimit

TwoTeams == {red, blue}
FourCalls == {r1, b1, b2, b3}
Team == [c \in Calls |-> IF c = r1 THEN red ELSE blue]
OneOrNone == {1, nolimit}
=============================================================================
