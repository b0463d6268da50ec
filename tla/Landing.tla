------------------------------- MODULE Landing -------------------------------
(***************************************************************************)
(* What an integration promises of accepted work, whoever asks for it and  *)
(* whatever way the work takes into the integration branch: it is recorded *)
(* as integrated once, only when it is there, and work that was recorded   *)
(* is never taken up again.                                                *)
(***************************************************************************)
EXTENDS Naturals

VARIABLES
  round,     \* how often the work was accepted
  landed,    \* whether the work accepted last is in the integration branch
  recorded   \* how often it was recorded as integrated

vars == <<round, landed, recorded>>

Init ==
  /\ round = 1
  /\ landed = FALSE
  /\ recorded = 0

\* The work comes into the integration branch: by Catervas, the forge or the owner.
Land ==
  /\ ~landed
  /\ landed' = TRUE
  /\ UNCHANGED <<round, recorded>>

\* `record_integrated`.
Record ==
  /\ landed
  /\ recorded = 0
  /\ recorded' = 1
  /\ UNCHANGED <<round, landed>>

\* The work went back to its assignee, and more of it was accepted.
AcceptAgain ==
  /\ recorded = 0
  /\ round' = round + 1
  /\ landed' \in BOOLEAN
  /\ UNCHANGED recorded

Next == Land \/ Record \/ AcceptAgain

Spec == Init /\ [][Next]_vars
=============================================================================
