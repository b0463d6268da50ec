---------------------------- MODULE MCIntegration ----------------------------
(***************************************************************************)
(* The instances of Integration that TLC checks.                           *)
(***************************************************************************)
EXTENDS Integration

CONSTANT main1

\* What the owner chose: a remote, with the owner merging or Catervas; no remote;
\* everything on this computer.
ByHand(doings) ==
  [local |-> FALSE, origin |-> FALSE, merges |-> FALSE, checks |-> FALSE, squash |-> FALSE,
   owner |-> doings]
Forge(doings) == [ByHand(doings) EXCEPT !.origin = TRUE]
Merging(doings) == [Forge(doings) EXCEPT !.merges = TRUE, !.checks = TRUE]
Squashing(policy0) == [policy0 EXCEPT !.squash = TRUE]
Here(doings) == [ByHand(doings) EXCEPT !.local = TRUE]

\* The owner asks and merges by squashing; a colleague pushes to what Catervas merges;
\* the owner goes over to keeping everything here; and the other subjects and ways.
AllWays ==
  {<<"task", Squashing(Forge({"asks"}))>>,
   <<"task", Merging({"pushes"})>>,
   <<"task", Forge({"keeps", "switches"})>>,
   <<"plan", Squashing(Forge({"merges"}))>>,
   <<"folder", Merging({})>>,
   <<"storage", Forge({"asks", "switches"})>>,
   <<"storage", Here({"asks", "merges"})>>,
   <<"folder", ByHand({"merges"})>>,
   <<"task", Here({"asks", "switches"})>>}

OwnerMergesOnly == {<<"task", Forge({"asks"})>>}
CatervasMergesOnly == {<<"task", Merging({})>>}
=============================================================================
