---------------------------- MODULE MCProjections ----------------------------
(***************************************************************************)
(* The instances of Projections that TLC checks.                           *)
(***************************************************************************)
EXTENDS Projections, TLC

CONSTANTS p1, p2, moved, filed

TwoProcs == {p1, p2}
OneProc == {p1}
TwoEvents == {moved, filed}
=============================================================================
