------------------------------- MODULE MCEpics -------------------------------
(***************************************************************************)
(* The instance of Epics that TLC checks.                                  *)
(***************************************************************************)
EXTENDS Epics

CONSTANTS plan, work, books, k1

All == {plan, work, books}
JustPlan == {plan}
JustBooks == {books}
=============================================================================
