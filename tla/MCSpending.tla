----------------------------- MODULE MCSpending -----------------------------
(***************************************************************************)
(* The instance of Spending that TLC checks: two sessions of one team, and *)
(* another team that had spent something before.                           *)
(***************************************************************************)
EXTENDS Spending, TLC

CONSTANTS a, b, a1, a2

TwoTeams == {a, b}
TwoSessions == {a1, a2}
AllOfA == [s \in TwoSessions |-> a]
Budgets == [t \in TwoTeams |-> IF t = a THEN 2 ELSE NoLimit]
SomeOfB == [t \in TwoTeams |-> IF t = b THEN 1 ELSE 0]

\* The sessions are alike.
SessionSymmetry == Permutations(TwoSessions)
=============================================================================
