--------------------------- MODULE MCTaskLifecycle ---------------------------
(***************************************************************************)
(* The instances of TaskLifecycle that TLC checks.                         *)
(***************************************************************************)
EXTENDS TaskLifecycle, TLC

CONSTANTS t1, t2, pm, fin, dev, dev2, nobody

OneTask == {t1}
TwoTasks == {t1, t2}

CodeTeam == {pm, dev, dev2}
MixedTeam == {pm, fin, dev, dev2}

Roles ==
  [a \in Agents |->
     CASE a = pm  -> "product_manager"
       [] a = fin -> "finance_specialist"
       [] OTHER   -> "software_developer"]

ForFinance == [t \in Tasks |-> "finance_specialist"]
ForDeveloper == [t \in Tasks |-> "software_developer"]

\* The tasks are all for the one role, or all for the other.
Code == {ForDeveloper}
BooksOrCode == {ForFinance, ForDeveloper}

FirstByPeer ==
  [t \in Tasks |-> IF t = t1 THEN "software_developer" ELSE "product_manager"]

NoDependencies == [t \in Tasks |-> {}]
SecondOnFirst == [t \in Tasks |-> IF t = t2 THEN {t1} ELSE {}]

\* The developers are alike: nothing but RoleOf tells agents apart.
DeveloperSymmetry == Permutations({dev, dev2})
=============================================================================
