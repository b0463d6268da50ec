SPECIFICATION Spec
CONSTANTS
  t1 = t1
  t2 = t2
  pm = pm
  fin = fin
  dev = dev
  dev2 = dev2
  nobody = nobody
  Nobody = nobody
  Tasks <- OneTask
  Agents <- MixedTeam
  RoleOf <- Roles
  Filings <- Code
  ReviewerRole <- ForDeveloper
  Dependencies <- NoDependencies
  HumanCriterion = {t1}
  Rewritten = {"finance_specialist"}
  WipLimit = 1
  MaxIterations = 1
  MaxSessions = 4
  Priced = FALSE
  ReadinessAttempts = 1
  Autopilot = FALSE
  AsksFor = {"verifying", "accepted", "blocked"}
  OwnerMoves = {"in_progress", "cancelled"}
  MaxExtra = 1
  MaxCrashes = 0
INVARIANT TypeOK
INVARIANT TriesBounded
INVARIANT MergesWhatItAccepted
PROPERTY OverIsOver
CHECK_DEADLOCK FALSE
