SPECIFICATION Spec
CONSTANTS
  t1 = t1
  t2 = t2
  pm = pm
  fin = fin
  dev = dev
  dev2 = dev2
  nobody = nobody
  Nobody = nobody
  Tasks <- OneTask
  Agents <- CodeTeam
  RoleOf <- Roles
  Filings <- Code
  ReviewerRole <- ForDeveloper
  Dependencies <- NoDependencies
  HumanCriterion = {}
  Rewritten = {}
  WipLimit = 1
  MaxIterations = 1
  MaxSessions = 2
  Priced = FALSE
  ReadinessAttempts = 3
  Autopilot = FALSE
  AsksFor = {"verifying", "accepted"}
  OwnerMoves = {}
  MaxExtra = 0
  MaxCrashes = 0
INVARIANT RefusalStands
CHECK_DEADLOCK FALSE
