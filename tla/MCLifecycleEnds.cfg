SPECIFICATION FairSpec
CONSTANTS
  t1 = t1
  t2 = t2
  pm = pm
  fin = fin
  dev = dev
  dev2 = dev2
  nobody = nobody
  Nobody = nobody
  Tasks <- OneTask
  Agents <- MixedTeam
  RoleOf <- Roles
  Filings <- BooksOrCode
  ReviewerRole <- ForDeveloper
  Dependencies <- NoDependencies
  HumanCriterion = {}
  Rewritten = {}
  WipLimit = 1
  MaxIterations = 1
  MaxSessions = 5
  Priced = TRUE
  ReadinessAttempts = 1
  Autopilot = FALSE
  AsksFor = {"verifying", "accepted", "blocked", "rejected"}
  OwnerMoves = {}
  MaxExtra = 0
  MaxCrashes = 1
PROPERTY WorkEnds
CHECK_DEADLOCK FALSE
