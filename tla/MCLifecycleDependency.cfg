SPECIFICATION FairSpec
CONSTANTS
  t1 = t1
  t2 = t2
  pm = pm
  fin = fin
  dev = dev
  dev2 = dev2
  nobody = nobody
  Nobody = nobody
  Tasks <- TwoTasks
  Agents <- CodeTeam
  RoleOf <- Roles
  Filings <- Code
  ReviewerRole <- ForDeveloper
  Dependencies <- SecondOnFirst
  HumanCriterion = {}
  Rewritten = {}
  WipLimit = 1
  MaxIterations = 1
  MaxSessions = 1
  Priced = FALSE
  ReadinessAttempts = 1
  Autopilot = FALSE
  AsksFor = {}
  OwnerMoves = {"cancelled"}
  MaxExtra = 0
  MaxCrashes = 0
PROPERTY CancelledDependencyIsReplanned
CHECK_DEADLOCK FALSE
