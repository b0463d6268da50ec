SPECIFICATION Spec
CONSTANTS
  t1 = t1
  t2 = t2
  pm = pm
  fin = fin
  dev = dev
  dev2 = dev2
  nobody = nobody
  Nobody = nobody
  Tasks <- TwoTasks
  Agents <- MixedTeam
  RoleOf <- Roles
  Filings <- BooksOrCode
  ReviewerRole <- FirstByPeer
  Dependencies <- NoDependencies
  HumanCriterion = {}
  Rewritten = {}
  WipLimit = 1
  MaxIterations = 1
  MaxSessions = 2
  Priced = FALSE
  ReadinessAttempts = 1
  Autopilot = FALSE
  AsksFor = {"blocked"}
  OwnerMoves = {"in_progress"}
  MaxExtra = 0
  MaxCrashes = 0
SYMMETRY DeveloperSymmetry
INVARIANT FolderExclusive
INVARIANT NoSelfReview
INVARIANT WorksUpToItsLimit
CHECK_DEADLOCK FALSE
