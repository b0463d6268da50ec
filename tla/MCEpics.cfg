SPECIFICATION FairSpec
CONSTANTS
  plan = plan
  work = work
  books = books
  k1 = k1
  Tasks <- All
  PlanTasks <- JustPlan
  NoBranch <- JustBooks
  Criteria = {k1}
  MaxIterations = 1
  MaxSessions = 2
  OwnerTo = {"in_progress", "verifying", "accepted"}
INVARIANT TypeOK
INVARIANT AcceptedIsDone
INVARIANT RunOnTheIntegratedWork
PROPERTY EpicEnds
CHECK_DEADLOCK FALSE
