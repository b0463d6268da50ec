SPECIFICATION Spec
CONSTANTS
  a = a
  b = b
  a1 = a1
  a2 = a2
  Nobody = Nobody
  NoLimit = NoLimit
  Teams <- TwoTeams
  Sessions <- TwoSessions
  TeamOf <- AllOfA
  Budget <- Budgets
  Earlier <- SomeOfB
  Caps = {3, NoLimit}
  Costs = {1, 2}
  MaxReports = 1
  MaxMakes = 2
  MaxKills = 1
SYMMETRY SessionSymmetry
INVARIANT TypeOK
INVARIANT DayStopsItsTeam
INVARIANT SessionsCounted
INVARIANT CapNeverUndercounts
INVARIANT TheOwnerIsTold
CHECK_DEADLOCK FALSE
