SPECIFICATION FairSpec
CONSTANTS
  red = red
  blue = blue
  r1 = r1
  b1 = b1
  b2 = b2
  b3 = b3
  nolimit = nolimit
  Teams <- TwoTeams
  Calls <- FourCalls
  TeamOf <- Team
  NoLimit = nolimit
  Limits <- OneOrNone
  GivesUp = {b2}
  Refused = {b1}
  MaxTime = 2
INVARIANT TypeOK
INVARIANT PlacesCounted
INVARIANT NoIdlePlace
INVARIANT InTurn
PROPERTY NoneStartsPastTheLimit
PROPERTY EveryCallServed
CHECK_DEADLOCK FALSE
