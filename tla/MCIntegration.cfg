SPECIFICATION FairSpec
CONSTANTS
  main1 = main1
  Cases <- AllWays
  Bases = {main1}
  Clashing = {main1}
  MaxRounds = 2
  MaxPrs = 2
  MaxKills = 1
INVARIANT TypeOK
INVARIANT OneOpenPullRequest
INVARIANT NothingLeftBehind
INVARIANT DocumentsKept
PROPERTY LandingHonoured
PROPERTY MergesWhatPassed
PROPERTY IntegrationEnds
