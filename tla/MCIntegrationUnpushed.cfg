SPECIFICATION Spec
CONSTANTS
  main1 = main1
  Cases <- CatervasMergesOnly
  Bases = {main1}
  Clashing = {}
  MaxRounds = 1
  MaxPrs = 1
  MaxKills = 1
INVARIANT UpToDateIsPushed
