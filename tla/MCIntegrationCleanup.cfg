SPECIFICATION Spec
CONSTANTS
  main1 = main1
  Cases <- OwnerMergesOnly
  Bases = {main1}
  Clashing = {main1}
  MaxRounds = 1
  MaxPrs = 1
  MaxKills = 0
INVARIANT SentBackKeepsItsMerge
