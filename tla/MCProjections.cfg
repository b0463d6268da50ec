SPECIFICATION FairSpec
CONSTANTS
  p1 = p1
  p2 = p2
  moved = moved
  filed = filed
  Procs <- TwoProcs
  Events <- TwoEvents
  Emptiers <- OneProc
  Beside = FALSE
  MaxSeq = 3
  MaxStops = 2
INVARIANT TypeOK
INVARIANT BoardIsThePrefix
INVARIANT NoStepOver
PROPERTY LeavesItsEvents
PROPERTY ImplementsReplay
PROPERTY EveryEventProjected
