SPECIFICATION FairSpec
CONSTANTS
  None = None
  w1 = w1
  w2 = w2
  g1 = g1
  g2 = g2
  fpA = fpA
  fpB = fpB
  dm = dm
  Dm = dm
  Raw = {1, 4, 5}
  Worker <- OneWorker
  FpOf <- CopiesAndOther
  LaneOf <- SplitLanes
  ChatOf <- TwoChats
  Connection <- TwoConnections
  ConnOf <- SecondOnSecondary
  Verdict <- MixedVerdicts
  History = {}
  MaxRetries = 1
  Reconcile = TRUE
  Faults = {"policy"}
  Controls = {"extraction"}
  MaxControl = 1
INVARIANTS
  DeadLetterReleasesClaim
PROPERTIES
  GroupRowsLeaveQueue
