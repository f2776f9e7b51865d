SPECIFICATION Spec
CONSTANTS
  None = None
  w1 = w1
  w2 = w2
  g1 = g1
  g2 = g2
  fpA = fpA
  fpB = fpB
  dm = dm
  Dm = dm
  Raw = {1, 2, 4}
  Worker <- OneWorker
  FpOf <- CopiesAndOther
  LaneOf <- SplitLanes
  ChatOf <- TwoChats
  Connection <- OneConnection
  ConnOf <- AllPrimary
  Verdict <- MixedVerdicts
  History = {2}
  MaxRetries = 1
  Reconcile = TRUE
  Faults = {"db"}
  Controls = {"retry", "groups"}
  MaxControl = 2
INVARIANTS
  ConsumedForReason
