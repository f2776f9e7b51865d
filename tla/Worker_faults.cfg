SPECIFICATION Spec
CONSTANTS
  None = None
  w1 = w1
  w2 = w2
  g1 = g1
  g2 = g2
  fpA = fpA
  fpB = fpB
  dm = dm
  Dm = dm
  Raw = {1, 2}
  Worker <- OneWorker
  FpOf <- CopiesAndOther
  LaneOf <- SplitLanes
  ChatOf <- GroupAndDm
  Connection <- OneConnection
  ConnOf <- AllPrimary
  Verdict <- AllListings
  History = {}
  MaxRetries = 2
  Reconcile = TRUE
  Faults = {"crash", "db"}
  Controls = {}
  MaxControl = 0
INVARIANTS
  TypeOK
  OneOwnedBaseline
  RepeatsAreGrounded
