SPECIFICATION SharedFairSpec
CONSTANTS
  Copy = {"a", "b"}
  Tenant = {"W1", "W2"}
  TenantOf <- MCTenantOf
  Thread = {t1, t2}
  NoCopy = NoCopy
  Overlap = TRUE
  MaxFaults = 2
INVARIANTS CallsSerialised
PROPERTIES ConsumedWithAnswer 
