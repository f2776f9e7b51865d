SPECIFICATION SessionsSpec
CONSTANTS
  Instance = {i1}
  Req = {r1, r2}
  Kinds = {"connect", "code", "qr", "reset", "disconnect", "delete"}
  MaxRequests = 2
  MaxBoots = 1
  MaxPairs = 1
  MaxTrips = 1
  NoOne = NoOne
INVARIANTS LiveOwnsLock NoLostWakeup
