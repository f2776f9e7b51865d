SPECIFICATION FairSessions
CONSTANTS
  Instance = {i1}
  Req = {r1}
  Kinds = {"code"}
  MaxRequests = 1
  MaxBoots = 1
  MaxPairs = 1
  MaxTrips = 0
  NoOne = NoOne
PROPERTY CodeRequestAnswered
