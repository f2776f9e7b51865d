SPECIFICATION PromptSessions
CONSTANTS
  Instance = {i1, i2}
  Req = {r1}
  Kinds = {"connect", "delete"}
  MaxRequests = 1
  MaxBoots = 2
  MaxPairs = 1
  MaxTrips = 1
  NoOne = NoOne
INVARIANT PairedSurvivesRestart
PROPERTY HandoffCompletes
