SPECIFICATION EndsSpec
CONSTANTS
  Message = {1, 2, 3}
  Mail <- MCMail
  Chat = {"c"}
  ChatOf <- MCChatOf
  TimeOf <- MCTimeOf
  Handler = {h1, h2}
  Refresher = {f1}
  Slots = 1
  Retries = 2
  Immediate = TRUE
  MaxDeliveries = 3
  MaxRefreshes = 1
  MaxFlops = 1
  NoMessage = NoMessage
  MaxRaw = 2
  Listings = {"sale", "rent"}
  Demands = {"want"}
  MaxId = 2
  Stride = 1
  Unit = {u, v}
  Extractor = {t1, t2}
  MaxDay = 1
  MaxTrouble = 1
  None = None
INVARIANTS
  IntakeTypeOK SlotsBalanced 
  StoreTypeOK OneListing DemandNeverMerged
PROPERTIES ProjectionKept
SYMMETRY Alike
