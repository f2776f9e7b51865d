SPECIFICATION ServicesSpec
CONSTANTS
  BJob = {j1}
  Enricher = {w1}
  Operator = {o1}
  BadName = {j1}
  MaxRetries = 2
  MaxAsks = 4
  MaxFalls = 2
  NoJob = NoJob
  Parent = {p1}
  MaxPieces = 3
  Repairer = {w1}
  MaxRequests = 2
  MaxUpsets = 1
  NoParent = NoParent
  Entity = {e1, e2}
  Indexer = {w1}
  MaxVersion = 2
  MaxTries = 2
  MaxTrips = 1
  MaxCmd = 2
  Text = {"a", "b"}
  MaxRounds = 2
  MaxMishaps = 2
INVARIANTS
  BuildingTypeOK  
  
  IndexIsCurrent
   QuestionBeforeAnswer
PROPERTIES JobsSettle RepairAnswered ChangesAreIndexed 
