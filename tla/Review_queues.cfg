SPECIFICATION ReviewFairSpec
CONSTANTS
  Row = {r1}
  Reworker = {w1, w2}
  Aligner = {b1, b2}
  Admin = {a1, a2}
  Concurrency = 1
  DryRun = FALSE
  Seed <- MCSeed
  NoRow = NoRow
  MaxBreaks = 2
INVARIANTS ReviewTypeOK HeldOnce RepairedIsAligned
PROPERTIES ReworkQueue BoundaryQueue JobsEndOrAreAbandoned ReplaysEndOrAreAbandoned
