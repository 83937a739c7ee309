SPECIFICATION MCSpec
CONSTANTS
  Members = 3
  Paths = {p1, p2}
  NoPath = NoPath
  MaxReads = 2
  Cancellable = TRUE
  Commands = {c1, c2}
  MayFlood = TRUE
  MayDetach = TRUE
  MayQueue = TRUE
  MaxTurns = 2
INVARIANTS
  ConflictsRunInOrder
  NothingRunsAfterClose
  EveryEndIsReported
PROPERTIES
  BatchEnds
  ReportsAreTrue
  WaitEnds
