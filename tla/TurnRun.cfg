SPECIFICATION FairSpec
CONSTANTS
  Tools = {t1, t2}
  MaxToolEvents = 2
  Jobs = {j1}
  MaxAuto = 2
  MaxTotal = 3
  BusyMax = 2
  Window = 3
  Elapsed = {0, 2}
  Backoff = {1}
  EarlierResumes = {0}
INVARIANTS
  WithinBudgets
  OutcomesSurviveAKill
  EndingLeavesNothingOpen
PROPERTIES
  ImplementsLogicalTurn
  Terminates
