CONSTANTS
  c1 = c1
  c2 = c2
  c3 = c3
  Checks = {c1, c2, c3}
  LastStage = 2
  Reviews = 2
  Concurrency = 2
  Graphs <- MCGraphs
  Selections <- MCSelections
  AgentChecks <- MCAgents
  Repeats <- MCRepeats
  Blocking = {"a1", "a2"}
  Locators = {"U1", "X9"}
  Real = {"U1"}
  MaxRepairs = 2
  MaxFound <- MCFound
  Kinds = {"sch", "pcb"}
  InputsOf <- MCInputs
  Editing = FALSE
  MaxRuns = 2
  MaxEdits = 1
  MaxChanges = 1
SPECIFICATION MCSpec
INVARIANTS NothingRunsOnAFailure SuccessMeansAllRan 
PROPERTIES RunEnds
