CONSTANTS
  c1 = c1
  c2 = c2
  c3 = c3
  main = main
  sub = sub
  Calls = {c1, c2, c3}
  Agents = {main, sub}
  CallsOf <- MCCallsOf
  BatchCalls = {c2, c3}
  MaxAttempts = 2
  MaxRequests = 3
SPECIFICATION FairSpec
INVARIANTS EveryCallIsSettled CallsAreOrderly
PROPERTIES AttemptEnds
