SPECIFICATION FairSpec
CONSTANTS
  a = a
  m = m
  c1 = c1
  c2 = c2
  c3 = c3
  Actions = {a, m}
  Movers = {m}
  Calls = {c1, c2, c3}
  MaxCallActions = 1
  MaxGsn = 3
  MaxBatches = 3
  MaxInFlight = 2
  MaxLost = 0
  MaxCrashes = 1
  MaxTreeCrashes = 1
  MaxRebuildFaults = 0
CHECK_DEADLOCK FALSE
PROPERTY EveryCallAnswered
PROPERTY FrontierCatchesUp
