SPECIFICATION Spec
CONSTANTS
  a = a
  b = b
  c1 = c1
  c2 = c2
  Actions = {a, b}
  Calls = {c1, c2}
  MaxCallActions = 1
  MaxInFlight = 1
  MaxRebuildFaults = 0
  Movers = {}
  MaxGsn = 2
  MaxBatches = 2
  MaxLost = 0
  MaxCrashes = 0
  MaxTreeCrashes = 1
CHECK_DEADLOCK FALSE
INVARIANT AckedNeverOverwritten
