SPECIFICATION LinkSpec
CONSTANTS
  Subs = {s1, s2}
  NGroups = 2
  PageSizes = {1}
  Depth = 1
  MaxGsn = 1
  MaxAttempts = 1
  MaxFaults = 1
  MaxTurns = 3
  Callers = {c1, c2}
  MaxAttempt = 1
  MaxEvents = 3
INVARIANT FlushIsTruthful
PROPERTY NothingWaitsForEver
CHECK_DEADLOCK FALSE
