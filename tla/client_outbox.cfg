SPECIFICATION SumSpec
CONSTANTS
  Ids = {a1, a2}
  Subjects = {x}
  SubjectOf <- MCSubjectOf
  Foreign = foreign
  MaxForeign = 1
  MaxMishaps = 1
  Subs = {s1, s2}
  NGroups = 2
  PageSizes = {1, 2}
  Depth = 2
  MaxGsn = 2
  MaxAttempts = 1
  MaxFaults = 1
  MaxTurns = 5
INVARIANT BufferKeepsWrites
INVARIANT SessionSkipsNothing
PROPERTY BufferStaysSettled
SYMMETRY Symmetry
CHECK_DEADLOCK FALSE
