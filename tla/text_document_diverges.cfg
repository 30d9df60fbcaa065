SPECIFICATION Spec
CONSTANTS
  TypeAhead = FALSE
  Authors = {1,2}
  Watchers = {}
  Readers = {}
  MaxChanges = 3
  MaxHlc = 4
  MaxJump = 0
  MaxInsert = 2
INVARIANTS PeersConverge
CHECK_DEADLOCK FALSE
