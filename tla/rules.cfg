SPECIFICATION SumSpec
CONSTANTS
  None = None
  Me = Me
  TypeAhead = FALSE
  Authors = {1}
  Watchers = {2}
  Readers = {3}
  MaxChanges = 3
  MaxHlc = 4
  MaxJump = 0
  MaxInsert = 2
INVARIANT DocumentsHold
INVARIANT DecisionsAgree
INVARIANT RequestsAreGuarded
INVARIANT SchemasHold
CHECK_DEADLOCK FALSE
