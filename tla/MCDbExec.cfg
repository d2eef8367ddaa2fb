SPECIFICATION Spec
CONSTANTS
  Dbs = {d1, d2}
  Columns = 2
  MaxRows = 2
  MaxErrors = 1
INVARIANT TypeOK NoSelfDeadlock FreeAfterSuccess Complete
CHECK_DEADLOCK FALSE
