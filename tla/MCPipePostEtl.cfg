SPECIFICATION FairSpec
CONSTANTS
  Q = 2
  Ids = {a, b}
  Anchored = {a}
  Elt = {}
  StagingDb = FALSE
  Modules = 1
  Pre = {1, 2}
  Setups <- PostSetup
  EmptyHasNoColumn = FALSE
  QueryMayFail = FALSE
  TransformMayFail = FALSE
  ActionMayFail = FALSE
  MaxChanges = 1
  MaxLosses = 0
PROPERTY Converges
CHECK_DEADLOCK FALSE
