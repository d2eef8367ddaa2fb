SPECIFICATION FairSpec
CONSTANTS
  Q = 2
  Ids = {a, b}
  Anchored = {a}
  Elt = {2}
  StagingDb = FALSE
  Modules = 1
  Pre = {1, 2}
  Setups <- AllSetups
  EmptyHasNoColumn = TRUE
  QueryMayFail = TRUE
  TransformMayFail = TRUE
  ActionMayFail = FALSE
  MaxChanges = 2
  MaxLosses = 1
INVARIANT FreshStaging FullyTransformed ReportsClosedUnlessHeld ClearedAfterLoad AnchoredStay
PROPERTY ConvergesWithoutPost NeverOlder
CHECK_DEADLOCK FALSE
