SPECIFICATION FairSpec
CONSTANTS
  COMPONENTS_len = 2
  Threaded = {1}
  CreateMayFail = TRUE
  MaxReports = 2
  MaxCrashes = 1
INVARIANT ListedInOrder
PROPERTY GetsToListen ReportReturns ActiveFollows
CHECK_DEADLOCK FALSE
