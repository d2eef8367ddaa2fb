SPECIFICATION Spec
CONSTANTS
  N = 2
  Threads = {t1, t2, t3, t4}
  NoThread = NoThread
  Lost = Lost
  Staged = {1}
  FlatFile = {1, 2}
  Preprocessed = {2}
  ConnMayFail = {1}
  CreateMayFail = TRUE
  RunOnce = FALSE
INVARIANT MutualExclusion OneWatcher JoinTarget BehindBarrier NeverHeldAtEntry ConnectionsOpen
PROPERTY HoldIsForever
CHECK_DEADLOCK FALSE
SYMMETRY ThreadSymmetry
