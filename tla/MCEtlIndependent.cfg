SPECIFICATION FairSpec
CONSTANTS
  N = 2
  Threads = {t1, t2}
  NoThread = NoThread
  Lost = Lost
  Staged = {}
  FlatFile = {}
  Preprocessed = {}
  ConnMayFail = {1}
  CreateMayFail = FALSE
  RunOnce = FALSE
PROPERTY ServedOrHeld
CHECK_DEADLOCK FALSE
