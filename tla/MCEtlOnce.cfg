SPECIFICATION FairSpec
CONSTANTS
  N = 2
  Threads = {t1, t2, t3, t4}
  NoThread = NoThread
  Lost = Lost
  Staged = {1}
  FlatFile = {}
  Preprocessed = {}
  ConnMayFail = {}
  CreateMayFail = FALSE
  RunOnce = TRUE
INVARIANT TypeOK MutexNeverLost LogInUse ArgumentsAlive
PROPERTY Terminates ServedOrHeld ImplementsPhases
CHECK_DEADLOCK FALSE
