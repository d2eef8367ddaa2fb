SPECIFICATION Spec
CONSTANTS
  t = t
  t2 = t2
  Dbs = {d1, d2}
  Tables = {t, t2}
  Rows <- MCRows
  Sqls <- MCSqls
  Contained <- MCContained
  Stores <- MCStores
  Configs <- MCConfigsFit
  CACHE_MAX_size = 3
  ExecMayFail = TRUE
  MaxClock = 1
INVARIANT WithinLimit SubCacheSound AnswerRight
CHECK_DEADLOCK FALSE
SYMMETRY DbSymmetry
