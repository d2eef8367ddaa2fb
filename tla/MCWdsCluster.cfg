SPECIFICATION FairSpec
CONSTANTS
  n1 = n1
  n2 = n2
  n3 = n3
  t = t
  u = u
  Nodes = {n1, n2, n3}
  Tables = {t, u}
  Clients = {c1, c2}
  Nobody = Nobody
  Routings <- MCRoutings
  Kinds = {"sql", "marked", "db", "status"}
  LEN = 2
  BodyLen = 2
  MaxAsks = 1
  MaxFaults = 1
INVARIANT RightSource ErrorForAReason Intact InBounds
PROPERTY QueryReturns
CHECK_DEADLOCK FALSE
