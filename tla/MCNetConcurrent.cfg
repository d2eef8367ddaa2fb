SPECIFICATION FairSpec
CONSTANTS
  Clients = {a, b, r}
  Refused = {r}
  a = a
  b = b
  r = r
  F = 5
  Server = 1
  MAX_CLIENTS = 2
  Programs <- RdpOnly
  Racy = FALSE
  Serial = FALSE
PROPERTY Served
CHECK_DEADLOCK FALSE
