SPECIFICATION FairSpec
CONSTANTS
  Clients = {a, b, r}
  Refused = {r}
  a = a
  b = b
  r = r
  F = 5
  Server = 2
  MAX_CLIENTS = 2
  Programs <- AllPrograms
  Racy = FALSE
  Serial = TRUE
INVARIANT FindsClient ThreadUndisturbed
PROPERTY Served
