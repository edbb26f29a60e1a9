SPECIFICATION Spec
CONSTANTS
  c1 = c1
  c2 = c2
  s1 = s1
  A = A
  Clients = {c1}
  Servers = {s1}
  Conns = {k1}
  TdOf <- MCTdOf
  Bundles <- MCBundles
  Allows <- AllowOne
  OwnContext = {}
  Life = 1
  MaxTime = 1
INVARIANT ShutdownStopsRequests
CHECK_DEADLOCK FALSE
