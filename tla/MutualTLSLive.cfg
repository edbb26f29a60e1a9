SPECIFICATION FairSpec
CONSTANTS
  c1 = c1
  c2 = c2
  s1 = s1
  A = A
  Clients = {c1, c2}
  Servers = {s1}
  Conns = {k1}
  TdOf <- MCTdOf
  Bundles <- MCBundles
  Allows <- AllowOne
  OwnContext = {s1}
  Life = 1
  MaxTime = 2
PROPERTIES ConnectionsSettle ImplementsCalls
CHECK_DEADLOCK FALSE
