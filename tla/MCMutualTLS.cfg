SPECIFICATION Spec
CONSTANTS
  c1 = c1
  c2 = c2
  s1 = s1
  A = A
  Clients = {c1, c2}
  Servers = {s1}
  Conns = {k1, k2}
  TdOf <- MCTdOf
  Bundles <- MCBundles
  Allows <- AllowBoth
  OwnContext = {c1}
  Life = 1
  MaxTime = 2
SYMMETRY Symmetry
INVARIANTS
  TypeOK
  HandlerKnowsPeer
  LateRequestsArePooled
  EndedIsClosed
  BackgroundStaysFresh
CHECK_DEADLOCK FALSE
