SPECIFICATION FairSpec
CONSTANTS
  Conns = {k1, k2}
  Users = {u1, u2}
INVARIANTS
  TypeOK
  NeverServeWithoutSource
  FailedStartIsClean
  ShutdownAgreement
  NilMeansGraceful
PROPERTIES
  StartReturns
  ServerThreadEnds
  ShutdownReturns
  ServeReturnsOnSignal
CHECK_DEADLOCK FALSE
