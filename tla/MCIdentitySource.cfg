SPECIFICATION FairSpec
CONSTANTS
  Closers = {c1, c2}
  Readers = {r1, r2}
INVARIANTS
  TypeOK
  CloseAgreement
  HandoutIsOpen
  ErrorAborts
PROPERTIES
  CreationReturns
  BuilderExits
  CloseReturns
  ImplementsContract
CHECK_DEADLOCK FALSE
