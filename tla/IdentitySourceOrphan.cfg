SPECIFICATION FairSpec
CONSTANTS
  Closers = {c1}
  Readers = {r1}
PROPERTY NoOrphan
CHECK_DEADLOCK FALSE
