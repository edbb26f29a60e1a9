SPECIFICATION Spec
CONSTANTS
  Conns = {k1}
  Users = {u1}
INVARIANT StartupFailureReported
CHECK_DEADLOCK FALSE
