SPECIFICATION FairSpec
CONSTANTS
    a = a
    b = b
    Tests = {a, b}
    Kinds <- MCKinds
    Ports = {1, 2}
INVARIANTS TypeOK LeftBehind DirectoryLast OwnServer
PROPERTY TestsEnd
CHECK_DEADLOCK FALSE
