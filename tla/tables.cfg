CONSTANTS
    v = v
    w = w
    a = a
    b = b
    Peer = {a, b}
    Self = a
    Worker <- Both
    Scenarios <- Usual
    MaxClock = 4
    MaxFailure = 2
SPECIFICATION TableSpec
CHECK_DEADLOCK FALSE
INVARIANTS TableTypeOK SoleSaverDurable
PROPERTIES NeverOlder
