CONSTANTS
    a = a
    b = b
    d = d
    e = e
    Conn = {a, b, d, e}
    In = {a, b}
    MaxOpened = 3
    InRoom = 1
    Heartbeat = 1
    ReadTimeout = 2
SPECIFICATION FairSpec
CHECK_DEADLOCK FALSE
INVARIANTS TypeOK BeatsArrive OutlivesRun
PROPERTIES OnlyDeadLeave DeadLeaves RunReturns
