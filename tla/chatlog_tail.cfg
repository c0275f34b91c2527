CONSTANTS
    v = v
    w = w
    Writer = {v, w}
    Count = 2
    Oversized = {}
    recordsPerSync = 2
    QueueRoom = 1
    MaxFault = 1
SPECIFICATION Spec
CHECK_DEADLOCK FALSE
INVARIANT EarlierRecordsKept
