CONSTANTS
    v = v
    w = w
    Writer = {v, w}
    Count = 2
    Oversized <- Long
    recordsPerSync = 2
    QueueRoom = 1
    MaxFault = 2
SPECIFICATION FairSpec
CHECK_DEADLOCK FALSE
INVARIANTS TypeOK PowerCutLoss LogLeads
PROPERTIES WritersProceed
