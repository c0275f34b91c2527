CONSTANTS
    p = p
    Peer = {p}
    Interval = 2
    MaxMissed = 1
    MaxCopies = 2
    EventRoom = 1
SPECIFICATION FairSpec
CHECK_DEADLOCK FALSE
INVARIANTS TypeOK EventsTell
PROPERTIES LeaseSpec NoFlapping Found OnlyDispatchStays
