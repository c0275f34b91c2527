CONSTANTS
    a = a
    b = b
    near = near
    far = far
    loopback = loopback
    Peer = {a, b}
    Subnet = {near, far, loopback}
    Scannable = {near, far}
    Home <- Homes
    QueueRoom = 1
    MaxNews = 5
SPECIFICATION FairSpec
CHECK_DEADLOCK FALSE
INVARIANTS TypeOK
PROPERTIES ScanOnce QueueMoves
