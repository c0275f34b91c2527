CONSTANTS
    a = a
    b = b
    c = c
    x = x
    y = y
    Node = {a, b, c}
    Peer = {a, b, c, x, y}
    Book <- Books
    Reach <- Pairs
    MaxEvent = 3
    MaxFault = 1
SPECIFICATION FairSpec
CHECK_DEADLOCK FALSE
INVARIANTS TypeOK NoEntryLost
PROPERTIES Converges
