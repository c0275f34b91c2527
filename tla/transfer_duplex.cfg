CONSTANTS
    a = a
    b = b
    f1 = f1
    f2 = f2
    f3 = f3
    f4 = f4
    Side = {a, b}
    File = {f1, f2, f3, f4}
    From <- PairFrom
    Chunks <- PairChunks
    Cancellable = {}
    Pinging = {}
    PipeRoom = 1
    MaxFault = 0
SPECIFICATION FairSpec
CHECK_DEADLOCK FALSE
PROPERTY StreamsEnd
