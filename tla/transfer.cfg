CONSTANTS
    a = a
    b = b
    f1 = f1
    f2 = f2
    f3 = f3
    f4 = f4
    Side = {a, b}
    File = {f1, f2}
    From <- BothFrom
    Chunks <- BothChunks
    Cancellable = {f1}
    Pinging = {a}
    PipeRoom = 1
    MaxFault = 2
SPECIFICATION FairSpec
CHECK_DEADLOCK FALSE
INVARIANTS TypeOK NoStrandedReply ChunkFindsPart
PROPERTIES DeliverySpec TransferEnds
