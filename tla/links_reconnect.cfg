CONSTANTS
    a = a
    b = b
    Node <- Two
    Conn = {1, 2}
    None = None
    Scenarios <- Quiet
SPECIFICATION FairSpec
CHECK_DEADLOCK FALSE
PROPERTY Reconnects
