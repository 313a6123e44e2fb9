SPECIFICATION FairSpec
CONSTANTS
    Devices = {d1}
    First = first
    Third = third
    Blocks = {b1, b2, b3, b4}
    NULL = NULL
    MaxRequests = 2
    MaxStarts = 1
INVARIANTS
    TypeOK
    ConnectionOutlivesCamera
    
    OpenIsKnown

    
CHECK_DEADLOCK FALSE
