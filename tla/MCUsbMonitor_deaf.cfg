SPECIFICATION FairSpec
CONSTANTS
    Devices = {d1}
    First = first
    Third = third
    Blocks = {b1, b2}
    NULL = NULL
    MaxRequests = 1
    MaxStarts = 1
PROPERTY
    DettachHeard
CHECK_DEADLOCK FALSE
