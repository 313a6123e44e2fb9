SPECIFICATION FairSpec
CONSTANTS
    Transfers = {x1, x2}
    NULL = NULL
    Parts = 2
    Eof = TRUE
    Bulk = FALSE
    Unplug = FALSE
    SubmitFails = FALSE
    ResubmitFails = FALSE
    MaxBurst = 1
    MaxFrames = 2
INVARIANTS
    TypeOK
    NoMixedFrame
    CloseEndsEverything
PROPERTIES
    StopReturns
    FrameSeen
CHECK_DEADLOCK FALSE
