SPECIFICATION Spec
CONSTANTS
    Transfers = {x1, x2}
    NULL = NULL
    Parts = 2
    Eof = FALSE
    Bulk = TRUE
    Unplug = TRUE
    SubmitFails = TRUE
    ResubmitFails = TRUE
    MaxBurst = 1
    MaxFrames = 3
PROPERTIES
    ImplementsChannel
CHECK_DEADLOCK FALSE
