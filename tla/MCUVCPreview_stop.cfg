SPECIFICATION FairSpec
CONSTANTS
    Frames = {f1,f2,f3,f4}
    PreviewWindows = {p}
    CaptureWindows = {w1}
    Callbacks = {cb}
    CaptureThreads = {t1}
    NULL = NULL
    MaxFrame = 1
    MJPEG = FALSE
    Spurious = FALSE
    Endless = FALSE
    MaxSeq = 2
    MaxSessions = 1
    MaxSets = 1
PROPERTIES
    StopReturns
CHECK_DEADLOCK FALSE
