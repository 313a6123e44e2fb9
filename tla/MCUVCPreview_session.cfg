SPECIFICATION Spec
CONSTANTS
    Frames = {f1,f2,f3}
    PreviewWindows = {p}
    CaptureWindows = {w1}
    Callbacks = {cb}
    CaptureThreads = {t1}
    NULL = NULL
    MaxFrame = 2
    MJPEG = FALSE
    Spurious = TRUE
    Endless = FALSE
    MaxSeq = 3
    MaxSessions = 1
    MaxSets = 1
INVARIANTS
    TypeOK
    FrameOwnership
    LeakBound
SYMMETRY Symmetry
CHECK_DEADLOCK FALSE
