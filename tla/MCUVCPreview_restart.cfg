SPECIFICATION Spec
CONSTANTS
    Frames = {f1,f2,f3}
    PreviewWindows = {p}
    CaptureWindows = {}
    Callbacks = {cb}
    CaptureThreads = {t1,t2}
    NULL = NULL
    MaxFrame = 1
    MJPEG = TRUE
    Spurious = FALSE
    Endless = FALSE
    MaxSeq = 2
    MaxSessions = 2
    MaxSets = 1
INVARIANTS
    QuietWhenStopped
    SingleDelivery
SYMMETRY Symmetry
CHECK_DEADLOCK FALSE
