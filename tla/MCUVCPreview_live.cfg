SPECIFICATION StreamingSpec
CONSTANTS
    Frames = {f1,f2}
    PreviewWindows = {p}
    CaptureWindows = {}
    Callbacks = {cb}
    CaptureThreads = {t1}
    NULL = NULL
    MaxFrame = 1
    MJPEG = FALSE
    Spurious = FALSE
    Endless = TRUE
    MaxSeq = 0
    MaxSessions = 1
    MaxSets = 1
PROPERTIES
    CaptureTaken
    
CHECK_DEADLOCK FALSE
