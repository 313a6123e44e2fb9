SPECIFICATION FairSpec
CONSTANTS
    Encoders = {video, audio}
    Video = video
    Handler = handler
    MayFail = TRUE
    InputBuffers = 2
    MaxRequests = 2
INVARIANTS TypeOK MuxerProtocol 
PROPERTIES NoticedStopEnds
CHECK_DEADLOCK FALSE
