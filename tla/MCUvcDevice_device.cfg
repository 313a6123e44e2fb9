SPECIFICATION FairSpec
CONSTANTS
    Cameras = {c1, c2}
    MaxFd = 2
    MaxOther = 1
    MaxOpens <- MCMaxOpens
    Twice = c1
INVARIANTS
    TypeOK
    DescriptorKept
    NothingLeft
    CallbackAlive
    EventsHandled
PROPERTIES
    ReleaseReturns
CHECK_DEADLOCK FALSE
