SPECIFICATION FairSpec
CONSTANTS
    Renders = {r1, r2}
    NULL = NULL
    MaxCalls <- MCMaxCalls
    UICalls = 3
    AsyncCalls = 1
    CameraCalls = 2
INVARIANTS
    TypeOK
PROPERTIES
    UiReturns
    WaiterWoken
    RenderEnds
    
CHECK_DEADLOCK FALSE
