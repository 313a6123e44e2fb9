SPECIFICATION FairSpec
CONSTANTS
    Clients = {ui, worker}
    UI = ui
    Recordings = {r1, r2}
    NULL = NULL
    MaxCalls = 3
INVARIANTS TypeOK NoLostRecording  NoHiddenPreview 
CHECK_DEADLOCK FALSE
  
