\* A session with everything user and remote may do, three acts in all.
SPECIFICATION FairSpec
CONSTANTS
    Statuses = {0, 3}
    IntBits = 4
    Signals <- Listed
    OtherSignal = "XFSZ"
    Other = {"malformed", "keepalive"}
    Assignable = {"stdin", "stdout"}
    Pipes = {"stdin", "stdout"}
    Calls = {"env", "Start", "Output", "CombinedOutput"}
    ReqCap = 1
    Window = 1
    MaxActs = 3
INVARIANTS
    StatusTrue
    NilMeansDone
PROPERTIES
    
    StdinEnds
CHECK_DEADLOCK FALSE
