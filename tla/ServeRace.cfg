\* One channel: the race of the timer, the request goroutine and serve.
SPECIFICATION Spec
CONSTANTS
    MaxChannels = 1
    ChanCap = 1
    ReqCap = 1
    GlobalCap = 1
    OpenForms <- AnyOpens
    Requests <- ForwardRequests
    MaxRequests = 3
    MaxGlobals = 0
    MaxAdjusts = 0
    keys <- WeakKeys
    blacklist <- NoBlacklist
INVARIANTS
    ClosedAfterWait
    NoCrash
    WaitIsOver
    ForwardingReported
PROPERTIES
    ConversationPromise
