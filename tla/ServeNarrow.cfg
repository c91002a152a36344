\* Three channels with little window: the wedge.
SPECIFICATION FairSpec
CONSTANTS
    MaxChannels = 3
    ChanCap = 1
    ReqCap = 1
    GlobalCap = 1
    OpenForms <- NarrowSessions
    Requests <- OpeningRequests
    MaxRequests = 0
    MaxGlobals = 0
    MaxAdjusts = 1
    keys <- GoodKeys
    blacklist <- NoBlacklist
INVARIANTS
    TypeOK
PROPERTIES
    ConversationPromise
    
    
    WedgeLasts
CHECK_DEADLOCK FALSE
