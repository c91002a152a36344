\* Two channels, two requesters on the first, close and loss of the connection at any time.
SPECIFICATION FairSpec
CONSTANTS
    MaxOpens <- TwoClient
    Requesters <- OnFirst
    CanClose = TRUE
    CanDrop = TRUE
INVARIANTS
    RightChannel
    OwnAnswer
PROPERTIES
    CallsReturn
CHECK_DEADLOCK FALSE
