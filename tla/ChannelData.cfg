\* Three streams, one of them discarded, window counters of three bits.
SPECIFICATION FairSpec
CONSTANTS
    Mod = 8
    WindowSize = 2
    MaxPayload = 2
    Streams = {0, 1, 2}
    Length <- Three
    ReadSize = 1
    Adjustments = {1, 5, 7}
    MaxAdjustments = 2
    CanClose = TRUE
INVARIANTS
    WindowExact
    WindowKept
    StreamIntact
PROPERTIES
    WritesReturn
CHECK_DEADLOCK FALSE
