\* Re-keying from either end, exchanges that fail, connections that break, a full queue.
SPECIFICATION FairSpec
CONSTANTS
    RekeyThreshold = 0
    IncomingCap = 1
    MaxWrites <- ServerWrites
    CanFail = TRUE
    CanDrop = TRUE
INVARIANTS
    KeysMatch
    KexSilence
PROPERTIES
    WritersReturnUnless
CHECK_DEADLOCK FALSE
