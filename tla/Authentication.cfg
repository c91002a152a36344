\* Every choice of methods and right answers; a cache smaller than the keys.
SPECIFICATION FairSpec
CONSTANTS
    AuthLists <- Lists
    Signers <- Keys
    CacheCap = 1
    MaxRounds = 2
INVARIANTS
    SameOutcome
PROPERTIES
    FindsAWay
CHECK_DEADLOCK FALSE
