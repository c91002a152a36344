\* Two connections over the shared map, with any blacklist directory.
SPECIFICATION FairSpec
CONSTANTS
    a = a
    b = b
    Conn = {a, b}
    User = {"u", "v"}
    Key <- IssueKeys
    Directories <- AllDirectories
    MaxCached = 1
    MaxOffers = 2
INVARIANTS
    TypeOK
    NoMapRace
    EntriesInUse
    KeysListed
    TableTrue
PROPERTIES
    MutexServed
