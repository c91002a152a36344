\* Every key presented is listed.
SPECIFICATION Spec
CONSTANTS
    a = a
    b = b
    Conn = {a}
    User = {"u"}
    Key <- PlainAndEd
    Directories <- OneDirectory
    MaxCached = 16
    MaxOffers = 2
INVARIANTS
    AllPresentedListed
