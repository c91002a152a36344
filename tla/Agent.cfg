\* Two goroutines on one client and a third on its own, every operation, connections that break.
SPECIFICATION FairSpec
CONSTANTS
    rsa = rsa
    first = first
    second = second
    third = third
    Keys = {rsa}
    Kind <- Kinds
    Passes = {"p"}
    Users = {first, second, third}
    Conns = {"c1", "c2"}
    ConnOf <- Shared
    Ops = {"Add", "Remove", "RemoveAll", "Sign", "List", "Lock", "Unlock"}
    MaxCalls = 3
    MaxKeys = 2
    CanBreak = TRUE
INVARIANTS
    OwnReply
    
PROPERTIES
    CallsReturn
CHECK_DEADLOCK FALSE
