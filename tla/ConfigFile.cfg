SPECIFICATION FairSpec
CONSTANTS
    initial = initial
    Params = {ServerURL, ServerPort}
    Values = {initial, u, v}
    Factory <- MCFactory
    MaxCrashes = 3
CHECK_DEADLOCK FALSE
INVARIANTS
    TypeOK
    SuccessfulSetIsStored
    GetReturnsStored
PROPERTIES
    ImplementsStore
    StartsAgain
