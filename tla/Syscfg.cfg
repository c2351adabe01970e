SPECIFICATION Spec
CONSTANTS
    Strings <- MCStrings
    CMC = "CMC"
    SyncVersion = "SyncProtocolVersion"
    BufferSize <- MCBufferSize
    Initial <- MCInitial
    Inputs <- Fitting
    MaxCrashes = 2
CHECK_DEADLOCK FALSE
INVARIANTS
    GetReturnsWhatWasSet
