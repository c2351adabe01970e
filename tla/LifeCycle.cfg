SPECIFICATION Spec
CONSTANT
    MaxCallbacks = 3
CHECK_DEADLOCK FALSE
INVARIANTS
    FaultNeedsOverlap
    GreenIsRegistered
    CancelUndoesStart
