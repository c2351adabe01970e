SPECIFICATION Spec
CONSTANTS
    Tables <- BothTables
    Data = {d1, d2}
    Blank = blank
    MaxRows = 3
    MaxRequests = 1
SYMMETRY Symmetry
CHECK_DEADLOCK FALSE
INVARIANTS
    RollbackRestores
