SPECIFICATION Spec
CONSTANTS
    Values <- ValuesOfWords
    WriteIds <- WebUIAndOther
    MaxCalls = 2
CHECK_DEADLOCK FALSE
INVARIANT
    ServerIsTold
