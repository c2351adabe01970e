SPECIFICATION Spec
CONSTANTS
    a = a
    b = b
    Wifi = wifi
    Components = {wifi, a, b}
    Radios = {r1, r2}
    MaxGroups = 3
    MaxRequests = 2
    WifiCached = TRUE
    Spurious = TRUE
SYMMETRY Symmetry
CHECK_DEADLOCK FALSE
INVARIANTS
    SetIsAtomic
    NotifiedWereAccepted
PROPERTIES
    WifiSetLast
    ImplementsAtomicSet
