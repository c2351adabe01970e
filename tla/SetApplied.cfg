SPECIFICATION FairSpec
CONSTANTS
    a = a
    b = b
    Wifi = wifi
    Components = {wifi, a}
    Radios = {r1, r2}
    MaxGroups = 2
    MaxRequests = 2
    WifiCached = TRUE
    Spurious = FALSE
CHECK_DEADLOCK FALSE
INVARIANTS
    IdleBusyNeedsOverlap
PROPERTIES
    SignalledRadiosRestart
