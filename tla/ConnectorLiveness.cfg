SPECIFICATION FairSpec
CONSTANTS
    Senders = {s1}
    Clients = {c1, c2}
    Keys = {k1}
    MaxClients = 2
    MaxSends = 2
    MaxRegs = 3
    Spurious = TRUE
    Rpc = rpc
    NoThread = NoThread
    NoClient = NoClient
    NoReg = NoReg
CHECK_DEADLOCK FALSE
PROPERTIES
    RegistrationCompletes
    SenderReturns
