SPECIFICATION Spec
CONSTANTS
    Senders = {s1, s2}
    Clients = {c1, c2}
    Keys = {k1, k2}
    MaxClients = 2
    MaxSends = 2
    MaxRegs = 3
    Spurious = FALSE
    Rpc = rpc
    NoThread = NoThread
    NoClient = NoClient
    NoReg = NoReg
SYMMETRY Symmetry
CHECK_DEADLOCK FALSE
INVARIANTS
    TypeOK
    UniqueRegistration
    NoDanglingPointer
    FifoDelivery
PROPERTIES
    ListStableWhileEnumerated
    ImplementsRegistry
    FreshStatus
    LockCycleIsPermanent
