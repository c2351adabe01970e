SPECIFICATION FairSpec
CONSTANTS
    objectList <- ObjectList
    subObjectList <- SubObjectList
    Parameters <- ParameterNames
    Components = {c1, c2, c3}
    RETRY_COUNT = 3
    Objects <- AllObjects
    ServerInstances <- ServerNumbers
    DeviceInstances <- DeviceNumbers
CHECK_DEADLOCK FALSE
INVARIANTS
    LookupFindsOwners
    GroupsArePartition
    GetReturnsAll
    GetReturnsAttributes
    AttributesReachOwner
    AnswerIsNamed
    ReturnedNameLeadsBack
    ServerSeesNoChange
PROPERTIES
    InitEnds
