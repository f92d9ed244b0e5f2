SPECIFICATION FairSpec
CONSTANTS
    None = None
    InstanceIDs = {i1, i2}
    Data <- AllData
    Later <- LaterData
    Twins = TRUE
INVARIANTS
    TypeOK
    JoinedNodeKept
    ScriptFits
    BootsAsAsked
PROPERTIES
    GoneNodeRemoved
    AddressesFollow
CHECK_DEADLOCK FALSE
