SPECIFICATION Spec
CONSTANTS
    None = None
    InstanceIDs = {i1}
    Data <- FileData
    Later <- LaterData
    Twins = FALSE
INVARIANTS
    AcceptedDataBoots
CHECK_DEADLOCK FALSE
