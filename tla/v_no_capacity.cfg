SPECIFICATION FairSpec
CONSTANTS
    InstanceIDs = {i1}
    ScriptIDs = {s1}
    VolumeIDs = {v1}
    None = None
    UseClone = FALSE
    Env = {"nocap"}
    MaxFaults = 0
    MaxCrashes = 0
PROPERTIES
    NoCapacityRetried
CHECK_DEADLOCK FALSE
