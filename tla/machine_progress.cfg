SPECIFICATION FairSpec
CONSTANTS
    InstanceIDs = {i1}
    ScriptIDs = {s1, s2}
    VolumeIDs = {v1}
    None = None
    UseClone = TRUE
    Env = {"stale", "evict", "keepDetached", "tagRefused"}
    MaxFaults = 1
    MaxCrashes = 0
PROPERTIES
    ProvisioningCompletes
    DeletionCompletes
CHECK_DEADLOCK FALSE
