SPECIFICATION FairSpec
CONSTANTS
    InstanceIDs = {i1}
    ScriptIDs = {s1}
    VolumeIDs = {v1}
    None = None
    Roles = {"lb", "servicelb", "user"}
    Nodes = {n1}
    Hosts = {h1, h2}
    Env = {"keyloss"}
    MaxFaults = 1
    MaxCrashes = 0
    MaxChanges = 2
PROPERTIES
    BackendsFollow
    SwitchedOffIsDeleted
    SwitchedOffIsUnpublished
    ClusterDeletionCompletes
    EndpointSurfaced
CHECK_DEADLOCK FALSE
