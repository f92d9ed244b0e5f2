SPECIFICATION FairSpec
CONSTANTS
    InstanceIDs = {i1}
    ScriptIDs = {s1}
    VolumeIDs = {v1}
    None = None
    Roles = {"lb"}
    Nodes = {n1}
    Hosts = {h1}
    Env = {}
    MaxFaults = 1
    MaxCrashes = 0
    MaxChanges = 2
PROPERTIES
    BackendsInSync
CHECK_DEADLOCK FALSE
