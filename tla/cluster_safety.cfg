SPECIFICATION Spec
CONSTANTS
    InstanceIDs = {i1, i2}
    ScriptIDs = {s1, s2}
    VolumeIDs = {v1, v2}
    None = None
    Roles = {"lb", "servicelb", "user"}
    Nodes = {n1}
    Hosts = {h1, h2}
    Env = {"pause", "foreign"}
    MaxFaults = 1
    MaxCrashes = 1
    MaxChanges = 2
SYMMETRY IDSymmetry
INVARIANTS
    TypeOK
    SecretNamesLoadBalancer
    EndpointNamesLoadBalancer
    EndpointKeepsInstance
    ClusterLeavesNothing
    KeysOpenInstance
    ProvisionedHasEndpoint
PROPERTIES
    ImplementsOwner
CHECK_DEADLOCK FALSE
