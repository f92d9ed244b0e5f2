SPECIFICATION Spec
CONSTANTS
    InstanceIDs = {i1, i2}
    ScriptIDs = {s1, s2}
    VolumeIDs = {v1, v2}
    None = None
    UseClone = FALSE
    Env = {"nocap", "evict"}
    MaxFaults = 1
    MaxCrashes = 1
SYMMETRY IDSymmetry
INVARIANTS
    TypeOK
    AtMostOneLive
    FinalizerGuardsInstance
PROPERTIES
    ProvisionedNeverRecreated
    ImplementsOwner
CHECK_DEADLOCK FALSE
