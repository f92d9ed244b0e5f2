SPECIFICATION Spec
CONSTANTS
    InstanceIDs = {i1, i2}
    ScriptIDs = {s1, s2}
    VolumeIDs = {v1, v2}
    None = None
    UseClone = FALSE
    Env = {"identity", "orphan"}
    MaxFaults = 0
    MaxCrashes = 0
SYMMETRY IDSymmetry
INVARIANTS
    FinalizerGuardsInstance
CHECK_DEADLOCK FALSE
