CONSTANTS
    Secrets = {"a", "b"}
    Callers = {1, 2}
    MaxVersions = 3
    MaxFaults = 1
SPECIFICATION FairSpec
INVARIANTS TypeOK FreshCredentials
PROPERTY SettlesOnCurrent
CHECK_DEADLOCK FALSE
