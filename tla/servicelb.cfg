SPECIFICATION FairSpec
CONSTANTS
    Services = {1, 2}
    Asked = {{p}, {q}, {p, q}, {x}}
    Unsupported = {x}
    Workers = {w}
    MaxFaults = 1
    MaxChanges = 3
INVARIANTS
    TypeOK
    OldestServiceWins
    OneOwnerPerSlot
    QuietMeansInSync
PROPERTIES
    BecomesQuiet
CHECK_DEADLOCK FALSE
