SPECIFICATION LaggingSpec
CONSTANTS
    Server = {s1, s2, s3}
    Command = {c1}
    s1 = s1
    s2 = s2
    s3 = s3
    c1 = c1
    None = None
    MaxTerm = 1
    MaxElections = 1
    MaxIndex = 2
    MaxRestarts = 1
    MaxInFlight = 1
    SnapshotAt = {1}
ACTION_CONSTRAINT LeaderOrLagging
CHECK_DEADLOCK FALSE
INVARIANTS
    LogsContiguous
    SnapshotInSync
    AppliedIsDurable
    DeliveredInOrder
PROPERTIES
    AppliedOnlyGrows
