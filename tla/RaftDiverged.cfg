SPECIFICATION DivergedSpec
CONSTANTS
    Server = {s1, s2, s3}
    Command = {c1}
    s1 = s1
    s2 = s2
    s3 = s3
    c1 = c1
    None = None
    MaxTerm = 4
    MaxElections = 4
    MaxIndex = 2
    MaxRestarts = 0
    MaxInFlight = 1
    SnapshotAt = {}
CHECK_DEADLOCK FALSE
INVARIANTS
    LogMatching
    LeaderCompleteness
    
