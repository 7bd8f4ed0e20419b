SPECIFICATION Spec
CONSTANTS
    Server = {s1, s2, s3}
    Command = {c1}
    None = None
    MaxTerm = 2
    MaxElections = 2
    MaxIndex = 1
    MaxRestarts = 0
    MaxInFlight = 1
    SnapshotAt = {}
SYMMETRY Symmetry
CHECK_DEADLOCK FALSE
INVARIANTS
    TypeOK
    ElectionSafety

    
