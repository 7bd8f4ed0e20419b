SPECIFICATION Spec
CONSTANTS
    Server = {s1, s2, s3}
    Command = {c1, c2}
    None = None
    MaxTerm = 1
    MaxElections = 2
    MaxIndex = 1
    MaxRestarts = 1
    MaxInFlight = 1
    SnapshotAt = {}
SYMMETRY Symmetry
CHECK_DEADLOCK FALSE
INVARIANTS
    StateMachineSafety
