SPECIFICATION Spec
CONSTANTS
    NServers = 2
    Client = {c1}
    Key = {k1}
    Kinds = {"Get", "Append"}
    MaxReq = 2
    MaxFailures = 1
    MaxTerm = 2
    MaxSnapshots = 1
    MaxRestarts = 1
    MaxFaults = 2
SYMMETRY Symmetry
CONSTRAINT FewFaults
CHECK_DEADLOCK FALSE
INVARIANTS
    TypeOK
    ExactlyOnce
    Linearizable
