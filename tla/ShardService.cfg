SPECIFICATION SnapshotSpec
CONSTANTS
    Gid = {1, 2}
    NShards = 2
    Config <- OneMove
    NReplicas <- TwoInFirst
    Greeter = {}
    Client = {c1}
    Key = {k1}
    ShardOf <- OnShardZero
    Kinds = {"GET", "APPEND"}
    MaxReq = 3
    MaxTries = 2
    MaxCopies = 1
    MaxFailures = 1
    MaxSnapshots = 1
    MaxRestarts = 1
    MaxFaults = 2
CONSTRAINT FewFaults
ACTION_CONSTRAINT WriteThenRead
CHECK_DEADLOCK FALSE
INVARIANTS
    HolderCurrent
    ExactlyOnce
    Linearizable
