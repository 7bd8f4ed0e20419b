SPECIFICATION ReplayFairSpec
CONSTANTS
    Gid = {1, 2, 3}
    NShards = 3
    Config <- BackAndForth
    NReplicas <- One
    Greeter <- GroupOne
    Client = {c1}
    Key = {k1}
    ShardOf <- OnShardZero
    Kinds = {}
    MaxReq = 1
    MaxTries = 0
    MaxCopies = 1
    MaxFailures = 0
    MaxSnapshots = 0
    MaxRestarts = 1
    MaxFaults = 1
CHECK_DEADLOCK FALSE
INVARIANTS
    OneOwner
    DockAvailable
PROPERTIES
    Migrates
    Collected
