SPECIFICATION FairSpec
CONSTANTS
    NServers = 2
    Client = {c1, c2}
    Key = {k1}
    Kinds = {"Put"}
    MaxReq = 1
    MaxFailures = 0
    MaxTerm = 2
    MaxSnapshots = 0
    MaxRestarts = 0
    MaxFaults = 0
CHECK_DEADLOCK FALSE
PROPERTIES
    EveryRequestReturns
