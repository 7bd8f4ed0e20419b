SPECIFICATION Spec
CONSTANTS
    NShards = 1
    Gid = {1}
    NServers = 2
    Client = {c1}
    Types = {"Join", "Leave", "Move", "Query"}
    MaxReq = 2
    MaxFailures = 1
    MaxTerm = 2
    MaxRestarts = 1
    MaxFaults = 1
CONSTRAINT FewFaults
CHECK_DEADLOCK FALSE
INVARIANTS
    OneConfigPerChange
    FreshUnlessRepeated
