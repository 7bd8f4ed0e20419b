SPECIFICATION FairSpec
CONSTANTS
    nfile = 2
    nReduce = 2
    Workers = {w1, w2}
    MaxCrashes = 1
CHECK_DEADLOCK FALSE
INVARIANTS
    TypeOK
    InputsFound
    OutputFinal
PROPERTIES
    JobCompletes
