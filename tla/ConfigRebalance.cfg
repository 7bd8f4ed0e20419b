SPECIFICATION Spec
CONSTANTS
    NShards = 10
    Gid = {1, 2, 3, 4}
    Batches = {1}
    MaxMoves = 5
    MovedGroups = 2
CONSTRAINTS FewMoved NoneEmptied
CHECK_DEADLOCK FALSE

    
    
PROPERTIES
    MinimalJoin
