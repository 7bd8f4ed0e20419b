SPECIFICATION MadeSpec
CONSTANTS
    ServerName = {1, 2}
    Calls = {1, 2}
    MaxStarts = 3
    End <- Ends
ACTION_CONSTRAINT OneVictim
CHECK_DEADLOCK FALSE
INVARIANTS
    PositiveIsDurable
    SavedInSync
    CrashedCannotSend
PROPERTIES
    CallsReturn
