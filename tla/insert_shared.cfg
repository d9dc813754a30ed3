CONSTANTS
    MaxCalls = 2
    STOPCOUNT = 1
SPECIFICATION InsertSpec
INVARIANT OwnStatus
