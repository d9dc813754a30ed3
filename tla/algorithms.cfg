CONSTANTS
    Holders = {0}
    Dummy = 1
    Sig = {2, 3, 4}
    Unit = 2
    Inputs <- MCInputs
    NBIT = 4
    Me = 9
    Others = {7, 10, 11, 12}
    NSucc = 2
    MaxCached = 3
SPECIFICATION AlgSpec
INVARIANT MergeCorrect
INVARIANT SetsRight
 
INVARIANT PolyRight
INVARIANT CodecRight
INVARIANT TeamsRight
INVARIANT IndexRight
INVARIANT IdaRight
PROPERTY TableRight
CHECK_DEADLOCK FALSE
