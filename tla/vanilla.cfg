CONSTANTS
    a = a
    b = b
    Dummy = Dummy
    Holders = {}
    Sig = {a, b}
    N = 2
    rounds = 2
    NumPut = 2
    consume_failed_msgs = TRUE
    LateStores = TRUE
    LostReads = TRUE
    MaxFaults = 1
    Docs <- MCDocs
    Unit <- MCUnit
SPECIFICATION FairSpec
INVARIANT EstimateInRange
INVARIANT MassConserved
PROPERTY ImplementsPushSum
PROPERTY AllFinish
