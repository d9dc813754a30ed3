CONSTANTS
    a = a
    b = b
    Dummy = Dummy
    Hold = Hold
    Holders = {Hold}
    Sig = {a, b}
    N = 3
    K = 2
    rounds = 1
    consume_failed_msgs <- MCConsume
    LateLoad = {1, 2}
    NumPut = 2
    LateStores = TRUE
    MaxFaults = 2
    TeamIDs <- MCTeamIDs
    RingIDs <- MCRingIDs
    Todo <- MCTodo
    InitPut = 2
    MaxCopies = 1
    Freq <- MCFreq
    killround <- KillTwo
    Unit <- MCUnit
SPECIFICATION MCSpec
INVARIANT EstimateInRange
INVARIANT MassConserved
INVARIANT InitRight
PROPERTY ImplementsPushSum
PROPERTY AllFinish
