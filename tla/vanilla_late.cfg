CONSTANTS
    a = a
    b = b
    Dummy = Dummy
    Holders = {}
    Sig = {a, b}
    N = 2
    rounds = 2
    NumPut = 1
    consume_failed_msgs = TRUE
    LateStores = TRUE
    LostReads = FALSE
    MaxFaults = 1
    Docs <- MCDocs
    Unit <- MCUnit
SPECIFICATION Spec
INVARIANT MassPreserved
