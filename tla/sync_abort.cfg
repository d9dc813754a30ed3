SPECIFICATION Spec
CONSTANT DiskKeys = {0, 1, 2, 9}
CONSTANT MaxOps = 7
CONSTANT Keys = {1, 3, 6, 20, 40}
CONSTANT MaxChange = 0
CONSTANT MaxFail = 0
CONSTANT MaxLate = 0
CONSTANT NBIT = 3
CONSTANT DbKeys = {1, 4}
CONSTANT Versions = {1, 2}
CONSTANT MaxCalls = 4
CONSTANT MaxStop = 2
CONSTANT IDBIT = 4
CONSTANT BlockKeys = {3, 6}
CONSTANT Pred = 1
CONSTANT Self = 10
CONSTANT Kinds = {"chash", "keyhash", "noauth"}
CONSTANT NSUCC = 2
CONSTANT DFRAGS = 2
CONSTANT EFRAGS = 3
CONSTANT NREPLICA = 2
CONSTANT NVERSION = 2
CONSTANT OUTSTANDING_MAX = 1
CONSTANT QUEUE_MAX = 1
CONSTANT MaxAsk = 1
CONSTANT MaxFault = 1
INVARIANT NoAssertionFails
CHECK_DEADLOCK FALSE
