SPECIFICATION DhashSpec
CONSTANT MAXENTRIES = 2
CONSTANT Req <- MCReq
CONSTANT Op <- MCOp
CONSTANT Workloads <- MCWorkloads
CONSTANT Key <- MCKey
CONSTANT Poly = {1, 2, 3}
CONSTANT Writer = {1, 2}
CONSTANT Length <- MCLength
CONSTANT mtu = 2
CONSTANT DFRAGS = 2
CONSTANT NSUCC = 3
CONSTANT CHUNKS = 2
CONSTANT MaxFailures = 1
CONSTANT Modes = {"blocks", "chunks", "psi", "retrieve"}
INVARIANT BlocksRight
INVARIANT ChunksRight
INVARIANT NothingLost
INVARIANT Findable
INVARIANT RetrieveRight
PROPERTY StoresAtomic
PROPERTY StepsRight
PROPERTY AllEnd
CHECK_DEADLOCK FALSE
