CONSTANT N = 3
CONSTANT Start <- MCStart
CONSTANT None = None
CONSTANT Rpc = {1, 2, 3, 4}
CONSTANT Host = {1, 2}
CONSTANT dest <- MCdest
CONSTANT CWIND_MULT = 1
CONSTANT MAX_REXMIT = 1
CONSTANT MaxWin = 3
CONSTANT MaxCalls = 3
CONSTANT STOPCOUNT = 2
CONSTANT Msg = {1, 2, 3, 4}
CONSTANT Kind <- MCKind
CONSTANT Parts = 2
CONSTANT MAXCONN = 1
CONSTANT MaxFd = 2
CONSTANT WriteErrors = TRUE
SPECIFICATION IoSpec
INVARIANT MassConserved
INVARIANT CallsRight
INVARIANT FdsRight
INVARIANT WindowRight
PROPERTY PhaseRespected
PROPERTY AllAnswered
CHECK_DEADLOCK FALSE
