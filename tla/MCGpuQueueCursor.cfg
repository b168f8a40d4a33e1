\* The smallest instance in which a cursor request is sent.
SPECIFICATION SumSpec
CONSTANTS
    Parts = {"handler"}
    NoRequest = NoRequest
    Producers = {p1, p2}
    FastCap = 2
    MaxPush = 3
    Callers = {c1, c2}
    HandlerThread = HandlerThread
    NoThread = NoThread
    MaxFence = 2
    MaxSubmit = 2
    MaxTimeout = 1
    Batches = {1, 2}
    Cmds = 3
    MayFail = TRUE
    SIZE = 1
    MaxRequests <- MCMaxRequests
    MaxEvents = 0
INVARIANTS
    CursorRequestsSent
CHECK_DEADLOCK FALSE
