\* A submission that times out while its fence is being signalled.
SPECIFICATION SumSpec
CONSTANTS
    Parts = {"fences"}
    NoRequest = NoRequest
    Producers = {p1, p2}
    FastCap = 2
    MaxPush = 3
    Callers = {c1, c2}
    HandlerThread = HandlerThread
    NoThread = NoThread
    MaxFence = 1
    MaxSubmit = 2
    MaxTimeout = 1
    Batches = {1, 2}
    Cmds = 3
    MayFail = TRUE
    SIZE = 1
    MaxRequests <- MCMaxRequests
    MaxEvents = 1
INVARIANTS
    ReadyNotKept
