\* Two producers of three requests over a ring of two; two callers, two virtio
\* fences, two WDDM fences and a timeout; two batches of three commands; one
\* slot per queue and one other event.
SPECIFICATION SumFairSpec
CONSTANTS
    Parts = {"channel", "fences", "batch", "handler"}
    NoRequest = NoRequest
    Producers = {p1, p2}
    FastCap = 2
    MaxPush = 3
    Callers = {c1, c2}
    HandlerThread = HandlerThread
    NoThread = NoThread
    MaxFence = 2
    MaxSubmit = 2
    MaxTimeout = 1
    Batches = {1, 2}
    Cmds = 3
    MayFail = TRUE
    SIZE = 1
    MaxRequests <- MCMaxRequests
    MaxEvents = 1
INVARIANTS
    NoLostWakeup
    NoWorkForgotten
    NotifiedOnce
    BatchOnce
PROPERTIES
    RefinesFairChannel
    
    QueueProgress
CHECK_DEADLOCK FALSE
