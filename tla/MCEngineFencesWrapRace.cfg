\* Fence numbers wrap around while a single fence is outstanding.
SPECIFICATION Spec
CONSTANTS
    handler = handler
    caller1 = caller1
    caller2 = caller2
    NoThread = NoThread
    Threads <- MCThreads
    Callers <- MCCallers
    U32 = 3
    MaxSubmit = 5
    MaxQueued = 1
    MaxPreempt = 1
    MaxQuery = 1
SYMMETRY MCSymmetry
INVARIANTS
    NoMissedFence
CHECK_DEADLOCK FALSE
