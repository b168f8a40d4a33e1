\* Two fences completed in any order by three threads, one preemption and one
\* query racing them; every fence and the preemption are answered.
SPECIFICATION FairSpec
CONSTANTS
    handler = handler
    caller1 = caller1
    caller2 = caller2
    NoThread = NoThread
    Threads <- MCThreads
    Callers <- MCCallers
    U32 = 5
    MaxSubmit = 2
    MaxQueued = 3
    MaxPreempt = 1
    MaxQuery = 1
INVARIANTS
    IndInv
    CompletionsInOrder
    NoMissedFence
    ReportsComplete
PROPERTIES
    CompletedAdvances
    RefinesService
    EverythingReported
CHECK_DEADLOCK FALSE
