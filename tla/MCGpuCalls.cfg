\* Two threads and three identifiers, so that the counter reaches its end, with
\* a creation that times out and a transfer that fails; the other parts as the
\* module says.
CONSTANTS
    NoValue = NoValue
    Unused = Unused
    o1 = o1
    o2 = o2
    o3 = o3
    Threads = {t1, t2}
    MAX = 4
    RaceAtEnd = FALSE
    MaxTimeout = 1
    MaxTransferErr = 1
    UserBatches = {"b1", "b2"}
    Callers = {"c1", "c2"}
    Files = {"f1", "f2"}
    NoFile = NoFile
    Tasks <- BusyTasks
SPECIFICATION Spec
INVARIANTS
    
    
    ScreenStaysLit
    EscapesAnswered
    IdleSignalled
    ModesMeant
    IdsOwned

    
CHECK_DEADLOCK FALSE
