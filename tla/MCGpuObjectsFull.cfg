\* Direct descriptors run out before the slots do.
SPECIFICATION SumSpec
CONSTANTS
    Parts = {"slots"}
    NoValue = NoValue
    Unused = Unused
    o1 = o1
    o2 = o2
    o3 = o3
    o4 = o4
    o5 = o5
    t1 = t1
    t2 = t2
    Nothing = Nothing
    Blocking = {b1, b2}
    Async = {a1}
    SIZE = 2
INVARIANTS
    RequestsKept
CHECK_DEADLOCK FALSE
