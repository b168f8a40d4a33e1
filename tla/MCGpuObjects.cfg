\* Two blocking and one asynchronous request through two slots, over indirect
\* or direct descriptors; the other parts as the module says.
SPECIFICATION SumSpec
SYMMETRY ThreadSymmetry
CONSTANTS
    Parts = {"allocations", "vidpn", "cursor", "caps", "offsets", "slots"}
    NoValue = NoValue
    Unused = Unused
    o1 = o1
    o2 = o2
    o3 = o3
    o4 = o4
    o5 = o5
    t1 = t1
    t2 = t2
    Nothing = Nothing
    Blocking = {b1, b2}
    Async = {a1}
    SIZE = 2
INVARIANTS
    
    VidPnServed
    CursorShown
    AnswersAgree
    RegionsTile
    SlotsOwned
CHECK_DEADLOCK FALSE
