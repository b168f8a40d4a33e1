\* Four characters through a buffer of two; two receive buffers, three packets
\* and a runt, two sent; two event buffers, three events and one overlong; the
\* other parts as the module says.
CONSTANTS
    NoValue = NoValue
    Unused = Unused
    Input = 4
    Page = 2
    MaxOut = 1
    NetSize = 2
    TxSlots = {"first", "second"}
    Lengths = {5}
    MaxFrames = 3
    MaxRunts = 1
    MaxSends = 2
    EventSize = 2
    MaxEvents = 3
    MaxOverlong = 1
    Codes = {4097, 7}
    MaxQueries = 1
    Sizes = {8, 20, 129}
SPECIFICATION Spec
INVARIANTS
    
    
    OkMeansDone
    CharactersInOrder
    InputInOrder
    PacketsIntact
    ResourcesBacked
    DevicesReached
PROPERTIES
    OwnersProgress
CHECK_DEADLOCK FALSE
