\* Two requests through two descriptors, indices that wrap at 4.
SPECIFICATION Spec
CONSTANTS
    SIZE = 2
    IDX = 4
    Requests = {r1, r2}
    None = None
INVARIANTS
    DescriptorsPartitioned
    DeviceSeesRequests
PROPERTY
    EveryRequestPopped
CHECK_DEADLOCK FALSE
