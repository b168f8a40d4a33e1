\* A page table completed by a call that was given too small a buffer.
CONSTANTS
    Allocs = {a, b}
    Blobs = {b}
    Coherent = {a}
    Pages = 3
    Bufs = {m1}
    Spaces = {1, 3}
    MaxFence = 2
SPECIFICATION Spec
INVARIANT AttachNotLost
CHECK_DEADLOCK FALSE
