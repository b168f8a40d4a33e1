\* A driver that reads the suppression before its index is visible to the device.
SPECIFICATION Spec
CONSTANTS
    SIZE = 2
    IDX = 4
    Requests = {r1, r2}
    None = None
INVARIANTS NoMissedKick
CHECK_DEADLOCK FALSE
