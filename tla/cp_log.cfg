SPECIFICATION RunningSpec
CONSTANTS
    a1 = a1
    a2 = a2
    r1 = r1
    Nobody = Nobody
    Processes = {a1, a2, r1}
    Appenders = {a1, a2}
    Readers = {r1}
    Capacity = 2
    MaxAppends = 3
    MaxFaults = 2
    ReadsMayFail = TRUE
    Crashes = TRUE
    Paths <- UpTo3
    Entries <- UpTo3
INVARIANTS
    CheckpointTypeOK
    SegmentsFillInOrder
    AcknowledgedOnce
    SegmentsBounded
    SegmentLockUncontended
PROPERTIES
    ImplementsLog
    CallsEnd
