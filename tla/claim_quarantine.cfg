SPECIFICATION Spec
CONSTANTS
    a1 = a1
    a2 = a2
    r1 = r1
    Nobody = Nobody
    Processes = {a1, a2, r1}
    Appenders = {a1, a2}
    Readers = {r1}
    Capacity = 2
    MaxAppends = 3
    MaxFaults = 1
    ReadsMayFail = FALSE
    Crashes = FALSE
    Paths <- UpTo3
    Entries <- UpTo3
INVARIANT OnlyCorruptIsQuarantined
