SPECIFICATION StatusSpec
CONSTANTS
    w1 = w1
    w2 = w2
    v1 = v1
    Nobody = Nobody
    Processes = {w1, w2, v1}
    Writers = {w1, w2}
    Viewers = {v1}
    Paths = {1}
    Entries <- UpTo2
    MaxFaults = 1
    MaxCheckpoints = 2
SYMMETRY WriterSymmetry
INVARIANTS HeartbeatFileTypeOK UpdatesExclude StatusNeverBehind
PROPERTY HeartbeatStaysReadable
