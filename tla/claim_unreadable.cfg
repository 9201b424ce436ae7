SPECIFICATION Spec
CONSTANTS
    w1 = w1
    w2 = w2
    v1 = v1
    v2 = v2
    Nobody = Nobody
    Processes = {w1, w2, v1}
    Writers = {w1, w2}
    Viewers = {v1}
    Paths = {1}
    Entries = {1, 2}
    MaxFaults = 1
PROPERTY UnreadableIsCaught
