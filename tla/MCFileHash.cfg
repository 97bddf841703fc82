CONSTANTS
    Client = {w1, w2}
    Budget = 2
    Entry <- MCEntry
    Detectors = 2
    Cap = 3
    GateMin = 1
    PoolSize = 1
    Buffer = {b1, b2}
    HeadSize = 1
    MaxLen = 4
    None = None

SPECIFICATION Spec

INVARIANT HashCoversFile
