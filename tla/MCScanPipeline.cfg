CONSTANTS
    File = {f1, f2, f3}
    Worker = {w1, w2}
    TaskCap = 1
    ResultCap = 1
    WalkFan = 2
    Projects = 2
    NoFile = NoFile

SPECIFICATION FairSpec

INVARIANT NoSendOnClosed
INVARIANT PhaseBarrier
PROPERTY ImplementsContract
PROPERTY EveryScanReturns
