CONSTANTS
    Path <- MCPath
    Images <- MCImages
    Size = {1, 2, 4}
    MaxMemPerFile = 1
    MaxDiskPerFile = 3
    MemBudget = 1
    DiskBudget = 2
    None = None

SPECIFICATION Spec
CHECK_DEADLOCK FALSE

INVARIANT KeptIsVisible
INVARIANT NothingLost
INVARIANT BudgetsHonoured
