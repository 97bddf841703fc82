SPECIFICATION FairSpec
CONSTANTS
    Worlds <- MCWorlds
    MaxEdits = 1
INVARIANT FixesOnlyItsPackage
INVARIANT BlameHasGrounds
INVARIANT RevertRestores
PROPERTY UnattendedEnds
