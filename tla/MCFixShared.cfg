SPECIFICATION Spec
CONSTANTS
    Worlds <- MCShared
    MaxEdits = 0
INVARIANT FixesOnlyItsPackage
