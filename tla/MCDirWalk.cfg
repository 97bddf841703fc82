CONSTANTS
    Trees <- MCTrees
    defaultIgnoreLines <- MCDefault
    IgnoreGlobs <- MCGlobs
    Worker = {w1, w2}
    Pull = {q}
    Globs = {"f"}
    MaxGone = 1

SYMMETRY MCSymmetry
SPECIFICATION Spec
CHECK_DEADLOCK FALSE

INVARIANT WalkIsExact
INVARIANT ResolverAgrees
