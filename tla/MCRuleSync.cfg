CONSTANTS
    Proc = {p1, p2}
    MaxVersion = 2
    Interval = 2
    Mirror = FALSE
    InsecureSkipSignature = FALSE

SPECIFICATION Spec
SYMMETRY Symmetry

INVARIANT OnlyGenuine
INVARIANT PointerFollowsInstall
PROPERTY AutoMovesForward
PROPERTY Throttled
