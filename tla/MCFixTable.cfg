SPECIFICATION TableSpec
CONSTANTS
  Targets <- MCTargets
  Sizes <- MCSizes
  MaxFailed = 2
CHECK_DEADLOCK FALSE
INVARIANTS FrameFits
PROPERTIES ActsOnTheShown
