SPECIFICATION Spec
CHECK_DEADLOCK FALSE
CONSTANTS
  Base = 16
  Site <- Sites3
  MinCore = 4
  MaxCores = 2
  Request <- Doublings
  Null = Null
INVARIANTS
  ReallocKeepsContents
