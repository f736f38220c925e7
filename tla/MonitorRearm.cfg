CONSTANTS
  Interval = 1
  MaxLevel = 1
  MaxMoves = 2
SPECIFICATION Spec
INVARIANT RecoveryLiftsHold
CHECK_DEADLOCK FALSE
