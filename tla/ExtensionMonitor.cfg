CONSTANTS
  Interval = 2
  MaxLevel = 1
  MaxMoves = 1
SPECIFICATION Spec
INVARIANTS ActsOnFreshObservation FaultEndsRecovery CrashSwitchKept
PROPERTIES ProbesSpaced AttemptsSettle  FaultReported ShutdownEnds
CHECK_DEADLOCK FALSE
