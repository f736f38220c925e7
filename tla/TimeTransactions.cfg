SPECIFICATION Spec
CONSTANTS
  a = a
  b = b
  Apps = {}
  Policies <- NoPolicies
  DailyLimits = {0, 2}
  Additions = {0, 1}
  Used = 1
  Midnight = 2
  MaxTime = 1
  MaxDuration = 3
  Operations = {"approve", "enable", "disable", "revoke", "setPreferences"}
  LateFaults <- CoveredFaults
INVARIANTS NativeSafe BridgeIsFullDay NoTransientLockout AllOrNothing Settled ApprovalHonoured
PROPERTY LockReleased
