SPECIFICATION Spec
CONSTANTS
  a = a
  b = b
  Apps = {a, b}
  Policies <- MixedPolicies
  DailyLimits = {0}
  Additions = {1}
  Used = 0
  Midnight = 2
  MaxTime = 1
  MaxDuration = 1
  Operations = {"approve", "setPreferences", "prepare"}
  LateFaults <- AllLateFaults
INVARIANT SessionRollsBack
