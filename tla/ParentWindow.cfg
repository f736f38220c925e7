SPECIFICATION Spec
CONSTANTS
  a1 = a1
  a2 = a2
  Children = {1, 2}
  NoChild = none
  Presets = {30}
  Typed = {47}
  Custom = custom
  Invalid = invalid
  Apps <- MCApps
  Initial <- MCInitial
  Retries = 1
  MaxSelections = 2
  MaxEdits = 2
  MaxTroubles = 1
INVARIANTS SavesInOrder ControlsConfirmed NeverFrozen StatusCurrent
CHECK_DEADLOCK FALSE
PROPERTY ScreenSettles
