CONSTANTS
  Sources = 3
  Patterns = {2}
  Accounts = {{1, 2}, {3}}
  Own = {1, 2}
  EarlyGuards = FALSE
  MaxTroubles = 2
SPECIFICATION Spec
INVARIANTS NotifiedIsLoaded NoGap ServesFresh
PROPERTIES SaveLoaded Converges
CHECK_DEADLOCK FALSE
