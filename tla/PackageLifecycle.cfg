CONSTANTS
  Children = {1, 2}
  Policies <- MCPolicies
  MaxMoves = 5
SPECIFICATION Spec
INVARIANTS GrantHasLimit RemovesAlone
PROPERTIES RestoreBringsBack ErasesOnlyCleared StartsMigrated Settles
CHECK_DEADLOCK FALSE
