CONSTANTS
  N = 1
  MaxTurns = 3
  MaxCommits = 1
  MaxCalls = 1
  MaxRecords = 4
  MaxTrouble = 2
SPECIFICATION Spec
INVARIANT
  LaterTurnCollects
CHECK_DEADLOCK FALSE
