CONSTANTS
  N = 2
  MaxTurns = 3
  MaxCommits = 2
  MaxCalls = 2
  MaxRecords = 7
  MaxTrouble = 2
SPECIFICATION Spec
INVARIANTS
  InOrderOnce
  ReportedIsValidated
  HistoryReadable
PROPERTY
  PromiseKept
CHECK_DEADLOCK FALSE
