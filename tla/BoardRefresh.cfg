SPECIFICATION Spec
CONSTANTS
  Session = Session
  Ready = Ready
  RepairRequired = RepairRequired
  Resources = {Session}
  Contents = {Ready, RepairRequired}
  Initial = Ready
  MaxEvents = 2
  MaxCommits = 3
  BatchSize = 2
  MaxWire = 1
  MaxDrops = 1
  MaxFailures = 1
  MaxRefreshes = 1
INVARIANT PageIsCurrent
CHECK_DEADLOCK FALSE
