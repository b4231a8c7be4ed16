SPECIFICATION Spec
CONSTANTS
  Publication = Publication
  Record = Record
  Publisher1 = Publisher1
  Publisher2 = Publisher2
  Runtime = Runtime
  Request1 = Request1
  Request2 = Request2
  Process = Process
  None = None
  Effects = {Record}
  PublisherEffects = {}
  Workers = {Runtime, Request1}
  Owners = {Runtime, Process}
  OwnerOf <- ProcessOwner
  Adapters <- AllAdapters
  Polling = {Runtime}
  LeaseTime = 2
  Grace = 1
  BaseRetry = 1
  MaxRetry = 1
  MaxAttempts = 2
  MaxCrashes = 1
  MaxStalls = 1
  MaxMeddles = 1
  MaxRepairs = 0
PROPERTY FencedOwnerStopsApplying
CHECK_DEADLOCK FALSE
