SPECIFICATION Spec
CONSTANTS
  Publication = Publication
  Record = Record
  Publisher1 = Publisher1
  Publisher2 = Publisher2
  Runtime = Runtime
  Request1 = Request1
  Request2 = Request2
  Process = Process
  None = None
  Effects = {Publication}
  PublisherEffects = {Publication}
  Workers = {Publisher1, Publisher2}
  Owners = {Publisher1, Publisher2}
  OwnerOf <- PublisherOwner
  Adapters <- AllAdapters
  Polling = {}
  LeaseTime = 1
  Grace = 0
  BaseRetry = 1
  MaxRetry = 1
  MaxAttempts = 2
  MaxCrashes = 1
  MaxStalls = 1
  MaxMeddles = 1
  MaxRepairs = 1
INVARIANTS
  TypeOK
  OneOpenAttempt
  PublishedAtMostOnce
  AbortedNeverPublished
  NoForeignPublication
  UncertainCallIsReported
  LateSuccessIsReported
  RetryBudget
PROPERTIES
  SuccessIsFinal
  KeepsPromise
SYMMETRY PublisherSymmetry
CHECK_DEADLOCK FALSE
