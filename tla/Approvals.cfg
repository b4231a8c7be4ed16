CONSTANTS
  Requests = {r1}
  Mutations = {m1, m2}
  Readers = {k1}
  NoOne = NoOne
  MaxTroubles = 2
  MaxReads = 2
SYMMETRY Symmetry
SPECIFICATION Spec
INVARIANTS
  TypeOK
  GrantIsReal
  UsedOnce
  RevocationStops
  LedgerAgrees
PROPERTY
  FinalStays
  KeepsApprovalPromise
CHECK_DEADLOCK FALSE
