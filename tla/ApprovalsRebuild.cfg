CONSTANTS
  Requests = {r1}
  Mutations = {m1, m2}
  Readers = {k1}
  NoOne = NoOne
  MaxTroubles = 0
  MaxReads = 0
SYMMETRY Symmetry
SPECIFICATION Spec
INVARIANT
  RebuildsFromIssue
CHECK_DEADLOCK FALSE
