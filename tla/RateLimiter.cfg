CONSTANTS
  Clients = {c1, c2}
  Workers = {w1, w2}
  Limit = 2
  Window = 2
  MaxBuckets = 1
  Replaced = {r1}
SPECIFICATION FairSpec
INVARIANTS
  TypeOK
  WindowBound
  HitsAreTheWindow
PROPERTY
  EventuallyAdmitted
