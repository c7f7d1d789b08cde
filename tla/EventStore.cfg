CONSTANTS
  Events = {e1}
  Workers = {w1, w2}
  NoEvent = NoEvent
  MaxTries = 2
  PgHost = TRUE
SPECIFICATION FairSpec
INVARIANTS
  TypeOK
  FeedIsolation
  CopiesBounded
PROPERTIES
  FeedRecovers
  ImplementsLedger
