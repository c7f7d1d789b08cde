CONSTANTS
  Events = {e1}
  Workers = {w1, w2}
  NoEvent = NoEvent
  MaxTries = 1
  PgHost = TRUE
SPECIFICATION Spec
INVARIANT PgScoresAreInstituteOnly
