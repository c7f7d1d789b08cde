CONSTANTS
  Workers = {w1}
  Visited = {"mood_journal", "wtf_agents", "welfare"}
  TTL <- MCTTL
  Horizon = 4
SPECIFICATION FairSpec
INVARIANTS
  TypeOK
  UsableIsFresh
PROPERTIES
  NeverGoesBack
  OutagesAreForgotten
