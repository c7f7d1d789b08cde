CONSTANTS
  Pillars = {"transparency", "fairness"}
  Others = {"welfare"}
  Retirable = "fairness"
  Severities = {"info", "critical"}
  PillarMinEvents = 3
  MinEvents = 3
  MinCategories = 2
  MinSpanDays = 1
  WindowDays = 1
  SlotsPerDay = 1
  MaxSlot = 2
  MaxEvents = 4
SPECIFICATION Spec
CHECK_DEADLOCK FALSE
INVARIANT ConfidentMeansQualified
