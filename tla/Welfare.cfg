CONSTANTS
  DIMENSIONS = {"hours", "tokens", "actions"}
  Kinds <- MCKinds
  Severities = {"info", "critical"}
  WELFARE_MIN_EVENTS = 2
  WELFARE_MIN_DIMENSIONS = 2
  WELFARE_MIN_SPAN_DAYS = 1
  WindowDays = 1
  MaxDay = 2
  MaxEvents = 3
SPECIFICATION Spec
CHECK_DEADLOCK FALSE
INVARIANTS
  TypeOK
  GradeIgnoresRowOrder
  EwmaIsAnAverage
  DaysMakeUpTheTotals
