CONSTANTS
  Workers = {w1, w2}
  Refs = {r1}
  Decisions <- AllDecisions
  SLA_BUSINESS_DAYS = 5
  SlotsPerDay = 2
  FirstWeekday = 3
  MaxSlot = 13
  NotFiled = NotFiled
  NoRef = NoRef
SPECIFICATION Spec
SYMMETRY Symmetry
INVARIANTS
  TypeOK
  DecisionsAreAveraged
  SlaIsBusinessDays
  OvertakenOnlyOnTheWeekend
PROPERTY ImplementsLedger
