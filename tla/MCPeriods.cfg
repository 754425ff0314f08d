CONSTANTS
  e1 = e1
  e2 = e2
  x1 = x1
  x2 = x2
  Events = {e1, e2}
  Exports = {x1, x2}
  Cost <- MCCost
  MonthLength = 2
  SpendTTL = 3
  Resends = 1
  Horizon = 5
CONSTRAINT MCBound
SYMMETRY MCSymmetry
SPECIFICATION Spec
INVARIANTS
  TypeOK
  RunningCounterComplete
  NoCarryOver
  BilledOncePerExport
PROPERTIES
  ExportCoversCounter
CHECK_DEADLOCK FALSE
