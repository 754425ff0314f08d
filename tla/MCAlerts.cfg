CONSTANTS
  a1 = a1
  a2 = a2
  a3 = a3
  Denials = {a1, a2, a3}
  MaxCopies = 2
  MaxFaults = 2
  MaxRejoins = 1
SPECIFICATION Spec
INVARIANTS
  TypeOK
  SilenceExplained
  RepeatsExplained
PROPERTIES
  HeardUnlessStruck
CHECK_DEADLOCK FALSE
