CONSTANTS
  q1 = q1
  q2 = q2
  c1 = c1
  p1 = p1
  p2 = p2
  Requests <- MCRequests
  Customers = {c1}
  CustomerOf <- MCCustomerOf
  Prompts <- MCPrompts
  PromptOf <- MCSamePrompt
  Guard <- MCGuard
  Fingerprint <- MCFingerprint
  Nothing = Nothing
  RateMax = 2
  Window = 2
  DefaultLimit = 1
  Limits = {2}
  Horizon = 1
  PriceOf <- MCPrice
  MaxCopies = 1
  MaxDrops = 1
  MaxFaults = 1
  MaxRejoins = 1
  Resends = 0
SYMMETRY MCSymmetry
CONSTRAINT MCBound
SPECIFICATION Spec
INVARIANTS
  UnmeteredBounded
  SpendBackedByRows
PROPERTIES
  BudgetSpec
CHECK_DEADLOCK FALSE
