CONSTANTS
  r1 = r1
  r2 = r2
  r3 = r3
  c1 = c1
  Calls <- MCCalls
  Customers <- MCCustomers
  CustomerOf <- MCCustomerOf
  RateMax = 2
  Window = 2
  DefaultLimit = 1
  Limits = {}
  MaxCost = 0
  Resends = 1
  Horizon = 3
  MaxExtra = 0
SYMMETRY MCSymmetry
SPECIFICATION Spec
INVARIANTS
  RateCap
  NoFalseThrottle
CHECK_DEADLOCK FALSE
