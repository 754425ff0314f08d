CONSTANTS
  r1 = r1
  r2 = r2
  r3 = r3
  c1 = c1
  Calls <- MCCalls
  Customers <- MCCustomers
  CustomerOf <- MCCustomerOf
  RateMax = 2
  Window = 1
  DefaultLimit = 1
  Limits <- MCLimits
  MaxCost = 2
  Resends = 0
  Horizon = 0
  MaxExtra = 1
SYMMETRY MCSymmetry
SPECIFICATION Spec
INVARIANTS
  TypeOK
  OverspendBounded
PROPERTIES
  GrantWasAffordable
CHECK_DEADLOCK FALSE
