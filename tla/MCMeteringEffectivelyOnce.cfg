CONSTANTS
  e1 = e1
  e2 = e2
  c1 = c1
  Events <- MCEvents
  Customers = {c1}
  CustomerOf <- MCCustomerOf
  Cost <- MCCost
  MaxCopies = 2
  Resends = 1
  MaxFaults = 0
  MaxRejoins = 1
SPECIFICATION Spec
INVARIANT
  EffectivelyOnce
CHECK_DEADLOCK FALSE
