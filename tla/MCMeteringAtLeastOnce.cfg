CONSTANTS
  e1 = e1
  e2 = e2
  c1 = c1
  Events <- MCEvents
  Customers = {c1}
  CustomerOf <- MCCustomerOf
  Cost <- MCCost
  MaxCopies = 1
  Resends = 1
  MaxFaults = 1
  MaxRejoins = 0
SPECIFICATION Spec
INVARIANT
  AtLeastOnce
CHECK_DEADLOCK FALSE
