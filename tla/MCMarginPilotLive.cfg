CONSTANTS
  q1 = q1
  q2 = q2
  c1 = c1
  p1 = p1
  p2 = p2
  Requests <- MCRequests
  Customers = {c1}
  CustomerOf <- MCCustomerOf
  Prompts <- MCPrompts
  PromptOf <- MCSamePrompt
  Guard <- MCGuard
  Fingerprint <- MCFingerprint
  Nothing = Nothing
  RateMax = 2
  Window = 1
  DefaultLimit = 1
  Limits = {}
  Horizon = 0
  PriceOf <- MCPrice
  MaxCopies = 1
  MaxDrops = 0
  MaxFaults = 1
  MaxRejoins = 0
  Resends = 0
SPECIFICATION FairSpec
PROPERTIES
  EventuallyEnforced
  EveryRequestAnswered
CHECK_DEADLOCK FALSE
