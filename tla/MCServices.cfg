CONSTANTS
  mini = mini
  echo = echo
  dflt = dflt
  other = other
  k1 = k1
  k2 = k2
  k3 = k3
  t1 = t1
  t2 = t2
  c1 = c1
  c2 = c2
  Keys = {mini, echo, dflt}
  SeedRows <- MCSeedRows
  StopAtError = TRUE
  Attempts = 2
  MaxStops = 1
  MaxOutages = 1
  MaxRevision = 1
  MaxDeletes = 1
  Models = {mini, echo, other}
  Default = dflt
  Rates <- MCRates
  Tokens = {1, 6}
  VirtualKeys = {k1, k2, k3}
  DemoKeys <- MCDemoKeys
  NoKey = NoKey
  Rounds = 2
  Subscriptions <- MCSubs
  DemoSubscriptions <- MCDemoSubs
  Accounts <- MCAccounts
  All = All
  MaxUsage = 1
  Costs = {0, 1, 3}
  MaxSpend = 3
  MaxDays = 13
SPECIFICATION ServicesSpec
CONSTRAINT MCBound
INVARIANTS
  AllTypesOK
  AllServeTheirSeed
  NoSilentDefault
  PricersAgree
  KnownUnlessMissed
  WarmMeansUsable
  LinesBracketed
  SubscribersSeen
  SpikesTakeElevenDays
PROPERTIES
  RevisionsKept
  ServesAgain
  PriceEnds
CHECK_DEADLOCK FALSE
