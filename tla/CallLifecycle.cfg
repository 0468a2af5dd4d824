\* One call and an operator, one failure of the store and one of the provider.
SPECIFICATION Spec
CONSTANTS
  Links = {l1, l2}
  GatewayTimeout = 2
  ProviderTimeout = 4
  MaxFaults = 1
  Null = Null
\* A call that is over and reported by hand is over.
CHECK_DEADLOCK FALSE
INVARIANTS
  TypeOK
  NoSilentLoss
  LinksAccounted
PROPERTY
  NobodyWaitsForEver
