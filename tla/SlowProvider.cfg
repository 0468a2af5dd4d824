\* The gateway gives up a report while the provider is still answering it.
SPECIFICATION Spec
CONSTANTS
  Links = {l1, l2}
  GatewayTimeout = 2
  ProviderTimeout = 4
  MaxFaults = 1
  Null = Null
\* A call that is over and reported by hand is over.
CHECK_DEADLOCK FALSE
INVARIANT
  SlowAnswerDelays
