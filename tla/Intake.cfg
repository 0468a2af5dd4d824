\* Two payments, one of them without an id, against a campaign being loaded.
SPECIFICATION Spec
CONSTANTS
  p1 = p1
  Null = Null
  Campaigns = {c1}
  Payments = {p1, p2}
  Unnamed = {p2}
  Batches <- MCBatches
  Handlers = {h1, h2}
  MaxFaults = 1
CHECK_DEADLOCK FALSE
INVARIANTS
  TypeOK
  OneSessionPerPayment
  TotalExactUnlessTorn
PROPERTIES
  AckedIsQueued
  EveryFailureSettled
