\* Two requests racing to end one call both record an outcome.
SPECIFICATION Spec
CONSTANTS
  Null = Null
  Sessions = {s1}
  Calls = {c1, c2}
  Links = {l1, l2}
  Handlers = {h1, h2}
  MaxRequests = 4
  PromiseDates <- MCPromiseDates
  HandEdited = {}
  MaxContactAttempts = 2
  FollowUpCooldown = 2
  LinkValidity = 2
  Horizon = 3
CHECK_DEADLOCK FALSE
PROPERTY
  RaceLoserRejected
