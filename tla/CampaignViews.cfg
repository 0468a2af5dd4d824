\* Two customers of one campaign, the second rescheduled by hand at will, and an
\* operator who looks.
SPECIFICATION ViewSpec
CONSTANTS
  Null = Null
  Sessions = {s1, s2}
  Calls = {c1, c2}
  Links = {l1, l2}
  Handlers = {h1, h2}
  MaxRequests = 4
  PromiseDates <- MCPromiseDates
  HandEdited = {s2}
  MaxContactAttempts = 2
  FollowUpCooldown = 1
  LinkValidity = 1
  Horizon = 1
SYMMETRY Symmetry
\* Every request has been served.
CHECK_DEADLOCK FALSE
INVARIANTS
  NeverOverstated
PROPERTIES
  ImplementsPolicy
  ClosedForGood
