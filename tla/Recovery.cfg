\* One customer never rescheduled by hand: six requests, two at a time.
SPECIFICATION Spec
CONSTANTS
  Null = Null
  Sessions = {s1}
  Calls = {c1, c2}
  Links = {l1, l2}
  Handlers = {h1, h2}
  MaxRequests = 6
  PromiseDates <- MCPromiseDates
  HandEdited = {}
  MaxContactAttempts = 2
  FollowUpCooldown = 2
  LinkValidity = 2
  Horizon = 3
SYMMETRY Symmetry
CHECK_DEADLOCK FALSE
INVARIANTS
  TypeOK
  OneOutcomePerContact
  CapturedOnce
  AckedIsRecovered
  NoCallWhileLinkLive
  TrailMatchesStatus
