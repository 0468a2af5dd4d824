\* A file of any age, opened, served and opened again after the process died.
SPECIFICATION Spec
CONSTANTS
  Sessions = {s1, s2}
  Calls = {c1}
  Payments = {p1}
  Links = {l1, l2}
  MaxCrashes = 2
  Null = Null
\* A file that is refused is refused for ever, or all is written.
CHECK_DEADLOCK FALSE
INVARIANTS
  TypeOK
  FreshStoreIsGuarded
PROPERTIES
  IndexedAsFarAsPossible
  OpensEventually
