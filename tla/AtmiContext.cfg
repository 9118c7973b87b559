SPECIFICATION Spec
CONSTANTS
  t1 = t1
  t2 = t2
  c1 = c1
  c2 = c2
  Threads = {t1, t2}
  Clients = {c1, c2}
  Users <- Shared
  Null = Null
  Invalid = Invalid
  Unset = Unset
  MaxFaults = 1
INVARIANTS
  FollowOwnSwitch
  CallsInOwnContext
  LifetimesMatch
  DestructorsQuiet
CHECK_DEADLOCK FALSE
