SPECIFICATION SharedSpec
CONSTANTS
  Thread = {t1, t2, t3}
  MaxApps = 2
  t1 = t1
  t2 = t2
  t3 = t3
  Listener = {l1, l2}
  Publication = {p1, p2, p3}
  l1 = l1
  l2 = l2
  p1 = p1
  p2 = p2
  p3 = p3
  Request = {r1, r2, r3}
  MaxVersion = 1
  r1 = r1
  r2 = r2
  r3 = r3
INVARIANTS
  OneInstance
  InstanceOfBuiltApp
  NotifiesThoseRegistered
  SameOrder
  CacheIsTransparent
  CounterOfRequests
PROPERTIES
  GetEnds
  PublicationEnds
CHECK_DEADLOCK FALSE
