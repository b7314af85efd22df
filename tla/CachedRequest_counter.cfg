SPECIFICATION CacheSpec
CONSTANTS
  Request = {r1, r2, r3}
  MaxVersion = 1
  r1 = r1
  r2 = r2
  r3 = r3
SYMMETRY Symmetry
INVARIANT CountsActiveRequests
CHECK_DEADLOCK FALSE
