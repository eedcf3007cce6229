SPECIFICATION Spec
CONSTANTS
  s1 = s1  s2 = s2  s3 = s3
  r1 = r1  r2 = r2
  t1 = t1  t2 = t2
  k1 = k1  k2 = k2
  Sessions = {s1, s2, s3}
  Requests = {r1, r2}
  Targets = {t1, t2}
  Keys = {k1, k2}
  NoKey = NoKey
  NoTarget = NoTarget
SYMMETRY Interchangeable
INVARIANTS KeysRouteHome NoOrphanRoutes
PROPERTIES CancelReachesOwner
CHECK_DEADLOCK FALSE
