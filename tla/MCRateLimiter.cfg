SPECIFICATION LimiterSpec
CONSTANTS
  Tasks = {t1, t2}
  Sources = {s1, s2}
  Users = {u1}
  Base = 1
  UserFactor = 2
  GlobalFactor = 2
  Window = 2
  MaxBuckets = 4
  MaxTime = 3
  None = None
SYMMETRY Symmetry
INVARIANTS
  LimiterTypeOK
  ThrottleIsExact
PROPERTY
  BucketsLeaveOnlyFor
