SPECIFICATION FairSpec
CONSTANTS
  Tasks = {t1, t2}
  Codes = {c1}
  Grants = {g1}
  DcrClients = {d1}
  Principals = {p1}
  SessionIds = {s1, s2, s3}
  None = None
  Durable = TRUE
  CodeTTL = 1
  AccessTTL = 1
  RefreshTTL = 2
  ClientTTL = 1
  MaxCodes = 1
  MaxAccess = 1
  MaxRefresh = 1
  MaxClients = 1
  MaxSessions = 2
  MaxTime = 2
INVARIANTS
  MemoryMatchesDisk
PROPERTIES
  OwnershipIsKept
  EveryTaskEnds
