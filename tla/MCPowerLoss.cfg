SPECIFICATION PowerSpec
CONSTANTS
  Tasks = {t1}
  Codes = {c1}
  Grants = {g1, g2, g3}
  DcrClients = {}
  Principals = {}
  SessionIds = {}
  None = None
  Durable = TRUE
  CodeTTL = 2
  AccessTTL = 2
  RefreshTTL = 3
  ClientTTL = 1
  MaxCodes = 1
  MaxAccess = 2
  MaxRefresh = 1
  MaxClients = 1
  MaxSessions = 1
  MaxTime = 2
INVARIANT ConsumedIsNotReused
