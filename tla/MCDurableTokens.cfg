SPECIFICATION Spec
CONSTANTS
  Tasks = {t1, t2, t3}
  Codes = {c1, c2}
  Grants = {g1, g2, g3, g4}
  DcrClients = {}
  Principals = {}
  SessionIds = {}
  None = None
  Durable = TRUE
  CodeTTL = 1
  AccessTTL = 2
  RefreshTTL = 3
  ClientTTL = 1
  MaxCodes = 1
  MaxAccess = 2
  MaxRefresh = 2
  MaxClients = 1
  MaxSessions = 1
  MaxTime = 4
SYMMETRY Symmetry
INVARIANTS
  TypeOK
  SpentIsGone
  OneWinner
  VisibleIsCommitted
  Bounded
PROPERTIES
  CredentialsLeaveOnlyFor
  ImplementsLedger
