SPECIFICATION Spec
CONSTANTS
  Tasks = {t1, t2}
  Urls = {u1}
  DcrIds = {d1}
  CacheTTL = 2
  FetchTime = 1
  ClientTTL = 2
  MaxClients = 1
  MaxVersion = 2
  MaxTime = 4
  None = None
SYMMETRY Symmetry
INVARIANTS
  TypeOK
  StalenessBounded
PROPERTIES
  OnlyExpiredLeaves
