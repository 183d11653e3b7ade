SPECIFICATION FairSpec
CONSTANTS
  Requests = {r1, r2, r3}
  Prewarm = p
  Workers = {w1, w2}
  MaxId = 2
  None = None
INVARIANTS
  TypeOK
  SlotIsQuiescent
  AnswersAreOwn
  NoOrphan
PROPERTIES
  MutexIsHandedOn
  ShutdownEnds
