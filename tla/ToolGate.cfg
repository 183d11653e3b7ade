SPECIFICATION FairSpec
CONSTANTS
  Callers = {c1, c2, c3, c4, c5}
  Concurrency = 1
INVARIANTS
  PermitsConserved
  NobodyWaitsForFreeSlot
PROPERTIES
  EveryCallEnds
