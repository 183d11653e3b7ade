SPECIFICATION PolledSpec
CONSTANTS
  Calls = {c1}
  Stranger = other
  Pids = {p1, p2, p3}
  Limit = 1
  PipeSize = 2
  MaxSent = 5
  None = None
INVARIANTS
  TypeOK
  UnmarkedIsComplete
  OnlyOwnProcesses
  GroupIsGone
  ScriptIsHeld
PROPERTIES
  EveryCallEnds
  OutputNeverBlocks
