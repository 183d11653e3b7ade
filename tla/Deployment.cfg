SPECIFICATION Spec
CONSTANTS
  Runs = {r1, r2, r3}
  Inside = {r1, r2}
  MaxCommit = 3
  Waiting = Waiting
  Partial = Partial
  None = None
INVARIANT
  NothingIsLost
PROPERTIES
  DeploymentIsAtomic
