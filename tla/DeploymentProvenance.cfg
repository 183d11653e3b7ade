SPECIFICATION Spec
CONSTANTS
  Runs = {r1, r2}
  Inside = {r1}
  MaxCommit = 3
  Waiting = Waiting
  Partial = Partial
  None = None
INVARIANT SuccessIsExpectedCommit
