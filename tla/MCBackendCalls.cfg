SPECIFICATION FairSpec
CONSTANTS
  None = None
  Environments <- MCEnvironments
  Requests <- MCRequests
  Calls = {c1, c2}
  Principals = {"alice", "user-3", "default", "local"}
  SessionIds = {s1, s2}
  Slots = 1
  Replies <- SomeReplies
  Limits <- MCLimits
INVARIANTS
  OnlyCreatorPrompts
  OwnershipBeforeUse
  StartedSafely
  AnswersAreExact
PROPERTIES
  QueuedCallsEnd
