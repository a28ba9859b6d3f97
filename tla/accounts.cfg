SPECIFICATION Spec
CONSTANTS
  NumReqs = 3
  Kinds <- Mixed
  Roles = {"admin", "viewer"}
  MaxUses = {0, 1, 2}
  LockAfter = 2
  MaxFailed = 3
INVARIANT InviteLedger
INVARIANT SomebodyRemains
INVARIANT LockIsEarned
\* When every request has ended nothing is left but time.
CHECK_DEADLOCK FALSE
