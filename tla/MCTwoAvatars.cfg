SPECIFICATION Spec
CONSTANTS
  Users = {u1, u2}
  NoUser = none
  MaxAvatars = 2
  Truncated <- FirstTruncated
  Faults = {}
  MaxFaults = 0
  Requests = {r1, r2}
  Attempts = 2
  PublishAttempts = 2
  OutboxLimit = 2
  StuckLimit = 1
SYMMETRY Symmetry
INVARIANTS
  ClaimExclusive
  DeleteNotLost
  UsageMatchesRows
