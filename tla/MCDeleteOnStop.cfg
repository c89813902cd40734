SPECIFICATION Spec
CONSTANTS
  Users = {u1}
  NoUser = none
  MaxAvatars = 1
  Truncated <- NoTruncated
  Faults = {"stop"}
  MaxFaults = 1
  Requests = {r1, r2}
  Attempts = 2
  PublishAttempts = 2
  OutboxLimit = 1
  StuckLimit = 1
SYMMETRY Symmetry
INVARIANTS
  DeleteNotLost
