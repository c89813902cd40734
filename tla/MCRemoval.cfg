SPECIFICATION FairSpec
CONSTANTS
  Users = {u1}
  NoUser = none
  MaxAvatars = 1
  Truncated <- NoTruncated
  Faults = {"db", "commit", "s3", "cancel", "crash"}
  MaxFaults = 1
  Requests = {r1, r2}
  Attempts = 2
  PublishAttempts = 2
  OutboxLimit = 1
  StuckLimit = 1
INVARIANTS
  ClaimExclusive
  DeleteNotLost
  DeletionComplete
PROPERTIES
  ImplementsLifecycle
  CompletedStable
  EventuallyRemoved
