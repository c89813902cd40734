SPECIFICATION FairSpec
CONSTANTS
  Users = {u1}
  NoUser = none
  MaxAvatars = 1
  Truncated <- NoTruncated
  Faults = {"db", "commit", "s3", "kafka", "cancel", "crash", "stop", "slow"}
  MaxFaults = 2
  Requests = {r1}
  Attempts = 2
  PublishAttempts = 2
  OutboxLimit = 1
  StuckLimit = 1
PROPERTIES
  ImplementsLifecycle
  EventuallyCompleted
