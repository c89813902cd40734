SPECIFICATION FairSpec
CONSTANTS
  Users = {u1}
  NoUser = none
  MaxAvatars = 1
  Truncated <- NoTruncated
  Faults = {"slow", "s3"}
  MaxFaults = 2
  Requests = {r1, r2}
  Attempts = 2
  PublishAttempts = 2
  OutboxLimit = 1
  StuckLimit = 1
PROPERTIES
  CompletedStable
