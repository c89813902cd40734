SPECIFICATION FairSpec
CONSTANTS
  Users = {u1}
  NoUser = none
  MaxAvatars = 2
  Truncated <- FirstTruncated
  Faults = {"s3"}
  MaxFaults = 1
  Requests = {r1}
  Attempts = 1
  PublishAttempts = 2
  OutboxLimit = 1
  StuckLimit = 1
PROPERTIES
  EventuallyCompleted
