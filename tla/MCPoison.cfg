SPECIFICATION FairSpec
CONSTANTS
  Users = {u1}
  NoUser = none
  MaxAvatars = 2
  Truncated <- FirstTruncated
  Faults = {}
  MaxFaults = 0
  Requests = {r1}
  Attempts = 2
  PublishAttempts = 2
  OutboxLimit = 1
  StuckLimit = 1
PROPERTIES
  EventuallyCompleted
  EventuallyRemoved
