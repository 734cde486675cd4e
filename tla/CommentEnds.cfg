SPECIFICATION FairSpec
CONSTANTS
  Count = 1
  PublicReply = {}
  Workers = {w1}
  MaxPolls = 1
  MaxRequeues = 1
  MaxAttempts = 2
  MaxFailed = 2
  MaxFaults = 1
  MaxBlocks = 1
  MaxAge = 2
CHECK_DEADLOCK FALSE
PROPERTIES PendingEnds
