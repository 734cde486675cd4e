SPECIFICATION Spec
CONSTANTS
  Count = 2
  PublicReply = {2}
  Workers = {w1, w2}
  MaxPolls = 1
  MaxRequeues = 0
  MaxAttempts = 1
  MaxFailed = 1
  MaxFaults = 1
  MaxBlocks = 0
  MaxAge = 0
CHECK_DEADLOCK FALSE
SYMMETRY Symmetry
INVARIANTS TypeOK SentIsDelivered DedupIsTrue UsageCovers
