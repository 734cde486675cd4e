SPECIFICATION SettleSpec
CONSTANTS
  Posts = {p1, p2}
  Workers = {w1}
  Users = {}
  Containers = {c1, c2}
  NoContainer = NoContainer
  NoJob = NoJob
  NoWorker = NoWorker
  MaxSlot = 1
  LateMax = 0
  MaxRetry = 1
  MaxAttempts = 1
  MaxContent = 0
  MaxRequests = 0
  MaxCrashes = 1
  MaxLosses = 1
CHECK_DEADLOCK FALSE
INVARIANTS OncePerAttempt NoUnaskedRepeat
PROPERTIES Settles
