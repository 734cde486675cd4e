SPECIFICATION Spec
CONSTANTS
  Posts = {p1}
  Workers = {w1}
  Users = {u1, u2}
  Containers = {c1, c2}
  NoContainer = NoContainer
  NoJob = NoJob
  NoWorker = NoWorker
  MaxSlot = 1
  LateMax = 0
  MaxRetry = 0
  MaxAttempts = 2
  MaxContent = 0
  MaxRequests = 2
  MaxCrashes = 0
  MaxLosses = 0
CHECK_DEADLOCK FALSE
SYMMETRY Symmetry
PROPERTIES KeepsPromise
