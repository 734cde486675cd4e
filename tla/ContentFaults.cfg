SPECIFICATION Spec
CONSTANTS
  Posts = {p1}
  Workers = {w1, w2}
  Users = {}
  Containers = {c1, c2, c3}
  NoContainer = NoContainer
  NoJob = NoJob
  NoWorker = NoWorker
  MaxSlot = 1
  LateMax = 0
  MaxRetry = 0
  MaxAttempts = 1
  MaxContent = 1
  MaxRequests = 1
  MaxCrashes = 1
  MaxLosses = 1
CHECK_DEADLOCK FALSE
SYMMETRY Symmetry
INVARIANTS OnePublisher TypeOK PublishedIsLinked
PROPERTIES NeverEarly PublishesOnce
