SPECIFICATION FairSpec
CONSTANTS
  Integrations = {amo}
  Crm = {amo}
  Kinds = {"new", "repeat"}
  Workers = {w1}
  MaxAttempts = 2
  ResumeAfter = 2
  MaxJobs = 1
  MaxTrouble = 1
CHECK_DEADLOCK FALSE

PROPERTIES DeliveryEnds
INVARIANTS OneCard
