SPECIFICATION Spec
CONSTANTS
  Integrations = {amo}
  Crm = {amo}
  Kinds = {"new"}
  Workers = {w1, w2}
  MaxAttempts = 2
  ResumeAfter = 2
  MaxJobs = 1
  MaxTrouble = 2
CHECK_DEADLOCK FALSE
SYMMETRY Symmetry
INVARIANTS TypeOK SentIsDelivered DeadIsEarned OneCopy LeadIsTrue
