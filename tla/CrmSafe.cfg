SPECIFICATION FairSpec
CONSTANTS
  Contacts = {c1}
  Workers = {w1, w2}
  BatchSize = 1
  MaxAttempts = 2
  MaxClicks = 1
  MaxTrouble = 1
CHECK_DEADLOCK FALSE
INVARIANTS TypeOK SentOnce OneChain CompletedIsFinal CountsMatch
PROPERTIES BroadcastEnds
