SPECIFICATION Spec
CONSTANTS
  Starts = {"s1", "s2"}
  Comments = {"s1"}
  Taps = {"t1"}
  Texts = {}
  Workers = {w1, w2}
  Nodes = {"hello", "choose", "later", "bye"}
  Entry = "hello"
  Kind <- MCKind
  Edges <- MCEdges
  IfClosed = "wait_for_inbound"
  MaxRetries = 1
  MaxSteps = 6
  MaxTrouble = 1
CHECK_DEADLOCK FALSE
SYMMETRY Symmetry
INVARIANTS TypeOK SentOnce OneLiveRun
