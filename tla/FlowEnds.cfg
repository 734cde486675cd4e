SPECIFICATION FairSpec
CONSTANTS
  Starts = {"s1"}
  Comments = {"s1"}
  Taps = {"t1"}
  Texts = {"x1"}
  Workers = {w1, w2}
  Nodes = {"hello", "choose", "ask", "later", "tag", "bye"}
  Entry = "hello"
  Kind <- MCKind
  Edges <- MCEdges
  IfClosed = "wait_for_inbound"
  MaxRetries = 1
  MaxSteps = 9
  MaxTrouble = 1
CHECK_DEADLOCK FALSE
PROPERTIES Walks RunEnds
