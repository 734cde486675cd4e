----------------------------- MODULE MCFlowRun -----------------------------
EXTENDS FlowRun, TLC

\* A message with a button, chips with a timeout, a question, a delay, an effect and an end.
MCKind ==
  [n \in Nodes |-> CASE n = "hello" -> "message" [] n = "choose" -> "chips" [] n = "ask" -> "ask"
                     [] n = "later" -> "delay" [] n = "bye" -> "end" [] OTHER -> "effect"]
After == IF "ask" \in Nodes THEN "ask" ELSE "bye"
Arrows == {<<"hello", "tap", "choose">>, <<"choose", "timeout", "later">>, <<"choose", "tap", "later">>,
           <<"choose", "other", After>>, <<"later", "next", After>>,
           <<"ask", "next", "tag">>, <<"ask", "missing", "bye">>, <<"tag", "next", "bye">>}
From(n) == {a \in Arrows : a[1] = n /\ a[3] \in Nodes}
MCEdges == [n \in Nodes |-> [h \in {a[2] : a \in From(n)} |-> (CHOOSE a \in From(n) : a[2] = h)[3]]]

Symmetry == Permutations(Workers)
=============================================================================
