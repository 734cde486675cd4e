-------------------------- MODULE MCContentPublish --------------------------
EXTENDS ContentRefinement, TLC

\* Workers and container ids are interchangeable: nothing orders them.
Symmetry == Permutations(Workers) \cup Permutations(Containers)

-----------------------------------------------------------------------------
(* Two states of an account with two posts, from which everything must settle. *)

First == CHOOSE p \in Posts : TRUE
Second == CHOOSE p \in Posts : p # First
Held == CHOOSE c \in Containers : TRUE
Ready == CHOOSE c \in Containers : c # Held

Due(p) == [status |-> "SCHEDULED", attempts |-> 1, slot |-> 1, container |-> NoContainer, content |-> 0,
           manual |-> FALSE, deleted |-> FALSE, igMedia |-> 0, linkFailed |-> FALSE]
Silent == [active |-> FALSE, media |-> 0]

Quiet ==
  /\ work = [w \in Workers |-> IdleWork]
  /\ lock = NoWorker /\ tokenOk = TRUE
  /\ sweep = [p \in Posts |-> IdleSweep]
  /\ req = [u \in Users |-> NoRequest]

\* The second post is out and recorded; the first has just been scheduled, and
\* either a worker will die or Redis will lose its jobs.
InitFresh ==
  /\ now = 0
  /\ row = [p \in Posts |-> IF p = First THEN Due(p) ELSE [Due(p) EXCEPT !.status = "PUBLISHED", !.igMedia = 1]]
  /\ queue = {PlainJob(First, "prepare", 1, 0), PlainJob(First, "publish", 1, 1)}
  /\ campaign = [p \in Posts |-> IF p = First THEN Silent ELSE [active |-> TRUE, media |-> 1]]
  /\ meta = [c \in Containers |-> Blank]
  /\ feed = <<[post |-> Second, content |-> 0, attempt |-> 1]>>
  /\ fuel \in {[requests |-> 0, crashes |-> MaxCrashes, losses |-> 0],
               [requests |-> 0, crashes |-> 0, losses |-> MaxLosses]}
  /\ Quiet

\* The worker of the first post died inside media_publish, after its media went out
\* and before the answer came; the second waits for the last retry of its own call.
InitHalted ==
  /\ now = 1
  /\ row = [p \in Posts |-> IF p = First THEN [Due(p) EXCEPT !.status = "PUBLISHING", !.container = Held]
                            ELSE [Due(p) EXCEPT !.status = "READY_TO_PUBLISH", !.container = Ready]]
  /\ queue = {RetryJob(Second, "publish", 1, MaxRetry)}
  /\ campaign = [p \in Posts |-> Silent]
  /\ meta = [[c \in Containers |-> Blank] EXCEPT
               ![Held] = [NewContainer(First, 0) EXCEPT !.state = "PUBLISHED", !.open = TRUE],
               ![Ready] = [NewContainer(Second, 0) EXCEPT !.state = "FINISHED"]]
  /\ feed = <<[post |-> First, content |-> 0, attempt |-> 1]>>
  /\ fuel = [requests |-> 0, crashes |-> 0, losses |-> 0]
  /\ Quiet

SettleSpec == (InitFresh \/ InitHalted) /\ [][Next]_vars /\ Fairness
=============================================================================
