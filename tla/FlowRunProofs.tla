--------------------------- MODULE FlowRunProofs ---------------------------
(***************************************************************************)
(* What one person's runs keep, for any graph, any events and any number   *)
(* of workers and faults: their types, one edge at a time, one live run,   *)
(* and no message twice without a lost answer or a race at its marker.     *)
(***************************************************************************)
EXTENDS FlowRun, FiniteSetTheorems, SequenceTheorems, TLAPS

-----------------------------------------------------------------------------
(* The invariant. A seq of a run stands for one step of its walk: whoever  *)
(* still holds a copy of the run at that seq is at the same node, with the *)
(* same first message before it, as the run was.                           *)

Holds(k) == k.pc \notin {"idle", "start", "load", "finish"}
Replying == {"reply", "sending", "call", "answered", "refused", "denied"}
Writing == {"look", "mark", "send", "name"}

SameStep(a, b) == a.node = b.node /\ a.first = b.first
\* What a node may make of its row: it stays, or goes along an edge.
Result(row, next) ==
  /\ next \in Row /\ Waits(next) /\ next.status # "NONE"
  /\ next.node # row.node => \E h \in DOMAIN Edges[row.node] : next.node = Edges[row.node][h]

\* What a worker's place in the code says of what it carries.
Fits(k) ==
  /\ k.pc \in {"start", "create"} => k.by \in Starts
  /\ k.pc = "start" => k.of = k.by
  /\ k.pc = "create" => k.of = k.by \/ k.row.status \in Live
  /\ k.pc = "finish" => k.by \in Events
  /\ k.pc \in {"load", "take"} => k.by \in Inputs \cup {"timer"}
  /\ k.pc = "take" => k.row.status \in Live
  /\ k.pc = "back" => k.row.status = "ACTIVE" /\ k.row.wait # "none"
  /\ k.pc = "commit" => Result(k.row, k.next)
  /\ k.pc \in Replying => IsReply(k.of, k.row)
  /\ k.pc \in Writing => ~IsReply(k.of, k.row)

\* What its copy says of the run as it is now, `now`.
CopyOf(row, now) ==
  /\ row.seq <= now.seq
  /\ row.seq = now.seq => SameStep(row, now) /\ (now.status \in Live => row.wait = now.wait)

Copies ==
  /\ \A r \in Starts : run[r].status = "NONE" => run[r] = NoRun
  /\ \A w \in Workers : Holds(work[w]) =>
       /\ CopyOf(work[w].row, run[work[w].of])
       /\ run[work[w].of].status = "NONE" => work[w].pc = "create"
  /\ \A w \in Workers : At(w, "create") => run[work[w].by].status = "NONE"
  /\ \A v, w \in Workers : At(v, "create") /\ At(w, "create") => v = w

FlowTyped == TypeOK /\ (\A w \in Workers : Fits(work[w])) /\ Copies

\* Copies of one seq agree, also when the run has gone on.
Agreed ==
  \A v, w \in Workers :
    Holds(work[v]) /\ Holds(work[w]) /\ work[v].of = work[w].of /\ work[v].row.seq = work[w].row.seq
      => SameStep(work[v].row, work[w].row)

\* One live run, which the start under way has read.
OneLive ==
  raced \/ /\ \A r, q \in LiveRuns : r = q
           /\ \A w \in Workers : At(w, "create") => LiveRuns \subseteq {work[w].of}

\* A message that went out is vouched for to all that could send it again: by the used
\* reply of its comment or by its marker.
Excused == lost \cup met
Marked(r, k) == <<r, k, "pending">> \in marker \/ <<r, k, "mid">> \in marker
Vouched(m, row) ==
  /\ m[3] = row.node
  /\ IF IsReply(m[1], row) THEN m[1] \in replied ELSE m \in Excused \/ Marked(m[1], m[2])
SentKnown ==
  /\ \A m \in sent : m[2] <= run[m[1]].seq + 1
  /\ \A m \in sent : m[2] = run[m[1]].seq + 1 => Vouched(m, run[m[1]])
  /\ \A w \in Workers : Holds(work[w]) =>
       \A m \in sent : m[1] = work[w].of /\ m[2] = work[w].row.seq + 1 => Vouched(m, work[w].row)

Bound(w) == work[w].pc \in {"send", "name"}
Near(w) == work[w].pc \in {"mark", "send", "name"}
Markers ==
  /\ \A w \in Workers : Bound(w) => Pending(w) \in marker \/ Message(w) \in met
  /\ \A v, w \in Workers : v # w /\ Near(v) /\ Near(w) /\ Key(v) = Key(w) => Message(v) \in met
  /\ \A w \in Workers : At(w, "mark") /\ Marked(work[w].of, work[w].row.seq + 1) => Message(w) \in met
  /\ \A w \in Workers : At(w, "send") /\ Message(w) \in sent => Message(w) \in Excused

FlowSound == FlowTyped /\ Agreed /\ OneLive /\ SentKnown /\ Markers /\ SentOnce

-----------------------------------------------------------------------------
(* Results of a node *)

LEMMA NoRunTyped == NoRun \in Row /\ NoRun.seq = 0 /\ NoRun.status = "NONE" /\ NoRun.wait = "none" /\ Waits(NoRun)
  BY FlowAssumption DEF NoRun, Row, WaitKind, Waits

LEMMA IdleTyped == Idle \in Work /\ Idle.pc = "idle" /\ Idle.of \in Starts /\ Idle.row = NoRun /\ ~Idle.held
  BY NoRunTyped, FlowAssumption DEF Idle, Work, Steps

\* A run that is over stays where it is.
LEMMA OverResult == ASSUME NEW row \in Row, NEW status \in Ended PROVE Result(row, Over(row, status))
  BY DEF Result, Over, Row, Waits, Ended, Live, Waiting, WaitKind

LEMMA FollowResult == ASSUME NEW row \in Row, NEW h \in Handles PROVE Result(row, Follow(row, h))
<1>1. CASE h \in DOMAIN Edges[row.node]
  <2>1. Edges[row.node][h] \in Nodes
    BY <1>1, FlowAssumption DEF Row
  <2> QED
    BY <1>1, <2>1 DEF Result, Follow, Row, Waits, Live, Waiting, WaitKind
<1>2. CASE h \notin DOMAIN Edges[row.node]
  BY <1>2, OverResult DEF Follow, Ended
<1> QED
  BY <1>1, <1>2

LEMMA AgainResult == ASSUME NEW row \in Row PROVE Result(row, Again(row))
  BY DEF Result, Again, Row, Waits, Live, Waiting, WaitKind

\* Every parked row waits for what its status says.
Parks == {<<"WAITING_TAP", "tap">>, <<"WAITING_TAP", "choice">>, <<"WAITING_INBOUND", "inbound">>,
          <<"WAITING_INBOUND", "reopen">>, <<"WAITING_DELAY", "delay">>, <<"WAITING_DELAY", "retry">>}
LEMMA ParkResult ==
  ASSUME NEW row \in Row, NEW status, NEW kind, <<status, kind>> \in Parks
  PROVE  Result(row, Park(row, status, kind))
  BY DEF Result, Park, Parks, Row, Waits, Live, Waiting, WaitKind

LEMMA RetryResult == ASSUME NEW row \in Row PROVE Result(row, Retry(row))
<1>1. CASE row.tries[row.node] < MaxRetries
  <2> DEFINE park == Park(row, "WAITING_DELAY", "retry")
             next == [park EXCEPT !.tries[row.node] = @ + 1]
  <2>1. Result(row, park)
    BY ParkResult DEF Parks
  <2>2. park.tries = row.tries /\ row.tries \in [Nodes -> 0..MaxRetries] /\ row.node \in Nodes
    BY DEF Park, Row
  <2>3. next.tries \in [Nodes -> 0..MaxRetries]
    BY <1>1, <2>1, <2>2, FlowAssumption DEF Result, Row
  <2>4. next \in Row /\ next.node = park.node /\ next.status = park.status /\ next.wait = park.wait
    BY <2>1, <2>3 DEF Result, Row
  <2>5. Result(row, next)
    BY <2>1, <2>4 DEF Result, Waits
  <2> QED
    BY <1>1, <2>5 DEF Retry
<1>2. CASE ~(row.tries[row.node] < MaxRetries)
  BY <1>2, OverResult DEF Retry, Ended
<1> QED
  BY <1>1, <1>2

LEMMA SentResult == ASSUME NEW row \in Row PROVE Result(row, Sent(row))
<1> DEFINE now == [row EXCEPT !.first = row.first \/ Kind[row.node] \in {"message", "text"}]
<1>1. now \in Row /\ now.node = row.node
  BY DEF Row
<1>2. ASSUME NEW next, Result(now, next) PROVE Result(row, next)
  BY <1>1, <1>2 DEF Result
<1>3. Result(now, Park(now, "WAITING_TAP", "tap")) /\ Result(now, Park(now, "WAITING_TAP", "choice"))
      /\ Result(now, Park(now, "WAITING_INBOUND", "inbound"))
  BY <1>1, ParkResult DEF Parks
<1>4. Result(now, Follow(now, "next"))
  BY <1>1, FollowResult DEF Handles
<1>5. Sent(row) \in {Park(now, "WAITING_TAP", "tap"), Park(now, "WAITING_TAP", "choice"),
                     Park(now, "WAITING_INBOUND", "inbound"), Follow(now, "next")}
  BY DEF Sent
<1> QED
  BY <1>2, <1>3, <1>4, <1>5

LEMMA UnsentResult == ASSUME NEW row \in Row PROVE Result(row, Unsent(row))
<1>1. Result(row, Over(row, "DONE")) /\ Result(row, Follow(row, "missing")) /\ Result(row, Follow(row, "next"))
  BY OverResult, FollowResult DEF Ended, Handles
<1> QED
  BY <1>1 DEF Unsent

LEMMA AppliedResult ==
  ASSUME NEW w \in Workers, work[w].row \in Row, NEW next \in Applied(w)
  PROVE  Result(work[w].row, next)
<1> DEFINE row == work[w].row
<1>1. \A h \in Handles : Result(row, Follow(row, h))
  BY FollowResult
<1>2. Result(row, Again(row))
  BY AgainResult
<1>3. next = Again(row) \/ \E h \in Handles : next = Follow(row, h)
  BY DEF Applied, Ticked, Handles
<1> QED
  BY <1>1, <1>2, <1>3

LEMMA PassedResult ==
  ASSUME NEW row \in Row, NEW next \in Passed(row)
  PROVE  Result(row, next)
<1> DEFINE park == Park(row, "WAITING_DELAY", "delay")
<1>1. \A h \in Handles : Result(row, Follow(row, h))
  BY FollowResult
<1>2. Result(row, Over(row, "DONE"))
  BY OverResult DEF Ended
<1>3. Result(row, [park EXCEPT !.delayed = TRUE])
  <2>1. Result(row, park)
    BY ParkResult DEF Parks
  <2> QED
    BY <2>1 DEF Result, Row, Waits
<1>4. next \in {Over(row, "DONE"), [park EXCEPT !.delayed = TRUE]} \/ \E h \in Handles : next = Follow(row, h)
  BY DEF Passed, Handles
<1> QED
  BY <1>1, <1>2, <1>3, <1>4

-----------------------------------------------------------------------------
(* How a worker moves: it goes on with its copy, lets it go, or takes one. *)

Others(w) == work' \in [Workers -> Work] /\ \A v \in Workers : v # w => work'[v] = work[v]
Stays(w) ==
  /\ Holds(work[w]) /\ Holds(work'[w]) /\ ~At(w, "create") /\ work'[w].pc # "create"
  /\ work'[w].of = work[w].of /\ work'[w].row = work[w].row
Moves(w) == Others(w) /\ Fits(work'[w]) /\ (Stays(w) \/ ~Holds(work'[w]))

LEMMA DecideMoves ==
  ASSUME TypeOK, NEW w \in Workers, NEW next, Result(work[w].row, next), Holds(work[w]), ~At(w, "create"),
         Decide(w, next)
  PROVE  Moves(w) /\ Stays(w) /\ work'[w].pc = "commit"
<1>1. work[w] \in Work /\ next \in Row
  BY DEF TypeOK, Result
<1>2. Others(w)
  BY <1>1 DEF TypeOK, Decide, Others, Work, Steps, Loop
<1>3. /\ work'[w].pc = "commit" /\ work'[w].next = next
      /\ work'[w].of = work[w].of /\ work'[w].row = work[w].row
  BY <1>1 DEF TypeOK, Decide, Work
<1>4. Fits(work'[w])
  BY <1>3 DEF Fits, Replying, Writing
<1> QED
  BY <1>2, <1>3, <1>4 DEF Moves, Stays, Holds, At

Plain == {"apply", "node"}
LEMMA GotoMoves ==
  ASSUME TypeOK, NEW w \in Workers, NEW step, Holds(work[w]), ~At(w, "create"), Goto(w, step),
         \/ step \in Plain
         \/ step \in Replying /\ IsReply(work[w].of, work[w].row)
         \/ step \in Writing /\ ~IsReply(work[w].of, work[w].row)
  PROVE  Moves(w) /\ Stays(w) /\ work'[w].pc = step
<1>1. work[w] \in Work /\ step \in Steps
  BY DEF TypeOK, Plain, Replying, Writing, Steps, Loop
<1>2. Others(w)
  BY <1>1 DEF TypeOK, Goto, Others, Work
<1>3. work'[w].pc = step /\ work'[w].of = work[w].of /\ work'[w].row = work[w].row
  BY <1>1 DEF TypeOK, Goto, Work
<1>4. step \notin {"idle", "start", "load", "finish", "create", "take", "back", "commit"}
      /\ (step \in Replying => step \notin Writing \cup Plain) /\ (step \in Writing => step \notin Plain)
  BY DEF Plain, Replying, Writing
<1>5. Fits(work'[w])
  BY <1>3, <1>4 DEF Fits
<1> QED
  BY <1>2, <1>3, <1>4, <1>5 DEF Moves, Stays, Holds, At

LEMMA IdleMoves ==
  ASSUME TypeOK, NEW w \in Workers, NEW k \in Work, ~Holds(k), Fits(k), work' = [work EXCEPT ![w] = k]
  PROVE  Moves(w) /\ work'[w] = k
  BY DEF TypeOK, Moves, Others

LEMMA LeaveMoves ==
  ASSUME TypeOK, NEW w \in Workers, Leave(w)
  PROVE  Moves(w) /\ ~Holds(work'[w])
<1>1. CASE work[w].by \in Events
  <2> DEFINE k == [Idle EXCEPT !.pc = "finish", !.by = work[w].by]
  <2>1. k \in Work /\ k.pc = "finish" /\ k.by = work[w].by
    BY <1>1, IdleTyped DEF Work, Steps
  <2>2. Fits(k) /\ ~Holds(k)
    BY <1>1, <2>1 DEF Fits, Holds, Replying, Writing
  <2> QED
    BY <1>1, <2>1, <2>2, IdleMoves DEF Leave, TypeOK
<1>2. CASE work[w].by \notin Events
  <2>1. Fits(Idle) /\ ~Holds(Idle)
    BY IdleTyped DEF Fits, Holds, Replying, Writing
  <2> QED
    BY <1>2, <2>1, IdleTyped, IdleMoves DEF Leave, TypeOK
<1> QED
  BY <1>1, <1>2

-----------------------------------------------------------------------------
(* Types, one action at a time: first those that leave the runs alone      *)


Ours == TypeOK' /\ run' = run

LEMMA TroubleTyped == ASSUME TypeOK, Trouble \/ UNCHANGED fuel PROVE fuel' \in 0..MaxTrouble
  BY FlowAssumption DEF TypeOK, Trouble

LEMMA Appended == ASSUME NEW a, NEW b, NEW c PROVE Append(<<a, b>>, c) = <<a, b, c>>
<1> DEFINE S == {a, b, c}
           x == Append(<<a, b>>, c)
<1>1. <<a, b>> \in Seq(S) /\ Len(<<a, b>>) = 2 /\ c \in S
  OBVIOUS
<1>2. x \in Seq(S) /\ Len(x) = 3 /\ x[1] = a /\ x[2] = b /\ x[3] = c
  BY <1>1
<1> DEFINE y == <<a, b, c>>
<1>3. y \in Seq(S) /\ Len(y) = 3 /\ y[1] = a /\ y[2] = b /\ y[3] = c
  OBVIOUS
<1> HIDE DEF x, y
<1>4. x \in [1..3 -> S] /\ y \in [1..3 -> S]
  BY <1>2, <1>3, LenProperties
<1>5. \A i \in 1..3 : x[i] = y[i]
  BY <1>2, <1>3
<1>6. x = y
  BY <1>4, <1>5
<1> QED
  BY <1>6 DEF x, y

LEMMA MessageTyped ==
  ASSUME TypeOK, NEW w \in Workers
  PROVE  /\ Message(w) \in Starts \X Nat \X Nodes /\ Key(w) \in Starts \X Nat
         /\ Pending(w) = <<work[w].of, work[w].row.seq + 1, "pending">>
         /\ Named(w) = <<work[w].of, work[w].row.seq + 1, "mid">>
         /\ {Pending(w), Named(w)} \subseteq Starts \X Nat \X {"pending", "mid"}
         /\ Key(w)[1] = work[w].of /\ Key(w)[2] = work[w].row.seq + 1
         /\ Message(w)[1] = work[w].of /\ Message(w)[2] = work[w].row.seq + 1 /\ Message(w)[3] = work[w].row.node
<1>1. work[w] \in Work /\ work[w].of \in Starts /\ work[w].row.seq \in Nat /\ work[w].row.node \in Nodes
  BY DEF TypeOK, Work, Row
<1> QED
  BY <1>1, Appended DEF Message, Key, Pending, Named

LEMMA GuardTyped == ASSUME FlowTyped, NEW w \in Workers, Guard(w) PROVE Ours /\ Moves(w) /\ Stays(w)
<1> USE DEF FlowTyped
<1>1. work[w].row \in Row
  BY DEF TypeOK, Work
<1>2. PICK next : Result(work[w].row, next) /\ Decide(w, next)
  BY <1>1, OverResult DEF Guard, Ended
<1>3. Holds(work[w]) /\ ~At(w, "create")
  BY DEF Guard, Holds, At
<1>4. Moves(w) /\ Stays(w)
  BY <1>2, <1>3, DecideMoves
<1> QED
  BY <1>4 DEF Ours, TypeOK, Guard, Moves, Others, sends, time, history

LEMMA ApplyTyped == ASSUME FlowTyped, NEW w \in Workers, Apply(w) PROVE Ours /\ Moves(w) /\ Stays(w)
<1> USE DEF FlowTyped
<1>1. work[w].row \in Row /\ work[w].of \in Starts
  BY DEF TypeOK, Work
<1>2. PICK next : Result(work[w].row, next) /\ Decide(w, next)
  BY <1>1, AppliedResult DEF Apply
<1>3. Holds(work[w]) /\ ~At(w, "create")
  BY DEF Apply, Holds, At
<1>4. Moves(w) /\ Stays(w)
  BY <1>2, <1>3, DecideMoves
<1>5. open' \subseteq Starts
  BY <1>1 DEF Apply, TypeOK
<1> QED
  BY <1>4, <1>5 DEF Ours, TypeOK, Apply, Moves, Others, sends, time, history

LEMMA QuietlyTyped == ASSUME FlowTyped, NEW w \in Workers, Quietly(w) PROVE Ours /\ Moves(w) /\ Stays(w)
<1> USE DEF FlowTyped
<1>1. work[w].row \in Row
  BY DEF TypeOK, Work
<1>2. PICK next : Result(work[w].row, next) /\ Decide(w, next)
  BY <1>1, PassedResult DEF Quietly
<1>3. Holds(work[w]) /\ ~At(w, "create")
  BY DEF Quietly, Holds, At
<1>4. Moves(w) /\ Stays(w)
  BY <1>2, <1>3, DecideMoves
<1> QED
  BY <1>4 DEF Ours, TypeOK, Quietly, Moves, Others, sends, time, history

LEMMA PreSendTyped == ASSUME FlowTyped, NEW w \in Workers, PreSend(w) PROVE Ours /\ Moves(w) /\ Stays(w)
<1> USE DEF FlowTyped
<1> DEFINE row == work[w].row
<1>1. row \in Row
  BY DEF TypeOK, Work
<1>2. Holds(work[w]) /\ ~At(w, "create")
  BY DEF PreSend, Holds, At
<1>3. ASSUME IsReply(work[w].of, row), Goto(w, "reply") PROVE Moves(w) /\ Stays(w)
  BY <1>2, <1>3, GotoMoves DEF Replying
<1>4. ASSUME ~IsReply(work[w].of, row), Goto(w, "look") PROVE Moves(w) /\ Stays(w)
  BY <1>2, <1>4, GotoMoves DEF Writing
<1>5. ASSUME NEW next \in {Park(row, "WAITING_INBOUND", "reopen"), Unsent(row), Over(row, "DONE")}, Decide(w, next)
      PROVE  Moves(w) /\ Stays(w)
  <2>1. /\ Result(row, Park(row, "WAITING_INBOUND", "reopen")) /\ Result(row, Unsent(row))
        /\ Result(row, Over(row, "DONE"))
    BY <1>1, ParkResult, UnsentResult, OverResult DEF Parks, Ended
  <2> QED
    BY <1>2, <1>5, <2>1, DecideMoves
<1>6. Moves(w) /\ Stays(w)
  BY <1>3, <1>4, <1>5 DEF PreSend
<1> QED
  BY <1>6 DEF Ours, TypeOK, PreSend, Moves, Others, sends, time, history

LEMMA NodeErrorTyped == ASSUME FlowTyped, NEW w \in Workers, NodeError(w) PROVE Ours /\ Moves(w) /\ Stays(w)
<1> USE DEF FlowTyped
<1>1. Result(work[w].row, Retry(work[w].row))
  BY RetryResult DEF TypeOK, Work
<1>2. Holds(work[w]) /\ ~At(w, "create")
  BY DEF NodeError, Holds, At
<1>3. Moves(w) /\ Stays(w)
  BY <1>1, <1>2, DecideMoves DEF NodeError
<1>4. fuel' \in 0..MaxTrouble
  BY TroubleTyped DEF NodeError
<1> QED
  BY <1>3, <1>4 DEF Ours, TypeOK, NodeError, Moves, Others, sends, time, history

\* What the effects decide.
LEMMA Outcomes ==
  ASSUME FlowTyped, NEW w \in Workers, Holds(work[w]), ~At(w, "create"),
         NEW next \in {Sent(work[w].row), Retry(work[w].row), Over(work[w].row, "FAILED")}, Decide(w, next)
  PROVE  Moves(w) /\ Stays(w)
<1>1. work[w].row \in Row
  BY DEF FlowTyped, TypeOK, Work
<1>2. Result(work[w].row, next)
  BY <1>1, SentResult, RetryResult, OverResult DEF Ended
<1> QED
  BY <1>2, DecideMoves DEF FlowTyped

LEMMA ReplyTyped == ASSUME FlowTyped, NEW w \in Workers, Reply(w) PROVE Ours /\ Moves(w) /\ Stays(w)
<1>1. TypeOK /\ Holds(work[w]) /\ ~At(w, "create") /\ IsReply(work[w].of, work[w].row)
  BY DEF FlowTyped, Fits, Reply, Holds, At, Replying
<1>2. \/ \E next \in {Sent(work[w].row), Over(work[w].row, "FAILED")} : Decide(w, next)
      \/ Goto(w, "sending")
  BY DEF Reply
<1>3. Moves(w) /\ Stays(w)
  BY <1>1, <1>2, Outcomes, GotoMoves DEF Replying
<1> QED
  BY <1>1, <1>3 DEF Ours, TypeOK, Reply, Moves, Others, sends, time, history

LEMMA SendingTyped == ASSUME FlowTyped, NEW w \in Workers, Sending(w) PROVE Ours /\ Moves(w) /\ Stays(w)
<1>1. TypeOK /\ Holds(work[w]) /\ ~At(w, "create") /\ IsReply(work[w].of, work[w].row)
  BY DEF FlowTyped, Fits, Sending, Holds, At, Replying
<1>2. \/ \E next \in {Retry(work[w].row), Over(work[w].row, "FAILED")} : Decide(w, next)
      \/ Goto(w, "call")
  BY DEF Sending
<1>3. Moves(w) /\ Stays(w)
  BY <1>1, <1>2, Outcomes, GotoMoves DEF Replying
<1>4. fuel' \in 0..MaxTrouble
  BY <1>1, TroubleTyped DEF Sending
<1>5. exec' \in [Starts -> {"PENDING", "SENDING", "SENT", "RETRYING", "SKIPPED", "FAILED"}]
  BY <1>1 DEF TypeOK, Sending, Exec
<1> QED
  BY <1>1, <1>3, <1>4, <1>5 DEF Ours, TypeOK, Sending, Moves, Others, time, history

LEMMA CallTyped == ASSUME FlowTyped, NEW w \in Workers, Call(w) PROVE Ours /\ Moves(w) /\ Stays(w)
<1>1. TypeOK /\ Holds(work[w]) /\ ~At(w, "create") /\ IsReply(work[w].of, work[w].row) /\ work[w].of \in Starts
  BY DEF FlowTyped, Fits, Call, Holds, At, Replying, TypeOK, Work
<1>2. \E step \in {"answered", "refused", "denied"} : Goto(w, step)
  BY DEF Call
<1>3. Moves(w) /\ Stays(w)
  BY <1>1, <1>2, GotoMoves DEF Replying
<1>4. fuel' \in 0..MaxTrouble
  BY <1>1, TroubleTyped DEF Call
<1>5. /\ replied' \subseteq Starts
      /\ sent' \subseteq Starts \X Nat \X Nodes /\ twice' \subseteq sent' /\ lost' \subseteq sent'
  BY <1>1, MessageTyped DEF TypeOK, Call, Deliver
<1> QED
  BY <1>1, <1>3, <1>4, <1>5 DEF Ours, TypeOK, Call, Moves, Others, time

LEMMA AnsweredTyped == ASSUME FlowTyped, NEW w \in Workers, Answered(w) PROVE Ours /\ Moves(w) /\ Stays(w)
<1>1. TypeOK /\ Holds(work[w]) /\ ~At(w, "create")
  BY DEF FlowTyped, Answered, Holds, At
<1>2. \E next \in {Sent(work[w].row), Retry(work[w].row), Over(work[w].row, "FAILED")} : Decide(w, next)
  BY DEF Answered
<1>3. Moves(w) /\ Stays(w)
  BY <1>1, <1>2, Outcomes
<1>5. exec' \in [Starts -> {"PENDING", "SENDING", "SENT", "RETRYING", "SKIPPED", "FAILED"}]
  BY <1>1 DEF TypeOK, Answered, Exec
<1> QED
  BY <1>1, <1>3, <1>5 DEF Ours, TypeOK, Answered, Moves, Others, time, history

LEMMA LookTyped == ASSUME FlowTyped, NEW w \in Workers, Look(w) PROVE Ours /\ Moves(w) /\ Stays(w)
<1>1. TypeOK /\ Holds(work[w]) /\ ~At(w, "create") /\ ~IsReply(work[w].of, work[w].row)
  BY DEF FlowTyped, Fits, Look, Holds, At, Writing
<1>2. Decide(w, Sent(work[w].row)) \/ Goto(w, "mark")
  BY DEF Look
<1>3. Moves(w) /\ Stays(w)
  BY <1>1, <1>2, Outcomes, GotoMoves DEF Writing
<1>4. met' \subseteq Starts \X Nat \X Nodes
  BY <1>1, MessageTyped DEF TypeOK, Look
<1> QED
  BY <1>1, <1>3, <1>4 DEF Ours, TypeOK, Look, Moves, Others, time, sends

LEMMA MarkTyped == ASSUME FlowTyped, NEW w \in Workers, Mark(w) PROVE Ours /\ Moves(w) /\ Stays(w)
<1>1. TypeOK /\ Holds(work[w]) /\ ~At(w, "create") /\ ~IsReply(work[w].of, work[w].row)
  BY DEF FlowTyped, Fits, Mark, Holds, At, Writing
<1>2. \/ Goto(w, "send")
      \/ \E next \in {Retry(work[w].row), Over(work[w].row, "FAILED")} : Decide(w, next)
  BY DEF Mark
<1>3. Moves(w) /\ Stays(w)
  BY <1>1, <1>2, Outcomes, GotoMoves DEF Writing
<1>4. marker' \subseteq Starts \X Nat \X {"pending", "mid"}
  BY <1>1, MessageTyped DEF TypeOK, Mark
<1>5. fuel' \in 0..MaxTrouble
  BY <1>1, TroubleTyped DEF Mark
<1> QED
  BY <1>1, <1>3, <1>4, <1>5 DEF Ours, TypeOK, Mark, Moves, Others, time, history

LEMMA SendTyped == ASSUME FlowTyped, NEW w \in Workers, Send(w) PROVE Ours /\ Moves(w) /\ Stays(w)
<1>1. TypeOK /\ Holds(work[w]) /\ ~At(w, "create") /\ ~IsReply(work[w].of, work[w].row)
  BY DEF FlowTyped, Fits, Send, Holds, At, Writing
<1>2. \/ Goto(w, "name")
      \/ \E next \in {Retry(work[w].row), Over(work[w].row, "FAILED")} : Decide(w, next)
  BY DEF Send
<1>3. Moves(w) /\ Stays(w)
  BY <1>1, <1>2, Outcomes, GotoMoves DEF Writing
<1>4. marker' \subseteq Starts \X Nat \X {"pending", "mid"}
  BY <1>1 DEF TypeOK, Send
<1>5. fuel' \in 0..MaxTrouble
  BY <1>1, TroubleTyped DEF Send
<1>6. sent' \subseteq Starts \X Nat \X Nodes /\ twice' \subseteq sent' /\ lost' \subseteq sent'
  BY <1>1, MessageTyped DEF TypeOK, Send, Deliver
<1> QED
  BY <1>1, <1>3, <1>4, <1>5, <1>6 DEF Ours, TypeOK, Send, Moves, Others, time

LEMMA NameTyped == ASSUME FlowTyped, NEW w \in Workers, Name(w) PROVE Ours /\ Moves(w) /\ Stays(w)
<1>1. TypeOK /\ Holds(work[w]) /\ ~At(w, "create")
  BY DEF FlowTyped, Name, Holds, At
<1>3. Moves(w) /\ Stays(w)
  BY <1>1, Outcomes DEF Name
<1>4. marker' \subseteq Starts \X Nat \X {"pending", "mid"}
  BY <1>1, MessageTyped DEF TypeOK, Name
<1>5. fuel' \in 0..MaxTrouble
  BY <1>1, TroubleTyped DEF Name
<1> QED
  BY <1>1, <1>3, <1>4, <1>5 DEF Ours, TypeOK, Name, Moves, Others, time, history

-----------------------------------------------------------------------------
(* Those that take up an event or a run                                    *)

Fresh(w) ==
  /\ Others(w) /\ Fits(work'[w]) /\ Holds(work'[w]) /\ work'[w].pc # "create"
  /\ LET row == work'[w].row
         now == run'[work'[w].of] IN
     row.seq = now.seq /\ SameStep(row, now) /\ row.wait = now.wait /\ now.status # "NONE"

\* A worker with no copy takes one up.
LEMMA TakesUp ==
  ASSUME TypeOK, NEW w \in Workers, NEW k \in Work, Fits(k), work' = [work EXCEPT ![w] = k]
  PROVE  Others(w) /\ Fits(work'[w]) /\ work'[w] = k
  BY DEF TypeOK, Others

LEMMA ClaimTyped ==
  ASSUME FlowTyped, NEW w \in Workers, NEW e \in Events, Claim(w, e) PROVE Ours /\ Moves(w)
<1> USE DEF FlowTyped
<1>1. ASSUME NEW pc \in {"start", "load", "finish"}, NEW r \in Starts,
             pc = "start" => e \in Starts /\ r = e, pc = "load" => e \in Inputs,
             work' = [work EXCEPT ![w] = [Idle EXCEPT !.pc = pc, !.by = e, !.of = r]]
      PROVE  Moves(w)
  <2> DEFINE k == [Idle EXCEPT !.pc = pc, !.by = e, !.of = r]
  <2>1. k \in Work /\ k.pc = pc /\ k.by = e /\ k.of = r
    BY IdleTyped DEF Work, Steps
  <2>2. Fits(k) /\ ~Holds(k)
    BY <1>1, <2>1 DEF Fits, Holds, Replying, Writing
  <2> QED
    BY <1>1, <2>1, <2>2, IdleMoves
<1>2. CASE e \in Starts /\ work' = [work EXCEPT ![w] = [Idle EXCEPT !.pc = "start", !.by = e, !.of = e]]
  BY <1>1, <1>2 DEF Claim, Ours, TypeOK, Moves, Others, time, sends, history
<1>3. CASE e \in Inputs /\ \E r \in Starts : work' = [work EXCEPT ![w] = [Idle EXCEPT !.pc = "load", !.by = e, !.of = r]]
  BY <1>1, <1>3 DEF Claim, Ours, TypeOK, Moves, Others, time, sends, history
<1>4. CASE work' = [work EXCEPT ![w] = [Idle EXCEPT !.pc = "finish", !.by = e]]
  <2>1. [Idle EXCEPT !.pc = "finish", !.by = e] = [Idle EXCEPT !.pc = "finish", !.by = e, !.of = Idle.of]
    BY IdleTyped DEF Work
  <2> DEFINE k == [Idle EXCEPT !.pc = "finish", !.by = e, !.of = Idle.of]
  <2>2. work' = [work EXCEPT ![w] = k]
    BY <1>4, <2>1
  <2>3. Moves(w)
    BY <1>1, <2>2, IdleTyped
  <2> QED
    BY <2>3 DEF Claim, Ours, TypeOK, Moves, Others, time, sends, history
<1> QED
  BY <1>2, <1>3, <1>4 DEF Claim

LEMMA FinishTyped == ASSUME FlowTyped, NEW w \in Workers, Finish(w) PROVE Ours /\ Moves(w)
<1>1. TypeOK /\ Fits(Idle) /\ ~Holds(Idle) /\ work[w].by \in Events
  BY IdleTyped DEF FlowTyped, Finish, At, Fits, Holds, Replying, Writing
<1>2. Moves(w)
  BY <1>1, IdleTyped, IdleMoves DEF Finish
<1> QED
  BY <1>1, <1>2 DEF Finish, Ours, TypeOK, Moves, Others, time, sends, history

LEMMA CrashTyped == ASSUME FlowTyped, NEW w \in Workers, Crash(w) PROVE Ours /\ Moves(w)
<1>1. TypeOK /\ Fits(Idle) /\ ~Holds(Idle)
  BY IdleTyped DEF FlowTyped, Fits, Holds, Replying, Writing
<1>2. Moves(w)
  BY <1>1, IdleTyped, IdleMoves DEF Crash
<1>3. fuel' \in 0..MaxTrouble
  BY <1>1, TroubleTyped DEF Crash
<1>4. event' \in [Events -> [status : {"none", "new", "busy", "done"}, of : Starts, node : Nodes]]
  BY <1>1 DEF Crash, TypeOK
<1> QED
  BY <1>1, <1>2, <1>3, <1>4 DEF Crash, Ours, TypeOK, Moves, Others, time, sends, history

LEMMA TimerTyped ==
  ASSUME FlowTyped, NEW w \in Workers, NEW r \in Starts, Ring(w, r) \/ DueFound(w, r) PROVE Ours /\ Moves(w)
<1> DEFINE k == [Idle EXCEPT !.pc = "load", !.by = "timer", !.of = r, !.row = run[r]]
<1>1. TypeOK /\ run[r] \in Row
  BY DEF FlowTyped, TypeOK
<1>2. k \in Work /\ k.pc = "load" /\ k.by = "timer"
  BY <1>1, IdleTyped DEF Work, Steps
<1>3. Fits(k) /\ ~Holds(k)
  BY <1>2 DEF Fits, Holds, Replying, Writing
<1>4. Moves(w)
  BY <1>1, <1>2, <1>3, IdleMoves DEF Ring, DueFound
<1> QED
  BY <1>1, <1>4 DEF Ring, DueFound, Ours, TypeOK, Moves, Others, time, sends, history

LEMMA StartRefusedTyped == ASSUME FlowTyped, NEW w \in Workers, StartRefused(w) PROVE Ours /\ Moves(w)
<1>1. TypeOK /\ Leave(w) /\ work[w].by \in Starts
  BY DEF FlowTyped, StartRefused, Skip, Fits, At
<1>2. Moves(w)
  BY <1>1, LeaveMoves
<1>3. exec' \in [Starts -> {"PENDING", "SENDING", "SENT", "RETRYING", "SKIPPED", "FAILED"}]
      /\ UNCHANGED <<open, replied, marker>>
  BY <1>1 DEF StartRefused, Skip, TypeOK, sends
<1> QED
  BY <1>1, <1>2, <1>3 DEF StartRefused, Ours, TypeOK, Moves, Others, history

LEMMA StartAgainTyped ==
  ASSUME FlowTyped, NEW w \in Workers, StartAgain(w) PROVE Ours /\ (Moves(w) \/ Fresh(w))
<1> DEFINE r == work[w].by
           k == [work[w] EXCEPT !.pc = "node", !.row = run[r]]
<1>1. TypeOK /\ r \in Starts /\ run[r] \in Row /\ work[w] \in Work
  BY DEF FlowTyped, StartAgain, Fits, At, TypeOK
<1>2. CASE Leave(w)
  BY <1>1, <1>2, LeaveMoves DEF StartAgain, Ours, TypeOK, Moves, Others, time, sends, history
<1>3. CASE run[r].status = "ACTIVE" /\ work' = [work EXCEPT ![w] = k]
  <2>1. k \in Work /\ k.pc = "node" /\ k.row = run[r] /\ k.of = work[w].of
    BY <1>1 DEF Work, Steps, Loop
  <2>2. Fits(k)
    BY <2>1 DEF Fits, Replying, Writing
  <2>3. Others(w) /\ Fits(work'[w]) /\ work'[w] = k
    BY <1>1, <1>3, <2>1, <2>2, TakesUp
  <2>4. work[w].of = r
    BY DEF FlowTyped, StartAgain, Fits, At
  <2>5. Fresh(w)
    BY <1>1, <1>3, <2>1, <2>3, <2>4 DEF Fresh, Holds, SameStep, StartAgain
  <2> QED
    BY <1>1, <2>5 DEF StartAgain, Ours, TypeOK, Fresh, Others, time, sends, history
<1> QED
  BY <1>1, <1>2, <1>3 DEF StartAgain, TypeOK

LEMMA StatusOf == \A row \in Row : row.status \in {"NONE"} \cup Live \cup Ended
  BY DEF Row

LEMMA NotIgnored ==
  ASSUME FlowTyped, NEW w \in Workers, At(w, "load"), ~Ignored(w)
  PROVE  run[work[w].of].status \in Live
<1> DEFINE row == run[work[w].of]
<1>1. row \in Row /\ work[w].of \in Starts
  BY DEF FlowTyped, TypeOK, Work
<1>2. row.status = "NONE" => row.wait = "none"
  BY <1>1, NoRunTyped DEF FlowTyped, Copies
<1>3. row.status # "NONE"
  BY <1>1, <1>2 DEF Ignored, Timed, Live
<1> QED
  BY <1>1, <1>3, StatusOf DEF Ignored

LEMMA LoadTyped == ASSUME FlowTyped, NEW w \in Workers, Load(w) PROVE Ours /\ (Moves(w) \/ Fresh(w))
<1> DEFINE r == work[w].of
           row == run[r]
<1>1. TypeOK /\ r \in Starts /\ row \in Row /\ work[w] \in Work /\ work[w].by \in Inputs \cup {"timer"}
  BY DEF FlowTyped, Load, Fits, At, TypeOK, Work
<1>2. ASSUME NEW pc \in {"node", "apply", "take"}, row.status \in Live,
             work' = [work EXCEPT ![w].pc = pc, ![w].row = row], run' = run
      PROVE  Fresh(w)
  <2> DEFINE k == [work[w] EXCEPT !.pc = pc, !.row = row]
  <2>1. k \in Work /\ k.pc = pc /\ k.row = row /\ k.of = r /\ k.by = work[w].by
    BY <1>1 DEF Work, Steps, Loop
  <2>2. Fits(k)
    BY <1>1, <1>2, <2>1 DEF Fits, Replying, Writing
  <2>3. Others(w) /\ Fits(work'[w]) /\ work'[w] = k
    BY <1>1, <1>2, <2>1, <2>2, TakesUp DEF TypeOK
  <2> QED
    BY <1>2, <2>1, <2>3 DEF Fresh, Holds, SameStep, Live, Waiting
<1>3. open' \subseteq Starts
  BY <1>1 DEF Load, TypeOK
<1>4. Moves(w) \/ Fresh(w)
  <2>1. CASE SameEvent(w) /\ work' = [work EXCEPT ![w].pc = IF row.wait = "none" THEN "node" ELSE "apply", ![w].row = row]
    BY <1>2, <2>1 DEF SameEvent, Load, Live
  <2>2. CASE Leave(w)
    BY <1>1, <2>2, LeaveMoves
  <2>3. CASE ~Ignored(w) /\ work' = [work EXCEPT ![w].pc = "take", ![w].row = row]
    BY <1>2, <2>3, NotIgnored DEF Load
  <2> QED
    BY <2>1, <2>2, <2>3 DEF Load
<1> QED
  BY <1>1, <1>3, <1>4 DEF Load, Ours, TypeOK, Moves, Fresh, Others, sends, history

\* The start under the lock.
Locks(w) ==
  /\ Others(w) /\ Fits(work'[w]) /\ work'[w].pc = "create" /\ work'[w].by = work[w].by
  /\ run[work[w].by].status = "NONE" /\ \A v \in Workers : ~At(v, "create")
  /\ LET of == work'[w].of IN
     /\ work'[w].row = run[of]
     /\ (LiveRuns = {} /\ of = work[w].by) \/ of \in LiveRuns

LEMMA StartLockTyped ==
  ASSUME FlowTyped, NEW w \in Workers, StartLock(w)
  PROVE  Ours /\ (Moves(w) \/ Locks(w))
<1> DEFINE r == work[w].by
<1>1. TypeOK /\ r \in Starts /\ work[w] \in Work /\ work[w].of = r
  BY DEF FlowTyped, StartLock, Fits, At, TypeOK
<1>2. CASE Skip(w)
  <2>1. exec' \in [Starts -> {"PENDING", "SENDING", "SENT", "RETRYING", "SKIPPED", "FAILED"}]
        /\ UNCHANGED <<open, replied, marker>>
    BY <1>1, <1>2 DEF Skip, TypeOK
  <2>2. Moves(w)
    BY <1>1, <1>2, LeaveMoves DEF Skip
  <2> QED
    BY <1>1, <2>1, <2>2 DEF StartLock, Ours, TypeOK, Moves, Others, history
<1>3. ASSUME ~Skip(w) PROVE Ours /\ Locks(w)
  <2>1. PICK c \in IF LiveRuns = {} THEN {r} ELSE LiveRuns :
          work' = [work EXCEPT ![w].pc = "create", ![w].of = c, ![w].row = run[c]]
    BY <1>3 DEF StartLock
  <2> DEFINE k == [work[w] EXCEPT !.pc = "create", !.of = c, !.row = run[c]]
  <2>2. c \in Starts /\ run[c] \in Row
    BY <1>1, <2>1 DEF LiveRuns, TypeOK
  <2>3. k \in Work /\ k.pc = "create" /\ k.row = run[c] /\ k.of = c /\ k.by = r
    BY <1>1, <2>2 DEF Work, Steps
  <2>4. Fits(k)
    BY <1>1, <2>1, <2>3 DEF Fits, Replying, Writing, LiveRuns
  <2>8. work' = [work EXCEPT ![w] = k]
    BY <2>1
  <2>5. Others(w) /\ Fits(work'[w]) /\ work'[w] = k
    BY <1>1, <2>3, <2>4, <2>8, TakesUp
  <2>6. Locks(w)
    BY <2>1, <2>3, <2>5 DEF Locks, StartLock, LockFree
  <2>7. open' \subseteq Starts /\ UNCHANGED sends
    BY <1>1, <1>3 DEF StartLock, TypeOK
  <2> QED
    BY <1>1, <2>6, <2>7 DEF StartLock, Ours, TypeOK, Locks, Others, sends, history
<1> QED
  BY <1>2, <1>3

-----------------------------------------------------------------------------
(* Those that write the runs                                               *)

Rewritten(r) ==
  /\ run[r].status \in Live /\ run'[r].status \in Live \cup Ended
  /\ run'[r].seq = run[r].seq /\ SameStep(run'[r], run[r])
  /\ run'[r].status \in Live => run'[r].wait = run[r].wait
Walked(r) ==
  /\ run[r].status = "ACTIVE" /\ run'[r].status \in Live \cup Ended /\ run'[r].seq = run[r].seq + 1
  /\ run'[r].node # run[r].node => \E h \in DOMAIN Edges[run[r].node] : run'[r].node = Edges[run[r].node][h]
RunsGo == \A r \in Starts : run'[r] = run[r] \/ Rewritten(r) \/ Walked(r)

LEMMA TakeTyped == ASSUME FlowTyped, NEW w \in Workers, Take(w) PROVE TypeOK' /\ RunsGo /\ (Moves(w) \/ Fresh(w))
<1> DEFINE r == work[w].of
           row == [work[w].row EXCEPT !.status = "ACTIVE", !.acq = work[w].by]
           k == [work[w] EXCEPT !.pc = "apply", !.row = row, !.held = TRUE]
<1>1. /\ TypeOK /\ r \in Starts /\ work[w] \in Work /\ work[w].by \in Inputs \cup {"timer"}
      /\ work[w].row.status \in Live /\ CopyOf(work[w].row, run[r])
  BY DEF FlowTyped, Take, Fits, At, TypeOK, Work, Copies, Holds
<1>2. CASE Unmoved(w)
  <2>1. Write(r, row) /\ work' = [work EXCEPT ![w] = k]
    BY <1>2 DEF Take
  <2>2. row \in Row /\ row.status = "ACTIVE" /\ row.seq = work[w].row.seq /\ row.wait = work[w].row.wait
        /\ SameStep(row, work[w].row)
    BY <1>1 DEF Work, Row, Inputs, Events, Live, SameStep
  <2>3. k \in Work /\ k.pc = "apply" /\ k.row = row /\ k.of = r
    BY <1>1, <2>2 DEF Work, Steps, Loop
  <2>4. Fits(k)
    BY <2>3 DEF Fits, Replying, Writing
  <2>5. Others(w) /\ Fits(work'[w]) /\ work'[w] = k
    BY <1>1, <2>1, <2>3, <2>4, TakesUp
  <2>6. run' \in [Starts -> Row] /\ run'[r] = row /\ quiet' \subseteq Starts
        /\ \A q \in Starts : q # r => run'[q] = run[q]
    BY <1>1, <2>1, <2>2 DEF Write, TypeOK
  <2>7. Rewritten(r)
    BY <1>1, <1>2, <2>2, <2>6 DEF Rewritten, Unmoved, CopyOf, SameStep, Live
  <2>8. Fresh(w)
    BY <2>2, <2>3, <2>5, <2>6 DEF Fresh, Holds, SameStep
  <2>10. Waits(row) /\ \A q \in Starts : Waits(run[q])
    BY <1>1, <2>2 DEF Waits, TypeOK
  <2>9. \A q \in Starts : Waits(run'[q])
    BY <2>6, <2>10
  <2> QED
    BY <1>1, <2>5, <2>6, <2>7, <2>8, <2>9 DEF Take, TypeOK, RunsGo, Others, sends, history
<1>3. CASE ~Unmoved(w)
  <2>1. Moves(w)
    BY <1>1, <1>3, LeaveMoves DEF Take
  <2> QED
    BY <1>1, <1>3, <2>1 DEF Take, TypeOK, RunsGo, Moves, Others, sends, history
<1> QED
  BY <1>2, <1>3

LEMMA WriteRuns ==
  ASSUME TypeOK, NEW r \in Starts, NEW row \in Row, Waits(row), Write(r, row)
  PROVE  /\ run' \in [Starts -> Row] /\ run'[r] = row /\ quiet' \subseteq Starts
         /\ \A q \in Starts : q # r => run'[q] = run[q]
         /\ \A q \in Starts : Waits(run'[q])
<1>1. run' \in [Starts -> Row] /\ run'[r] = row /\ quiet' \subseteq Starts /\ \A q \in Starts : q # r => run'[q] = run[q]
  BY DEF Write, TypeOK
<1>2. \A q \in Starts : Waits(run[q])
  BY DEF TypeOK
<1> QED
  BY <1>1, <1>2

LEMMA CommitTyped == ASSUME FlowTyped, NEW w \in Workers, Commit(w) PROVE TypeOK' /\ RunsGo /\ (Moves(w) \/ Fresh(w))
<1> DEFINE r == work[w].of
           new == [work[w].next EXCEPT !.seq = work[w].row.seq + 1]
           k == [work[w] EXCEPT !.pc = "node", !.row = new, !.next = NoRun, !.held = TRUE]
<1>1. /\ TypeOK /\ r \in Starts /\ work[w] \in Work /\ work[w].row \in Row
      /\ Result(work[w].row, work[w].next) /\ CopyOf(work[w].row, run[r])
  BY DEF FlowTyped, Commit, Fits, At, TypeOK, Work, Copies, Holds
<1>2. CASE run[r].seq = work[w].row.seq /\ run[r].status = "ACTIVE"
  <2>1. /\ new \in Row /\ new.seq = run[r].seq + 1 /\ new.node = work[w].next.node
        /\ new.status = work[w].next.status /\ new.wait = work[w].next.wait
    BY <1>1, <1>2 DEF Result, Row
  <2>2. Waits(new) /\ new.status \in Live \cup Ended
    BY <1>1, <2>1, StatusOf DEF Result, Waits
  <2>3. Write(r, new) /\ alarm' \subseteq Starts
    BY <1>1, <1>2 DEF Commit, TypeOK
  <2>4. /\ run' \in [Starts -> Row] /\ run'[r] = new /\ quiet' \subseteq Starts
        /\ \A q \in Starts : q # r => run'[q] = run[q]
        /\ \A q \in Starts : Waits(run'[q])
    BY <1>1, <2>1, <2>2, <2>3, WriteRuns
  <2>5. Walked(r)
    BY <1>1, <1>2, <2>1, <2>2, <2>4 DEF Walked, CopyOf, SameStep, Result
  <2>6. Moves(w) \/ Fresh(w)
    <3>1. CASE new.status = "ACTIVE"
      <4>1. work' = [work EXCEPT ![w] = k]
        BY <1>2, <3>1 DEF Commit
      <4>2. k \in Work /\ k.pc = "node" /\ k.row = new /\ k.of = r
        BY <1>1, <2>1, NoRunTyped DEF Work, Steps, Loop
      <4>3. Fits(k)
        BY <4>2 DEF Fits, Replying, Writing
      <4>4. Others(w) /\ Fits(work'[w]) /\ work'[w] = k
        BY <1>1, <4>1, <4>2, <4>3, TakesUp
      <4> QED
        BY <2>1, <2>4, <3>1, <4>2, <4>4 DEF Fresh, Holds, SameStep
    <3>2. CASE new.status # "ACTIVE"
      BY <1>1, <1>2, <3>2, LeaveMoves DEF Commit
    <3> QED
      BY <3>1, <3>2
  <2> QED
    BY <1>1, <2>3, <2>4, <2>5, <2>6 DEF Commit, TypeOK, RunsGo, Moves, Fresh, Others, sends, history
<1>3. CASE ~(run[r].seq = work[w].row.seq /\ run[r].status = "ACTIVE")
  <2>1. Leave(w) /\ UNCHANGED <<run, quiet, alarm>>
    BY <1>3 DEF Commit
  <2>2. Moves(w)
    BY <1>1, <2>1, LeaveMoves
  <2> QED
    BY <1>1, <2>1, <2>2 DEF Commit, TypeOK, RunsGo, Moves, Others, sends, history
<1> QED
  BY <1>2, <1>3

LEMMA ReviveTyped ==
  ASSUME FlowTyped, NEW w \in Workers, NEW r \in Starts, Revive(w, r)
  PROVE  TypeOK' /\ RunsGo /\ (UNCHANGED work \/ Fresh(w))
<1> DEFINE row == [run[r] EXCEPT !.stuck = TRUE]
           k == [Idle EXCEPT !.pc = IF row.wait = "none" THEN "node" ELSE "back",
                             !.by = "sweep", !.of = r, !.row = row, !.held = TRUE]
<1>1. TypeOK /\ run[r] \in Row /\ run[r].status = "ACTIVE"
  BY DEF FlowTyped, TypeOK, Revive
<1>2. CASE run[r].stuck
  <2> DEFINE over == Over(run[r], "FAILED")
  <2>1. over \in Row /\ Waits(over) /\ over.status = "FAILED" /\ over.seq = run[r].seq /\ SameStep(over, run[r])
    BY <1>1 DEF Over, Row, Waits, Live, Waiting, Ended, WaitKind, SameStep
  <2>2. Write(r, over) /\ UNCHANGED work
    BY <1>2 DEF Revive
  <2>3. /\ run' \in [Starts -> Row] /\ run'[r] = over /\ quiet' \subseteq Starts
        /\ \A q \in Starts : q # r => run'[q] = run[q]
        /\ \A q \in Starts : Waits(run'[q])
    BY <1>1, <2>1, <2>2, WriteRuns
  <2>4. Rewritten(r)
    BY <1>1, <2>1, <2>3 DEF Rewritten, Live, Ended, Waiting
  <2> QED
    BY <1>1, <2>2, <2>3, <2>4 DEF Revive, TypeOK, RunsGo, sends, history
<1>3. CASE ~run[r].stuck
  <2>1. row \in Row /\ Waits(row) /\ row.status = "ACTIVE" /\ row.seq = run[r].seq /\ SameStep(row, run[r])
        /\ row.wait = run[r].wait
    BY <1>1 DEF Row, Waits, SameStep
  <2>2. Write(r, row) /\ work' = [work EXCEPT ![w] = k]
    BY <1>3 DEF Revive
  <2>3. /\ run' \in [Starts -> Row] /\ run'[r] = row /\ quiet' \subseteq Starts
        /\ \A q \in Starts : q # r => run'[q] = run[q]
        /\ \A q \in Starts : Waits(run'[q])
    BY <1>1, <2>1, <2>2, WriteRuns
  <2>4. Rewritten(r)
    BY <1>1, <2>1, <2>3 DEF Rewritten, Live
  <2>5. k \in Work /\ k.row = row /\ k.of = r /\ k.pc \in {"node", "back"} /\ (k.pc = "back" => row.wait # "none")
    BY <2>1, IdleTyped DEF Work, Steps, Loop
  <2>6. Fits(k)
    BY <2>1, <2>5 DEF Fits, Replying, Writing
  <2>7. Others(w) /\ Fits(work'[w]) /\ work'[w] = k
    BY <1>1, <2>2, <2>5, <2>6, TakesUp
  <2>8. Fresh(w)
    BY <2>1, <2>3, <2>5, <2>7 DEF Fresh, Holds, SameStep
  <2> QED
    BY <1>1, <2>3, <2>4, <2>7, <2>8 DEF Revive, TypeOK, RunsGo, Others, sends, history
<1> QED
  BY <1>2, <1>3

LEMMA PutBackTyped == ASSUME FlowTyped, NEW w \in Workers, PutBack(w) PROVE TypeOK' /\ RunsGo /\ Moves(w)
<1> DEFINE r == work[w].of
           row == work[w].row
           back == CASE row.wait \in {"tap", "choice"} -> "WAITING_TAP"
                     [] row.wait \in {"inbound", "reopen"} -> "WAITING_INBOUND"
                     [] OTHER -> "WAITING_DELAY"
           new == [run[r] EXCEPT !.status = back, !.due = @ \/ back = "WAITING_DELAY"]
<1>1. /\ TypeOK /\ r \in Starts /\ row \in Row /\ run[r] \in Row /\ CopyOf(row, run[r])
      /\ row.status = "ACTIVE" /\ row.wait # "none" /\ Leave(w)
  BY DEF FlowTyped, PutBack, Fits, At, TypeOK, Work, Copies, Holds
<1>2. Moves(w)
  BY <1>1, LeaveMoves
<1>3. CASE Unmoved(w)
  <2>1. Write(r, new)
    BY <1>3 DEF PutBack
  <2>2. run[r].status = "ACTIVE" /\ run[r].wait = row.wait
    BY <1>1, <1>3 DEF Unmoved, CopyOf, Live
  <2>3. /\ row.wait \in {"tap", "choice"} => back = "WAITING_TAP"
        /\ row.wait \in {"inbound", "reopen"} => back = "WAITING_INBOUND"
        /\ row.wait \in {"delay", "retry"} => back = "WAITING_DELAY"
    OBVIOUS
  <2>4. row.wait \in {"tap", "choice"} \cup {"inbound", "reopen"} \cup {"delay", "retry"}
    BY <1>1 DEF Row, WaitKind
  <2> HIDE DEF back
  <2>5. new \in Row /\ new.status = back /\ new.wait = row.wait /\ new.seq = run[r].seq /\ SameStep(new, run[r])
    BY <1>1, <2>2, <2>3, <2>4 DEF Row, Live, Waiting, SameStep
  <2>6. Waits(new) /\ back \in Live
    BY <2>3, <2>4, <2>5 DEF Waits, Live, Waiting
  <2>7. /\ run' \in [Starts -> Row] /\ run'[r] = new /\ quiet' \subseteq Starts
        /\ \A q \in Starts : q # r => run'[q] = run[q]
        /\ \A q \in Starts : Waits(run'[q])
    BY <1>1, <2>1, <2>5, <2>6, WriteRuns
  <2>8. Rewritten(r)
    BY <2>2, <2>5, <2>6, <2>7 DEF Rewritten, Live
  <2> QED
    BY <1>1, <1>2, <2>7, <2>8 DEF PutBack, TypeOK, RunsGo, Moves, Others, sends, history
<1>4. CASE ~Unmoved(w)
  BY <1>1, <1>2, <1>4 DEF PutBack, TypeOK, RunsGo, Moves, Others, sends, history
<1> QED
  BY <1>3, <1>4

LEMMA CancelTyped == ASSUME FlowTyped, NEW r \in Starts, Cancel(r) PROVE TypeOK' /\ RunsGo /\ UNCHANGED work
<1> DEFINE over == Over(run[r], "CANCELLED")
<1>1. TypeOK /\ run[r] \in Row /\ run[r].status \in Waiting /\ Write(r, over)
  BY DEF FlowTyped, TypeOK, Cancel
<1>2. over \in Row /\ Waits(over) /\ over.status = "CANCELLED" /\ over.seq = run[r].seq /\ SameStep(over, run[r])
  BY <1>1 DEF Over, Row, Waits, Live, Waiting, Ended, WaitKind, SameStep
<1>3. /\ run' \in [Starts -> Row] /\ run'[r] = over /\ quiet' \subseteq Starts
      /\ \A q \in Starts : q # r => run'[q] = run[q]
      /\ \A q \in Starts : Waits(run'[q])
  BY <1>1, <1>2, WriteRuns
<1>4. Rewritten(r)
  BY <1>1, <1>2, <1>3 DEF Rewritten, Live, Ended, Waiting
<1> QED
  BY <1>1, <1>3, <1>4 DEF Cancel, TypeOK, RunsGo, sends, history

LEMMA PassTyped == ASSUME FlowTyped, NEW r \in Starts, Pass(r) PROVE TypeOK' /\ RunsGo /\ UNCHANGED work
<1> DEFINE row == [run[r] EXCEPT !.due = TRUE]
<1>1. TypeOK /\ run[r] \in Row /\ run[r].status \in Waiting
  BY DEF FlowTyped, TypeOK, Pass
<1>2. row \in Row /\ row.status = run[r].status /\ row.wait = run[r].wait /\ row.seq = run[r].seq /\ SameStep(row, run[r])
  BY <1>1 DEF Row, SameStep
<1>3. Waits(row)
  BY <1>1, <1>2 DEF TypeOK, Waits
<1>4. run' \in [Starts -> Row] /\ run'[r] = row /\ \A q \in Starts : q # r => run'[q] = run[q]
  BY <1>1, <1>2 DEF TypeOK, Pass
<1>5. \A q \in Starts : Waits(run[q])
  BY <1>1 DEF TypeOK
<1>6. \A q \in Starts : Waits(run'[q])
  BY <1>3, <1>4, <1>5
<1>7. Rewritten(r)
  BY <1>1, <1>2, <1>4 DEF Rewritten, Live, Waiting
<1> QED
  BY <1>1, <1>4, <1>6, <1>7 DEF Pass, TypeOK, RunsGo, sends, history, time

\* What moves neither a run nor a worker.
LEMMA WorldTyped ==
  ASSUME FlowTyped,
         \/ Unpublish \/ (\E e \in Inputs : Arrive(e)) \/ (\E r \in Starts : Rest(r) \/ GrowOld(r) \/ Close(r))
         \/ UNCHANGED vars
  PROVE  Ours /\ UNCHANGED work
<1> USE DEF FlowTyped
<1>1. CASE Unpublish
  <2>1. fuel' \in 0..MaxTrouble
    BY <1>1, TroubleTyped DEF Unpublish
  <2> QED
    BY <1>1, <2>1 DEF Ours, Unpublish, TypeOK, sends, history
<1>2. CASE \E e \in Inputs : Arrive(e)
  <2>1. event' \in [Events -> [status : {"none", "new", "busy", "done"}, of : Starts, node : Nodes]]
    BY <1>2 DEF TypeOK, Arrive, Events, Inputs
  <2> QED
    BY <1>2, <2>1 DEF Ours, Arrive, TypeOK, sends, history, time
<1>3. ASSUME NEW r \in Starts, Rest(r) \/ GrowOld(r) \/ Close(r) PROVE Ours /\ UNCHANGED work
  <2>1. CASE Rest(r)
    BY <2>1 DEF Ours, Rest, TypeOK, sends, history
  <2>2. CASE GrowOld(r)
    BY <2>2 DEF Ours, GrowOld, TypeOK, sends, history
  <2>3. CASE Close(r)
    <3>1. fuel' \in 0..MaxTrouble
      BY <2>3, TroubleTyped DEF Close
    <3> QED
      BY <2>3, <3>1 DEF Ours, Close, TypeOK, sends, history
  <2> QED
    BY <1>3, <2>1, <2>2, <2>3
<1>4. CASE UNCHANGED vars
  BY <1>4 DEF Ours, vars, TypeOK, sends, history, time
<1> QED
  BY <1>1, <1>2, <1>3, <1>4

\* A start that creates its run, and ends the cold one.
Creates(w) ==
  LET r == work[w].by
      c == work[w].of IN
  /\ At(w, "create") /\ r \in Starts
  /\ run[r].status = "NONE" /\ run'[r] = [NoRun EXCEPT !.status = "ACTIVE"]
  /\ \A q \in Starts : q # r => run'[q] = run[q] \/ (q = c /\ Rewritten(c))
  /\ Unmoved(w) /\ c # r => run'[c].status = "CANCELLED"
  /\ raced' \/ Unmoved(w)
  /\ work'[w].of = r /\ Fresh(w)

LEMMA CreateTyped == ASSUME FlowTyped, NEW w \in Workers, Create(w) PROVE TypeOK' /\ Creates(w)
<1> DEFINE r == work[w].by
           c == work[w].of
           new == [NoRun EXCEPT !.status = "ACTIVE"]
           over == [run[c] EXCEPT !.status = "CANCELLED", !.due = FALSE]
           k == [work[w] EXCEPT !.pc = "node", !.of = r, !.row = new, !.held = TRUE]
<1>1. /\ TypeOK /\ r \in Starts /\ c \in Starts /\ work[w] \in Work /\ run[c] \in Row
      /\ At(w, "create") /\ run[r].status = "NONE"
      /\ c # r => work[w].row.status \in Live
  BY DEF FlowTyped, Create, Fits, At, TypeOK, Work, Copies
<1>2. new \in Row /\ Waits(new) /\ new.status = "ACTIVE"
  BY NoRunTyped DEF Row, Live, Waits
<1>3. over \in Row /\ Waits(over) /\ over.status = "CANCELLED" /\ over.seq = run[c].seq /\ SameStep(over, run[c])
  BY <1>1 DEF Row, Ended, Waits, SameStep
<1>4. \A q \in Starts : Waits(run[q])
  BY <1>1 DEF TypeOK
<1>5. /\ run' \in [Starts -> Row] /\ run'[r] = new /\ (\A q \in Starts : Waits(run'[q]))
      /\ \A q \in Starts : q # r => run'[q] = run[q] \/ (q = c /\ Rewritten(c))
      /\ Unmoved(w) /\ c # r => run'[c].status = "CANCELLED"
  <2>1. CASE Unmoved(w) /\ c # r
    <3> DEFINE left == [run EXCEPT ![c].status = "CANCELLED", ![c].due = FALSE]
    <3>1. left \in [Starts -> Row] /\ left[c] = over /\ \A q \in Starts : q # c => left[q] = run[q]
      BY <1>1, <1>3 DEF TypeOK
    <3>2. run' = [left EXCEPT ![r] = new]
      BY <2>1 DEF Create
    <3> HIDE DEF left, new, over
    <3>3. /\ run' \in [Starts -> Row] /\ run'[r] = new /\ run'[c] = over
          /\ \A q \in Starts : q \notin {r, c} => run'[q] = run[q]
      BY <1>1, <1>2, <2>1, <3>1, <3>2
    <3>4. Rewritten(c)
      BY <1>1, <1>3, <2>1, <3>3 DEF Rewritten, Unmoved, Ended, Live, Waiting
    <3> QED
      BY <1>2, <1>3, <1>4, <3>3, <3>4
  <2>2. CASE ~(Unmoved(w) /\ c # r)
    <3>1. run' = [run EXCEPT ![r] = new]
      BY <2>2 DEF Create
    <3>2. run' \in [Starts -> Row] /\ run'[r] = new /\ \A q \in Starts : q # r => run'[q] = run[q]
      BY <1>1, <1>2, <3>1 DEF TypeOK
    <3> QED
      BY <1>2, <1>4, <2>2, <3>2
  <2> QED
    BY <2>1, <2>2
<1>6. work' = [work EXCEPT ![w] = k]
  BY DEF Create
<1>7. k \in Work /\ k.pc = "node" /\ k.row = new /\ k.of = r
  BY <1>1, <1>2 DEF Work, Steps, Loop
<1>8. Fits(k)
  BY <1>7 DEF Fits, Replying, Writing
<1>9. Others(w) /\ Fits(work'[w]) /\ work'[w] = k
  BY <1>1, <1>6, <1>7, <1>8, TakesUp
<1>10. Fresh(w)
  BY <1>2, <1>5, <1>7, <1>9 DEF Fresh, Holds, SameStep
<1>11. exec' \in [Starts -> {"PENDING", "SENDING", "SENT", "RETRYING", "SKIPPED", "FAILED"}] /\ raced' \in BOOLEAN
       /\ quiet' \subseteq Starts
  BY <1>1 DEF Create, TypeOK
<1>12. Creates(w)
  BY <1>1, <1>5, <1>7, <1>9, <1>10 DEF Creates, Create
<1> QED
  BY <1>1, <1>5, <1>9, <1>11, <1>12 DEF Create, TypeOK, Others

-----------------------------------------------------------------------------
(* Every step is of one of four shapes                                     *)

StepShape ==
  /\ TypeOK'
  /\ \/ RunsGo /\ (UNCHANGED work \/ \E w \in Workers : Moves(w) \/ Fresh(w))
     \/ run' = run /\ \E w \in Workers : Locks(w)
     \/ \E w \in Workers : Creates(w)

LEMMA Shapes == ASSUME FlowTyped, [Next]_vars PROVE StepShape
<1>1. ASSUME NEW w \in Workers, Step(w) PROVE StepShape
  <2>1. CASE StartLock(w)
    BY <2>1, StartLockTyped DEF StepShape, Ours, RunsGo
  <2>2. CASE Create(w)
    BY <2>2, CreateTyped DEF StepShape
  <2>3. CASE Take(w) \/ Commit(w) \/ PutBack(w)
    BY <2>3, TakeTyped, CommitTyped, PutBackTyped DEF StepShape
  <2>4. ASSUME Ours, Moves(w) \/ Fresh(w) PROVE StepShape
    BY <2>4 DEF StepShape, Ours, RunsGo
  <2>5. CASE StartAgain(w) \/ StartRefused(w) \/ Load(w) \/ Finish(w)
    BY <2>4, <2>5, StartAgainTyped, StartRefusedTyped, LoadTyped, FinishTyped
  <2>6. CASE Apply(w) \/ Guard(w) \/ Quietly(w) \/ PreSend(w) \/ NodeError(w)
    BY <2>4, <2>6, ApplyTyped, GuardTyped, QuietlyTyped, PreSendTyped, NodeErrorTyped
  <2>7. CASE Reply(w) \/ Sending(w) \/ Call(w) \/ Answered(w)
    BY <2>4, <2>7, ReplyTyped, SendingTyped, CallTyped, AnsweredTyped
  <2>8. CASE Look(w) \/ Mark(w) \/ Send(w) \/ Name(w)
    BY <2>4, <2>8, LookTyped, MarkTyped, SendTyped, NameTyped
  <2> QED
    BY <1>1, <2>1, <2>2, <2>3, <2>5, <2>6, <2>7, <2>8 DEF Step
<1>2. ASSUME NEW w \in Workers, Crash(w) \/ (\E e \in Events : Claim(w, e)) \/ \E r \in Starts : Ring(w, r) \/ DueFound(w, r)
      PROVE  StepShape
  <2>1. Ours /\ Moves(w)
    BY <1>2, CrashTyped, ClaimTyped, TimerTyped
  <2> QED
    BY <2>1 DEF StepShape, Ours, RunsGo
<1>3. ASSUME NEW w \in Workers, NEW r \in Starts, Revive(w, r) PROVE StepShape
  BY <1>3, ReviveTyped DEF StepShape
<1>4. ASSUME NEW r \in Starts, Cancel(r) \/ Pass(r) PROVE StepShape
  BY <1>4, CancelTyped, PassTyped DEF StepShape
<1>5. ASSUME \/ Unpublish \/ (\E e \in Inputs : Arrive(e)) \/ (\E r \in Starts : Rest(r) \/ GrowOld(r) \/ Close(r))
             \/ UNCHANGED vars
      PROVE  StepShape
  BY <1>5, WorldTyped DEF StepShape, Ours, RunsGo
<1> QED
  BY <1>1, <1>2, <1>3, <1>4, <1>5 DEF Next, Sweep, Time

LEMMA CopyKept ==
  ASSUME NEW row \in Row, NEW r \in Starts, run[r] \in Row, CopyOf(row, run[r]),
         run'[r] = run[r] \/ Rewritten(r) \/ Walked(r)
  PROVE  CopyOf(row, run'[r])
<1>1. row.seq \in Nat /\ run[r].seq \in Nat
  BY DEF Row
<1>2. CASE Rewritten(r)
  BY <1>1, <1>2 DEF CopyOf, Rewritten, SameStep
<1>3. CASE Walked(r)
  BY <1>1, <1>3 DEF CopyOf, Walked
<1> QED
  BY <1>2, <1>3

LEMMA NoneKept ==
  ASSUME NEW r \in Starts, run'[r] = run[r] \/ Rewritten(r) \/ Walked(r)
  PROVE  /\ run[r].status = "NONE" => run'[r] = run[r]
         /\ run'[r].status = "NONE" => run'[r] = run[r]
  BY DEF Rewritten, Walked, Live, Waiting, Ended

LEMMA FlowTypedKept == ASSUME FlowTyped, StepShape PROVE FlowTyped'
<1> USE DEF FlowTyped
<1>1. /\ \A v \in Workers : work[v] \in Work /\ work[v].of \in Starts /\ work[v].row \in Row
      /\ \A r \in Starts : run[r] \in Row
  BY DEF TypeOK, Work
<1>2. CASE RunsGo /\ (UNCHANGED work \/ \E w \in Workers : Moves(w) \/ Fresh(w))
  <2>1. \A v \in Workers : Fits(work'[v])
    BY <1>2 DEF Moves, Fresh, Others
  <2>2. \A r \in Starts : run'[r] = run[r] \/ Rewritten(r) \/ Walked(r)
    BY <1>2 DEF RunsGo
  <2>3. \A r \in Starts : run'[r].status = "NONE" => run'[r] = NoRun
    BY <2>2, NoneKept DEF Copies
  <2>4. ASSUME NEW v \in Workers, Holds(work[v]), work'[v].of = work[v].of, work'[v].row = work[v].row,
               work'[v].pc = work[v].pc \/ ~At(v, "create")
        PROVE  /\ CopyOf(work'[v].row, run'[work'[v].of])
               /\ run'[work'[v].of].status = "NONE" => work'[v].pc = "create"
    BY <1>1, <2>2, <2>4, CopyKept, NoneKept DEF Copies, At
  <2>5. ASSUME NEW v \in Workers, Holds(work'[v])
        PROVE  /\ CopyOf(work'[v].row, run'[work'[v].of])
               /\ run'[work'[v].of].status = "NONE" => work'[v].pc = "create"
    <3>1. CASE work'[v] = work[v]
      BY <2>4, <2>5, <3>1
    <3>2. CASE Stays(v)
      BY <2>4, <3>2 DEF Stays
    <3>3. CASE Fresh(v)
      BY <1>1, <3>3 DEF Fresh, CopyOf, Others, Work, Row
    <3> QED
      BY <1>2, <2>5, <3>1, <3>2, <3>3 DEF Moves, Fresh, Others
  <2>6. \A v \in Workers : work'[v].pc = "create" => work'[v] = work[v]
    BY <1>2 DEF Moves, Fresh, Others, Stays, Holds
  <2>7. \A v \in Workers : work'[v].pc = "create" => At(v, "create") /\ run'[work'[v].by].status = "NONE"
    BY <2>2, <2>6, NoneKept DEF Copies, At, Fits
  <2>8. \A v, u \in Workers : work'[v].pc = "create" /\ work'[u].pc = "create" => v = u
    BY <2>7 DEF Copies
  <2>9. Copies'
    BY <2>3, <2>5, <2>7, <2>8 DEF Copies, At
  <2> QED
    BY <2>1, <2>9 DEF StepShape
<1>3. ASSUME run' = run, NEW w \in Workers, Locks(w) PROVE FlowTyped'
  <2>1. \A v \in Workers : Fits(work'[v]) /\ (v # w => work'[v] = work[v] /\ work'[v].pc # "create")
    BY <1>3 DEF Locks, Others, At
  <2>2. CopyOf(work'[w].row, run'[work'[w].of])
    BY <1>1, <1>3 DEF Locks, CopyOf, SameStep, LiveRuns, Row, Fits, Others, Work
  <2>3. Copies'
    BY <1>3, <2>1, <2>2 DEF Copies, At, Locks
  <2> QED
    BY <2>1, <2>3 DEF StepShape
<1>4. ASSUME NEW w \in Workers, Creates(w) PROVE FlowTyped'
  <2> DEFINE r == work[w].by
  <2>1. \A v \in Workers : Fits(work'[v]) /\ (v # w => work'[v] = work[v] /\ ~At(v, "create")) /\ work'[v].pc # "create"
    BY <1>4 DEF Creates, Fresh, Others, Copies, At
  <2>2. \A q \in Starts : q # r => run'[q] = run[q] \/ Rewritten(q)
    BY <1>4 DEF Creates
  <2>3. \A q \in Starts : run'[q].status = "NONE" => run'[q] = NoRun
    <3>1. run'[r].status # "NONE"
      BY <1>4, NoRunTyped DEF Creates, Row
    <3> QED
      BY <2>2, <3>1, NoneKept DEF Copies
  <2>4. ASSUME NEW v \in Workers, v # w, Holds(work'[v])
        PROVE  CopyOf(work'[v].row, run'[work'[v].of]) /\ run'[work'[v].of].status # "NONE"
    <3>1. Holds(work[v]) /\ run[work[v].of].status # "NONE" /\ work[v].of # r /\ CopyOf(work[v].row, run[work[v].of])
      BY <1>4, <2>1, <2>4 DEF Copies, Creates, At
    <3> QED
      BY <1>1, <2>1, <2>2, <2>4, <3>1, CopyKept, NoneKept
  <2>5. CopyOf(work'[w].row, run'[work'[w].of]) /\ run'[work'[w].of].status # "NONE"
    <3>1. Fresh(w)
      BY <1>4 DEF Creates
    <3> QED
      BY <1>1, <3>1 DEF Fresh, CopyOf, Others, Work, Row
  <2>6. Copies'
    BY <2>1, <2>3, <2>4, <2>5 DEF Copies, At
  <2> QED
    BY <2>1, <2>6 DEF StepShape
<1> QED
  BY <1>2, <1>3, <1>4 DEF StepShape

LEMMA FlowStarts == Init => FlowTyped
<1> SUFFICES ASSUME Init PROVE FlowTyped
  OBVIOUS
<1>1. TypeOK
  <2>1. \A r \in Starts : run[r] = NoRun
    BY DEF Init
  <2>2. (CHOOSE r \in Starts : TRUE) \in Starts
    BY FlowAssumption
  <2>3. event \in [Events -> [status : {"none", "new", "busy", "done"}, of : Starts, node : Nodes]]
    BY <2>2, FlowAssumption DEF Init
  <2>4. run \in [Starts -> Row] /\ \A r \in Starts : Waits(run[r])
    BY <2>1, NoRunTyped DEF Init
  <2>5. work \in [Workers -> Work]
    BY IdleTyped DEF Init
  <2>6. fuel \in 0..MaxTrouble
    BY FlowAssumption DEF Init
  <2> QED
    BY <2>3, <2>4, <2>5, <2>6 DEF Init, TypeOK
<1>2. \A w \in Workers : Fits(work[w]) /\ ~Holds(work[w]) /\ ~At(w, "create")
  BY IdleTyped DEF Init, Fits, Holds, At, Replying, Writing
<1>3. Copies
  BY <1>2, NoRunTyped DEF Init, Copies
<1> QED
  BY <1>1, <1>2, <1>3 DEF FlowTyped

LEMMA FlowTypedAlways == Spec => []FlowTyped
<1>1. FlowTyped /\ [Next]_vars => FlowTyped'
  BY Shapes, FlowTypedKept
<1> QED
  BY <1>1, FlowStarts, PTL DEF Spec

\* Runs, copies, markers and what the workers carry keep their types: a parked run says
\* what it waits for, also after a worker died in the middle of its input (engine.ts:392).
THEOREM FlowTypeCorrect == Spec => []TypeOK
<1>1. FlowTyped => TypeOK
  BY DEF FlowTyped
<1> QED
  BY <1>1, FlowTypedAlways, PTL

-----------------------------------------------------------------------------
(* One edge at a time                                                      *)

OneEdge ==
  \A r \in Starts :
    /\ run[r].status \in Ended => run'[r] = run[r]
    /\ run'[r].node # run[r].node =>
         /\ run[r].status = "ACTIVE" /\ run'[r].seq = run[r].seq + 1
         /\ \E h \in DOMAIN Edges[run[r].node] : run'[r].node = Edges[run[r].node][h]

LEMMA StepWalks == ASSUME FlowTyped, StepShape PROVE OneEdge
<1>1. ASSUME NEW r \in Starts, run'[r] = run[r] \/ Rewritten(r) \/ Walked(r)
      PROVE  /\ run[r].status \in Ended => run'[r] = run[r]
             /\ run'[r].node # run[r].node =>
                  /\ run[r].status = "ACTIVE" /\ run'[r].seq = run[r].seq + 1
                  /\ \E h \in DOMAIN Edges[run[r].node] : run'[r].node = Edges[run[r].node][h]
  BY <1>1 DEF Rewritten, Walked, SameStep, Live, Waiting, Ended
<1>2. CASE RunsGo \/ run' = run
  BY <1>1, <1>2 DEF OneEdge, RunsGo
<1>3. ASSUME NEW w \in Workers, Creates(w) PROVE OneEdge
  <2> DEFINE r == work[w].by
  <2>1. run[r] = NoRun /\ run'[r].node = NoRun.node /\ run[r].status \notin Ended
    BY <1>3, NoRunTyped DEF Creates, FlowTyped, Copies, Row, Ended
  <2>2. \A q \in Starts : q # r => run'[q] = run[q] \/ Rewritten(q)
    BY <1>3 DEF Creates
  <2> QED
    BY <1>1, <2>1, <2>2 DEF OneEdge
<1> QED
  BY <1>2, <1>3 DEF StepShape

\* However many workers execute a node, and whichever of them dies, the run goes along one
\* edge of its graph at a time, and from its end nowhere (engine.ts:340, effects.ts:246).
THEOREM FlowWalks == Spec => Walks
<1>1. FlowTyped /\ [Next]_vars => OneEdge
  BY Shapes, StepWalks
<1>2. OneEdge => [OneEdge]_vars
  OBVIOUS
<1>3. Spec => [][OneEdge]_vars
  BY <1>1, FlowTypedAlways, PTL DEF Spec
<1> QED
  BY <1>3 DEF Walks, OneEdge

-----------------------------------------------------------------------------
(* One live run                                                            *)

\* Steps that neither send nor come near a send.
NearSteps == {"mark", "send", "name"}
Silent ==
  /\ \A v \in Workers : work'[v].pc \in NearSteps => work'[v] = work[v]
  /\ UNCHANGED <<marker, replied, sent, twice, lost, met>>
Speaks == \E w \in Workers : Call(w) \/ Look(w) \/ Mark(w) \/ Send(w) \/ Name(w)

LEMMA DecideSilent ==
  ASSUME TypeOK, NEW w \in Workers, NEW next, Decide(w, next)
  PROVE  \A v \in Workers : work'[v].pc \in NearSteps => work'[v] = work[v]
  BY DEF TypeOK, Work, Decide, NearSteps

LEMMA GotoSilent ==
  ASSUME TypeOK, NEW w \in Workers, NEW step, step \notin NearSteps, Goto(w, step)
  PROVE  \A v \in Workers : work'[v].pc \in NearSteps => work'[v] = work[v]
  BY DEF TypeOK, Work, Goto

LEMMA IdleSilent ==
  ASSUME TypeOK, NEW w \in Workers, NEW k, k.pc \notin NearSteps, work' = [work EXCEPT ![w] = k]
  PROVE  \A v \in Workers : work'[v].pc \in NearSteps => work'[v] = work[v]
  BY DEF TypeOK

LEMMA LeaveSilent ==
  ASSUME TypeOK, NEW w \in Workers, Leave(w)
  PROVE  \A v \in Workers : work'[v].pc \in NearSteps => work'[v] = work[v]
<1>1. (IF work[w].by \in Events THEN [Idle EXCEPT !.pc = "finish", !.by = work[w].by] ELSE Idle).pc \notin NearSteps
  BY IdleTyped DEF Work, NearSteps
<1> QED
  BY <1>1 DEF TypeOK, Leave

LEMMA Silence == ASSUME FlowTyped, [Next]_vars PROVE (Silent \/ Speaks) /\ (raced => raced')
<1> USE DEF FlowTyped
<1>1. ASSUME NEW w \in Workers, Guard(w) \/ Quietly(w) \/ Apply(w) \/ NodeError(w) \/ Answered(w)
      PROVE  Silent /\ UNCHANGED raced
  <2>1. \E next : Decide(w, next)
    BY <1>1 DEF Guard, Quietly, Apply, NodeError, Answered
  <2> QED
    BY <1>1, <2>1, DecideSilent DEF Guard, Quietly, Apply, NodeError, Answered, Silent, sends, history
<1>2. ASSUME NEW w \in Workers, PreSend(w) \/ Reply(w) \/ Sending(w) PROVE Silent /\ UNCHANGED raced
  <2> DEFINE row == work[w].row
             Outs == {Park(row, "WAITING_INBOUND", "reopen"), Unsent(row), Over(row, "DONE"), Sent(row), Retry(row),
                      Over(row, "FAILED")}
             Places == {"reply", "look", "sending", "call"}
  <2>1. CASE PreSend(w)
    <3>1. (\E next \in Outs : Decide(w, next)) \/ \E step \in Places : Goto(w, step)
      BY <2>1 DEF PreSend
    <3>2. \A v \in Workers : work'[v].pc \in NearSteps => work'[v] = work[v]
      BY <3>1, DecideSilent, GotoSilent DEF NearSteps
    <3> QED
      BY <2>1, <3>2 DEF PreSend, Silent, sends, history
  <2>2. CASE Reply(w)
    <3>1. (\E next \in Outs : Decide(w, next)) \/ \E step \in Places : Goto(w, step)
      BY <2>2 DEF Reply
    <3>2. \A v \in Workers : work'[v].pc \in NearSteps => work'[v] = work[v]
      BY <3>1, DecideSilent, GotoSilent DEF NearSteps
    <3> QED
      BY <2>2, <3>2 DEF Reply, Silent, sends, history
  <2>3. CASE Sending(w)
    <3>1. (\E next \in Outs : Decide(w, next)) \/ \E step \in Places : Goto(w, step)
      BY <2>3 DEF Sending
    <3>2. \A v \in Workers : work'[v].pc \in NearSteps => work'[v] = work[v]
      BY <3>1, DecideSilent, GotoSilent DEF NearSteps
    <3> QED
      BY <2>3, <3>2 DEF Sending, Silent, history
  <2> QED
    BY <1>2, <2>1, <2>2, <2>3
<1>3. ASSUME NEW w \in Workers, StartAgain(w) \/ Load(w) \/ Take(w) \/ Commit(w) PROVE Silent /\ UNCHANGED raced
  <2> DEFINE Still == \A v \in Workers : work'[v].pc \in NearSteps => work'[v] = work[v]
             Pcs == {"node", "apply", "take"}
  <2>1. Pcs \cap NearSteps = {} /\ work[w] \in Work
    BY DEF NearSteps, TypeOK
  <2>2. ASSUME NEW pc \in Pcs, NEW row, work' = [work EXCEPT ![w].pc = pc, ![w].row = row] PROVE Still
    <3> DEFINE k == [work[w] EXCEPT !.pc = pc, !.row = row]
    <3>1. k.pc \notin NearSteps /\ work' = [work EXCEPT ![w] = k]
      BY <2>1, <2>2 DEF Work
    <3> QED
      BY <3>1, IdleSilent
  <2>3. ASSUME NEW pc \in Pcs, NEW row, work' = [work EXCEPT ![w].pc = pc, ![w].row = row, ![w].held = TRUE] PROVE Still
    <3> DEFINE k == [work[w] EXCEPT !.pc = pc, !.row = row, !.held = TRUE]
    <3>1. k.pc \notin NearSteps /\ work' = [work EXCEPT ![w] = k]
      BY <2>1, <2>3 DEF Work
    <3> QED
      BY <3>1, IdleSilent
  <2>4. ASSUME NEW row, work' = [work EXCEPT ![w].pc = "node", ![w].row = row, ![w].next = NoRun, ![w].held = TRUE]
        PROVE  Still
    <3> DEFINE k == [work[w] EXCEPT !.pc = "node", !.row = row, !.next = NoRun, !.held = TRUE]
    <3>1. k.pc \notin NearSteps /\ work' = [work EXCEPT ![w] = k]
      BY <2>1, <2>4 DEF Work
    <3> QED
      BY <3>1, IdleSilent
  <2>5. Leave(w) => Still
    BY LeaveSilent
  <2> HIDE DEF Still
  <2>6. ASSUME StartAgain(w) PROVE Still
    BY <2>2, <2>5, <2>6 DEF StartAgain
  <2>7. ASSUME Load(w) PROVE Still
    <3>1. \/ Leave(w)
          \/ \E pc \in Pcs, row \in {run[work[w].of]} : work' = [work EXCEPT ![w].pc = pc, ![w].row = row]
      BY <2>7 DEF Load
    <3> QED
      BY <2>2, <2>5, <3>1
  <2>8. ASSUME Take(w) PROVE Still
    BY <2>3, <2>5, <2>8 DEF Take
  <2>9. ASSUME Commit(w) PROVE Still
    BY <2>4, <2>5, <2>9 DEF Commit
  <2>10. Still
    BY <1>3, <2>6, <2>7, <2>8, <2>9
  <2> QED
    BY <1>3, <2>10 DEF StartAgain, Load, Take, Commit, Silent, sends, history, Still
<1>4. ASSUME NEW w \in Workers, StartRefused(w) \/ PutBack(w) PROVE Silent /\ UNCHANGED raced
  BY <1>4, LeaveSilent DEF StartRefused, PutBack, Skip, Silent, sends, history
<1>5. ASSUME NEW w \in Workers, StartLock(w) \/ Create(w) PROVE Silent /\ (raced => raced')
  <2> DEFINE Still == \A v \in Workers : work'[v].pc \in NearSteps => work'[v] = work[v]
  <2>1. work[w] \in Work
    BY DEF TypeOK
  <2>2. ASSUME StartLock(w) PROVE Still
    <3>1. CASE Skip(w)
      BY <3>1, LeaveSilent DEF Skip
    <3>2. ASSUME NEW c, work' = [work EXCEPT ![w].pc = "create", ![w].of = c, ![w].row = run[c]] PROVE Still
      <4> DEFINE k == [work[w] EXCEPT !.pc = "create", !.of = c, !.row = run[c]]
      <4>1. k.pc \notin NearSteps /\ work' = [work EXCEPT ![w] = k]
        BY <2>1, <3>2 DEF Work, NearSteps
      <4> QED
        BY <4>1, IdleSilent
    <3> HIDE DEF Still
    <3> QED
      BY <2>2, <3>1, <3>2 DEF StartLock
  <2>3. ASSUME Create(w) PROVE Still
    <3> DEFINE new == [NoRun EXCEPT !.status = "ACTIVE"]
               k == [work[w] EXCEPT !.pc = "node", !.of = work[w].by, !.row = new, !.held = TRUE]
    <3>1. k.pc \notin NearSteps /\ work' = [work EXCEPT ![w] = k]
      BY <2>1, <2>3 DEF Work, NearSteps, Create
    <3> QED
      BY <3>1, IdleSilent
  <2>4. UNCHANGED <<marker, replied, sent, twice, lost, met>> /\ (raced => raced')
    <3>1. CASE StartLock(w)
      <4>1. UNCHANGED <<replied, marker>>
        BY <3>1 DEF StartLock, Skip, sends
      <4> QED
        BY <3>1, <4>1 DEF StartLock, history
    <3>2. CASE Create(w)
      BY <3>2 DEF Create
    <3> QED
      BY <1>5, <3>1, <3>2
  <2> QED
    BY <1>5, <2>2, <2>3, <2>4 DEF Silent
<1>6. ASSUME NEW w \in Workers, Finish(w) \/ Crash(w) PROVE Silent /\ UNCHANGED raced
  BY <1>6, IdleTyped, IdleSilent DEF Finish, Crash, Silent, sends, history, NearSteps
<1>7. ASSUME NEW w \in Workers, \/ \E e \in Events : Claim(w, e)
                                \/ \E r \in Starts : Ring(w, r) \/ DueFound(w, r) \/ Revive(w, r)
      PROVE  Silent /\ UNCHANGED raced
  <2> DEFINE Still == \A v \in Workers : work'[v].pc \in NearSteps => work'[v] = work[v]
  <2>1. \/ \E k : work' = [work EXCEPT ![w] = k] /\ k.pc \in {"start", "load", "finish", "node", "back"}
        \/ UNCHANGED work
    <3>1. ASSUME NEW e \in Events, Claim(w, e)
          PROVE  \E k : work' = [work EXCEPT ![w] = k] /\ k.pc \in {"start", "load", "finish"}
      <4>1. [Idle EXCEPT !.pc = "start", !.by = e, !.of = e].pc = "start" /\ [Idle EXCEPT !.pc = "finish", !.by = e].pc = "finish"
        BY IdleTyped DEF Work
      <4>2. \A r : [Idle EXCEPT !.pc = "load", !.by = e, !.of = r].pc = "load"
        BY IdleTyped DEF Work
      <4>3. \/ work' = [work EXCEPT ![w] = [Idle EXCEPT !.pc = "start", !.by = e, !.of = e]]
            \/ \E r : work' = [work EXCEPT ![w] = [Idle EXCEPT !.pc = "load", !.by = e, !.of = r]]
            \/ work' = [work EXCEPT ![w] = [Idle EXCEPT !.pc = "finish", !.by = e]]
        BY <3>1 DEF Claim
      <4> DEFINE begin == [Idle EXCEPT !.pc = "start", !.by = e, !.of = e]
                 load(r) == [Idle EXCEPT !.pc = "load", !.by = e, !.of = r]
                 end == [Idle EXCEPT !.pc = "finish", !.by = e]
      <4>4. begin.pc = "start" /\ end.pc = "finish" /\ (\A r : load(r).pc = "load")
        BY <4>1, <4>2
      <4>5. \/ work' = [work EXCEPT ![w] = begin] \/ work' = [work EXCEPT ![w] = end]
            \/ \E r : work' = [work EXCEPT ![w] = load(r)]
        BY <4>3
      <4> HIDE DEF begin, load, end
      <4> QED
        BY <4>4, <4>5
    <3>2. ASSUME NEW r \in Starts, Ring(w, r) \/ DueFound(w, r)
          PROVE  \E k : work' = [work EXCEPT ![w] = k] /\ k.pc = "load"
      <4>1. [Idle EXCEPT !.pc = "load", !.by = "timer", !.of = r, !.row = run[r]].pc = "load"
        BY IdleTyped DEF Work
      <4>2. work' = [work EXCEPT ![w] = [Idle EXCEPT !.pc = "load", !.by = "timer", !.of = r, !.row = run[r]]]
        BY <3>2 DEF Ring, DueFound
      <4> QED
        BY <4>1, <4>2
    <3>3. ASSUME NEW r \in Starts, Revive(w, r), ~UNCHANGED work
          PROVE  \E k : work' = [work EXCEPT ![w] = k] /\ k.pc \in {"node", "back"}
      <4> DEFINE row == [run[r] EXCEPT !.stuck = TRUE]
                 k == [Idle EXCEPT !.pc = IF row.wait = "none" THEN "node" ELSE "back",
                                   !.by = "sweep", !.of = r, !.row = row, !.held = TRUE]
      <4>1. k.pc \in {"node", "back"}
        BY IdleTyped DEF Work
      <4>2. work' = [work EXCEPT ![w] = k]
        BY <3>3 DEF Revive
      <4> QED
        BY <4>1, <4>2
    <3> QED
      BY <1>7, <3>1, <3>2, <3>3
  <2>2. Still
    BY <2>1, IdleSilent DEF NearSteps
  <2> QED
    BY <1>7, <2>2 DEF Claim, Ring, DueFound, Revive, Silent, sends, history
<1>8. ASSUME \/ Unpublish \/ (\E e \in Inputs : Arrive(e)) \/ UNCHANGED vars
             \/ \E r \in Starts : Rest(r) \/ GrowOld(r) \/ Close(r) \/ Cancel(r) \/ Pass(r)
      PROVE  Silent /\ UNCHANGED raced
  BY <1>8 DEF Unpublish, Arrive, Rest, GrowOld, Close, Cancel, Pass, vars, Silent, sends, history
<1>9. ASSUME Speaks PROVE UNCHANGED raced
  BY <1>9 DEF Speaks, Call, Look, Mark, Send, Name, history
<1> QED
  BY <1>1, <1>2, <1>3, <1>4, <1>5, <1>6, <1>7, <1>8, <1>9 DEF Next, Step, Sweep, Time, Speaks

\* After a step a worker has the copy it had, or one of the run as it is.
Kept(w) == Holds(work[w]) /\ work'[w].of = work[w].of /\ work'[w].row = work[w].row
Recent(w) == work'[w].row.seq = run'[work'[w].of].seq /\ SameStep(work'[w].row, run'[work'[w].of])

LEMMA OldOrNew ==
  ASSUME StepShape, NEW w \in Workers, Holds(work'[w])
  PROVE  Kept(w) \/ Recent(w)
<1>1. CASE \E u \in Workers : Moves(u) \/ Fresh(u)
  BY <1>1 DEF Moves, Stays, Fresh, Others, Kept, Recent
<1>2. CASE run' = run /\ \E u \in Workers : Locks(u)
  BY <1>2 DEF Locks, Others, Kept, Recent, SameStep
<1>3. CASE \E u \in Workers : Creates(u)
  BY <1>1, <1>3 DEF Creates
<1>4. CASE UNCHANGED work
  BY <1>4 DEF Kept
<1> QED
  BY <1>1, <1>2, <1>3, <1>4 DEF StepShape

LEMMA AgreedKept == ASSUME FlowTyped', Agreed, StepShape PROVE Agreed'
<1> SUFFICES ASSUME NEW v \in Workers, NEW w \in Workers, Holds(work'[v]), Holds(work'[w]),
                    work'[v].of = work'[w].of, work'[v].row.seq = work'[w].row.seq
             PROVE  SameStep(work'[v].row, work'[w].row)
  BY DEF Agreed
<1>1. CopyOf(work'[v].row, run'[work'[v].of]) /\ CopyOf(work'[w].row, run'[work'[w].of])
  BY DEF FlowTyped, Copies
<1>2. CASE Kept(v) /\ Kept(w)
  BY <1>2 DEF Agreed, Kept
<1>3. CASE Recent(v) \/ Recent(w)
  BY <1>1, <1>3 DEF Recent, CopyOf, SameStep
<1> QED
  BY <1>2, <1>3, OldOrNew

LEMMA OneLiveKept == ASSUME FlowTyped, OneLive, StepShape, raced => raced' PROVE OneLive'
<1> SUFFICES ASSUME ~raced' PROVE /\ \A r, q \in LiveRuns' : r = q
                                  /\ \A v \in Workers : work'[v].pc = "create" => LiveRuns' \subseteq {work'[v].of}
  BY DEF OneLive, At
<1>1. ~raced /\ (\A r, q \in LiveRuns : r = q) /\ \A v \in Workers : At(v, "create") => LiveRuns \subseteq {work[v].of}
  BY DEF OneLive
<1>2. CASE RunsGo /\ (UNCHANGED work \/ \E w \in Workers : Moves(w) \/ Fresh(w))
  <2>1. LiveRuns' \subseteq LiveRuns
    BY <1>2 DEF RunsGo, LiveRuns, Rewritten, Walked, Live
  <2>2. \A v \in Workers : work'[v].pc = "create" => work'[v] = work[v]
    BY <1>2 DEF Moves, Fresh, Others, Stays, Holds
  <2> QED
    BY <1>1, <2>1, <2>2 DEF At
<1>3. ASSUME run' = run, NEW w \in Workers, Locks(w)
      PROVE  /\ \A r, q \in LiveRuns' : r = q
             /\ \A v \in Workers : work'[v].pc = "create" => LiveRuns' \subseteq {work'[v].of}
  <2>1. LiveRuns' = LiveRuns /\ LiveRuns \subseteq {work'[w].of}
    BY <1>1, <1>3 DEF LiveRuns, Locks
  <2>2. \A v \in Workers : work'[v].pc = "create" => v = w
    BY <1>3 DEF Locks, Others, At
  <2> QED
    BY <1>1, <2>1, <2>2
<1>4. ASSUME NEW w \in Workers, Creates(w)
      PROVE  /\ \A r, q \in LiveRuns' : r = q
             /\ \A v \in Workers : work'[v].pc = "create" => LiveRuns' \subseteq {work'[v].of}
  <2> DEFINE r == work[w].by
             c == work[w].of
  <2>1. LiveRuns \subseteq {c} /\ Unmoved(w)
    BY <1>1, <1>4 DEF Creates
  <2>2. LiveRuns' \subseteq {r}
    BY <1>4, <2>1 DEF Creates, LiveRuns, Rewritten, Live, Waiting
  <2>3. \A v \in Workers : work'[v].pc # "create"
    BY <1>4 DEF Creates, Fresh, Others, FlowTyped, Copies, At
  <2> QED
    BY <2>2, <2>3
<1> QED
  BY <1>2, <1>3, <1>4 DEF StepShape

LEMMA OneLiveStarts == Init => Agreed /\ OneLive
<1> SUFFICES ASSUME Init PROVE Agreed /\ OneLive
  OBVIOUS
<1>1. \A w \in Workers : ~Holds(work[w]) /\ ~At(w, "create")
  BY IdleTyped DEF Init, Holds, At
<1>2. LiveRuns = {}
  BY NoRunTyped DEF Init, LiveRuns, Live, Waiting
<1> QED
  BY <1>1, <1>2 DEF Agreed, OneLive

\* A person has one live run per account, however starts, sweeps and deaths interleave
\* (runner.ts:140), unless a worker took the cold run between the read and the write of
\* the start that replaced it.
THEOREM FlowOneLiveRun == Spec => []OneLiveRun
<1> DEFINE Sound == FlowTyped /\ Agreed /\ OneLive
<1>1. Init => Sound
  BY FlowStarts, OneLiveStarts
<1>2. Sound /\ [Next]_vars => Sound'
  BY Shapes, FlowTypedKept, AgreedKept, OneLiveKept, Silence
<1>3. Sound => OneLiveRun
  <2> SUFFICES ASSUME OneLive, ~raced PROVE Cardinality(LiveRuns) <= 1
    BY DEF OneLiveRun
  <2>1. CASE LiveRuns = {}
    BY <2>1, FS_EmptySet
  <2>2. ASSUME NEW r \in LiveRuns PROVE Cardinality(LiveRuns) <= 1
    <3>1. LiveRuns = {r}
      BY <2>2 DEF OneLive
    <3> QED
      BY <3>1, FS_Singleton
  <2> QED
    BY <2>1, <2>2
<1> QED
  BY <1>1, <1>2, <1>3, PTL DEF Spec

-----------------------------------------------------------------------------
(* No message twice                                                        *)

LEMMA SameKey ==
  ASSUME FlowTyped, Agreed, NEW v \in Workers, NEW w \in Workers, Holds(work[v]), Holds(work[w]), Key(v) = Key(w)
  PROVE  /\ Message(v) = Message(w) /\ SameStep(work[v].row, work[w].row) /\ work[v].of = work[w].of
         /\ work[v].row.seq = work[w].row.seq
<1>1. work[v].row.seq \in Nat /\ work[w].row.seq \in Nat
  BY DEF FlowTyped, TypeOK, Work, Row
<1>2. work[v].of = work[w].of /\ work[v].row.seq = work[w].row.seq
  BY <1>1 DEF Key
<1> QED
  BY <1>2 DEF Agreed, SameStep, Message

LEMMA VouchedSame ==
  ASSUME NEW m, NEW a, NEW b, SameStep(a, b), Vouched(m, a)
  PROVE  Vouched(m, b)
  BY DEF Vouched, SameStep, IsReply

\* Nothing that vouches for a message that went out is taken away.
Safe(m) == m \in Excused \/ Marked(m[1], m[2])
Lasting == replied \subseteq replied' /\ \A m \in sent : Safe(m) => Safe(m)'
\* What goes out is vouched for to the worker that sent it.
By(w, m) == Holds(work'[w]) /\ m[1] = work'[w].of /\ m[2] = work'[w].row.seq + 1 /\ Vouched(m, work[w].row)'
Delivered == \A m \in sent' \ sent : \E w \in Workers : By(w, m)

LEMMA SeqGrows ==
  ASSUME FlowTyped, StepShape, NEW r \in Starts
  PROVE  /\ run[r].seq \in Nat /\ run'[r].seq \in Nat /\ run[r].seq <= run'[r].seq
         /\ run'[r].seq = run[r].seq => SameStep(run'[r], run[r])
<1>1. run[r].seq \in Nat /\ run'[r].seq \in Nat
  BY DEF FlowTyped, TypeOK, StepShape, Row
<1>2. ASSUME run'[r] = run[r] \/ Rewritten(r) \/ Walked(r)
      PROVE  run[r].seq <= run'[r].seq /\ (run'[r].seq = run[r].seq => SameStep(run'[r], run[r]))
  BY <1>1, <1>2 DEF Rewritten, Walked, SameStep
<1>3. ASSUME NEW w \in Workers, Creates(w), r = work[w].by
      PROVE  run[r].seq <= run'[r].seq /\ SameStep(run'[r], run[r])
  <2>1. run[r] = NoRun /\ run'[r] = [NoRun EXCEPT !.status = "ACTIVE"]
    BY <1>3 DEF Creates, FlowTyped, Copies
  <2>2. run'[r].seq = NoRun.seq /\ SameStep(run'[r], NoRun)
    BY <2>1 DEF NoRun, SameStep
  <2> QED
    BY <1>1, <2>1, <2>2
<1> QED
  BY <1>1, <1>2, <1>3 DEF StepShape, RunsGo, Creates

LEMMA SentKnownKept ==
  ASSUME FlowTyped, FlowTyped', Agreed', SentKnown, StepShape, Lasting, Delivered
  PROVE  SentKnown'
<1>1. /\ \A m \in sent' : m[1] \in Starts /\ m[2] \in Nat
      /\ \A v \in Workers : work'[v].of \in Starts /\ work'[v].row.seq \in Nat
  BY DEF FlowTyped, TypeOK, Work, Row
<1>2. ASSUME NEW m \in sent, NEW row, Vouched(m, row) PROVE Vouched(m, row)'
  BY <1>2 DEF Vouched, Lasting, Safe
<1>3. \A m \in sent' : m[2] <= run'[m[1]].seq + 1
  <2>1. ASSUME NEW m \in sent' \ sent PROVE m[2] <= run'[m[1]].seq + 1
    <3>1. PICK w \in Workers : CopyOf(work'[w].row, run'[m[1]]) /\ m[2] = work'[w].row.seq + 1
      BY <2>1 DEF Delivered, By, FlowTyped, Copies
    <3> QED
      BY <1>1, <3>1, SeqGrows DEF CopyOf
  <2>2. ASSUME NEW m \in sent, m \in sent' PROVE m[2] <= run'[m[1]].seq + 1
    <3>1. m[2] <= run[m[1]].seq + 1
      BY DEF SentKnown
    <3> QED
      BY <1>1, <2>2, <3>1, SeqGrows
  <2> QED
    BY <2>1, <2>2
<1>4. ASSUME NEW m \in sent', m[2] = run'[m[1]].seq + 1 PROVE Vouched(m, run[m[1]])'
  <2>1. CASE m \in sent
    <3>1. m[2] <= run[m[1]].seq + 1
      BY <2>1 DEF SentKnown
    <3>2. run'[m[1]].seq = run[m[1]].seq /\ SameStep(run'[m[1]], run[m[1]])
      BY <1>1, <1>4, <3>1, SeqGrows
    <3>3. Vouched(m, run[m[1]])
      BY <1>4, <2>1, <3>2 DEF SentKnown
    <3>4. Vouched(m, run'[m[1]])
      BY <3>2, <3>3, VouchedSame DEF SameStep
    <3> QED
      BY <1>2, <2>1, <3>4
  <2>2. CASE m \notin sent
    <3>1. PICK w \in Workers : /\ Holds(work'[w]) /\ m[1] = work'[w].of /\ m[2] = work'[w].row.seq + 1
                               /\ Vouched(m, work[w].row)'
      BY <2>2 DEF Delivered, By
    <3>2. CopyOf(work'[w].row, run'[m[1]])
      BY <3>1 DEF FlowTyped, Copies
    <3>3. SameStep(work'[w].row, run'[m[1]])
      BY <1>1, <1>4, <3>1, <3>2, SeqGrows DEF CopyOf
    <3> QED
      BY <3>1, <3>3 DEF Vouched, SameStep, IsReply
  <2> QED
    BY <2>1, <2>2
<1>5. ASSUME NEW v \in Workers, Holds(work'[v]), NEW m \in sent', m[1] = work'[v].of, m[2] = work'[v].row.seq + 1
      PROVE  Vouched(m, work[v].row)'
  <2>1. CASE Recent(v)
    <3>1. Vouched(m, run[m[1]])' /\ SameStep(work'[v].row, run'[m[1]])
      BY <1>4, <1>5, <2>1 DEF Recent
    <3> QED
      BY <3>1 DEF Vouched, SameStep, IsReply
  <2>2. CASE Kept(v) /\ m \in sent
    <3>1. Vouched(m, work'[v].row)
      BY <1>5, <2>2 DEF Kept, SentKnown
    <3> QED
      BY <1>2, <2>2, <3>1
  <2>3. CASE m \notin sent
    <3>1. PICK w \in Workers : /\ Holds(work'[w]) /\ m[1] = work'[w].of /\ m[2] = work'[w].row.seq + 1
                               /\ Vouched(m, work[w].row)'
      BY <2>3 DEF Delivered, By
    <3>2. work'[w].row.seq = work'[v].row.seq
      BY <1>1, <1>5, <3>1
    <3>3. SameStep(work'[w].row, work'[v].row)
      BY <1>5, <3>1, <3>2 DEF Agreed
    <3> QED
      BY <3>1, <3>3 DEF Vouched, SameStep, IsReply
  <2> QED
    BY <1>5, <2>1, <2>2, <2>3, OldOrNew
<1> QED
  BY <1>3, <1>4, <1>5 DEF SentKnown

\* What a step keeps of the markers, the messages and what vouches for them.
Keeps == Lasting /\ Delivered /\ Markers' /\ SentOnce'

LEMMA SilentKeeps == ASSUME Markers, SentOnce, Silent PROVE Keeps
<1>1. Lasting /\ Delivered /\ SentOnce'
  BY DEF Silent, Lasting, Safe, Excused, Marked, Delivered, SentOnce
<1>2. \A v \in Workers : Near(v)' \/ Bound(v)' => work'[v] = work[v]
  BY DEF Silent, Near, Bound, NearSteps
<1>3. \A v \in Workers : work'[v] = work[v] =>
        Pending(v)' = Pending(v) /\ Message(v)' = Message(v) /\ Key(v)' = Key(v)
        /\ Near(v)' = Near(v) /\ Bound(v)' = Bound(v) /\ \A pc : At(v, pc)' = At(v, pc)
  BY DEF Pending, Message, Key, Near, Bound, At
<1>4. UNCHANGED <<marker, sent, lost, met>>
  BY DEF Silent
<1>5. \A v \in Workers : At(v, "mark")' \/ At(v, "send")' => work'[v] = work[v]
  BY DEF Silent, At, NearSteps
<1>6. Markers'
  BY <1>2, <1>3, <1>4, <1>5 DEF Markers, Marked, Excused
<1> QED
  BY <1>1, <1>6 DEF Keeps

\* The other workers, when w steps.
LEMMA Same ==
  ASSUME NEW v \in Workers, work'[v] = work[v]
  PROVE  /\ Pending(v)' = Pending(v) /\ Message(v)' = Message(v) /\ Key(v)' = Key(v)
         /\ Near(v)' = Near(v) /\ Bound(v)' = Bound(v)
         /\ At(v, "mark")' = At(v, "mark") /\ At(v, "send")' = At(v, "send")
  BY DEF Pending, Message, Key, Near, Bound, At

LEMMA StaysSame ==
  ASSUME NEW w \in Workers, Stays(w)
  PROVE  Pending(w)' = Pending(w) /\ Message(w)' = Message(w) /\ Key(w)' = Key(w)
  BY DEF Stays, Pending, Message, Key

LEMMA CallKeeps ==
  ASSUME FlowTyped, Agreed, SentKnown, Markers, SentOnce, NEW w \in Workers, Call(w)
  PROVE  Keeps
<1> DEFINE r == work[w].of
           m == Message(w)
<1>1. /\ Moves(w) /\ Stays(w) /\ IsReply(r, work[w].row) /\ Holds(work[w])
      /\ m[1] = r /\ m[2] = work[w].row.seq + 1 /\ m[3] = work[w].row.node
  BY CallTyped, MessageTyped DEF FlowTyped, Fits, Call, At, Replying, Holds
<1>2. ~Near(w)' /\ ~Bound(w)' /\ ~At(w, "mark")' /\ ~At(w, "send")'
  <2>1. \E step \in {"answered", "refused", "denied"} : Goto(w, step)
    BY DEF Call
  <2>2. work'[w].pc \in {"answered", "refused", "denied"}
    BY <2>1 DEF Goto, FlowTyped, TypeOK, Work
  <2> QED
    BY <2>2 DEF Near, Bound, At
<1>3. UNCHANGED <<marker, met>> /\ replied \subseteq replied' /\ lost \subseteq lost'
  BY DEF Call
<1>4. \/ UNCHANGED <<sent, twice>>
      \/ r \notin replied /\ r \in replied' /\ sent' = sent \cup {m}
         /\ twice' = IF m \in sent THEN twice \cup {m} ELSE twice
  BY DEF Call, Deliver
<1>5. Lasting
  BY <1>3 DEF Lasting, Safe, Excused, Marked
<1>6. Delivered
  <2>1. ASSUME r \in replied', NEW x, x = m PROVE By(w, x)
    BY <1>1, <2>1 DEF By, Stays, Vouched, IsReply
  <2> QED
    BY <1>4, <2>1 DEF Delivered
<1>7. m \in sent => r \in replied
  BY <1>1 DEF SentKnown, Vouched
<1>8. SentOnce'
  BY <1>3, <1>4, <1>7 DEF SentOnce
<1>9. Markers'
  <2>1. \A v \in Workers : v # w => work'[v] = work[v]
    BY <1>1 DEF Moves, Others
  <2>2. ASSUME NEW v \in Workers, At(v, "send"), Message(v) = m PROVE FALSE
    <3>1. Holds(work[v]) /\ ~IsReply(work[v].of, work[v].row)
      BY <2>2 DEF FlowTyped, Fits, At, Holds, Writing
    <3>2. work[v].of = r /\ Key(v) = Key(w)
      BY <2>2 DEF Message, Key
    <3> QED
      BY <1>1, <3>1, <3>2, SameKey DEF SameStep, IsReply
  <2>3. \A v \in Workers : At(v, "send") /\ Message(v) \in sent' => Message(v) \in sent
    BY <1>4, <2>2
  <2> QED
    BY <1>2, <1>3, <2>1, <2>3, Same DEF Markers, Marked, Excused
<1> QED
  BY <1>5, <1>6, <1>8, <1>9 DEF Keeps

LEMMA LookKeeps ==
  ASSUME FlowTyped, Agreed, SentKnown, Markers, SentOnce, NEW w \in Workers, Look(w)
  PROVE  Keeps
<1>1. /\ Moves(w) /\ Stays(w) /\ Holds(work[w])
      /\ Pending(w) = <<work[w].of, work[w].row.seq + 1, "pending">>
      /\ Named(w) = <<work[w].of, work[w].row.seq + 1, "mid">>
  BY LookTyped, MessageTyped DEF Stays, FlowTyped
<1>2. UNCHANGED <<marker, replied, sent, twice, lost>> /\ met \subseteq met' /\ (Together(w) => Message(w) \in met')
  BY DEF Look, sends
<1>3. Lasting /\ Delivered /\ SentOnce'
  BY <1>2 DEF Lasting, Safe, Excused, Marked, Delivered, SentOnce
<1>4. \A v \in Workers : v # w => work'[v] = work[v]
  BY <1>1 DEF Moves, Others
<1>5. \/ ~Near(w)' /\ ~Bound(w)' /\ ~At(w, "mark")' /\ ~At(w, "send")'
      \/ /\ Near(w)' /\ ~Bound(w)' /\ ~At(w, "send")' /\ {Pending(w), Named(w)} \cap marker = {}
  <2>1. \/ \E next \in {Sent(work[w].row)} : Decide(w, next)
        \/ Goto(w, "mark") /\ {Pending(w), Named(w)} \cap marker = {}
    BY DEF Look
  <2>2. work'[w].pc = "commit" \/ (work'[w].pc = "mark" /\ {Pending(w), Named(w)} \cap marker = {})
    BY <2>1 DEF Goto, Decide, FlowTyped, TypeOK, Work
  <2> QED
    BY <2>2 DEF Near, Bound, At
<1>6. ASSUME NEW v \in Workers, v # w, Near(v), Near(w)', Key(v) = Key(w) PROVE Message(v) \in met' /\ Message(w) \in met'
  <2>1. Message(v) = Message(w) /\ Pending(v) = Pending(w)
    BY <1>1, <1>6, SameKey DEF Near, Holds, Pending
  <2>2. CASE At(v, "mark")
    BY <1>2, <1>6, <2>1, <2>2 DEF Together
  <2>3. CASE Bound(v)
    BY <1>2, <1>5, <1>6, <2>1, <2>3 DEF Markers
  <2> QED
    BY <1>6, <2>2, <2>3 DEF Near, Bound, At
<1>7. Markers'
  <2>1. \A v \in Workers : Bound(v)' => Pending(v)' \in marker' \/ Message(v)' \in met'
    BY <1>2, <1>4, <1>5, Same DEF Markers
  <2>2. ASSUME NEW v \in Workers, NEW u \in Workers, v # u, Near(v)', Near(u)', Key(v)' = Key(u)'
        PROVE  Message(v)' \in met'
    <3>1. CASE v # w /\ u # w
      BY <1>2, <1>4, <2>2, <3>1, Same DEF Markers
    <3>2. CASE v = w \/ u = w
      BY <1>1, <1>4, <1>6, <2>2, <3>2, Same, StaysSame
    <3> QED
      BY <3>1, <3>2
  <2>3. ASSUME NEW v \in Workers, At(v, "mark")', Marked(work[v].of, work[v].row.seq + 1)' PROVE Message(v)' \in met'
    <3>1. CASE v = w
      BY <1>1, <1>2, <1>5, <2>3, <3>1 DEF Stays, Marked
    <3>2. CASE v # w
      BY <1>2, <1>4, <2>3, <3>2, Same DEF Markers, Marked
    <3> QED
      BY <3>1, <3>2
  <2>4. ASSUME NEW v \in Workers, At(v, "send")', Message(v)' \in sent' PROVE Message(v)' \in Excused'
    <3>1. v # w
      BY <1>5, <2>4
    <3> QED
      BY <1>2, <1>4, <2>4, <3>1, Same DEF Markers, Excused
  <2> QED
    BY <2>1, <2>2, <2>3, <2>4 DEF Markers
<1> QED
  BY <1>3, <1>7 DEF Keeps

\* Two keys of which the markers differ.
LEMMA OtherMarker ==
  ASSUME FlowTyped, NEW v \in Workers, NEW w \in Workers, Key(v) # Key(w)
  PROVE  /\ Pending(v) \notin {Pending(w), Named(w)}
         /\ work[v].of # work[w].of \/ work[v].row.seq + 1 # work[w].row.seq + 1
<1>1. \A u \in {v, w} : Pending(u) = <<work[u].of, work[u].row.seq + 1, "pending">>
                        /\ Named(u) = <<work[u].of, work[u].row.seq + 1, "mid">>
  BY MessageTyped DEF FlowTyped
<1>2. work[v].of # work[w].of \/ work[v].row.seq + 1 # work[w].row.seq + 1
  BY DEF Key
<1> QED
  BY <1>1, <1>2

LEMMA MarkKeeps ==
  ASSUME FlowTyped, Agreed, SentKnown, Markers, SentOnce, NEW w \in Workers, Mark(w)
  PROVE  Keeps
<1> DEFINE m == Message(w)
<1>1. /\ Moves(w) /\ Stays(w) /\ Holds(work[w]) /\ ~IsReply(work[w].of, work[w].row)
      /\ Pending(w) = <<work[w].of, work[w].row.seq + 1, "pending">>
      /\ m[1] = work[w].of /\ m[2] = work[w].row.seq + 1
      /\ At(w, "mark") /\ Near(w)
  BY MarkTyped, MessageTyped DEF Stays, FlowTyped, Fits, Mark, At, Near, Writing
<1>2. UNCHANGED <<replied, sent, twice, lost, met>> /\ marker \subseteq marker' /\ marker' \subseteq marker \cup {Pending(w)}
  BY DEF Mark, history
<1>3. Lasting /\ Delivered /\ SentOnce'
  BY <1>2 DEF Lasting, Safe, Excused, Marked, Delivered, SentOnce
<1>4. \A v \in Workers : v # w => work'[v] = work[v]
  BY <1>1 DEF Moves, Others
<1>5. ~At(w, "mark")' /\ (Near(w)' => Pending(w) \in marker')
  <2>1. \/ \E next \in {Retry(work[w].row), Over(work[w].row, "FAILED")} : Decide(w, next)
        \/ Goto(w, "send") /\ Pending(w) \in marker'
    BY DEF Mark
  <2>2. work'[w].pc = "commit" \/ (work'[w].pc = "send" /\ Pending(w) \in marker')
    BY <2>1 DEF Goto, Decide, FlowTyped, TypeOK, Work
  <2> QED
    BY <2>2 DEF Near, At
<1>6. m \in sent => m \in Excused
  <2>1. m \in sent => m \in Excused \/ Marked(work[w].of, work[w].row.seq + 1)
    BY <1>1 DEF SentKnown, Vouched
  <2>2. Marked(work[w].of, work[w].row.seq + 1) => m \in met
    BY <1>1 DEF Markers
  <2> QED
    BY <2>1, <2>2 DEF Excused
<1>7. Markers'
  <2>1. ASSUME NEW v \in Workers, Bound(v)' PROVE Pending(v)' \in marker' \/ Message(v)' \in met'
    <3>1. CASE v = w
      BY <1>1, <1>5, <2>1, <3>1, StaysSame DEF Near, Bound
    <3>2. CASE v # w
      BY <1>2, <1>4, <2>1, <3>2, Same DEF Markers
    <3> QED
      BY <3>1, <3>2
  <2>2. ASSUME NEW v \in Workers, NEW u \in Workers, v # u, Near(v)', Near(u)', Key(v)' = Key(u)'
        PROVE  Message(v)' \in met'
    <3>1. \A x \in Workers : (Near(x)' => Near(x)) /\ Key(x)' = Key(x) /\ Message(x)' = Message(x)
      BY <1>1, <1>4, Same, StaysSame
    <3> QED
      BY <1>2, <2>2, <3>1 DEF Markers
  <2>3. ASSUME NEW v \in Workers, At(v, "mark")', Marked(work[v].of, work[v].row.seq + 1)' PROVE Message(v)' \in met'
    <3>1. v # w /\ work'[v] = work[v] /\ Message(v)' = Message(v) /\ At(v, "mark")
      BY <1>4, <1>5, <2>3, Same
    <3>2. CASE Key(v) = Key(w)
      BY <1>1, <1>2, <3>1, <3>2 DEF Markers, Near, At
    <3>3. CASE Key(v) # Key(w)
      <4>1. <<work[v].of, work[v].row.seq + 1, "pending">> # Pending(w) /\ <<work[v].of, work[v].row.seq + 1, "mid">> # Pending(w)
        BY <1>1, <3>3, OtherMarker
      <4>2. Marked(work[v].of, work[v].row.seq + 1)
        BY <1>2, <2>3, <3>1, <4>1 DEF Marked
      <4> QED
        BY <1>2, <3>1, <4>2 DEF Markers
    <3> QED
      BY <3>2, <3>3
  <2>4. ASSUME NEW v \in Workers, At(v, "send")', Message(v)' \in sent' PROVE Message(v)' \in Excused'
    <3>1. CASE v = w
      BY <1>1, <1>2, <1>6, <2>4, <3>1, StaysSame DEF Excused
    <3>2. CASE v # w
      BY <1>2, <1>4, <2>4, <3>2, Same DEF Markers, Excused
    <3> QED
      BY <3>1, <3>2
  <2> QED
    BY <2>1, <2>2, <2>3, <2>4 DEF Markers
<1> QED
  BY <1>3, <1>7 DEF Keeps

LEMMA NameKeeps ==
  ASSUME FlowTyped, Agreed, SentKnown, Markers, SentOnce, NEW w \in Workers, Name(w)
  PROVE  Keeps
<1>1. /\ Moves(w) /\ Holds(work[w]) /\ Near(w)
      /\ Pending(w) = <<work[w].of, work[w].row.seq + 1, "pending">>
      /\ Named(w) = <<work[w].of, work[w].row.seq + 1, "mid">>
  BY NameTyped, MessageTyped DEF Stays, FlowTyped, Name, At, Near
<1>2. /\ UNCHANGED <<replied, sent, twice, lost, met>>
      /\ marker' = marker \/ marker' = (marker \ {Pending(w)}) \cup {Named(w)}
  BY DEF Name, history
<1>3. \A v \in Workers : v # w => work'[v] = work[v]
  BY <1>1 DEF Moves, Others
<1>4. ~Near(w)' /\ ~Bound(w)' /\ ~At(w, "mark")' /\ ~At(w, "send")'
  <2>1. work'[w].pc = "commit"
    BY DEF Name, Decide, FlowTyped, TypeOK, Work
  <2> QED
    BY <2>1 DEF Near, Bound, At
<1>5. Lasting
  <2>1. ASSUME NEW m \in sent, Marked(m[1], m[2]) PROVE Marked(m[1], m[2])'
    BY <1>1, <1>2, <2>1 DEF Marked
  <2> QED
    BY <1>2, <2>1 DEF Lasting, Safe, Excused
<1>6. Delivered /\ SentOnce'
  BY <1>2 DEF Delivered, SentOnce
<1>7. ASSUME NEW v \in Workers, v # w, Near(v), Key(v) = Key(w) PROVE Message(v) \in met
  BY <1>1, <1>7 DEF Markers
<1>8. Markers'
  <2>1. ASSUME NEW v \in Workers, Bound(v)' PROVE Pending(v)' \in marker' \/ Message(v)' \in met'
    <3>1. v # w /\ Pending(v)' = Pending(v) /\ Message(v)' = Message(v) /\ Near(v) /\ Bound(v)
      BY <1>3, <1>4, <2>1, Same DEF Near, Bound
    <3>2. CASE Key(v) = Key(w)
      BY <1>2, <1>7, <3>1, <3>2
    <3>3. CASE Key(v) # Key(w)
      BY <1>2, <3>1, <3>3, OtherMarker DEF Markers
    <3> QED
      BY <3>2, <3>3
  <2>2. ASSUME NEW v \in Workers, NEW u \in Workers, v # u, Near(v)', Near(u)', Key(v)' = Key(u)'
        PROVE  Message(v)' \in met'
    BY <1>2, <1>3, <1>4, <2>2, Same DEF Markers
  <2>3. ASSUME NEW v \in Workers, At(v, "mark")', Marked(work[v].of, work[v].row.seq + 1)' PROVE Message(v)' \in met'
    <3>1. v # w /\ work'[v] = work[v] /\ Message(v)' = Message(v) /\ At(v, "mark") /\ Near(v)
      BY <1>3, <1>4, <2>3, Same DEF Near, At
    <3>2. CASE Key(v) = Key(w)
      BY <1>2, <1>7, <3>1, <3>2
    <3>3. CASE Key(v) # Key(w)
      <4>1. <<work[v].of, work[v].row.seq + 1, "pending">> # Named(w) /\ <<work[v].of, work[v].row.seq + 1, "mid">> # Named(w)
        BY <1>1, <3>3, OtherMarker
      <4>2. Marked(work[v].of, work[v].row.seq + 1)
        BY <1>2, <2>3, <3>1, <4>1 DEF Marked
      <4> QED
        BY <1>2, <3>1, <4>2 DEF Markers
    <3> QED
      BY <3>2, <3>3
  <2>4. ASSUME NEW v \in Workers, At(v, "send")', Message(v)' \in sent' PROVE Message(v)' \in Excused'
    <3>1. v # w
      BY <1>4, <2>4
    <3> QED
      BY <1>2, <1>3, <2>4, <3>1, Same DEF Markers, Excused
  <2> QED
    BY <2>1, <2>2, <2>3, <2>4 DEF Markers
<1> QED
  BY <1>5, <1>6, <1>8 DEF Keeps

LEMMA SendKeeps ==
  ASSUME FlowTyped, Agreed, SentKnown, Markers, SentOnce, NEW w \in Workers, Send(w)
  PROVE  Keeps
<1> DEFINE m == Message(w)
<1>1. /\ Moves(w) /\ Stays(w) /\ Holds(work[w]) /\ Near(w) /\ Bound(w) /\ At(w, "send")
      /\ ~IsReply(work[w].of, work[w].row)
      /\ Pending(w) = <<work[w].of, work[w].row.seq + 1, "pending">>
      /\ m[1] = work[w].of /\ m[2] = work[w].row.seq + 1 /\ m[3] = work[w].row.node
  BY SendTyped, MessageTyped DEF Stays, FlowTyped, Fits, Send, At, Near, Bound, Writing
<1>2. /\ UNCHANGED <<replied, met>> /\ lost \subseteq lost' /\ sent \subseteq sent' /\ sent' \subseteq sent \cup {m}
      /\ marker' = marker \/ marker' = marker \ {Pending(w)}
  BY DEF Send, Deliver
<1>3. twice' = twice \/ (twice' = twice \cup {m} /\ m \in sent)
  BY DEF Send, Deliver
<1>4. \A v \in Workers : v # w => work'[v] = work[v]
  BY <1>1 DEF Moves, Others
<1>5. /\ ~At(w, "mark")' /\ ~At(w, "send")'
      /\ m \in sent' \ sent => marker' = marker \/ m \in lost'
      /\ Bound(w)' => marker' = marker
  <2>1. \/ \E next \in {Retry(work[w].row), Over(work[w].row, "FAILED")} : Decide(w, next)
        \/ Goto(w, "name") /\ marker' = marker
    BY DEF Send
  <2>2. work'[w].pc = "commit" \/ (work'[w].pc = "name" /\ marker' = marker)
    BY <2>1 DEF Goto, Decide, FlowTyped, TypeOK, Work
  <2>3. m \in sent' \ sent => marker' = marker \/ m \in lost'
    BY DEF Send, Deliver
  <2> QED
    BY <2>2, <2>3 DEF Bound, At
<1>6. m \in sent => m \in Excused
  BY <1>1 DEF Markers
<1>7. Lasting
  <2>1. ASSUME NEW x \in sent, Marked(x[1], x[2]) PROVE Safe(x)'
    <3>1. CASE x[1] = work[w].of /\ x[2] = work[w].row.seq + 1
      <4>1. x[3] = work[w].row.node /\ x \in Starts \X Nat \X Nodes
        BY <1>1, <3>1 DEF SentKnown, Vouched, FlowTyped, TypeOK
      <4>2. x = m
        BY <3>1, <4>1 DEF Message
      <4> QED
        BY <1>2, <1>6, <4>2 DEF Safe, Excused
    <3>2. CASE ~(x[1] = work[w].of /\ x[2] = work[w].row.seq + 1)
      BY <1>1, <1>2, <2>1, <3>2 DEF Safe, Marked
    <3> QED
      BY <3>1, <3>2
  <2> QED
    BY <1>2, <2>1 DEF Lasting, Safe, Excused
<1>8. Delivered
  <2>1. Pending(w) \in marker \/ m \in met
    BY <1>1 DEF Markers
  <2>2. ASSUME NEW x, x = m, x \in sent' \ sent PROVE By(w, x)
    <3>1. x \in Excused' \/ Marked(x[1], x[2])'
      BY <1>1, <1>2, <1>5, <2>1, <2>2 DEF Excused, Marked
    <3> QED
      BY <1>1, <2>2, <3>1 DEF By, Stays, Vouched, IsReply
  <2> QED
    BY <1>2, <2>2 DEF Delivered
<1>9. SentOnce'
  BY <1>2, <1>3, <1>6 DEF SentOnce, Excused
<1>10. ASSUME NEW v \in Workers, v # w, Near(v), Key(v) = Key(w) PROVE Message(v) \in met
  BY <1>1, <1>10 DEF Markers
<1>11. Markers'
  <2>1. ASSUME NEW v \in Workers, Bound(v)' PROVE Pending(v)' \in marker' \/ Message(v)' \in met'
    <3>1. CASE v = w
      BY <1>1, <1>2, <1>5, <2>1, <3>1, StaysSame DEF Markers
    <3>2. CASE v # w
      <4>1. Pending(v)' = Pending(v) /\ Message(v)' = Message(v) /\ Near(v) /\ Bound(v)
        BY <1>4, <2>1, <3>2, Same DEF Near, Bound
      <4>2. CASE Key(v) = Key(w)
        BY <1>2, <1>10, <3>2, <4>1, <4>2
      <4>3. CASE Key(v) # Key(w)
        BY <1>2, <4>1, <4>3, OtherMarker DEF Markers
      <4> QED
        BY <4>2, <4>3
    <3> QED
      BY <3>1, <3>2
  <2>2. ASSUME NEW v \in Workers, NEW u \in Workers, v # u, Near(v)', Near(u)', Key(v)' = Key(u)'
        PROVE  Message(v)' \in met'
    <3>1. \A x \in Workers : (Near(x)' => Near(x)) /\ Key(x)' = Key(x) /\ Message(x)' = Message(x)
      BY <1>1, <1>4, Same, StaysSame
    <3> QED
      BY <1>2, <2>2, <3>1 DEF Markers
  <2>3. ASSUME NEW v \in Workers, At(v, "mark")', Marked(work[v].of, work[v].row.seq + 1)' PROVE Message(v)' \in met'
    <3>1. v # w /\ work'[v] = work[v] /\ Message(v)' = Message(v) /\ At(v, "mark")
      BY <1>4, <1>5, <2>3, Same
    <3>2. Marked(work[v].of, work[v].row.seq + 1)
      BY <1>2, <2>3, <3>1 DEF Marked
    <3> QED
      BY <1>2, <3>1, <3>2 DEF Markers
  <2>4. ASSUME NEW v \in Workers, At(v, "send")', Message(v)' \in sent' PROVE Message(v)' \in Excused'
    <3>1. v # w /\ Message(v)' = Message(v) /\ At(v, "send") /\ Near(v) /\ Holds(work[v])
      BY <1>4, <1>5, <2>4, Same DEF At, Near, Holds
    <3>2. CASE Message(v) \in sent
      BY <1>2, <3>1, <3>2 DEF Markers, Excused
    <3>3. CASE Message(v) \notin sent
      <4>1. Message(v) = m
        BY <1>2, <2>4, <3>1, <3>3
      <4>2. Key(v) = Key(w)
        BY <4>1 DEF Message, Key
      <4> QED
        BY <1>2, <1>10, <3>1, <4>2 DEF Excused
    <3> QED
      BY <3>2, <3>3
  <2> QED
    BY <2>1, <2>2, <2>3, <2>4 DEF Markers
<1> QED
  BY <1>7, <1>8, <1>9, <1>11 DEF Keeps

LEMMA SoundStarts == Init => FlowSound
<1> SUFFICES ASSUME Init PROVE SentKnown /\ Markers /\ SentOnce
  BY FlowStarts, OneLiveStarts DEF FlowSound
<1>1. sent = {} /\ twice = {} /\ \A w \in Workers : work[w].pc = "idle"
  BY IdleTyped DEF Init
<1> QED
  BY <1>1 DEF SentKnown, Markers, SentOnce, Bound, Near, At

LEMMA SoundKept == FlowSound /\ [Next]_vars => FlowSound'
<1> SUFFICES ASSUME FlowSound, [Next]_vars PROVE FlowSound'
  OBVIOUS
<1> USE DEF FlowSound
<1>1. StepShape /\ FlowTyped' /\ (Silent \/ Speaks) /\ (raced => raced')
  BY Shapes, FlowTypedKept, Silence
<1>2. Agreed' /\ OneLive'
  BY <1>1, AgreedKept, OneLiveKept
<1>3. Keeps
  BY <1>1, SilentKeeps, CallKeeps, LookKeeps, MarkKeeps, SendKeeps, NameKeeps DEF Speaks
<1>4. SentKnown'
  BY <1>1, <1>2, <1>3, SentKnownKept DEF Keeps
<1> QED
  BY <1>1, <1>2, <1>3, <1>4 DEF Keeps

\* "A retry that finds either never sends again" (effects.ts:12): whatever dies, is retried
\* or runs twice, a message goes out a second time only if an answer of Instagram was
\* lost or two workers met between the marker's lookup and its write.
THEOREM FlowSentOnce == Spec => []SentOnce
<1>1. FlowSound => SentOnce
  BY DEF FlowSound
<1> QED
  BY <1>1, SoundStarts, SoundKept, PTL DEF Spec
=============================================================================
