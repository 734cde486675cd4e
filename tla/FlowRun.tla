------------------------------ MODULE FlowRun ------------------------------
(***************************************************************************)
(* One person in the Flow Builder's engine (lib/flows/engine.ts, runner.ts *)
(* and effects.ts): the FlowRun rows their events start, the workers that  *)
(* take a run and advance it through its graph await by await, the markers *)
(* and the proxy execution that keep a message from going out twice, the   *)
(* person's taps and answers, the timers, and the minute sweep.            *)
(***************************************************************************)
EXTENDS Integers, FiniteSets, Sequences

CONSTANTS
  Starts,      \* events that matched the flow, each with the run it may start
  Comments,    \* those that are comments: their first message is a private reply
  Taps, Texts, \* events of the person: taps of a button, typed messages
  Workers,     \* job slots: trigger events and the flows queue
  Nodes,       \* the graph of the pinned version
  Entry,       \* the node after the trigger
  Kind,        \* of each node: what it does
  Edges,       \* of each node: from the handles that are connected, to a node
  IfClosed,    \* ifWindowClosed of the Delay nodes: "end", "skip_sends", "wait_for_inbound"
  MaxRetries,  \* MAX_NODE_RETRIES
  MaxSteps,    \* MAX_STEPS_PER_RUN
  MaxTrouble   \* bound: crashes, database errors, refused or unanswered sends, closed windows, unpublishing

Inputs == Taps \cup Texts
Events == Starts \cup Inputs
Handles == {"next", "tap", "other", "timeout", "window_closed", "missing"}
\* message: with a button; chips: a button node with a timeout; ask: an AI question;
\* text: a message without a button; effect: tag, lead, webhook, CRM, operator, action.
Kinds == {"message", "chips", "ask", "text", "delay", "effect", "end"}
Policies == {"end", "skip_sends", "wait_for_inbound"}

ASSUME FlowAssumption ==
  /\ Starts # {} /\ Comments \subseteq Starts /\ Starts \cap Inputs = {} /\ Taps \cap Texts = {}
  /\ "none" \notin Events /\ "timer" \notin Events
  /\ Entry \in Nodes /\ Kind \in [Nodes -> Kinds] /\ IfClosed \in Policies
  /\ \A n \in Nodes : \A h \in DOMAIN Edges[n] : h \in Handles /\ Edges[n][h] \in Nodes
  /\ MaxRetries \in Nat /\ MaxSteps \in Nat /\ MaxTrouble \in Nat

VARIABLES
  run,      \* FlowRun of each start
  quiet,    \* rows long untouched: STUCK_AFTER_MS if ACTIVE, COLD_RUN_MS if WAITING_TAP
  old,      \* runs started more than MAX_RUN_AGE_MS ago
  alarm,    \* runs with a flow-resume job for the present seq
  exec,     \* TriggerExecution.status of each start: the private reply's life
  open,     \* starts whose 24h window is open
  marker,   \* TriggerMessages flow:<run>:<seq>:pending, or with Meta's mid
  replied,  \* Instagram: the comments whose one private reply is used
  event,    \* InstagramEvent: processing status, and what a tap points at
  published, \* Flow.status = PUBLISHED
  work,     \* what each worker is doing
  sent,     \* history: messages Instagram delivered: run, seq of the step, node
  twice,    \* history: those it delivered again
  lost,     \* history: those one of whose answers was lost
  met,      \* history: those two workers were about to send at once
  raced,    \* history: a cold run was taken while a new start replaced it
  fuel      \* what is left of the bound

time == <<quiet, old, open, published>>
history == <<sent, twice, lost, met, raced>>
sends == <<exec, marker, replied>>
vars == <<run, alarm, sends, event, work, time, history, fuel>>

Waiting == {"WAITING_TAP", "WAITING_INBOUND", "WAITING_DELAY"}
Live == {"ACTIVE"} \cup Waiting
Ended == {"DONE", "FAILED", "CANCELLED"}
WaitKind == {"none", "tap", "choice", "inbound", "reopen", "delay", "retry"}
\* wait: waitKind, with waitNodeId = node; due: waitUntil is past; tries: __retries;
\* acq, stuck, first, delayed: the variables __acq, __stuck, __firstSent, __lastDelay.
Row == [status : {"NONE"} \cup Live \cup Ended, node : Nodes, seq : Nat, wait : WaitKind, due : BOOLEAN,
        tries : [Nodes -> 0..MaxRetries], acq : Events \cup {"none", "timer"}, stuck : BOOLEAN, first : BOOLEAN, delayed : BOOLEAN]
NoRun == [status |-> "NONE", node |-> Entry, seq |-> 0, wait |-> "none", due |-> FALSE,
          tries |-> [n \in Nodes |-> 0], acq |-> "none", stuck |-> FALSE, first |-> FALSE, delayed |-> FALSE]

Loop == {"apply", "node", "reply", "sending", "call", "answered", "refused", "denied",
         "look", "mark", "send", "name", "commit"}
Steps == {"idle", "start", "create", "load", "take", "back", "finish"} \cup Loop
\* by: the event, timer or sweep that brought the worker; of: the run it is at; row: the
\* run as it was loaded; next: what is to be committed; held: it has written the run.
Work == [pc : Steps, by : Events \cup {"none", "timer", "sweep"}, of : Starts, row : Row, next : Row, held : BOOLEAN]
Idle == [pc |-> "idle", by |-> "none", of |-> CHOOSE s \in Starts : TRUE, row |-> NoRun, next |-> NoRun, held |-> FALSE]

-----------------------------------------------------------------------------
(* Helpers *)

At(w, step) == work[w].pc = step
Goto(w, step) == work' = [work EXCEPT ![w].pc = step]
Decide(w, next) == work' = [work EXCEPT ![w].pc = "commit", ![w].next = next]
Trouble == fuel > 0 /\ fuel' = fuel - 1
LiveRuns == {r \in Starts : run[r].status \in Live}

\* The compare-and-swap of every write: the seq and the status the run was loaded with.
Unmoved(w) == run[work[w].of].seq = work[w].row.seq /\ run[work[w].of].status = work[w].row.status
Write(r, row) == run' = [run EXCEPT ![r] = row] /\ quiet' = quiet \ {r}

\* The job of an event goes on to finishEvent, that of a timer or the sweep is over.
Leave(w) ==
  work' = [work EXCEPT ![w] = IF @.by \in Events THEN [Idle EXCEPT !.pc = "finish", !.by = work[w].by] ELSE Idle]

\* A send is keyed by the run and the seq its step will be committed with.
Key(w) == <<work[w].of, work[w].row.seq + 1>>
Message(w) == <<work[w].of, work[w].row.seq + 1, work[w].row.node>>
Deliver(w) ==
  /\ sent' = sent \cup {Message(w)}
  /\ twice' = IF Message(w) \in sent THEN twice \cup {Message(w)} ELSE twice

\* Results of a node (runner.ts NodeResult), as the row they lead to.
OverKept(row, status) == [row EXCEPT !.status = status, !.due = FALSE]
Over(row, status) == [row EXCEPT !.status = status, !.wait = "none", !.due = FALSE]
Follow(row, h) ==
  IF h \in DOMAIN Edges[row.node]
  THEN [row EXCEPT !.status = "ACTIVE", !.node = Edges[row.node][h], !.wait = "none", !.due = FALSE]
  ELSE Over(row, "DONE")
Again(row) == [row EXCEPT !.status = "ACTIVE", !.wait = "none", !.due = FALSE]
Park(row, status, kind) == [row EXCEPT !.status = status, !.wait = kind, !.due = FALSE]
\* failureResult: a retryable failure waits and tries the node again, or it is final.
Retry(row) ==
  IF row.tries[row.node] < MaxRetries
  THEN [Park(row, "WAITING_DELAY", "retry") EXCEPT !.tries[row.node] = @ + 1]
  ELSE Over(row, "FAILED")

\* The node's message is out, or an earlier try of the same step sent it.
Sent(row) ==
  LET now == [row EXCEPT !.first = row.first \/ Kind[row.node] \in {"message", "text"}] IN
  CASE Kind[row.node] = "message" -> Park(now, "WAITING_TAP", "tap")
    [] Kind[row.node] = "chips"   -> Park(now, "WAITING_TAP", "choice")
    [] Kind[row.node] = "ask"     -> Park(now, "WAITING_INBOUND", "inbound")
    [] OTHER                      -> Follow(now, "next")
\* preSend with skip_sends: nothing is sent; what waits for a button cannot go on.
Unsent(row) ==
  CASE Kind[row.node] \in {"message", "chips"} -> Over(row, "DONE")
    [] Kind[row.node] = "ask"                  -> Follow(row, "missing")
    [] OTHER                                   -> Follow(row, "next")

Sends(n) == Kind[n] \in {"message", "chips", "ask", "text"}
\* isFirstCommentSend
IsReply(r, row) == Kind[row.node] \in {"message", "text"} /\ r \in Comments /\ ~row.first
Timed(kind) == kind \in {"delay", "retry", "choice"}

-----------------------------------------------------------------------------
(* Events: processInstagramEvent *)

\* The person taps a button they were shown, or writes while a run is on.
Arrive(e) ==
  /\ event[e].status = "none"
  /\ \/ /\ e \in Texts /\ LiveRuns # {} /\ event' = [event EXCEPT ![e].status = "new"]
     \/ /\ e \in Taps
        /\ \E m \in sent :
             /\ Kind[m[3]] \in {"message", "chips"}
             /\ event' = [event EXCEPT ![e] = [status |-> "new", of |-> m[1], node |-> m[3]]]
  /\ UNCHANGED <<run, alarm, sends, work, time, history, fuel>>

\* claimEvent. A tap goes to the run its payload names, a text to the one that consumes
\* it (findConsumingRun); if there is none, the message is not the engine's.
Consumes(r) ==
  \/ run[r].status \in {"ACTIVE", "WAITING_INBOUND"}
  \/ run[r].status = "WAITING_TAP" /\ run[r].wait = "choice"
Claim(w, e) ==
  /\ At(w, "idle") /\ event[e].status = "new"
  /\ event' = [event EXCEPT ![e].status = "busy"]
  /\ \/ /\ e \in Starts
        /\ work' = [work EXCEPT ![w] = [Idle EXCEPT !.pc = "start", !.by = e, !.of = e]]
     \/ /\ e \in Inputs
        /\ \E r \in Starts :
             /\ IF e \in Taps THEN r = event[e].of ELSE Consumes(r)
             /\ work' = [work EXCEPT ![w] = [Idle EXCEPT !.pc = "load", !.by = e, !.of = r]]
     \/ /\ e \in Texts /\ \A r \in Starts : ~Consumes(r)
        /\ work' = [work EXCEPT ![w] = [Idle EXCEPT !.pc = "finish", !.by = e]]
  /\ UNCHANGED <<run, alarm, sends, time, history, fuel>>

Finish(w) ==
  /\ At(w, "finish")
  /\ event' = [event EXCEPT ![work[w].by].status = "done"]
  /\ work' = [work EXCEPT ![w] = Idle]
  /\ UNCHANGED <<run, alarm, sends, time, history, fuel>>

\* A worker dies, or a query outside a node fails: the event is processed again (at once,
\* or when its lease is over); a job of the flows queue is left to the sweep.
Crash(w) ==
  /\ ~At(w, "idle") /\ Trouble
  /\ event' = IF work[w].by \in Events THEN [event EXCEPT ![work[w].by].status = "new"] ELSE event
  /\ work' = [work EXCEPT ![w] = Idle]
  /\ UNCHANGED <<run, alarm, sends, time, history>>

-----------------------------------------------------------------------------
(* startFlowRun *)

\* A retried event continues its run if that is ACTIVE, without taking it.
StartAgain(w) ==
  LET r == work[w].by IN
  /\ At(w, "start") /\ run[r].status # "NONE"
  /\ IF run[r].status = "ACTIVE"
     THEN work' = [work EXCEPT ![w].pc = "node", ![w].row = run[r]]
     ELSE Leave(w)
  /\ UNCHANGED <<run, alarm, sends, event, time, history, fuel>>

\* The comment or its window is too old, or another campaign has answered it.
Skip(w) == exec' = [exec EXCEPT ![work[w].by] = "SKIPPED"] /\ Leave(w) /\ UNCHANGED <<open, replied, marker>>
StartRefused(w) ==
  LET r == work[w].by IN
  /\ At(w, "start") /\ run[r].status = "NONE"
  /\ IF ~published \/ exec[r] \in {"SKIPPED", "FAILED"} THEN Leave(w) /\ UNCHANGED <<sends, open>> ELSE Skip(w)
  /\ UNCHANGED <<run, alarm, event, quiet, old, published, history, fuel>>

\* The transaction, under the person's advisory lock: the live run is read, and
\* then replaced if it is cold; a message opens the window at its own time.
Cold(r) == run[r].status = "WAITING_TAP" /\ run[r].wait = "tap" /\ r \in quiet
LockNone == TRUE
LockFree == \A v \in Workers : ~At(v, "create")
StartLock(w) ==
  LET r == work[w].by IN
  /\ At(w, "start") /\ run[r].status = "NONE" /\ exec[r] \notin {"SKIPPED", "FAILED"} /\ published
  /\ LockFree
  /\ \/ /\ \E c \in LiveRuns : ~Cold(c)
        /\ Skip(w)
     \/ /\ \A c \in LiveRuns : Cold(c)
        /\ \E c \in IF LiveRuns = {} THEN {r} ELSE LiveRuns :
             work' = [work EXCEPT ![w].pc = "create", ![w].of = c, ![w].row = run[c]]
        /\ open' = IF r \in Comments THEN open ELSE open \cup {r}
        /\ UNCHANGED sends
  /\ UNCHANGED <<run, alarm, event, quiet, old, published, history, fuel>>

\* create; a run that does not begin with a comment marks its execution SENT.
Create(w) ==
  LET r == work[w].by
      c == work[w].of
      new == [NoRun EXCEPT !.status = "ACTIVE"]
      left == IF Unmoved(w) /\ c # r THEN [run EXCEPT ![c].status = "CANCELLED", ![c].due = FALSE] ELSE run
  IN
  /\ At(w, "create")
  /\ run' = [left EXCEPT ![r] = new] /\ quiet' = quiet \ {r, c}
  /\ raced' = (raced \/ ~Unmoved(w))
  /\ exec' = IF r \in Comments THEN exec ELSE [exec EXCEPT ![r] = "SENT"]
  /\ work' = [work EXCEPT ![w].pc = "node", ![w].of = r, ![w].row = new, ![w].held = TRUE]
  /\ UNCHANGED <<alarm, marker, replied, event, old, open, published, sent, twice, lost, met, fuel>>

-----------------------------------------------------------------------------
(* resumeFlowRun: planSignal, and the CAS to ACTIVE *)

Ignored(w) ==
  LET row == run[work[w].of]
      e == work[w].by IN
  \/ row.status \in Ended
  \/ IF e = "timer" THEN ~(Timed(row.wait) /\ row.due)
     ELSE \/ row.status = "ACTIVE"
          \/ e \in Taps /\ ~(row.status = "WAITING_TAP" /\ event[e].node = row.node)
          \/ e \notin Taps /\ ~(row.status = "WAITING_INBOUND" \/ row.wait = "choice")

\* A retry of the event that took the run goes on with it; a timer is for one seq.
SameEvent(w) == run[work[w].of].status = "ACTIVE" /\ work[w].by \in Inputs /\ run[work[w].of].acq = work[w].by
Load(w) ==
  LET r == work[w].of
      row == run[r] IN
  /\ At(w, "load")
  /\ \/ /\ SameEvent(w)
        /\ work' = [work EXCEPT ![w].pc = IF row.wait = "none" THEN "node" ELSE "apply", ![w].row = row]
        /\ UNCHANGED open
     \/ /\ ~SameEvent(w)
        /\ Ignored(w) \/ (work[w].by = "timer" /\ row.seq # work[w].row.seq)
        /\ open' = IF work[w].by \in Inputs /\ row.status \in Waiting THEN open \cup {r} ELSE open
        /\ Leave(w)
     \/ /\ ~SameEvent(w) /\ ~Ignored(w)
        /\ work[w].by = "timer" => row.seq = work[w].row.seq
        /\ work' = [work EXCEPT ![w].pc = "take", ![w].row = row]
        /\ UNCHANGED open
  /\ UNCHANGED <<run, alarm, sends, event, quiet, old, published, history, fuel>>

\* Losing the CAS the engine is busy: the event is done with.
Take(w) ==
  LET r == work[w].of
      row == [work[w].row EXCEPT !.status = "ACTIVE", !.acq = work[w].by] IN
  /\ At(w, "take")
  /\ IF Unmoved(w)
     THEN /\ Write(r, row)
          /\ work' = [work EXCEPT ![w].pc = "apply", ![w].row = row, ![w].held = TRUE]
     ELSE Leave(w) /\ UNCHANGED <<run, quiet>>
  /\ UNCHANGED <<alarm, sends, event, old, open, published, history, fuel>>

\* applyInput. An answer nothing can be made of takes the handle missing.
Ticked(w, row) ==
  IF row.wait = "retry" THEN Again(row)
  ELSE Follow(row, IF row.wait = "choice" THEN "timeout"
                   ELSE IF work[w].of \notin open /\ "window_closed" \in DOMAIN Edges[row.node] THEN "window_closed" ELSE "next")
Applied(w) ==
  LET row == work[w].row IN
  IF work[w].by = "timer" THEN {Ticked(w, row)}
  ELSE IF work[w].by \in Taps THEN {Follow(row, "tap")}
  ELSE IF Kind[row.node] = "chips" THEN {Follow(row, "other")}
  ELSE IF row.wait = "reopen" THEN {Again(row)}
  ELSE {Follow(row, "next"), Follow(row, "missing")}
Apply(w) ==
  /\ At(w, "apply")
  /\ \E next \in Applied(w) : Decide(w, next)
  /\ open' = IF work[w].by \in Inputs THEN open \cup {work[w].of} ELSE open
  /\ UNCHANGED <<run, alarm, sends, event, quiet, old, published, history, fuel>>

-----------------------------------------------------------------------------
(* advance: one node *)

Guarded(w) == work[w].of \in old \/ work[w].row.seq >= MaxSteps
Guard(w) ==
  /\ At(w, "node") /\ Guarded(w)
  /\ Decide(w, Over(work[w].row, IF work[w].of \in old THEN "CANCELLED" ELSE "FAILED"))
  /\ UNCHANGED <<run, alarm, sends, event, time, history, fuel>>

\* A delay waits, an effect that failed or had nothing to work on may have an edge of its own.
Passed(row) ==
  CASE Kind[row.node] = "end"   -> {Over(row, "DONE")}
    [] Kind[row.node] = "delay" -> {[Park(row, "WAITING_DELAY", "delay") EXCEPT !.delayed = TRUE]}
    [] OTHER -> {Follow(row, h) : h \in {"next"} \cup ({"missing"} \cap DOMAIN Edges[row.node])}
Quietly(w) ==
  /\ At(w, "node") /\ ~Guarded(w) /\ ~Sends(work[w].row.node)
  /\ \E next \in Passed(work[w].row) : Decide(w, next)
  /\ UNCHANGED <<run, alarm, sends, event, time, history, fuel>>

\* preSend: a comment's first message needs no window; the others go by the policy of
\* the last Delay, if there was one.
PreSend(w) ==
  LET row == work[w].row IN
  /\ At(w, "node") /\ ~Guarded(w) /\ Sends(row.node)
  /\ \/ IsReply(work[w].of, row) /\ Goto(w, "reply")
     \/ ~IsReply(work[w].of, row) /\ work[w].of \in open /\ Goto(w, "look")
     \/ /\ ~IsReply(work[w].of, row) /\ work[w].of \notin open
        /\ Decide(w, CASE row.delayed /\ IfClosed = "wait_for_inbound" -> Park(row, "WAITING_INBOUND", "reopen")
                       [] row.delayed /\ IfClosed = "skip_sends" -> Unsent(row)
                       [] OTHER -> Over(row, "DONE"))
  /\ UNCHANGED <<run, alarm, sends, event, time, history, fuel>>

\* executeSafely: an error of ours is a failure to be retried, also one of recording what
\* Instagram answered.
NodeError(w) ==
  /\ work[w].pc \in {"reply", "look", "answered", "refused", "denied"} \/ (At(w, "node") /\ ~Guarded(w) /\ Kind[work[w].row.node] = "effect")
  /\ Trouble
  /\ Decide(w, Retry(work[w].row))
  /\ UNCHANGED <<run, alarm, sends, event, time, history>>

-----------------------------------------------------------------------------
(* effects.privateReply *)

Exec(w, status) == exec' = [exec EXCEPT ![work[w].of] = status]
Reply(w) ==
  LET was == exec[work[w].of] IN
  /\ At(w, "reply")
  /\ CASE was = "SENT" -> Decide(w, Sent(work[w].row))
       [] was \in {"SENDING", "SKIPPED", "FAILED"} -> Decide(w, Over(work[w].row, "FAILED"))
       [] OTHER -> Goto(w, "sending")
  /\ UNCHANGED <<run, alarm, sends, event, time, history, fuel>>

\* sendGuarded: the month's quota, the hourly slot, then SENDING.
Sending(w) ==
  /\ At(w, "sending")
  /\ \/ Exec(w, "SENDING") /\ Goto(w, "call") /\ UNCHANGED fuel
     \/ Trouble /\ Exec(w, "SKIPPED") /\ Decide(w, Over(work[w].row, "FAILED"))
     \/ Trouble /\ Exec(w, "RETRYING") /\ Decide(w, Retry(work[w].row))
  /\ UNCHANGED <<run, alarm, marker, replied, event, time, history>>

\* Instagram carries out one private reply per comment and denies another.
Call(w) ==
  LET r == work[w].of IN
  /\ At(w, "call")
  /\ \/ /\ r \notin replied /\ replied' = replied \cup {r} /\ Deliver(w)
        /\ \/ Goto(w, "answered") /\ UNCHANGED <<lost, fuel>>
           \/ Trouble /\ lost' = lost \cup {Message(w)} /\ Goto(w, "refused")
     \/ r \in replied /\ Goto(w, "denied") /\ UNCHANGED <<replied, sent, twice, lost, fuel>>
     \/ /\ Trouble /\ \E answer \in {"refused", "denied"} : Goto(w, answer)
        /\ UNCHANGED <<replied, sent, twice, lost>>
  /\ UNCHANGED <<run, alarm, exec, marker, event, time, met, raced>>

Answered(w) ==
  /\ \/ At(w, "answered") /\ Exec(w, "SENT") /\ Decide(w, Sent(work[w].row))
     \/ At(w, "refused") /\ Exec(w, "RETRYING") /\ Decide(w, Retry(work[w].row))
     \/ At(w, "denied") /\ Exec(w, "FAILED") /\ Decide(w, Over(work[w].row, "FAILED"))
  /\ UNCHANGED <<run, alarm, marker, replied, event, time, history, fuel>>

-----------------------------------------------------------------------------
(* effects.dm *)

\* A message with this key was sent, or its sending was interrupted: not again.
Pending(w) == Append(Key(w), "pending")
Named(w) == Append(Key(w), "mid")
Together(w) == \E v \in Workers \ {w} : At(v, "mark") /\ Key(v) = Key(w)
LookBlind(w) ==
  /\ At(w, "look") /\ Goto(w, "mark")
  /\ met' = IF Together(w) THEN met \cup {Message(w)} ELSE met
  /\ UNCHANGED <<run, alarm, sends, event, time, sent, twice, lost, raced, fuel>>
Look(w) ==
  /\ At(w, "look")
  /\ IF {Pending(w), Named(w)} \cap marker # {} THEN Decide(w, Sent(work[w].row)) ELSE Goto(w, "mark")
  /\ met' = IF Together(w) THEN met \cup {Message(w)} ELSE met
  /\ UNCHANGED <<run, alarm, sends, event, time, sent, twice, lost, raced, fuel>>

\* beforeSend: a mid is unique, but only until Meta's replaces it; the second of two
\* pending markers is an error like any other.
Mark(w) ==
  /\ At(w, "mark")
  /\ \/ /\ Pending(w) \notin marker /\ marker' = marker \cup {Pending(w)}
        /\ Goto(w, "send") /\ UNCHANGED fuel
     \/ /\ Pending(w) \in marker /\ Decide(w, Retry(work[w].row)) /\ UNCHANGED <<marker, fuel>>
     \/ /\ Trouble /\ \E next \in {Retry(work[w].row), Over(work[w].row, "FAILED")} : Decide(w, next)
        /\ UNCHANGED marker
  /\ UNCHANGED <<run, alarm, exec, replied, event, time, history>>

\* The marker of a failed send is deleted; of one whose answer is lost too.
Send(w) ==
  /\ At(w, "send")
  /\ \/ Deliver(w) /\ Goto(w, "name") /\ UNCHANGED <<marker, lost, fuel>>
     \/ /\ Trouble /\ marker' = marker \ {Pending(w)}
        /\ Deliver(w) /\ lost' = lost \cup {Message(w)} /\ Decide(w, Retry(work[w].row))
     \/ /\ Trouble /\ marker' = marker \ {Pending(w)}
        /\ \E next \in {Retry(work[w].row), Over(work[w].row, "FAILED")} : Decide(w, next)
        /\ UNCHANGED <<sent, twice, lost>>
  /\ UNCHANGED <<run, alarm, exec, replied, event, time, met, raced>>

\* The marker takes the message's mid; if that fails it stays as it is.
Name(w) ==
  /\ At(w, "name")
  /\ \/ marker' = (marker \ {Pending(w)}) \cup {Named(w)} /\ UNCHANGED fuel
     \/ Trouble /\ UNCHANGED marker
  /\ Decide(w, Sent(work[w].row))
  /\ UNCHANGED <<run, alarm, exec, replied, event, time, history>>

-----------------------------------------------------------------------------
(* effects.commit, and the loop *)

CommitBlind(w) ==
  LET r == work[w].of
      new == [work[w].next EXCEPT !.seq = work[w].row.seq + 1] IN
  /\ At(w, "commit")
  /\ IF run[r].status = "ACTIVE"
     THEN /\ Write(r, new)
          /\ alarm' \in {alarm \ {r}} \cup (IF Timed(new.wait) THEN {alarm \cup {r}} ELSE {})
          /\ IF new.status = "ACTIVE"
             THEN work' = [work EXCEPT ![w].pc = "node", ![w].row = new, ![w].next = NoRun, ![w].held = TRUE]
             ELSE Leave(w)
     ELSE Leave(w) /\ UNCHANGED <<run, quiet, alarm>>
  /\ UNCHANGED <<sends, event, old, open, published, history, fuel>>

\* Only the worker whose seq is still the run's moves it; the wake-up may get lost.
Commit(w) ==
  LET r == work[w].of
      new == [work[w].next EXCEPT !.seq = work[w].row.seq + 1] IN
  /\ At(w, "commit")
  /\ IF run[r].seq = work[w].row.seq /\ run[r].status = "ACTIVE"
     THEN /\ Write(r, new)
          /\ alarm' \in {alarm \ {r}} \cup (IF Timed(new.wait) THEN {alarm \cup {r}} ELSE {})
          /\ IF new.status = "ACTIVE"
             THEN work' = [work EXCEPT ![w].pc = "node", ![w].row = new, ![w].next = NoRun, ![w].held = TRUE]
             ELSE Leave(w)
     ELSE Leave(w) /\ UNCHANGED <<run, quiet, alarm>>
  /\ UNCHANGED <<sends, event, old, open, published, history, fuel>>

-----------------------------------------------------------------------------
(* Timers and the minute sweep *)

\* The flow-resume job of the present seq; those of earlier ones find it moved on.
Ring(w, r) ==
  /\ At(w, "idle") /\ r \in alarm /\ run[r].due
  /\ alarm' = alarm \ {r}
  /\ work' = [work EXCEPT ![w] = [Idle EXCEPT !.pc = "load", !.by = "timer", !.of = r, !.row = run[r]]]
  /\ UNCHANGED <<run, sends, event, time, history, fuel>>

\* runDueFlowRuns: the rows found due are resumed one after another.
DueFound(w, r) ==
  /\ At(w, "idle") /\ run[r].status \in Waiting /\ run[r].due
  /\ work' = [work EXCEPT ![w] = [Idle EXCEPT !.pc = "load", !.by = "timer", !.of = r, !.row = run[r]]]
  /\ UNCHANGED <<run, alarm, sends, event, time, history, fuel>>

\* continueFlowRun: once, then FAILED. Its two first writes do nothing if the run moved.
Revive(w, r) ==
  LET row == [run[r] EXCEPT !.stuck = TRUE] IN
  /\ At(w, "idle") /\ run[r].status = "ACTIVE" /\ r \in quiet
  /\ IF run[r].stuck
     THEN Write(r, Over(run[r], "FAILED")) /\ UNCHANGED work
     ELSE /\ Write(r, row)
          /\ work' = [work EXCEPT ![w] = [Idle EXCEPT !.pc = IF row.wait = "none" THEN "node" ELSE "back",
                                                      !.by = "sweep", !.of = r, !.row = row, !.held = TRUE]]
  /\ UNCHANGED <<alarm, sends, event, old, open, published, history, fuel>>

\* It stopped while an input was applied: it waits again, for the input to come again.
PutBack(w) ==
  LET row == work[w].row
      back == CASE row.wait \in {"tap", "choice"} -> "WAITING_TAP"
                [] row.wait \in {"inbound", "reopen"} -> "WAITING_INBOUND"
                [] OTHER -> "WAITING_DELAY" IN
  /\ At(w, "back")
  /\ IF Unmoved(w)
     THEN Write(work[w].of, [run[work[w].of] EXCEPT !.status = back, !.due = @ \/ back = "WAITING_DELAY"])
     ELSE UNCHANGED <<run, quiet>>
  /\ Leave(w)
  /\ UNCHANGED <<alarm, sends, event, old, open, published, history, fuel>>

CancelUnpublished(r) ==
  /\ run[r].status \in Waiting /\ ~published
  /\ Write(r, Over(run[r], "CANCELLED"))
  /\ UNCHANGED <<alarm, sends, event, work, old, open, published, history, fuel>>

\* sweepFlowRuns: the flow is unpublished, or the run too old.
Cancel(r) ==
  /\ run[r].status \in Waiting /\ (r \in old \/ ~published)
  /\ Write(r, Over(run[r], "CANCELLED"))
  /\ UNCHANGED <<alarm, sends, event, work, old, open, published, history, fuel>>

-----------------------------------------------------------------------------
(* Time, and the dashboard *)

Pass(r) ==
  /\ Timed(run[r].wait) /\ run[r].status \in Waiting /\ ~run[r].due
  /\ run' = [run EXCEPT ![r].due = TRUE]
  /\ UNCHANGED <<alarm, sends, event, work, time, history, fuel>>

\* Assumption: a worker's steps between two of its writes take less than ten minutes,
\* and no worker is at a run for a day.
Alone(r) == \A w \in Workers : ~At(w, "idle") => work[w].of # r
Rest(r) ==
  /\ r \notin quiet /\ quiet' = quiet \cup {r}
  /\ \/ run[r].status = "ACTIVE" /\ \A w \in Workers : ~(work[w].of = r /\ work[w].held)
     \/ run[r].status = "WAITING_TAP" /\ run[r].wait = "tap" /\ Alone(r)
  /\ UNCHANGED <<run, alarm, sends, event, work, old, open, published, history, fuel>>

GrowOld(r) ==
  /\ run[r].status \in Live /\ Alone(r) /\ old' = old \cup {r}
  /\ UNCHANGED <<run, alarm, sends, event, work, quiet, open, published, history, fuel>>

Close(r) ==
  /\ r \in open /\ run[r].status \in Live /\ Alone(r) /\ Trouble /\ open' = open \ {r}
  /\ UNCHANGED <<run, alarm, sends, event, work, quiet, old, published, history>>

Unpublish ==
  /\ published /\ Trouble /\ published' = FALSE
  /\ UNCHANGED <<run, alarm, sends, event, work, quiet, old, open, history>>

-----------------------------------------------------------------------------
Init ==
  /\ run = [r \in Starts |-> NoRun] /\ quiet = {} /\ old = {} /\ open = {} /\ alarm = {}
  /\ exec = [r \in Starts |-> "PENDING"] /\ marker = {} /\ replied = {}
  /\ event = [e \in Events |-> [status |-> IF e \in Starts THEN "new" ELSE "none",
                                of |-> CHOOSE r \in Starts : TRUE, node |-> Entry]]
  /\ published = TRUE
  /\ work = [w \in Workers |-> Idle]
  /\ sent = {} /\ twice = {} /\ lost = {} /\ met = {} /\ raced = FALSE
  /\ fuel = MaxTrouble

Step(w) ==
  \/ StartAgain(w) \/ StartRefused(w) \/ StartLock(w) \/ Create(w)
  \/ Load(w) \/ Take(w) \/ Apply(w) \/ Guard(w) \/ Quietly(w) \/ PreSend(w) \/ NodeError(w)
  \/ Reply(w) \/ Sending(w) \/ Call(w) \/ Answered(w) \/ Look(w) \/ Mark(w) \/ Send(w) \/ Name(w)
  \/ Commit(w) \/ PutBack(w) \/ Finish(w)
Sweep(r) == Cancel(r) \/ \E w \in Workers : DueFound(w, r) \/ Revive(w, r)
Time(r) == Pass(r) \/ Rest(r) \/ GrowOld(r)

Next ==
  \/ \E w \in Workers : Step(w) \/ Crash(w)
  \/ \E w \in Workers : (\E e \in Events : Claim(w, e)) \/ \E r \in Starts : Ring(w, r)
  \/ \E e \in Inputs : Arrive(e)
  \/ \E r \in Starts : Sweep(r) \/ Time(r) \/ Close(r)
  \/ Unpublish

Spec == Init /\ [][Next]_vars

\* Workers step, the sweep comes every minute, time passes.
Fairness ==
  /\ \A w \in Workers : WF_vars(Step(w))
  /\ \A r \in Starts : WF_vars(Sweep(r)) /\ WF_vars(Rest(r)) /\ WF_vars(GrowOld(r))

FairSpec == Spec /\ Fairness

-----------------------------------------------------------------------------
(* Properties *)

\* The column of what a parked run waits for goes with its status.
Waits(row) ==
  /\ row.status = "WAITING_TAP" => row.wait \in {"tap", "choice"}
  /\ row.status = "WAITING_INBOUND" => row.wait \in {"inbound", "reopen"}
  /\ row.status = "WAITING_DELAY" => row.wait \in {"delay", "retry"}
  /\ row.status \in {"DONE", "FAILED"} => row.wait = "none"

TypeOK ==
  /\ run \in [Starts -> Row] /\ \A r \in Starts : Waits(run[r])
  /\ quiet \subseteq Starts /\ old \subseteq Starts /\ open \subseteq Starts /\ alarm \subseteq Starts
  /\ exec \in [Starts -> {"PENDING", "SENDING", "SENT", "RETRYING", "SKIPPED", "FAILED"}]
  /\ marker \subseteq Starts \X Nat \X {"pending", "mid"} /\ replied \subseteq Starts
  /\ event \in [Events -> [status : {"none", "new", "busy", "done"}, of : Starts, node : Nodes]]
  /\ published \in BOOLEAN
  /\ work \in [Workers -> Work]
  /\ sent \subseteq Starts \X Nat \X Nodes /\ twice \subseteq sent /\ lost \subseteq sent
  /\ met \subseteq Starts \X Nat \X Nodes
  /\ raced \in BOOLEAN /\ fuel \in 0..MaxTrouble

\* "A retry that finds either never sends again" (effects.ts:12): whoever executes a step
\* again, after a crash, a failed write or a lost run, its message goes out twice only if
\* an answer was lost or two workers were between the marker's lookup and its write.
SentOnce == twice \subseteq lost \cup met

\* "One live run per (account, person)": starts are serialised, and a cold run gives way,
\* unless it is taken between the new start's read and its write.
OneLiveRun == Cardinality(LiveRuns) <= 1 \/ raced

\* However many workers execute a node, the run goes along one edge at a time, from a
\* node that waits only once it was taken, and from its end nowhere.
Walks ==
  [][\A r \in Starts :
       /\ run[r].status \in Ended => run'[r] = run[r]
       /\ run'[r].node # run[r].node =>
            /\ run[r].status = "ACTIVE" /\ run'[r].seq = run[r].seq + 1
            /\ \E h \in DOMAIN Edges[run[r].node] : run'[r].node = Edges[run[r].node][h]]_vars

\* No run is left behind: dead workers, lost wake-ups and customers that do not answer
\* end in the sweep's hands within the age of a run.
RunEnds == <>[](LiveRuns = {})
=============================================================================
