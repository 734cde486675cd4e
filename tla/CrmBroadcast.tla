---------------------------- MODULE CrmBroadcast ----------------------------
(***************************************************************************)
(* One CRM broadcast (lib/crm/broadcast.ts): the CrmBroadcast row, its     *)
(* recipients, the jobs on the crm queue (broadcast-queue.ts), the workers *)
(* that run startBroadcast and runBroadcastBatch await by await, the       *)
(* maintenance sweep, and the dashboard that schedules, pauses, resumes    *)
(* and cancels while they run.                                             *)
(***************************************************************************)
EXTENDS Integers, FiniteSets

CONSTANTS
  Contacts,     \* the audience
  Workers,      \* job slots of the crm worker (concurrency)
  BatchSize,    \* batchSize(throttlePerHour): recipients of one tick
  MaxAttempts,  \* MAX_SEND_ATTEMPTS
  MaxClicks,    \* bound: pause and cancel (each pause may be resumed)
  MaxTrouble    \* bound: crashes, Redis and database errors, lost answers, rate limits, slow ticks

ASSUME BroadcastAssumption ==
  /\ IsFiniteSet(Contacts) /\ BatchSize \in Nat \ {0} /\ MaxAttempts \in Nat \ {0}
  /\ MaxClicks \in Nat /\ MaxTrouble \in Nat

VARIABLES
  bc,      \* CrmBroadcast: status, startedAt set, tickSeq, which scheduledAt, is it past
  row,     \* CrmBroadcastRecipient of each contact
  count,   \* sentCount, skippedCount, failedCount
  jobs,    \* waiting and delayed jobs of the broadcast
  kept,    \* start jobs that ended: BullMQ holds their id for a day
  work,    \* what each worker is doing
  asked,   \* what is left to do of the requests of the dashboard
  got,     \* history: messages Instagram carried out per contact, up to two
  lost,    \* history: the contacts one of whose answers was lost
  early,   \* history: a tick counted what remained while a start was still inserting
  clicks, fuel  \* what is left of the bounds

vars == <<bc, row, count, jobs, kept, work, asked, got, lost, early, clicks, fuel>>

Status == {"DRAFT", "SCHEDULED", "RUNNING", "PAUSED", "COMPLETED", "CANCELLED", "FAILED"}
\* A start job is keyed by scheduledAt, the first, second ... one; a tick by its number.
Job == [kind : {"start", "batch"}, key : Nat]

RecipientStatus == {"NONE", "PENDING", "SENDING", "SENT", "SKIPPED", "FAILED"}
\* old: SENDING for more than SENDING_LEASE_MS.
Row == [status : RecipientStatus, attempts : 0..MaxAttempts, old : BOOLEAN]
NoRow == [status |-> "NONE", attempts |-> 0, old |-> FALSE]

StartSteps == {"claim", "rows", "count", "first"}
BatchSteps == {"stale", "lease", "next", "handle", "send", "mark", "retry", "limited", "refused",
               "remain", "complete", "tick"}
Steps == {"idle"} \cup StartSteps \cup BatchSteps
\* todo: contacts to insert or candidates to lease; held: leased (in a start: inserted
\* as eligible) and not handled; on: the one being handled.
Work == [pc : Steps, key : Nat, todo : SUBSET Contacts, held : SUBSET Contacts,
         on : SUBSET Contacts, halt : {"no", "rate", "stopped", "cancelled"}]
IdleWork == [pc |-> "idle", key |-> 0, todo |-> {}, held |-> {}, on |-> {}, halt |-> "no"]

-----------------------------------------------------------------------------
(* Helpers *)

At(w, step) == work[w].pc = step
Goto(w, step) == work' = [work EXCEPT ![w].pc = step]
Stop(w) == work' = [work EXCEPT ![w] = IdleWork]
Trouble == fuel > 0 /\ fuel' = fuel - 1
Click == clicks > 0 /\ clicks' = clicks - 1

StartJob(k) == [kind |-> "start", key |-> k]
Tick(n) == [kind |-> "batch", key |-> n]
IsStart(w) == work[w].pc \in StartSteps

\* enqueueBroadcastStart: BullMQ ignores an id it holds in any state.
StartQueued(k) ==
  IF k \in kept \/ \E w \in Workers : IsStart(w) /\ work[w].key = k THEN jobs ELSE jobs \cup {StartJob(k)}
\* The end of a start job, well or badly: its id stays.
Keep(w) == kept' = kept \cup {work[w].key}

Is(status) == {c \in Contacts : row[c].status = status}
Counted(status, n) == count' = [count EXCEPT ![status] = @ + n]
\* updateMany where status = SENDING.
Leased(c, r) == row' = IF row[c].status = "SENDING" THEN [row EXCEPT ![c] = r] ELSE row
To(c, status) == [row[c] EXCEPT !.status = status, !.old = FALSE]
\* releaseRecipient: the attempt is given back.
GivenBack(c) == [status |-> "PENDING", attempts |-> row[c].attempts - 1, old |-> FALSE]

\* The row's tick is queued or being run, or the start is on its way to it.
ChainTrusted == TRUE
ChainAlive ==
  \/ Tick(bc.seq) \in jobs
  \/ \E w \in Workers : IsStart(w) \/ (~At(w, "idle") /\ work[w].key = bc.seq)

Dashboard == <<asked, clicks>>
history == <<got, lost, early>>

-----------------------------------------------------------------------------
(* Workers: taking a job *)

\* Bound: a tick that finds only leases younger than ten minutes does nothing but
\* number its successor; those ticks are left out, and time goes on to the first that does.
OnlyYoung == Is("PENDING") = {} /\ Is("SENDING") # {} /\ \A c \in Is("SENDING") : ~row[c].old

\* A tick whose number is no longer the row's ends without sending.
Take(w, j) ==
  /\ At(w, "idle")
  /\ jobs' = jobs \ {j}
  /\ IF j.kind = "start"
     THEN /\ j.key < bc.at \/ bc.due
          /\ work' = [work EXCEPT ![w] = [IdleWork EXCEPT !.pc = "claim", !.key = j.key]]
     ELSE /\ ~(bc.status = "RUNNING" /\ bc.seq = j.key /\ OnlyYoung)
          /\ work' = IF bc.status = "RUNNING" /\ bc.seq = j.key
                  THEN [work EXCEPT ![w] = [IdleWork EXCEPT !.pc = "stale", !.key = j.key]] ELSE work
  /\ UNCHANGED <<bc, row, count, kept, Dashboard, history, fuel>>

\* A worker dies: BullMQ queues a stalled job again once, then fails it.
Crash(w) ==
  LET j == IF IsStart(w) THEN StartJob(work[w].key) ELSE Tick(work[w].key) IN
  /\ ~At(w, "idle") /\ Trouble
  /\ \/ jobs' = jobs \cup {j} /\ UNCHANGED kept
     \/ /\ UNCHANGED jobs
        /\ IF IsStart(w) THEN Keep(w) ELSE UNCHANGED kept
  /\ Stop(w)
  /\ UNCHANGED <<bc, row, count, Dashboard, history>>

\* Redis loses the queue.
Flush ==
  /\ jobs # {} /\ Trouble
  /\ jobs' = {} /\ kept' = {}
  /\ UNCHANGED <<bc, row, count, work, Dashboard, history>>

-----------------------------------------------------------------------------
(* startBroadcast *)

StartClaim(w) ==
  /\ At(w, "claim")
  /\ IF bc.status = "SCHEDULED"
     THEN /\ bc' = [bc EXCEPT !.status = "RUNNING", !.started = TRUE]
          /\ work' = [work EXCEPT ![w].pc = "rows", ![w].todo = Contacts]
          /\ UNCHANGED kept
     ELSE Stop(w) /\ Keep(w) /\ UNCHANGED bc
  /\ UNCHANGED <<row, count, jobs, Dashboard, history, fuel>>

\* createMany, a chunk at a time; who is not eligible is SKIPPED at once.
StartRows(w, c) ==
  /\ At(w, "rows") /\ c \in work[w].todo
  /\ \E eligible \in BOOLEAN :
       /\ row' = [row EXCEPT ![c].status = IF eligible THEN "PENDING" ELSE "SKIPPED"]
       /\ work' = [work EXCEPT ![w].todo = @ \ {c}, ![w].held = IF eligible THEN @ \cup {c} ELSE @,
                               ![w].pc = IF work[w].todo = {c} THEN "count" ELSE "rows"]
  /\ UNCHANGED <<bc, count, jobs, kept, Dashboard, history, fuel>>

\* The totals; with nobody eligible the broadcast is over, whatever its status is by now.
StartCount(w) ==
  LET eligible == work[w].held IN
  /\ At(w, "count")
  /\ Counted("SKIPPED", Cardinality(Contacts \ eligible))
  /\ IF eligible = {}
     THEN bc' = [bc EXCEPT !.status = "COMPLETED"] /\ Stop(w) /\ Keep(w)
     ELSE Goto(w, "first") /\ UNCHANGED <<bc, kept>>
  /\ UNCHANGED <<row, jobs, Dashboard, history, fuel>>

\* scheduleTick without an expected number: older chains are retired.
StartTick(w) ==
  /\ At(w, "first")
  /\ bc' = [bc EXCEPT !.seq = @ + 1]
  /\ jobs' = jobs \cup {Tick(bc.seq + 1)}
  /\ Stop(w) /\ Keep(w)
  /\ UNCHANGED <<row, count, Dashboard, history, fuel>>

\* An error before the claim fails the job, one after it the broadcast too.
StartError(w) ==
  /\ IsStart(w) /\ Trouble
  /\ bc' = IF At(w, "claim") THEN bc ELSE [bc EXCEPT !.status = "FAILED"]
  /\ Stop(w) /\ Keep(w)
  /\ UNCHANGED <<row, count, jobs, Dashboard, history>>

-----------------------------------------------------------------------------
(* runBroadcastBatch *)

\* The leases of workers that died in a send.
Dead == {c \in Is("SENDING") : row[c].old}

\* They become FAILED, never PENDING; then the candidates are read.
Stale(w) ==
  LET old == Dead
      pending == Is("PENDING")
  IN
  /\ At(w, "stale")
  /\ row' = [c \in Contacts |-> IF c \in old THEN To(c, "FAILED") ELSE row[c]]
  /\ Counted("FAILED", Cardinality(old))
  /\ \E batch \in SUBSET pending :
       /\ Cardinality(batch) = BatchSize \/ (batch = pending /\ Cardinality(pending) < BatchSize)
       /\ work' = [work EXCEPT ![w].todo = batch, ![w].pc = IF batch = {} THEN "remain" ELSE "lease"]
  /\ UNCHANGED <<bc, jobs, kept, Dashboard, history, fuel>>

LeasableAlways(c) == row[c].status \in {"PENDING", "SENDING"}
Leasable(c) == row[c].status = "PENDING"
Lease(w, c) ==
  LET held == IF Leasable(c) THEN work[w].held \cup {c} ELSE work[w].held
      rest == work[w].todo \ {c}
  IN
  /\ At(w, "lease") /\ c \in work[w].todo
  /\ row' = IF Leasable(c) THEN [row EXCEPT ![c] = [status |-> "SENDING", attempts |-> row[c].attempts + 1, old |-> FALSE]]
            ELSE row
  /\ work' = [work EXCEPT ![w].todo = rest, ![w].held = held,
                          ![w].pc = IF rest # {} THEN "lease" ELSE IF held = {} THEN "remain" ELSE "next"]
  /\ UNCHANGED <<bc, count, jobs, kept, Dashboard, history, fuel>>

\* Back to the loop, or out of it: a halted tick leaves without scheduling another.
Handled(w, halt) ==
  work' = [work EXCEPT ![w] = IF work[w].held # {}
             THEN [@ EXCEPT !.pc = "next", !.on = {}, !.halt = halt]
             ELSE IF halt \in {"stopped", "cancelled"} THEN IdleWork
             ELSE [@ EXCEPT !.pc = "remain", !.on = {}, !.halt = halt]]

\* Before each recipient the row is read again, until the tick halts.
Next1(w, c) ==
  LET halt == IF work[w].halt # "no" THEN work[w].halt
              ELSE IF bc.status = "CANCELLED" THEN "cancelled"
              ELSE IF bc.status # "RUNNING" \/ bc.seq # work[w].key THEN "stopped" ELSE "no"
  IN
  /\ At(w, "next") /\ c \in work[w].held
  /\ work' = [work EXCEPT ![w] =
       [work[w] EXCEPT !.pc = "handle", !.held = work[w].held \ {c}, !.on = {c}, !.halt = halt]]
  /\ UNCHANGED <<bc, row, count, jobs, kept, Dashboard, history, fuel>>

\* cancelLeased, releaseRecipient, skipRecipient, or the send.
Handle(w, c) ==
  LET halt == work[w].halt IN
  /\ At(w, "handle") /\ work[w].on = {c}
  /\ \/ /\ halt = "cancelled"
        /\ Leased(c, To(c, "SKIPPED"))
        /\ Counted("SKIPPED", IF row[c].status = "SENDING" THEN 1 ELSE 0)
        /\ Handled(w, halt)
     \/ /\ halt \in {"rate", "stopped"}
        /\ Leased(c, GivenBack(c))
        /\ Handled(w, halt)
        /\ UNCHANGED count
     \/ /\ halt = "no"
        /\ row' = [row EXCEPT ![c] = To(c, "SKIPPED")]
        /\ Counted("SKIPPED", 1)
        /\ Handled(w, halt)
     \/ /\ halt = "no"
        /\ Goto(w, "send")
        /\ UNCHANGED <<row, count>>
  /\ UNCHANGED <<bc, jobs, kept, Dashboard, history, fuel>>

\* sendGuarded: delivered, delivered with the answer lost (a retryable error to the
\* code), a retryable error, the rate limit, or a failure for good.
Send(w, c) ==
  LET delivered == got' = [got EXCEPT ![c] = IF @ < 2 THEN @ + 1 ELSE @]
      same == UNCHANGED <<got, lost>>
  IN
  /\ At(w, "send") /\ work[w].on = {c}
  /\ \/ delivered /\ Goto(w, "mark") /\ UNCHANGED <<lost, fuel>>
     \/ delivered /\ Trouble /\ lost' = lost \cup {c} /\ Goto(w, "retry")
     \/ Goto(w, "retry") /\ same /\ UNCHANGED fuel
     \/ Trouble /\ Goto(w, "limited") /\ same
     \/ Goto(w, "refused") /\ same /\ UNCHANGED fuel
  /\ UNCHANGED <<bc, row, count, jobs, kept, early, Dashboard>>

\* markSent and failRecipient write by id, whatever became of the lease.
Finish(w, c, status) ==
  /\ row' = [row EXCEPT ![c] = To(c, status)]
  /\ Counted(status, 1)
  /\ Handled(w, work[w].halt)

MayRetryLate(c) == row[c].attempts <= MaxAttempts
MayRetry(c) == row[c].attempts < MaxAttempts

Outcome(w, c) ==
  /\ work[w].on = {c}
  /\ \/ At(w, "mark") /\ Finish(w, c, "SENT")
     \/ At(w, "refused") /\ Finish(w, c, "FAILED")
     \/ /\ At(w, "retry")
        /\ IF MayRetry(c)
           THEN Leased(c, To(c, "PENDING")) /\ Handled(w, work[w].halt) /\ UNCHANGED count
           ELSE Finish(w, c, "FAILED")
     \/ /\ At(w, "limited")
        /\ Leased(c, GivenBack(c))
        /\ Handled(w, "rate")
        /\ UNCHANGED count
  /\ UNCHANGED <<bc, jobs, kept, Dashboard, history, fuel>>

RemainingPending == Is("PENDING")
Remaining == Is("PENDING") \cup Is("SENDING")
Remain(w) ==
  /\ At(w, "remain")
  /\ Goto(w, IF work[w].halt = "no" /\ Remaining = {} THEN "complete" ELSE "tick")
  /\ early' = (early \/ \E v \in Workers : IsStart(v))
  /\ UNCHANGED <<bc, row, count, jobs, kept, Dashboard, got, lost, fuel>>

Complete(w) ==
  /\ At(w, "complete")
  /\ bc' = IF bc.status = "RUNNING" THEN [bc EXCEPT !.status = "COMPLETED"] ELSE bc
  /\ Stop(w)
  /\ UNCHANGED <<row, count, jobs, kept, Dashboard, history, fuel>>

\* scheduleTick with an expected number: a chain that was overtaken ends here.
OwnsAny(seq) == bc.status = "RUNNING"
Owns(seq) == bc.seq = seq /\ bc.status = "RUNNING"
Successor(seq) ==
  IF Owns(seq)
  THEN /\ bc' = [bc EXCEPT !.seq = seq + 1]
       /\ \/ jobs' = jobs \cup {Tick(seq + 1)} /\ UNCHANGED fuel
          \/ Trouble /\ UNCHANGED jobs
  ELSE UNCHANGED <<bc, jobs, fuel>>

TickOn(w) ==
  /\ At(w, "tick")
  /\ Successor(work[w].key)
  /\ Stop(w)
  /\ UNCHANGED <<row, count, kept, Dashboard, history>>

-----------------------------------------------------------------------------
(* Time and runBroadcastMaintenance *)

\* scheduledAt passes.
Clock ==
  /\ ~bc.due /\ bc.status # "DRAFT"
  /\ bc' = [bc EXCEPT !.due = TRUE]
  /\ UNCHANGED <<row, count, jobs, kept, work, Dashboard, history, fuel>>

\* Ten minutes pass over a lease; over that of a worker still at it, in a slow tick only.
Age(c) ==
  /\ row[c].status = "SENDING" /\ ~row[c].old
  /\ row' = [row EXCEPT ![c].old = TRUE]
  /\ IF \E w \in Workers : ~IsStart(w) /\ c \in work[w].held \cup work[w].on THEN Trouble ELSE UNCHANGED fuel
  /\ UNCHANGED <<bc, count, jobs, kept, work, Dashboard, history>>

MaintainStart ==
  /\ bc.status = "SCHEDULED" /\ bc.due
  /\ jobs' = StartQueued(bc.at)
  /\ UNCHANGED <<bc, row, count, kept, work, Dashboard, history, fuel>>

\* A tick that is an interval late; one that still comes, when the queue is slow.
MaintainTick ==
  /\ bc.status = "RUNNING"
  /\ IF ChainAlive THEN Trouble ELSE UNCHANGED fuel
  /\ bc' = [bc EXCEPT !.seq = @ + 1]
  /\ jobs' = jobs \cup {Tick(bc.seq + 1)}
  /\ UNCHANGED <<row, count, kept, work, Dashboard, history>>

-----------------------------------------------------------------------------
(* The dashboard *)

Schedule ==
  /\ bc.status = "DRAFT"
  /\ bc' = [bc EXCEPT !.status = "SCHEDULED"]
  /\ jobs' = jobs \cup {StartJob(bc.at)}
  /\ UNCHANGED <<row, count, kept, work, Dashboard, history, fuel>>

\* removeBroadcastJobs follows as a step of its own, and fails silently.
Pause ==
  /\ bc.status \in {"SCHEDULED", "RUNNING"} /\ Click
  /\ bc' = [bc EXCEPT !.status = "PAUSED"]
  /\ asked' = asked \cup {"remove"}
  /\ UNCHANGED <<row, count, jobs, kept, work, history, fuel>>

Remove ==
  /\ "remove" \in asked
  /\ \/ jobs' = {} /\ UNCHANGED fuel
     \/ Trouble /\ UNCHANGED jobs
  /\ asked' = asked \ {"remove"}
  /\ UNCHANGED <<bc, row, count, kept, work, history, clicks>>

\* Before it started: back to the schedule, at a new time when the old one has passed.
ResumeSchedule ==
  LET at == IF bc.due THEN bc.at + 1 ELSE bc.at IN
  /\ bc.status = "PAUSED" /\ ~bc.started
  /\ bc' = [bc EXCEPT !.status = "SCHEDULED", !.at = at]
  /\ jobs' = StartQueued(at)
  /\ UNCHANGED <<row, count, kept, work, Dashboard, history, fuel>>

ResumeRun ==
  /\ bc.status = "PAUSED" /\ bc.started
  /\ bc' = [bc EXCEPT !.status = "RUNNING"]
  /\ asked' = asked \cup {"tick"}
  /\ UNCHANGED <<row, count, jobs, kept, work, clicks, history, fuel>>

ResumeTick ==
  /\ "tick" \in asked
  /\ bc' = [bc EXCEPT !.seq = @ + 1]
  /\ jobs' = jobs \cup {Tick(bc.seq + 1)}
  /\ asked' = asked \ {"tick"}
  /\ UNCHANGED <<row, count, kept, work, history, clicks, fuel>>

Cancel ==
  /\ bc.status \in {"DRAFT", "SCHEDULED", "RUNNING", "PAUSED"} /\ Click
  /\ bc' = [bc EXCEPT !.status = "CANCELLED"]
  /\ asked' = asked \cup {"remove", "skip"}
  /\ UNCHANGED <<row, count, jobs, kept, work, history, fuel>>

LeftLeased == Is("PENDING") \cup Is("SENDING")
Left == Is("PENDING")
CancelRows ==
  LET left == Left IN
  /\ "skip" \in asked /\ "remove" \notin asked
  /\ row' = [c \in Contacts |-> IF c \in left THEN To(c, "SKIPPED") ELSE row[c]]
  /\ Counted("SKIPPED", Cardinality(left))
  /\ asked' = asked \ {"skip"}
  /\ UNCHANGED <<bc, jobs, kept, work, history, clicks, fuel>>

-----------------------------------------------------------------------------
Init ==
  /\ bc = [status |-> "DRAFT", started |-> FALSE, seq |-> 0, at |-> 1, due |-> FALSE]
  /\ row = [c \in Contacts |-> NoRow]
  /\ count = [s \in {"SENT", "SKIPPED", "FAILED"} |-> 0]
  /\ jobs = {} /\ kept = {} /\ asked = {}
  /\ work = [w \in Workers |-> IdleWork]
  /\ got = [c \in Contacts |-> 0] /\ lost = {} /\ early = FALSE
  /\ clicks = MaxClicks /\ fuel = MaxTrouble

Step(w) ==
  \/ StartClaim(w) \/ StartCount(w) \/ StartTick(w) \/ Stale(w)
  \/ Remain(w) \/ Complete(w) \/ TickOn(w)
  \/ \E c \in Contacts : StartRows(w, c) \/ Lease(w, c) \/ Next1(w, c) \/ Handle(w, c)
                           \/ Send(w, c) \/ Outcome(w, c)
TakeAny(w) == \E j \in jobs : Take(w, j)
Maintain == MaintainStart \/ (MaintainTick /\ ~ChainAlive)
Request == Remove \/ ResumeTick \/ CancelRows

Next ==
  \/ \E w \in Workers : TakeAny(w) \/ Step(w) \/ Crash(w) \/ StartError(w)
  \/ \E c \in Contacts : Age(c)
  \/ Flush \/ Clock \/ MaintainStart \/ MaintainTick
  \/ Schedule \/ Pause \/ ResumeSchedule \/ ResumeRun \/ Cancel \/ Request

Spec == Init /\ [][Next]_vars

\* Workers and the maintenance timer run for ever, time passes, requests end.
Fairness ==
  /\ \A w \in Workers : WF_vars(TakeAny(w)) /\ WF_vars(Step(w))
  /\ \A c \in Contacts : WF_vars(Age(c))
  /\ WF_vars(Clock) /\ WF_vars(Maintain) /\ WF_vars(Request)

FairSpec == Spec /\ Fairness

-----------------------------------------------------------------------------
(* Properties *)

TypeOK ==
  /\ bc \in [status : Status, started : BOOLEAN, seq : Nat, at : Nat, due : BOOLEAN]
  /\ row \in [Contacts -> Row]
  /\ count \in [{"SENT", "SKIPPED", "FAILED"} -> Nat]
  /\ jobs \in SUBSET Job /\ kept \in SUBSET Nat
  /\ work \in [Workers -> Work]
  /\ asked \in SUBSET {"remove", "tick", "skip"}
  /\ got \in [Contacts -> 0..2] /\ lost \in SUBSET Contacts /\ early \in BOOLEAN
  /\ clicks \in 0..MaxClicks /\ fuel \in 0..MaxTrouble

\* "Every recipient is leased, so nothing is sent twice" (broadcast-queue.ts:16): a
\* contact gets the message twice only after an answer of Instagram was lost.
SentOnce == \A c \in Contacts : got[c] > 1 => c \in lost

\* "Can never leave two delivery chains" (broadcast-queue.ts:13): pause, resume, the
\* sweep and ticks that overlap leave one job, waiting or running, with the row's number.
OneChain ==
  LET running == {w \in Workers : work[w].pc \in BatchSteps /\ work[w].key = bc.seq} IN
  Cardinality(running) + (IF Tick(bc.seq) \in jobs THEN 1 ELSE 0) <= 1

\* A broadcast is COMPLETED only when every recipient it has is dealt with, leases of
\* other workers and of dead ones included, unless a tick counted during its start.
CompletedIsFinal == bc.status = "COMPLETED" /\ ~early => Remaining = {}

\* With nothing gone wrong, the counters of a broadcast at rest are those of its rows.
CountsMatch ==
  fuel = MaxTrouble /\ asked = {} /\ (\A w \in Workers : At(w, "idle")) =>
    \A s \in DOMAIN count : count[s] = Cardinality(Is(s))

\* A running broadcast ends or is paused, whatever is lost on the way.
BroadcastEnds == <>[](bc.status # "RUNNING")
=============================================================================
