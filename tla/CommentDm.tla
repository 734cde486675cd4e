----------------------------- MODULE CommentDm -----------------------------
(***************************************************************************)
(* One Instagram comment in the Comment-to-DM pipeline: the jobs that      *)
(* carry it (the webhook's, the reconciler's, the ones put off by the      *)
(* hourly limit), the workers that run processComment (lib/queue/          *)
(* dm-worker.ts) campaign by campaign, the DmLog rows they meet in, and    *)
(* what Instagram holds: one private reply per comment, ever, and the      *)
(* public replies under it.  Each await of processComment ends a step.     *)
(***************************************************************************)
EXTENDS Integers, FiniteSets

CONSTANTS
  Count,        \* campaigns that match the comment, 1..Count by creation
  PublicReply,  \* the campaigns that also answer under the comment
  Workers,      \* job slots of the DM worker (concurrency)
  MaxPolls,     \* bound: reconciler jobs at one time
  MaxRequeues,  \* bound: jobs put off by the hourly limit in a row
  MaxAttempts,  \* BullMQ attempts of a job
  MaxFailed,    \* MAX_FAILED_ATTEMPTS of the reconciler
  MaxFaults,   \* bound: crashes of a worker or of Redis in a behaviour
  MaxBlocks,    \* bound: sends over the hourly limit in a behaviour
  MaxAge        \* bound: how old the comment gets, see age

Campaigns == 1..Count

ASSUME CommentAssumption ==
  /\ Count \in Nat \ {0} /\ PublicReply \subseteq Campaigns
  /\ MaxPolls \in Nat /\ MaxRequeues \in Nat /\ MaxAttempts \in Nat \ {0}
  /\ MaxFailed \in Nat /\ MaxFaults \in Nat /\ MaxBlocks \in Nat /\ MaxAge \in 0..2

VARIABLES
  log,     \* DmLog of (campaign, comment)
  jobs,    \* what BullMQ holds under each job id
  work,    \* what each worker is doing
  reply,   \* Instagram: the campaign whose private reply was delivered, 0 for none
  posted,  \* Instagram: the campaigns with a public reply under the comment
  usage,   \* dmsSentThisPeriod of the workspace
  age,     \* the comment's age: 0 recent, 1 past the lookback, 2 past Meta's seven days
  fuel     \* what is left of the bounds on the environment

vars == <<log, jobs, work, reply, posted, usage, age, fuel>>

\* A comment no job has seen has no row: NONE.
DmStatus == {"NONE", "PENDING", "SENT", "FAILED", "SKIPPED_DEDUP", "SKIPPED_PLAN_LIMIT"}

\* fresh: updatedAt is within the lease (PENDING) or the cool-down (FAILED, SENT);
\* attempts: up to MaxFailed, past which nothing tells them apart; permanent: an
\* error no retry can cure; replied, replyError: the public leg.
Log == [status : DmStatus, fresh : BOOLEAN, attempts : 0..MaxFailed, permanent : BOOLEAN,
        replied : BOOLEAN, replyError : BOOLEAN]
NoLog == [status |-> "NONE", fresh |-> FALSE, attempts |-> 0, permanent |-> FALSE,
          replied |-> FALSE, replyError |-> FALSE]

Hook == [kind |-> "hook", n |-> 0]
Polls == {[kind |-> "poll", n |-> n] : n \in 1..MaxPolls}
Retries == {[kind |-> "retry", n |-> n] : n \in 1..MaxRequeues}
JobIds == {Hook} \cup Polls \cup Retries
JobState == {"none", "waiting", "delayed", "backoff", "active", "kept"}
\* made: attempts that ended in an error; stalled: its worker died once.
Job == [state : JobState, made : 0..MaxAttempts, stalled : BOOLEAN]
NewJob(state) == [state |-> state, made |-> 0, stalled |-> FALSE]
\* The id of a job that has ended is kept for a while, which matters to the ids used twice.
EndedJob(j) == NewJob(IF j.kind = "retry" THEN "kept" ELSE "none")

\* mark: the status to write; seen: the row as it was read; error: an earlier
\* campaign of the job failed.
Steps == {"idle", "read", "open", "public", "publicOk", "publicError", "dedup",
          "usage", "slot", "blocked", "send", "sent", "fail", "mark"}
Seen == [status : DmStatus, replied : BOOLEAN]
NotSeen == [status |-> "NONE", replied |-> FALSE]
Work == [pc : Steps, job : JobIds, cur : 0..Count, seen : Seen, mark : DmStatus,
         permanent : BOOLEAN, error : BOOLEAN]
IdleWork == [pc |-> "idle", job |-> Hook, cur |-> 0, seen |-> NotSeen, mark |-> "NONE",
             permanent |-> FALSE, error |-> FALSE]

-----------------------------------------------------------------------------
(* Helpers *)

Cur(w) == work[w].cur
At(w, step) == work[w].pc = step
Goto(w, step) == work' = [work EXCEPT ![w].pc = step]

Capped(n) == IF n < MaxFailed THEN n ELSE MaxFailed

\* Every update of a row stamps updatedAt.
Write(c, r) == log' = [log EXCEPT ![c] = [r EXCEPT !.fresh = TRUE]]

\* A job that errs backs off for ever.
EndedNever(js, j, error) ==
  [js EXCEPT ![j] = IF error THEN [js[j] EXCEPT !.state = "backoff", !.made = @ + 1]
                    ELSE EndedJob(j)]

\* The end of a job: an error backs off until its attempts are used up.
Ended(js, j, error) ==
  [js EXCEPT ![j] = IF error /\ js[j].made + 1 < MaxAttempts
                    THEN [js[j] EXCEPT !.state = "backoff", !.made = @ + 1]
                    ELSE EndedJob(j)]

\* On to the next campaign; after the last one the first error is rethrown.
Advance(w, js, error) ==
  LET failed == work[w].error \/ error IN
  IF Cur(w) < Count
  THEN /\ work' = [work EXCEPT ![w] = [IdleWork EXCEPT !.pc = "read", !.job = work[w].job,
                                                       !.cur = Cur(w) + 1, !.error = failed]]
       /\ jobs' = js
  ELSE /\ work' = [work EXCEPT ![w] = IdleWork]
       /\ jobs' = Ended(js, work[w].job, failed)

\* An error outside the per-campaign catch ends the job at once.
Throw(w) ==
  /\ work' = [work EXCEPT ![w] = IdleWork]
  /\ jobs' = Ended(jobs, work[w].job, TRUE)

World == <<reply, posted, age, fuel>>

-----------------------------------------------------------------------------
(* processComment *)

Take(w) ==
  /\ At(w, "idle")
  /\ \E j \in JobIds :
       /\ jobs[j].state = "waiting"
       /\ jobs' = [jobs EXCEPT ![j].state = "active"]
       /\ work' = [work EXCEPT ![w] = [IdleWork EXCEPT !.pc = "read", !.job = j, !.cur = 1]]
  /\ UNCHANGED <<log, usage, World>>

LeaseHeld(l) == l.status = "PENDING" /\ l.fresh

\* Nothing is left to do for this campaign, or somebody is doing it.
Handled(c, l) ==
  \/ l.status = "SKIPPED_PLAN_LIMIT"
  \/ l.status = "FAILED" /\ l.permanent
  \/ LeaseHeld(l)
  \/ l.status = "SENT" /\ (l.replied \/ c \notin PublicReply)

\* The row is read once; an account without a usable token fails it.
Read(w) ==
  LET c == Cur(w)
      l == log[c]
  IN
  /\ At(w, "read")
  /\ \/ /\ Handled(c, l)
        /\ Advance(w, jobs, FALSE)
     \/ /\ ~Handled(c, l)
        /\ \/ work' = [work EXCEPT ![w].pc = "open", ![w].seen = [status |-> l.status, replied |-> l.replied]]
           \/ work' = [work EXCEPT ![w].pc = "mark", ![w].mark = "FAILED"]
        /\ UNCHANGED jobs
  /\ UNCHANGED <<log, usage, World>>

\* The DM leg is skipped when the row that was read was SENT.
DmLeg(w) ==
  IF work[w].seen.status = "SENT" THEN Advance(w, jobs, FALSE)
  ELSE /\ work' = [work EXCEPT ![w].pc = "dedup", ![w].seen = NotSeen]
       /\ UNCHANGED jobs

\* The row is created (a second creation breaks the unique index) or set back to PENDING.
Open(w) ==
  LET c == Cur(w)
      seen == work[w].seen
      after == IF c \in PublicReply /\ ~seen.replied
               THEN Goto(w, "public") /\ UNCHANGED jobs ELSE DmLeg(w)
  IN
  /\ At(w, "open")
  /\ \/ /\ seen.status = "NONE" /\ log[c].status = "NONE"
        /\ Write(c, [NoLog EXCEPT !.status = "PENDING", !.attempts = Capped(jobs[work[w].job].made + 1)])
        /\ after
     \/ /\ seen.status = "NONE" /\ log[c].status # "NONE"
        /\ Throw(w)
        /\ UNCHANGED log
     \/ /\ seen.status \notin {"NONE", "SENT"}
        /\ Write(c, [log[c] EXCEPT !.status = "PENDING", !.attempts = Capped(@ + 1), !.permanent = FALSE])
        /\ after
     \/ /\ seen.status = "SENT"
        /\ after
        /\ UNCHANGED log
  /\ UNCHANGED <<usage, World>>

\* The public reply, posted first so that a DM that fails does not suppress it.
PublicSend(w) ==
  /\ At(w, "public")
  /\ \/ /\ posted' = posted \cup {Cur(w)}
        /\ \E next \in {"publicOk", "publicError"} : Goto(w, next)    \* publicError: the answer is lost
     \/ /\ Goto(w, "publicError")
        /\ UNCHANGED posted
  /\ UNCHANGED <<log, jobs, usage, reply, age, fuel>>

PublicLog(w) ==
  LET c == Cur(w) IN
  /\ work[w].pc \in {"publicOk", "publicError"}
  /\ IF At(w, "publicOk")
     THEN Write(c, [log[c] EXCEPT !.replied = TRUE, !.replyError = FALSE])
     ELSE Write(c, [log[c] EXCEPT !.replyError = TRUE])
  /\ DmLeg(w)
  /\ UNCHANGED <<usage, World>>

UsedPending(c) == \E d \in Campaigns \ {c} : log[d].status \in {"PENDING", "SENT"}
\* The comment's one private reply was logged by another campaign.
UsedByOther(c) == \E d \in Campaigns \ {c} : log[d].status = "SENT"

Dedup(w) ==
  /\ At(w, "dedup")
  /\ IF UsedByOther(Cur(w))
     THEN work' = [work EXCEPT ![w].pc = "mark", ![w].mark = "SKIPPED_DEDUP"]
     ELSE Goto(w, "usage")
  /\ UNCHANGED <<log, jobs, usage, World>>

\* A DM of the plan is reserved, or refused: the limit, or a suspended workspace.
Usage(w) ==
  /\ At(w, "usage")
  /\ \/ usage' = usage + 1 /\ Goto(w, "slot")
     \/ /\ work' = [work EXCEPT ![w].pc = "mark", ![w].mark = "SKIPPED_PLAN_LIMIT"]
        /\ UNCHANGED usage
  /\ UNCHANGED <<log, jobs, World>>

\* Statuses written on the way out, before the next campaign.
Mark(w) ==
  LET c == Cur(w) IN
  /\ At(w, "mark")
  /\ Write(c, [log[c] EXCEPT !.status = work[w].mark, !.permanent = FALSE])
  /\ Advance(w, jobs, FALSE)
  /\ UNCHANGED <<usage, World>>

Released == IF usage > 0 THEN usage - 1 ELSE 0

\* reserveDMSlot: granted, over the hourly limit, or Redis fails.
Slot(w) ==
  /\ At(w, "slot")
  /\ \/ /\ Goto(w, "send")
        /\ UNCHANGED <<log, jobs, usage, fuel>>
     \/ /\ fuel.blocks > 0 /\ fuel' = [fuel EXCEPT !.blocks = @ - 1]
        /\ usage' = Released
        /\ Goto(w, "blocked")
        /\ UNCHANGED <<log, jobs>>
     \/ /\ fuel.faults > 0 /\ fuel' = [fuel EXCEPT !.faults = @ - 1]
        /\ usage' = Released
        /\ Write(Cur(w), [log[Cur(w)] EXCEPT !.status = "FAILED", !.permanent = FALSE])
        /\ Throw(w)
  /\ UNCHANGED <<reply, posted, age>>

\* Put off to the next window under a numbered id, which BullMQ ignores while
\* it holds it; given up past Meta's seven days.
Blocked(w) ==
  LET c == Cur(w)
      n == work[w].job.n + 1
      next == [kind |-> "retry", n |-> IF work[w].job.kind = "retry" THEN n ELSE 1]
      added == IF next \in JobIds /\ jobs[next].state = "none"
               THEN [jobs EXCEPT ![next] = NewJob("delayed")] ELSE jobs
  IN
  /\ At(w, "blocked")
  /\ \/ /\ age = 2
        /\ Write(c, [log[c] EXCEPT !.status = "FAILED", !.permanent = FALSE])
        /\ Advance(w, jobs, FALSE)
     \/ /\ age < 2
        /\ Write(c, [log[c] EXCEPT !.status = "PENDING", !.permanent = FALSE])
        /\ Advance(w, added, FALSE)
  /\ UNCHANGED <<usage, World>>

\* A send whose answer was lost taken for a delivery.
SendTrusting(w) ==
  /\ At(w, "send")
  /\ Goto(w, "sent")
  /\ UNCHANGED <<log, jobs, usage, World>>

\* The private reply: Instagram takes one per comment, within seven days; the
\* answer may be lost, and anything may be refused, for now or for good.
Send(w) ==
  /\ At(w, "send")
  /\ \/ /\ reply = 0 /\ age < 2
        /\ reply' = Cur(w)
        /\ \/ Goto(w, "sent")
           \/ work' = [work EXCEPT ![w].pc = "fail", ![w].permanent = FALSE]
     \/ /\ \E permanent \in BOOLEAN :
             work' = [work EXCEPT ![w].pc = "fail", ![w].permanent = permanent]
        /\ UNCHANGED reply
  /\ UNCHANGED <<log, jobs, usage, posted, age, fuel>>

Sent(w) ==
  LET c == Cur(w) IN
  /\ At(w, "sent")
  /\ Write(c, [log[c] EXCEPT !.status = "SENT", !.permanent = FALSE])
  /\ Advance(w, jobs, FALSE)
  /\ UNCHANGED <<usage, World>>

\* The reservations go back when the row is marked blocked or failed, and once more.
FailTwice(w) ==
  LET c == Cur(w) IN
  /\ At(w, "fail")
  /\ usage' = IF usage > 1 THEN usage - 2 ELSE 0
  /\ Write(c, [log[c] EXCEPT !.status = "FAILED", !.permanent = work[w].permanent])
  /\ Advance(w, jobs, TRUE)
  /\ UNCHANGED World

\* The reservation goes back and the row is FAILED; the error waits for the end of the job.
Fail(w) ==
  LET c == Cur(w) IN
  /\ At(w, "fail")
  /\ usage' = Released
  /\ Write(c, [log[c] EXCEPT !.status = "FAILED", !.permanent = work[w].permanent])
  /\ Advance(w, jobs, TRUE)
  /\ UNCHANGED World

-----------------------------------------------------------------------------
(* The reconciler *)

OwnerReplied == posted # {}

\* A sweep that leaves every PENDING row to whoever wrote it.
SettledPending(c, l) ==
  \/ IF c \in PublicReply THEN l.replied ELSE l.status \in {"SENT", "PENDING"}
  \/ l.status = "FAILED" /\ (l.fresh \/ l.attempts >= MaxFailed)
  \/ c \in PublicReply /\ l.status = "SENT" /\ l.replyError /\ l.fresh

\* Rows the sweep leaves alone: done, cooling down or given up.
Settled(c, l) ==
  \/ IF c \in PublicReply THEN l.replied ELSE l.status = "SENT"
  \/ l.status = "FAILED" /\ (l.fresh \/ l.attempts >= MaxFailed)
  \/ c \in PublicReply /\ l.status = "SENT" /\ l.replyError /\ l.fresh

\* A comment nobody answered in public, within the lookback, whose row is not settled.
Poll(c) ==
  /\ age = 0 /\ ~OwnerReplied /\ ~Settled(c, log[c])
  /\ \A j \in Polls : jobs[j].state # "waiting"
  /\ \E j \in Polls :
       /\ jobs[j].state = "none"
       /\ jobs' = [jobs EXCEPT ![j] = NewJob("waiting")]
  /\ UNCHANGED <<log, work, usage, World>>

-----------------------------------------------------------------------------
(* Time and faults *)

\* A delay or a backoff is over, or the id of an ended job is cleared.
JobMoves(j) ==
  /\ \/ /\ jobs[j].state \in {"delayed", "backoff"}
        /\ jobs' = [jobs EXCEPT ![j].state = "waiting"]
     \/ /\ jobs[j].state = "kept"
        /\ jobs' = [jobs EXCEPT ![j].state = "none"]
  /\ UNCHANGED <<log, work, usage, World>>

\* The lease outlasts a live worker's calls, the cool-down the backoff of its job.
Ages(c) ==
  /\ log[c].fresh /\ log[c].status \in {"PENDING", "FAILED", "SENT"}
  /\ ~\E w \in Workers : ~At(w, "idle") /\ Cur(w) = c
  /\ log[c].status = "FAILED" => ~\E j \in JobIds : jobs[j].state = "backoff"
  /\ log' = [log EXCEPT ![c].fresh = FALSE]
  /\ UNCHANGED <<jobs, work, usage, World>>

GrowOld ==
  /\ age < MaxAge
  /\ age' = age + 1
  /\ UNCHANGED <<log, jobs, work, usage, reply, posted, fuel>>

\* The worker dies: BullMQ finds the job stalled and hands it out again, or, the
\* second time, fails it.
Crash(w) ==
  /\ ~At(w, "idle")
  /\ fuel.faults > 0 /\ fuel' = [fuel EXCEPT !.faults = @ - 1]
  /\ work' = [work EXCEPT ![w] = IdleWork]
  /\ LET j == work[w].job IN
     jobs' = [jobs EXCEPT ![j] = IF jobs[j].stalled THEN EndedJob(j)
                                 ELSE [jobs[j] EXCEPT !.state = "waiting", !.stalled = TRUE]]
  /\ UNCHANGED <<log, usage, reply, posted, age>>

-----------------------------------------------------------------------------
\* The comment has just been made; its webhook may never come.
Init ==
  /\ log = [c \in Campaigns |-> NoLog]
  /\ \E s \in {"waiting", "none"} :
       jobs = [j \in JobIds |-> NewJob(IF j = Hook THEN s ELSE "none")]
  /\ work = [w \in Workers |-> IdleWork]
  /\ reply = 0 /\ posted = {}
  /\ usage = 0 /\ age = 0
  /\ fuel = [faults |-> MaxFaults, blocks |-> MaxBlocks]

WorkerStep(w) ==
  \/ Take(w) \/ Read(w) \/ Open(w) \/ PublicSend(w) \/ PublicLog(w) \/ Dedup(w) \/ Usage(w)
  \/ Mark(w) \/ Slot(w) \/ Blocked(w) \/ Send(w) \/ Sent(w) \/ Fail(w)

Next ==
  \/ \E w \in Workers : WorkerStep(w) \/ Crash(w)
  \/ \E c \in Campaigns : Poll(c) \/ Ages(c)
  \/ \E j \in JobIds : JobMoves(j)
  \/ GrowOld

Spec == Init /\ [][Next]_vars

-----------------------------------------------------------------------------
(* Properties *)

TypeOK ==
  /\ log \in [Campaigns -> Log]
  /\ jobs \in [JobIds -> Job]
  /\ work \in [Workers -> Work]
  /\ reply \in 0..Count /\ posted \subseteq Campaigns
  /\ usage \in Nat /\ age \in 0..2
  /\ fuel \in [faults : Nat, blocks : Nat]

\* A row is SENT only when the comment's one private reply is its own, through
\* retries, crashes, lost answers and two workers on one comment.
SentIsDelivered == \A c \in Campaigns : log[c].status = "SENT" => reply = c

\* A campaign is told another one used the private reply only when that is so.
DedupIsTrue == \A c \in Campaigns : log[c].status = "SKIPPED_DEDUP" => reply \notin {0, c}

\* Every DM logged as sent, and every send on its way, is counted in the
\* workspace's usage: no path gives a reservation back twice.
UsageCovers ==
  usage >= Cardinality({c \in Campaigns : log[c].status = "SENT"})
             + Cardinality({w \in Workers : work[w].pc \in {"slot", "send", "fail"}})

-----------------------------------------------------------------------------
(* Fairness: workers run their jobs, delays end, leases and cool-downs expire *)
(* and the reconciler sweeps every five minutes; a lease is of a fixed length *)
(* and cannot be starved by the work between its renewals.  A crash or a      *)
(* refusal is never promised, nor that the comment grows old.                 *)
Fairness ==
  /\ \A w \in Workers : WF_vars(WorkerStep(w))
  /\ \A c \in Campaigns : WF_vars(Poll(c)) /\ SF_vars(Ages(c))
  /\ \A j \in JobIds : WF_vars(JobMoves(j))

FairSpec == Spec /\ Fairness

\* A row left PENDING (a crash, the hourly limit, a stalled job that met the
\* lease) is taken up again while the sweep can see the comment unanswered.
PendingEnds ==
  \A c \in Campaigns :
    log[c].status = "PENDING" ~> log[c].status # "PENDING" \/ age > 0 \/ OwnerReplied
=============================================================================
