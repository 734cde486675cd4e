-------------------------- MODULE CommentDmProofs --------------------------
(***************************************************************************)
(* The comment pipeline, for any number of campaigns, workers, jobs,       *)
(* attempts, faults and blocked sends: its types, what its rows say, and   *)
(* the month's usage.  One lemma for each action, and one for each helper  *)
(* that several actions use.                                               *)
(***************************************************************************)
EXTENDS CommentDm, FiniteSetTheorems, TLAPS

-----------------------------------------------------------------------------
(* Types *)

\* A worker that is doing something is at a campaign of its job.
Busy == \A w \in Workers : work[w].pc # "idle" => work[w].cur \in Campaigns

Typed == TypeOK /\ Busy

\* What an action of worker w leaves of the types.
WorkJobsTyped == work' \in [Workers -> Work] /\ jobs' \in [JobIds -> Job] /\ Busy'

LEMMA IdleTyped == IdleWork \in Work /\ IdleWork.pc = "idle" /\ Hook \in JobIds
  BY CommentAssumption DEF IdleWork, Work, NotSeen, Seen, DmStatus, Steps, JobIds, Campaigns

LEMMA NewJobTyped == \A s \in JobState : NewJob(s) \in Job
  BY CommentAssumption DEF NewJob, Job

LEMMA EndedJobTyped == \A j : EndedJob(j) \in Job
  BY NewJobTyped DEF EndedJob, JobState

LEMMA InitTyped == Init => Typed
<1> SUFFICES ASSUME Init PROVE Typed
  OBVIOUS
<1>1. NoLog \in Log
  BY CommentAssumption DEF NoLog, Log, DmStatus
<1>2. jobs \in [JobIds -> Job]
  BY NewJobTyped DEF Init, JobState
<1>3. work \in [Workers -> Work] /\ Busy
  BY IdleTyped DEF Init, Busy
<1>4. log \in [Campaigns -> Log]
  BY <1>1 DEF Init
<1>5. usage \in Nat /\ age \in 0..2 /\ fuel \in [faults : Nat, blocks : Nat] /\ reply \in 0..Count
      /\ posted \subseteq Campaigns
  BY CommentAssumption DEF Init
<1> QED
  BY <1>2, <1>3, <1>4, <1>5 DEF Typed, TypeOK

\* The state of a worker at the start of a campaign.
LEMMA NextTyped ==
  ASSUME NEW j \in JobIds, NEW c \in Campaigns, NEW f \in BOOLEAN
  PROVE  /\ [IdleWork EXCEPT !.pc = "read", !.job = j, !.cur = c, !.error = f] \in Work
         /\ [IdleWork EXCEPT !.pc = "read", !.job = j, !.cur = c, !.error = f].cur = c
<1>1. c \in 0..Count
  BY CommentAssumption DEF Campaigns
<1> QED
  BY <1>1, IdleTyped DEF Work, Steps

\* One worker changes, to a typed state that is at a campaign unless idle.
LEMMA OneWorkTyped ==
  ASSUME Typed, NEW w \in Workers, NEW x \in Work, work' = [work EXCEPT ![w] = x],
         x.pc # "idle" => x.cur \in Campaigns
  PROVE  work' \in [Workers -> Work] /\ Busy'
  BY DEF Typed, TypeOK, Busy

\* A worker moves on within a campaign.
LEMMA GotoTyped ==
  ASSUME Typed, NEW w \in Workers, work[w].pc # "idle", NEW s \in Steps, Goto(w, s)
  PROVE  work' \in [Workers -> Work] /\ Busy'
<1>1. [work[w] EXCEPT !.pc = s] \in Work /\ [work[w] EXCEPT !.pc = s].cur = work[w].cur
  BY DEF Typed, TypeOK, Work
<1>2. work' = [work EXCEPT ![w] = [work[w] EXCEPT !.pc = s]]
  BY DEF Goto, Typed, TypeOK
<1>3. work[w].cur \in Campaigns
  BY DEF Typed, Busy
<1> QED
  BY <1>1, <1>2, <1>3, OneWorkTyped

\* The same, with a status to write when the worker leaves the campaign.
LEMMA MarkedTyped ==
  ASSUME Typed, NEW w \in Workers, work[w].pc # "idle", NEW m \in DmStatus,
         work' = [work EXCEPT ![w].pc = "mark", ![w].mark = m]
  PROVE  work' \in [Workers -> Work] /\ Busy'
<1> DEFINE x == [work[w] EXCEPT !.pc = "mark", !.mark = m]
<1>1. x \in Work /\ x.cur = work[w].cur
  BY DEF Typed, TypeOK, Work, Steps
<1>2. work' = [work EXCEPT ![w] = x]
  BY DEF Typed, TypeOK
<1>3. work[w].cur \in Campaigns
  BY DEF Typed, Busy
<1> HIDE DEF x
<1> QED
  BY <1>1, <1>2, <1>3, OneWorkTyped

LEMMA EndedTyped ==
  ASSUME NEW js \in [JobIds -> Job], NEW j \in JobIds, NEW e \in BOOLEAN
  PROVE  Ended(js, j, e) \in [JobIds -> Job]
<1>1. CASE e /\ js[j].made + 1 < MaxAttempts
  <2>1. js[j] \in Job /\ js[j].made + 1 \in 0..MaxAttempts
    BY <1>1, CommentAssumption DEF Job
  <2>2. [js[j] EXCEPT !.state = "backoff", !.made = js[j].made + 1] \in Job
    BY <2>1 DEF Job, JobState
  <2> QED
    BY <1>1, <2>2 DEF Ended
<1>2. CASE ~(e /\ js[j].made + 1 < MaxAttempts)
  BY <1>2, EndedJobTyped DEF Ended
<1> QED
  BY <1>1, <1>2

LEMMA AdvanceTyped ==
  ASSUME Typed, NEW w \in Workers, NEW js \in [JobIds -> Job], NEW e \in BOOLEAN, Advance(w, js, e)
  PROVE  WorkJobsTyped
<1>1. work[w] \in Work /\ work[w].job \in JobIds /\ work[w].cur \in 0..Count /\ work[w].error \in BOOLEAN
  BY DEF Typed, TypeOK, Work
<1> DEFINE f == work[w].error \/ e
           x == [IdleWork EXCEPT !.pc = "read", !.job = work[w].job, !.cur = Cur(w) + 1, !.error = f]
<1>2. f \in BOOLEAN
  BY <1>1
<1>3. CASE Cur(w) < Count
  <2>1. work' = [work EXCEPT ![w] = x] /\ jobs' = js
    BY <1>3 DEF Advance
  <2>2. x \in Work /\ x.cur \in Campaigns
    <3>1. Cur(w) + 1 \in Campaigns
      BY <1>1, <1>3, CommentAssumption DEF Cur, Campaigns
    <3>2. work[w].job \in JobIds
      BY <1>1
    <3> HIDE DEF f
    <3> QED
      BY <1>2, <3>1, <3>2, NextTyped
  <2> HIDE DEF x
  <2> QED
    BY <2>1, <2>2, OneWorkTyped DEF WorkJobsTyped
<1>4. CASE ~(Cur(w) < Count)
  <2>1. work' = [work EXCEPT ![w] = IdleWork] /\ jobs' = Ended(js, work[w].job, f)
    BY <1>4 DEF Advance
  <2> HIDE DEF f
  <2> QED
    BY <1>1, <1>2, <2>1, OneWorkTyped, IdleTyped, EndedTyped DEF WorkJobsTyped
<1> QED
  BY <1>3, <1>4

LEMMA ThrowTyped ==
  ASSUME Typed, NEW w \in Workers, Throw(w)
  PROVE  WorkJobsTyped
<1>1. work[w].job \in JobIds /\ jobs \in [JobIds -> Job]
  BY DEF Typed, TypeOK, Work
<1> QED
  BY <1>1, OneWorkTyped, IdleTyped, EndedTyped DEF Throw, WorkJobsTyped

LEMMA WriteTyped ==
  ASSUME Typed, NEW c \in Campaigns, NEW r \in Log, Write(c, r)
  PROVE  log' \in [Campaigns -> Log]
<1>1. [r EXCEPT !.fresh = TRUE] \in Log
  BY DEF Log
<1> QED
  BY <1>1 DEF Write, Typed, TypeOK

\* A row with another status is a row.
LEMMA StatusTyped ==
  ASSUME NEW l \in Log, NEW s \in DmStatus, NEW b \in BOOLEAN
  PROVE  [l EXCEPT !.status = s, !.permanent = b] \in Log
  BY DEF Log

LEMMA CurTyped ==
  ASSUME Typed, NEW w \in Workers, work[w].pc # "idle"
  PROVE  Cur(w) \in Campaigns /\ log[Cur(w)] \in Log /\ work[w].mark \in DmStatus
         /\ work[w].permanent \in BOOLEAN /\ work[w].job \in JobIds /\ work[w].seen \in Seen
  BY DEF Typed, Busy, TypeOK, Work, Cur

LEMMA ReleasedTyped == ASSUME Typed PROVE Released \in Nat
  BY DEF Typed, TypeOK, Released

-----------------------------------------------------------------------------
(* Each action keeps the types *)

\* What a step that writes no row, or a typed one, adds to the worker's types.
LEMMA TypedAgain ==
  ASSUME Typed, WorkJobsTyped, log' \in [Campaigns -> Log], usage' \in Nat,
         reply' \in 0..Count, posted' \subseteq Campaigns, age' \in 0..2,
         fuel' \in [faults : Nat, blocks : Nat]
  PROVE  Typed'
  BY DEF Typed, TypeOK, WorkJobsTyped

\* The same for a step that leaves Instagram, time and the bounds alone.
LEMMA WorkerTypedAgain ==
  ASSUME Typed, WorkJobsTyped, log' \in [Campaigns -> Log], usage' \in Nat, UNCHANGED World
  PROVE  Typed'
  BY TypedAgain DEF World, Typed, TypeOK

LEMMA TakeTyped == ASSUME Typed, NEW w \in Workers, Take(w) PROVE Typed'
<1>1. PICK j \in JobIds :
        /\ jobs' = [jobs EXCEPT ![j].state = "active"]
        /\ work' = [work EXCEPT ![w] = [IdleWork EXCEPT !.pc = "read", !.job = j, !.cur = 1]]
  BY DEF Take
<1>2. 1 \in Campaigns /\ 1 \in 0..Count
  BY CommentAssumption DEF Campaigns
<1>3. /\ [IdleWork EXCEPT !.pc = "read", !.job = j, !.cur = 1] \in Work
      /\ [IdleWork EXCEPT !.pc = "read", !.job = j, !.cur = 1].cur = 1
  BY <1>2, IdleTyped DEF Work, Steps
<1>4. work' \in [Workers -> Work] /\ Busy'
  BY <1>1, <1>2, <1>3, OneWorkTyped
<1>5. jobs' \in [JobIds -> Job]
  BY <1>1 DEF Typed, TypeOK, Job, JobState
<1> QED
  BY <1>4, <1>5, WorkerTypedAgain DEF Take, WorkJobsTyped, Typed, TypeOK

LEMMA ReadTyped == ASSUME Typed, NEW w \in Workers, Read(w) PROVE Typed'
<1>1. work[w].pc # "idle" /\ Cur(w) \in Campaigns /\ log[Cur(w)] \in Log
  BY CurTyped DEF Read, At
<1>2. CASE Advance(w, jobs, FALSE)
  BY <1>2, AdvanceTyped, WorkerTypedAgain DEF Read, Typed, TypeOK
<1>3. CASE /\ UNCHANGED jobs
           /\ work' = [work EXCEPT ![w].pc = "open",
                        ![w].seen = [status |-> log[Cur(w)].status, replied |-> log[Cur(w)].replied]]
  <2> DEFINE s == [status |-> log[Cur(w)].status, replied |-> log[Cur(w)].replied]
             x == [work[w] EXCEPT !.pc = "open", !.seen = s]
  <2>1. s \in Seen
    BY <1>1 DEF Log, Seen
  <2>2. work' = [work EXCEPT ![w] = x]
    BY <1>3 DEF Typed, TypeOK
  <2> HIDE DEF s
  <2>3. x \in Work /\ x.cur = work[w].cur
    BY <2>1 DEF Typed, TypeOK, Work, Steps
  <2>4. work[w].cur \in Campaigns
    BY <1>1 DEF Cur
  <2> HIDE DEF x
  <2>5. WorkJobsTyped
    BY <1>3, <2>2, <2>3, <2>4, OneWorkTyped DEF WorkJobsTyped, Typed, TypeOK
  <2> QED
    BY <2>5, WorkerTypedAgain DEF Read, Typed, TypeOK
<1>4. CASE /\ UNCHANGED jobs
           /\ work' = [work EXCEPT ![w].pc = "mark", ![w].mark = "FAILED"]
  <2>1. WorkJobsTyped
    BY <1>1, <1>4, MarkedTyped DEF WorkJobsTyped, Typed, TypeOK, DmStatus
  <2> QED
    BY <2>1, WorkerTypedAgain DEF Read, Typed, TypeOK
<1> QED
  BY <1>2, <1>3, <1>4 DEF Read

LEMMA DmLegTyped ==
  ASSUME Typed, NEW w \in Workers, work[w].pc # "idle", DmLeg(w)
  PROVE  WorkJobsTyped
<1>1. CASE work[w].seen.status = "SENT"
  BY <1>1, AdvanceTyped DEF DmLeg, Typed, TypeOK
<1>2. CASE work[w].seen.status # "SENT"
  <2> DEFINE x == [work[w] EXCEPT !.pc = "dedup", !.seen = NotSeen]
  <2>1. NotSeen \in Seen
    BY DEF NotSeen, Seen, DmStatus
  <2>2. x \in Work /\ x.cur = work[w].cur
    BY <2>1 DEF Typed, TypeOK, Work, Steps
  <2>3. work' = [work EXCEPT ![w] = x] /\ jobs' = jobs
    BY <1>2 DEF DmLeg, Typed, TypeOK
  <2>4. work[w].cur \in Campaigns
    BY CurTyped DEF Cur
  <2> HIDE DEF x
  <2> QED
    BY <2>2, <2>3, <2>4, OneWorkTyped DEF WorkJobsTyped, Typed, TypeOK
<1> QED
  BY <1>1, <1>2

LEMMA CappedTyped == \A n \in Nat : Capped(n) \in 0..MaxFailed
  BY CommentAssumption DEF Capped

LEMMA OpenTyped == ASSUME Typed, NEW w \in Workers, Open(w) PROVE Typed'
<1> DEFINE c == Cur(w)
           after == IF c \in PublicReply /\ ~work[w].seen.replied
                    THEN Goto(w, "public") /\ UNCHANGED jobs ELSE DmLeg(w)
<1>1. work[w].pc # "idle" /\ c \in Campaigns /\ log[c] \in Log /\ work[w].job \in JobIds
  BY CurTyped DEF Open, At
<1>2. ASSUME after PROVE WorkJobsTyped
  <2>1. CASE Goto(w, "public") /\ UNCHANGED jobs
    BY <1>1, <2>1, GotoTyped DEF WorkJobsTyped, Steps, Typed, TypeOK
  <2>2. CASE DmLeg(w)
    BY <1>1, <2>2, DmLegTyped
  <2> QED
    BY <1>2, <2>1, <2>2
<1>3. CASE after /\ Write(c, [NoLog EXCEPT !.status = "PENDING", !.attempts = Capped(jobs[work[w].job].made + 1)])
  <2>1. jobs[work[w].job].made + 1 \in Nat
    BY <1>1, CommentAssumption DEF Typed, TypeOK, Job
  <2>2. Capped(jobs[work[w].job].made + 1) \in 0..MaxFailed
    BY <2>1, CappedTyped
  <2>3. NoLog \in Log
    BY CommentAssumption DEF NoLog, Log, DmStatus
  <2>4. [NoLog EXCEPT !.status = "PENDING", !.attempts = Capped(jobs[work[w].job].made + 1)] \in Log
    BY <2>2, <2>3 DEF Log, DmStatus
  <2>5. log' \in [Campaigns -> Log]
    BY <1>1, <1>3, <2>4, WriteTyped
  <2> QED
    BY <1>2, <1>3, <2>5, WorkerTypedAgain DEF Open, Typed, TypeOK
<1>4. CASE Throw(w) /\ UNCHANGED log
  BY <1>4, ThrowTyped, WorkerTypedAgain DEF Open, Typed, TypeOK
<1>5. CASE after /\ Write(c, [log[c] EXCEPT !.status = "PENDING", !.attempts = Capped(@ + 1), !.permanent = FALSE])
  <2>1. log[c].attempts + 1 \in Nat
    BY <1>1, CommentAssumption DEF Log
  <2>2. Capped(log[c].attempts + 1) \in 0..MaxFailed
    BY <2>1, CappedTyped
  <2>3. [log[c] EXCEPT !.status = "PENDING", !.attempts = Capped(log[c].attempts + 1), !.permanent = FALSE] \in Log
    BY <1>1, <2>2 DEF Log, DmStatus
  <2>4. log' \in [Campaigns -> Log]
    BY <1>1, <1>5, <2>3, WriteTyped
  <2> QED
    BY <1>2, <1>5, <2>4, WorkerTypedAgain DEF Open, Typed, TypeOK
<1>6. CASE after /\ UNCHANGED log
  BY <1>2, <1>6, WorkerTypedAgain DEF Open, Typed, TypeOK
<1> QED
  BY <1>3, <1>4, <1>5, <1>6 DEF Open

LEMMA PublicSendTyped == ASSUME Typed, NEW w \in Workers, PublicSend(w) PROVE Typed'
<1>1. work[w].pc # "idle" /\ Cur(w) \in Campaigns
  BY CurTyped DEF PublicSend, At
<1>2. \E s \in {"publicOk", "publicError"} : Goto(w, s)
  BY DEF PublicSend
<1>3. WorkJobsTyped
  BY <1>1, <1>2, GotoTyped DEF PublicSend, WorkJobsTyped, Steps, Typed, TypeOK
<1> QED
  BY <1>1, <1>3, TypedAgain DEF PublicSend, Typed, TypeOK

LEMMA PublicLogTyped == ASSUME Typed, NEW w \in Workers, PublicLog(w) PROVE Typed'
<1>1. work[w].pc # "idle" /\ Cur(w) \in Campaigns /\ log[Cur(w)] \in Log
  BY CurTyped DEF PublicLog, At
<1>2. /\ [log[Cur(w)] EXCEPT !.replied = TRUE, !.replyError = FALSE] \in Log
      /\ [log[Cur(w)] EXCEPT !.replyError = TRUE] \in Log
  BY <1>1 DEF Log
<1>3. log' \in [Campaigns -> Log]
  BY <1>1, <1>2, WriteTyped DEF PublicLog
<1>4. WorkJobsTyped
  BY <1>1, DmLegTyped DEF PublicLog
<1> QED
  BY <1>3, <1>4, WorkerTypedAgain DEF PublicLog, Typed, TypeOK

LEMMA DedupTyped == ASSUME Typed, NEW w \in Workers, Dedup(w) PROVE Typed'
<1>1. work[w].pc # "idle"
  BY DEF Dedup, At
<1>2. CASE work' = [work EXCEPT ![w].pc = "mark", ![w].mark = "SKIPPED_DEDUP"]
  BY <1>1, <1>2, MarkedTyped, WorkerTypedAgain DEF Dedup, WorkJobsTyped, DmStatus, Typed, TypeOK
<1>3. CASE Goto(w, "usage")
  BY <1>1, <1>3, GotoTyped, WorkerTypedAgain DEF Dedup, WorkJobsTyped, Steps, Typed, TypeOK
<1> QED
  BY <1>2, <1>3 DEF Dedup

LEMMA UsageTyped == ASSUME Typed, NEW w \in Workers, Usage(w) PROVE Typed'
<1>1. work[w].pc # "idle"
  BY DEF Usage, At
<1>2. CASE work' = [work EXCEPT ![w].pc = "mark", ![w].mark = "SKIPPED_PLAN_LIMIT"] /\ UNCHANGED usage
  BY <1>1, <1>2, MarkedTyped, WorkerTypedAgain DEF Usage, WorkJobsTyped, DmStatus, Typed, TypeOK
<1>3. CASE Goto(w, "slot") /\ usage' = usage + 1
  BY <1>1, <1>3, GotoTyped, WorkerTypedAgain DEF Usage, WorkJobsTyped, Steps, Typed, TypeOK
<1> QED
  BY <1>2, <1>3 DEF Usage

\* A row is given its status and the worker goes on to the next campaign.
LEMMA LeaveTyped ==
  ASSUME Typed, NEW w \in Workers, work[w].pc # "idle",
         NEW s \in DmStatus, NEW b \in BOOLEAN, NEW e \in BOOLEAN, NEW js \in [JobIds -> Job],
         Write(Cur(w), [log[Cur(w)] EXCEPT !.status = s, !.permanent = b]),
         Advance(w, js, e), usage' \in Nat, UNCHANGED World
  PROVE  Typed'
<1>1. Cur(w) \in Campaigns /\ log[Cur(w)] \in Log
  BY CurTyped
<1>2. log' \in [Campaigns -> Log]
  BY <1>1, StatusTyped, WriteTyped
<1>3. WorkJobsTyped
  BY AdvanceTyped
<1> QED
  BY <1>2, <1>3, WorkerTypedAgain

LEMMA MarkTyped == ASSUME Typed, NEW w \in Workers, Mark(w) PROVE Typed'
<1>1. work[w].pc # "idle"
  BY DEF Mark, At
<1>2. work[w].mark \in DmStatus /\ jobs \in [JobIds -> Job] /\ usage' \in Nat
  BY <1>1, CurTyped DEF Mark, Typed, TypeOK
<1> QED
  BY <1>1, <1>2, LeaveTyped DEF Mark

LEMMA SlotTyped == ASSUME Typed, NEW w \in Workers, Slot(w) PROVE Typed'
<1>1. work[w].pc # "idle" /\ Cur(w) \in Campaigns /\ log[Cur(w)] \in Log
  BY CurTyped DEF Slot, At
<1>2. CASE Goto(w, "send") /\ UNCHANGED <<log, jobs, usage, fuel>>
  BY <1>1, <1>2, GotoTyped, TypedAgain DEF Slot, WorkJobsTyped, Steps, Typed, TypeOK
<1>3. CASE /\ fuel.blocks > 0 /\ fuel' = [fuel EXCEPT !.blocks = @ - 1]
           /\ usage' = Released
           /\ Goto(w, "blocked")
           /\ UNCHANGED <<log, jobs>>
  <2>1. fuel' \in [faults : Nat, blocks : Nat]
    BY <1>3 DEF Typed, TypeOK
  <2>2. WorkJobsTyped
    BY <1>1, <1>3, GotoTyped DEF WorkJobsTyped, Steps, Typed, TypeOK
  <2> QED
    BY <1>3, <2>1, <2>2, ReleasedTyped, TypedAgain DEF Slot, Typed, TypeOK
<1>4. CASE /\ fuel.faults > 0 /\ fuel' = [fuel EXCEPT !.faults = @ - 1]
           /\ usage' = Released
           /\ Write(Cur(w), [log[Cur(w)] EXCEPT !.status = "FAILED", !.permanent = FALSE])
           /\ Throw(w)
  <2>1. fuel' \in [faults : Nat, blocks : Nat]
    BY <1>4 DEF Typed, TypeOK
  <2>2. log' \in [Campaigns -> Log]
    BY <1>1, <1>4, StatusTyped, WriteTyped DEF DmStatus
  <2>3. WorkJobsTyped
    BY <1>4, ThrowTyped
  <2> QED
    BY <1>4, <2>1, <2>2, <2>3, ReleasedTyped, TypedAgain DEF Slot, Typed, TypeOK
<1> QED
  BY <1>2, <1>3, <1>4 DEF Slot

LEMMA BlockedTyped == ASSUME Typed, NEW w \in Workers, Blocked(w) PROVE Typed'
<1>1. work[w].pc # "idle" /\ jobs \in [JobIds -> Job] /\ usage' \in Nat /\ UNCHANGED World
  BY DEF Blocked, At, Typed, TypeOK
<1>2. NewJob("delayed") \in Job
  BY NewJobTyped DEF JobState
<1>3. CASE /\ Write(Cur(w), [log[Cur(w)] EXCEPT !.status = "FAILED", !.permanent = FALSE])
           /\ Advance(w, jobs, FALSE)
  BY <1>1, <1>3, LeaveTyped DEF DmStatus
<1>4. CASE /\ Write(Cur(w), [log[Cur(w)] EXCEPT !.status = "PENDING", !.permanent = FALSE])
           /\ \E js \in [JobIds -> Job] : Advance(w, js, FALSE)
  BY <1>1, <1>4, LeaveTyped DEF DmStatus
<1>5. ASSUME NEW j PROVE [jobs EXCEPT ![j] = NewJob("delayed")] \in [JobIds -> Job]
  BY <1>1, <1>2
<1> QED
  BY <1>1, <1>3, <1>4, <1>5 DEF Blocked

LEMMA SendTyped == ASSUME Typed, NEW w \in Workers, Send(w) PROVE Typed'
<1>1. work[w].pc # "idle" /\ Cur(w) \in Campaigns
  BY CurTyped DEF Send, At
<1>2. reply' \in 0..Count
  BY <1>1, CommentAssumption DEF Send, Campaigns, Typed, TypeOK
<1>3. WorkJobsTyped
  <2>1. CASE Goto(w, "sent")
    BY <1>1, <2>1, GotoTyped DEF Send, WorkJobsTyped, Steps, Typed, TypeOK
  <2>2. CASE \E b \in BOOLEAN : work' = [work EXCEPT ![w].pc = "fail", ![w].permanent = b]
    <3>1. PICK b \in BOOLEAN : work' = [work EXCEPT ![w].pc = "fail", ![w].permanent = b]
      BY <2>2
    <3> DEFINE x == [work[w] EXCEPT !.pc = "fail", !.permanent = b]
    <3>2. x \in Work /\ x.cur = work[w].cur
      BY DEF Typed, TypeOK, Work, Steps
    <3>3. work' = [work EXCEPT ![w] = x]
      BY <3>1 DEF Typed, TypeOK
    <3>4. work[w].cur \in Campaigns
      BY <1>1 DEF Cur
    <3> HIDE DEF x
    <3> QED
      BY <3>2, <3>3, <3>4, OneWorkTyped DEF Send, WorkJobsTyped, Typed, TypeOK
  <2> QED
    BY <2>1, <2>2 DEF Send
<1> QED
  BY <1>2, <1>3, TypedAgain DEF Send, Typed, TypeOK

LEMMA SentTyped == ASSUME Typed, NEW w \in Workers, Sent(w) PROVE Typed'
<1>1. work[w].pc # "idle" /\ jobs \in [JobIds -> Job] /\ usage' \in Nat
  BY DEF Sent, At, Typed, TypeOK
<1> QED
  BY <1>1, LeaveTyped DEF Sent, DmStatus

LEMMA FailTyped == ASSUME Typed, NEW w \in Workers, Fail(w) PROVE Typed'
<1>1. work[w].pc # "idle" /\ jobs \in [JobIds -> Job]
  BY DEF Fail, At, Typed, TypeOK
<1>2. work[w].permanent \in BOOLEAN /\ usage' \in Nat
  BY <1>1, CurTyped, ReleasedTyped DEF Fail
<1> QED
  BY <1>1, <1>2, LeaveTyped DEF Fail, DmStatus

LEMMA PollTyped == ASSUME Typed, NEW c \in Campaigns, Poll(c) PROVE Typed'
<1>1. NewJob("waiting") \in Job
  BY NewJobTyped DEF JobState
<1> QED
  BY <1>1, WorkerTypedAgain DEF Poll, WorkJobsTyped, Typed, TypeOK, Busy

LEMMA JobMovesTyped == ASSUME Typed, NEW j \in JobIds, JobMoves(j) PROVE Typed'
<1>1. jobs' \in [JobIds -> Job]
  BY DEF JobMoves, Typed, TypeOK, Job, JobState
<1> QED
  BY <1>1, WorkerTypedAgain DEF JobMoves, WorkJobsTyped, Typed, TypeOK, Busy

LEMMA AgesTyped == ASSUME Typed, NEW c \in Campaigns, Ages(c) PROVE Typed'
<1>1. log' \in [Campaigns -> Log]
  BY DEF Ages, Typed, TypeOK, Log
<1> QED
  BY <1>1, WorkerTypedAgain DEF Ages, WorkJobsTyped, Typed, TypeOK, Busy

LEMMA GrowOldTyped == ASSUME Typed, GrowOld PROVE Typed'
<1>1. age' \in 0..2
  BY CommentAssumption DEF GrowOld, Typed, TypeOK
<1> QED
  BY <1>1, TypedAgain DEF GrowOld, WorkJobsTyped, Typed, TypeOK, Busy

LEMMA CrashTyped == ASSUME Typed, NEW w \in Workers, Crash(w) PROVE Typed'
<1> DEFINE j == work[w].job
<1>1. j \in JobIds /\ jobs[j] \in Job
  BY DEF Typed, TypeOK, Work
<1>2. [jobs[j] EXCEPT !.state = "waiting", !.stalled = TRUE] \in Job
  BY <1>1 DEF Job, JobState
<1>3. jobs' \in [JobIds -> Job]
  BY <1>1, <1>2, EndedJobTyped DEF Crash, Typed, TypeOK
<1>4. work' \in [Workers -> Work] /\ Busy'
  BY IdleTyped, OneWorkTyped DEF Crash
<1>5. fuel' \in [faults : Nat, blocks : Nat]
  BY DEF Crash, Typed, TypeOK
<1> QED
  BY <1>3, <1>4, <1>5, TypedAgain DEF Crash, WorkJobsTyped, Typed, TypeOK

LEMMA WorkerStepTyped == ASSUME Typed, NEW w \in Workers, WorkerStep(w) PROVE Typed'
  BY TakeTyped, ReadTyped, OpenTyped, PublicSendTyped, PublicLogTyped, DedupTyped, UsageTyped,
     MarkTyped, SlotTyped, BlockedTyped, SendTyped, SentTyped, FailTyped DEF WorkerStep

LEMMA StepTyped == Typed /\ [Next]_vars => Typed'
<1> SUFFICES ASSUME Typed, [Next]_vars PROVE Typed'
  OBVIOUS
<1>1. CASE UNCHANGED vars
  BY <1>1 DEF vars, Typed, TypeOK, Busy
<1>2. CASE Next
  BY <1>2, WorkerStepTyped, CrashTyped, PollTyped, AgesTyped, JobMovesTyped, GrowOldTyped DEF Next
<1> QED
  BY <1>1, <1>2

\* Every reachable state of the comment pipeline (processComment, its jobs and
\* the reconciler) is well typed, for all constants.
THEOREM CommentTypeCorrect == Spec => []TypeOK
<1>1. Typed => TypeOK
  BY DEF Typed
<1> QED
  BY <1>1, InitTyped, StepTyped, PTL DEF Spec

-----------------------------------------------------------------------------
(* What a comment's rows say is so: SENT names the campaign whose private  *)
(* reply Instagram delivered, SKIPPED_DEDUP one of those it did not.  A    *)
(* row gets the first only from a worker at "sent" and the second only     *)
(* from one at "mark", so the invariant follows what those two carry.      *)

\* Lost answers and crashes may hide a delivery, never invent one.
Delivered == \A w \in Workers : work[w].pc = "sent" => reply = work[w].cur

\* A status on its way to the row is no SENT, and a dedup had its reason.
Justified ==
  \A w \in Workers : work[w].pc = "mark" =>
    /\ work[w].mark # "SENT"
    /\ work[w].mark = "SKIPPED_DEDUP" => reply \notin {0, work[w].cur}

Truthful == SentIsDelivered /\ DedupIsTrue /\ Delivered /\ Justified

\* What a step may do to the status of a row, and what one of worker w may.
RowKept(c) == log'[c].status = log[c].status \/ log'[c].status \in {"PENDING", "FAILED"}
RowMovesBy(w, c) ==
  \/ RowKept(c)
  \/ work[w].pc = "sent" /\ work[w].cur = c /\ log'[c].status = "SENT"
  \/ work[w].pc = "mark" /\ work[w].cur = c /\ log'[c].status = work[w].mark
RowMoves(c) == RowKept(c) \/ \E w \in Workers : RowMovesBy(w, c)

\* What a step may do to a worker on its way to a row.
WorkMoves(w) ==
  \/ work'[w] = work[w]
  \/ /\ work'[w].pc = "sent" => reply' = work'[w].cur
     /\ work'[w].pc = "mark" =>
          \/ work'[w].mark \in {"FAILED", "SKIPPED_PLAN_LIMIT"}
          \/ work'[w].mark = "SKIPPED_DEDUP" /\ work'[w].cur \in Campaigns /\ UsedByOther(work'[w].cur)

\* The one private reply is given once.
ReplyMoves == reply' = reply \/ (reply = 0 /\ reply' \in Campaigns)

-----------------------------------------------------------------------------
(* The invariant follows from what a step may do *)

LEMMA TruthKept ==
  ASSUME Typed, Truthful, ReplyMoves,
         \A c \in Campaigns : RowMoves(c), \A w \in Workers : WorkMoves(w)
  PROVE  Truthful'
<1>1. \A c \in Campaigns : c # 0 /\ (reply = c => reply' = c) /\ (reply \notin {0, c} => reply' \notin {0, c})
  BY CommentAssumption DEF ReplyMoves, Campaigns
<1>2. \A w \in Workers : work[w].pc # "idle" => work[w].cur \in Campaigns
  BY DEF Typed, Busy
<1>3. \A c \in Campaigns : UsedByOther(c) => reply \notin {0, c}
  BY <1>1 DEF UsedByOther, Truthful, SentIsDelivered
<1>4. SentIsDelivered'
  <2> SUFFICES ASSUME NEW c \in Campaigns, log'[c].status = "SENT" PROVE reply' = c
    BY DEF SentIsDelivered
  <2> QED
    BY <1>1 DEF RowMoves, RowMovesBy, RowKept, Truthful, SentIsDelivered, Delivered, Justified
<1>5. DedupIsTrue'
  <2> SUFFICES ASSUME NEW c \in Campaigns, log'[c].status = "SKIPPED_DEDUP" PROVE reply' \notin {0, c}
    BY DEF DedupIsTrue
  <2> QED
    BY <1>1 DEF RowMoves, RowMovesBy, RowKept, Truthful, DedupIsTrue, Justified
<1>6. Delivered'
  <2> SUFFICES ASSUME NEW w \in Workers, work'[w].pc = "sent" PROVE reply' = work'[w].cur
    BY DEF Delivered
  <2> QED
    BY <1>1, <1>2 DEF WorkMoves, Truthful, Delivered
<1>7. Justified'
  <2> SUFFICES ASSUME NEW w \in Workers, work'[w].pc = "mark"
               PROVE  /\ work'[w].mark # "SENT"
                      /\ work'[w].mark = "SKIPPED_DEDUP" => reply' \notin {0, work'[w].cur}
    BY DEF Justified
  <2> QED
    BY <1>1, <1>2, <1>3 DEF WorkMoves, Truthful, Justified
<1> QED
  BY <1>4, <1>5, <1>6, <1>7 DEF Truthful

-----------------------------------------------------------------------------
(* What each step may do *)

LEMMA SameRows == log' = log => \A c \in Campaigns : RowMoves(c) /\ \A w \in Workers : RowMovesBy(w, c)
  BY DEF RowMoves, RowMovesBy, RowKept

LEMMA SameWork == work' = work => \A w \in Workers : WorkMoves(w)
  BY DEF WorkMoves

\* A worker moves to a step from which it writes nothing yet.
LEMMA OneWorkMoves ==
  ASSUME Typed, NEW w \in Workers, NEW x, work' = [work EXCEPT ![w] = x], x.pc \notin {"sent", "mark"}
  PROVE  \A v \in Workers : WorkMoves(v)
  BY DEF WorkMoves, Typed, TypeOK

LEMMA GotoMoves ==
  ASSUME Typed, NEW w \in Workers, NEW s \in Steps \ {"sent", "mark"}, Goto(w, s)
  PROVE  \A v \in Workers : WorkMoves(v)
<1>1. [work[w] EXCEPT !.pc = s].pc = s /\ work' = [work EXCEPT ![w] = [work[w] EXCEPT !.pc = s]]
  BY DEF Goto, Typed, TypeOK, Work
<1> QED
  BY <1>1, OneWorkMoves

LEMMA AdvanceMoves ==
  ASSUME Typed, NEW w \in Workers, NEW js, NEW e, Advance(w, js, e)
  PROVE  \A v \in Workers : WorkMoves(v)
<1> DEFINE x == [IdleWork EXCEPT !.pc = "read", !.job = work[w].job, !.cur = Cur(w) + 1,
                                !.error = work[w].error \/ e]
<1>1. x.pc = "read" /\ IdleWork.pc = "idle"
  BY DEF IdleWork
<1>2. work' = [work EXCEPT ![w] = x] \/ work' = [work EXCEPT ![w] = IdleWork]
  BY DEF Advance
<1> HIDE DEF x
<1> QED
  BY <1>1, <1>2, OneWorkMoves

LEMMA ThrowMoves ==
  ASSUME Typed, NEW w \in Workers, Throw(w)
  PROVE  \A v \in Workers : WorkMoves(v)
  BY OneWorkMoves, IdleTyped DEF Throw

LEMMA DmLegMoves ==
  ASSUME Typed, NEW w \in Workers, DmLeg(w)
  PROVE  \A v \in Workers : WorkMoves(v)
<1>1. CASE work[w].seen.status = "SENT"
  BY <1>1, AdvanceMoves DEF DmLeg
<1>2. CASE work[w].seen.status # "SENT"
  <2>1. \E x : work' = [work EXCEPT ![w] = x] /\ x.pc = "dedup"
    BY <1>2 DEF DmLeg, Typed, TypeOK, Work
  <2> QED
    BY <2>1, OneWorkMoves
<1> QED
  BY <1>1, <1>2

\* A status is chosen for the way out.
LEMMA MarkedMoves ==
  ASSUME Typed, NEW w \in Workers, work[w].pc # "idle", NEW m \in DmStatus,
         work' = [work EXCEPT ![w].pc = "mark", ![w].mark = m],
         m \in {"FAILED", "SKIPPED_PLAN_LIMIT"} \/ (m = "SKIPPED_DEDUP" /\ UsedByOther(Cur(w)))
  PROVE  \A v \in Workers : WorkMoves(v)
<1>1. work[w].cur \in Campaigns
  BY DEF Typed, Busy
<1>2. /\ work'[w].pc = "mark" /\ work'[w].mark = m /\ work'[w].cur = work[w].cur
      /\ \A v \in Workers \ {w} : work'[v] = work[v]
  BY DEF Typed, TypeOK, Work
<1> QED
  BY <1>1, <1>2 DEF WorkMoves, Cur

\* One row is written: its status is the one it was given.
LEMMA WriteMoves ==
  ASSUME Typed, NEW w \in Workers, NEW c \in Campaigns, NEW r \in Log, Write(c, r),
         \/ r.status \in {"PENDING", "FAILED", log[c].status}
         \/ work[w].pc = "sent" /\ work[w].cur = c /\ r.status = "SENT"
         \/ work[w].pc = "mark" /\ work[w].cur = c /\ r.status = work[w].mark
  PROVE  \A d \in Campaigns : RowMovesBy(w, d)
<1>1. log'[c].status = r.status /\ \A d \in Campaigns \ {c} : log'[d] = log[d]
  BY DEF Write, Typed, TypeOK, Log
<1> QED
  BY <1>1 DEF RowMovesBy, RowKept

\* The same for a row that is given a status on the way out.
LEMMA StatusMoves ==
  ASSUME Typed, NEW w \in Workers, work[w].pc # "idle", NEW s \in DmStatus, NEW b \in BOOLEAN,
         Write(Cur(w), [log[Cur(w)] EXCEPT !.status = s, !.permanent = b]),
         \/ s \in {"PENDING", "FAILED"}
         \/ work[w].pc = "sent" /\ s = "SENT"
         \/ work[w].pc = "mark" /\ s = work[w].mark
  PROVE  \A d \in Campaigns : RowMovesBy(w, d)
<1>1. Cur(w) \in Campaigns /\ log[Cur(w)] \in Log /\ Cur(w) = work[w].cur
  BY CurTyped DEF Cur
<1> DEFINE r == [log[Cur(w)] EXCEPT !.status = s, !.permanent = b]
<1>2. r \in Log /\ r.status = s
  BY <1>1, StatusTyped DEF Log
<1> HIDE DEF r
<1>3. Write(Cur(w), r)
  BY DEF r
<1> QED
  BY <1>1, <1>2, <1>3, WriteMoves

LEMMA WorkerReply == ASSUME Typed, NEW w \in Workers, WorkerStep(w) PROVE ReplyMoves
<1>1. CASE Send(w)
  <2>1. Cur(w) \in Campaigns
    BY <1>1, CurTyped DEF Send, At
  <2>2. reply' = reply \/ (reply = 0 /\ reply' = Cur(w))
    BY <1>1 DEF Send
  <2> QED
    BY <2>1, <2>2 DEF ReplyMoves
<1>2. CASE PublicSend(w) \/ Slot(w)
  <2>1. reply' = reply
    BY <1>2 DEF PublicSend, Slot
  <2> QED
    BY <2>1 DEF ReplyMoves
<1>3. CASE UNCHANGED World
  BY <1>3 DEF World, ReplyMoves
<1> QED
  BY <1>1, <1>2, <1>3 DEF WorkerStep, Take, Read, Open, PublicLog, Dedup, Usage, Mark, Blocked, Sent, Fail

LEMMA OpenRows ==
  ASSUME Typed, NEW w \in Workers, Open(w)
  PROVE  \A c \in Campaigns : RowMovesBy(w, c)
<1>1. Cur(w) \in Campaigns /\ log[Cur(w)] \in Log /\ work[w].job \in JobIds
  BY CurTyped DEF Open, At
<1>2. CASE UNCHANGED log
  BY <1>2, SameRows
<1>3. CASE Write(Cur(w), [NoLog EXCEPT !.status = "PENDING", !.attempts = Capped(jobs[work[w].job].made + 1)])
  <2> DEFINE r == [NoLog EXCEPT !.status = "PENDING", !.attempts = Capped(jobs[work[w].job].made + 1)]
  <2>1. jobs[work[w].job].made + 1 \in Nat
    BY <1>1, CommentAssumption DEF Typed, TypeOK, Job
  <2>2. Capped(jobs[work[w].job].made + 1) \in 0..MaxFailed
    BY <2>1, CappedTyped
  <2>3. r \in Log /\ r.status = "PENDING"
    BY <2>2, CommentAssumption DEF NoLog, Log, DmStatus
  <2> HIDE DEF r
  <2>4. Write(Cur(w), r)
    BY <1>3 DEF r
  <2> QED
    BY <1>1, <2>3, <2>4, WriteMoves
<1>4. CASE Write(Cur(w), [log[Cur(w)] EXCEPT !.status = "PENDING", !.attempts = Capped(@ + 1), !.permanent = FALSE])
  <2> DEFINE r == [log[Cur(w)] EXCEPT !.status = "PENDING", !.attempts = Capped(log[Cur(w)].attempts + 1),
                                      !.permanent = FALSE]
  <2>1. log[Cur(w)].attempts + 1 \in Nat
    BY <1>1, CommentAssumption DEF Log
  <2>2. Capped(log[Cur(w)].attempts + 1) \in 0..MaxFailed
    BY <2>1, CappedTyped
  <2>3. r \in Log /\ r.status = "PENDING"
    BY <1>1, <2>2 DEF Log, DmStatus
  <2>4. Write(Cur(w), r)
    BY <1>4
  <2> HIDE DEF r
  <2> QED
    BY <1>1, <2>3, <2>4, WriteMoves
<1> QED
  BY <1>2, <1>3, <1>4 DEF Open

LEMMA PublicLogRows ==
  ASSUME Typed, NEW w \in Workers, PublicLog(w)
  PROVE  \A c \in Campaigns : RowMovesBy(w, c)
<1>1. Cur(w) \in Campaigns /\ log[Cur(w)] \in Log
  BY CurTyped DEF PublicLog, At
<1> DEFINE ok == [log[Cur(w)] EXCEPT !.replied = TRUE, !.replyError = FALSE]
           failed == [log[Cur(w)] EXCEPT !.replyError = TRUE]
<1>2. ok \in Log /\ ok.status = log[Cur(w)].status
  BY <1>1 DEF Log
<1>3. failed \in Log /\ failed.status = log[Cur(w)].status
  BY <1>1 DEF Log
<1>4. Write(Cur(w), ok) \/ Write(Cur(w), failed)
  BY DEF PublicLog
<1> HIDE DEF ok, failed
<1> QED
  BY <1>1, <1>2, <1>3, <1>4, WriteMoves

LEMMA WorkerRows ==
  ASSUME Typed, NEW w \in Workers, WorkerStep(w)
  PROVE  \A c \in Campaigns : RowMovesBy(w, c)
<1>1. CASE UNCHANGED log
  BY <1>1, SameRows
<1>2. CASE Open(w)
  BY <1>2, OpenRows
<1>3. CASE PublicLog(w)
  BY <1>3, PublicLogRows
<1>4. CASE Mark(w)
  <2>1. work[w].pc = "mark" /\ work[w].mark \in DmStatus
    BY <1>4, CurTyped DEF Mark, At
  <2> QED
    BY <1>4, <2>1, StatusMoves DEF Mark
<1>5. CASE Slot(w) /\ Write(Cur(w), [log[Cur(w)] EXCEPT !.status = "FAILED", !.permanent = FALSE])
  BY <1>5, StatusMoves DEF Slot, At, DmStatus
<1>6. CASE Blocked(w)
  <2>1. work[w].pc # "idle"
    BY <1>6 DEF Blocked, At
  <2>2. \E s \in {"PENDING", "FAILED"} :
          Write(Cur(w), [log[Cur(w)] EXCEPT !.status = s, !.permanent = FALSE])
    BY <1>6 DEF Blocked
  <2> QED
    BY <2>1, <2>2, StatusMoves DEF DmStatus
<1>7. CASE Sent(w)
  BY <1>7, StatusMoves DEF Sent, At, DmStatus
<1>8. CASE Fail(w)
  <2>1. work[w].pc # "idle"
    BY <1>8 DEF Fail, At
  <2> QED
    BY <1>8, <2>1, CurTyped, StatusMoves DEF Fail, DmStatus
<1>9. Slot(w) => \/ UNCHANGED log
                 \/ Write(Cur(w), [log[Cur(w)] EXCEPT !.status = "FAILED", !.permanent = FALSE])
  BY DEF Slot
<1> QED
  BY <1>1, <1>2, <1>3, <1>4, <1>5, <1>6, <1>7, <1>8, <1>9
     DEF WorkerStep, Take, Read, PublicSend, Dedup, Usage, Send

LEMMA ReadMoves ==
  ASSUME Typed, NEW w \in Workers, Read(w)
  PROVE  \A v \in Workers : WorkMoves(v)
<1>1. work[w].pc # "idle"
  BY DEF Read, At
<1>2. CASE Advance(w, jobs, FALSE)
  BY <1>2, AdvanceMoves
<1>3. CASE work' = [work EXCEPT ![w].pc = "open",
                     ![w].seen = [status |-> log[Cur(w)].status, replied |-> log[Cur(w)].replied]]
  <2> DEFINE x == [work[w] EXCEPT !.pc = "open",
                     !.seen = [status |-> log[Cur(w)].status, replied |-> log[Cur(w)].replied]]
  <2>1. work' = [work EXCEPT ![w] = x] /\ x.pc = "open"
    BY <1>3 DEF Typed, TypeOK, Work
  <2> HIDE DEF x
  <2> QED
    BY <2>1, OneWorkMoves
<1>4. CASE work' = [work EXCEPT ![w].pc = "mark", ![w].mark = "FAILED"]
  BY <1>1, <1>4, MarkedMoves DEF DmStatus
<1> QED
  BY <1>2, <1>3, <1>4 DEF Read

LEMMA SendMoves ==
  ASSUME Typed, NEW w \in Workers, Send(w)
  PROVE  \A v \in Workers : WorkMoves(v)
<1>1. CASE reply' = Cur(w) /\ Goto(w, "sent")
  <2>1. /\ work'[w].cur = work[w].cur /\ work'[w].pc = "sent"
        /\ \A v \in Workers \ {w} : work'[v] = work[v]
    BY <1>1 DEF Goto, Typed, TypeOK, Work
  <2> QED
    BY <1>1, <2>1 DEF WorkMoves, Cur
<1>2. CASE \E b \in BOOLEAN : work' = [work EXCEPT ![w].pc = "fail", ![w].permanent = b]
  <2>1. PICK b \in BOOLEAN : work' = [work EXCEPT ![w].pc = "fail", ![w].permanent = b]
    BY <1>2
  <2> DEFINE x == [work[w] EXCEPT !.pc = "fail", !.permanent = b]
  <2>2. work' = [work EXCEPT ![w] = x] /\ x.pc = "fail"
    BY <2>1 DEF Typed, TypeOK, Work
  <2> HIDE DEF x
  <2> QED
    BY <2>2, OneWorkMoves
<1> QED
  BY <1>1, <1>2 DEF Send

LEMMA WorkerWork ==
  ASSUME Typed, NEW w \in Workers, WorkerStep(w)
  PROVE  \A v \in Workers : WorkMoves(v)
<1>1. CASE Take(w)
  <2>1. PICK j \in JobIds : work' = [work EXCEPT ![w] = [IdleWork EXCEPT !.pc = "read", !.job = j, !.cur = 1]]
    BY <1>1 DEF Take
  <2>2. [IdleWork EXCEPT !.pc = "read", !.job = j, !.cur = 1].pc = "read"
    BY DEF IdleWork
  <2> QED
    BY <2>1, <2>2, OneWorkMoves
<1>2. CASE Open(w)
  <2>1. Goto(w, "public") \/ DmLeg(w) \/ Throw(w)
    BY <1>2 DEF Open
  <2> QED
    BY <2>1, GotoMoves, DmLegMoves, ThrowMoves DEF Steps
<1>3. CASE PublicSend(w)
  BY <1>3, GotoMoves DEF PublicSend, Steps
<1>4. CASE PublicLog(w)
  BY <1>4, DmLegMoves DEF PublicLog
<1>5. CASE Dedup(w)
  <2>1. work[w].pc # "idle"
    BY <1>5 DEF Dedup, At
  <2>2. CASE Goto(w, "usage")
    BY <2>2, GotoMoves DEF Steps
  <2>3. CASE UsedByOther(Cur(w)) /\ work' = [work EXCEPT ![w].pc = "mark", ![w].mark = "SKIPPED_DEDUP"]
    BY <2>1, <2>3, MarkedMoves DEF DmStatus
  <2> QED
    BY <1>5, <2>2, <2>3 DEF Dedup
<1>6. CASE Usage(w)
  <2>1. work[w].pc # "idle"
    BY <1>6 DEF Usage, At
  <2>2. CASE Goto(w, "slot")
    BY <2>2, GotoMoves DEF Steps
  <2>3. CASE work' = [work EXCEPT ![w].pc = "mark", ![w].mark = "SKIPPED_PLAN_LIMIT"]
    BY <2>1, <2>3, MarkedMoves DEF DmStatus
  <2> QED
    BY <1>6, <2>2, <2>3 DEF Usage
<1>7. CASE Slot(w)
  <2>1. Goto(w, "send") \/ Goto(w, "blocked") \/ Throw(w)
    BY <1>7 DEF Slot
  <2> QED
    BY <2>1, GotoMoves, ThrowMoves DEF Steps
<1>8. CASE Mark(w) \/ Blocked(w) \/ Sent(w) \/ Fail(w)
  <2>1. \E js, e : Advance(w, js, e)
    BY <1>8 DEF Mark, Blocked, Sent, Fail
  <2> QED
    BY <2>1, AdvanceMoves
<1> QED
  BY <1>1, <1>2, <1>3, <1>4, <1>5, <1>6, <1>7, <1>8, ReadMoves, SendMoves DEF WorkerStep

LEMMA CrashMoves == ASSUME Typed, NEW w \in Workers, Crash(w) PROVE \A v \in Workers : WorkMoves(v)
  BY OneWorkMoves, IdleTyped DEF Crash

LEMMA AgesRows == ASSUME Typed, NEW c \in Campaigns, Ages(c) PROVE \A d \in Campaigns : RowMoves(d)
<1>1. log' = [log EXCEPT ![c] = [log[c] EXCEPT !.fresh = FALSE]]
  BY DEF Ages, Typed, TypeOK
<1>2. [log[c] EXCEPT !.fresh = FALSE].status = log[c].status
  BY DEF Typed, TypeOK, Log
<1>3. \A d \in Campaigns : log'[d].status = log[d].status
  BY <1>1, <1>2 DEF Typed, TypeOK
<1> QED
  BY <1>3 DEF RowMoves, RowKept

-----------------------------------------------------------------------------
(* The theorems *)

LEMMA InitTruth == Init => Truthful
  BY DEF Init, NoLog, IdleWork, Truthful, SentIsDelivered, DedupIsTrue, Delivered, Justified

LEMMA StepTruth == Typed /\ Truthful /\ [Next]_vars => Truthful'
<1> SUFFICES ASSUME Typed, Truthful, [Next]_vars PROVE Truthful'
  OBVIOUS
<1>1. CASE UNCHANGED <<log, work, reply>>
  BY <1>1, SameRows, SameWork, TruthKept DEF ReplyMoves
<1>2. CASE \E w \in Workers : WorkerStep(w)
  <2>1. \A c \in Campaigns : RowMoves(c)
    BY <1>2, WorkerRows DEF RowMoves
  <2> QED
    BY <1>2, <2>1, WorkerWork, WorkerReply, TruthKept
<1>3. CASE \E w \in Workers : Crash(w)
  <2>1. UNCHANGED <<log, reply>>
    BY <1>3 DEF Crash
  <2> QED
    BY <1>3, <2>1, CrashMoves, SameRows, TruthKept DEF ReplyMoves
<1>4. CASE \E c \in Campaigns : Ages(c)
  <2>1. UNCHANGED <<work, reply>>
    BY <1>4 DEF Ages, World
  <2> QED
    BY <1>4, <2>1, AgesRows, SameWork, TruthKept DEF ReplyMoves
<1>5. CASE (\E c \in Campaigns : Poll(c)) \/ (\E j \in JobIds : JobMoves(j)) \/ GrowOld
  <2>1. UNCHANGED <<log, work, reply>>
    BY <1>5 DEF Poll, JobMoves, GrowOld, World
  <2> QED
    BY <1>1, <2>1
<1> QED
  BY <1>1, <1>2, <1>3, <1>4, <1>5 DEF Next, vars

LEMMA TruthAlways == Spec => []Truthful
  BY InitTyped, StepTyped, InitTruth, StepTruth, PTL DEF Spec

\* A row of processComment is SENT only when Instagram delivered that campaign's
\* private reply, for all constants.
THEOREM SentMeansDelivered == Spec => []SentIsDelivered
<1>1. Truthful => SentIsDelivered
  BY DEF Truthful
<1> QED
  BY <1>1, TruthAlways, PTL

\* A row is SKIPPED_DEDUP only when another campaign's private reply was
\* delivered, for all constants.
THEOREM DedupHasReason == Spec => []DedupIsTrue
<1>1. Truthful => DedupIsTrue
  BY DEF Truthful
<1> QED
  BY <1>1, TruthAlways, PTL

-----------------------------------------------------------------------------
(* The month's usage.  What the workspace has spent covers the rows that   *)
(* are SENT and the workers that hold a reservation; the worker whose      *)
(* answer has come keeps its own until the row is written.                 *)

Reserving == {"slot", "send", "sent", "fail"}
Reserved == {w \in Workers : work[w].pc \in Reserving}
SentRows == {c \in Campaigns : log[c].status = "SENT"}
Covered == IsFiniteSet(Reserved) /\ usage >= Cardinality(SentRows) + Cardinality(Reserved)

\* What a step of worker w does to its reservation.
Spends(w) ==
  /\ \A v \in Workers \ {w} : work'[v] = work[v]
  /\ \/ /\ usage' = usage
        /\ work'[w].pc \in Reserving => work[w].pc \in Reserving
        /\ work[w].pc = "sent" => work'[w].pc \notin Reserving
     \/ usage' = usage + 1 /\ work[w].pc # "sent"
     \/ usage' = Released /\ work[w].pc \in Reserving \ {"sent"} /\ work'[w].pc \notin Reserving

LEMMA OneWorkAt ==
  ASSUME Typed, NEW w \in Workers, NEW x, work' = [work EXCEPT ![w] = x]
  PROVE  (\A v \in Workers \ {w} : work'[v] = work[v]) /\ work'[w] = x
  BY DEF Typed, TypeOK

LEMMA AdvanceAt ==
  ASSUME Typed, NEW w \in Workers, NEW js, NEW e, Advance(w, js, e)
  PROVE  (\A v \in Workers \ {w} : work'[v] = work[v]) /\ work'[w].pc \in {"read", "idle"}
<1> DEFINE x == [IdleWork EXCEPT !.pc = "read", !.job = work[w].job, !.cur = Cur(w) + 1,
                                !.error = work[w].error \/ e]
<1>1. x.pc = "read" /\ IdleWork.pc = "idle"
  BY DEF IdleWork
<1>2. work' = [work EXCEPT ![w] = x] \/ work' = [work EXCEPT ![w] = IdleWork]
  BY DEF Advance
<1> HIDE DEF x
<1> QED
  BY <1>1, <1>2, OneWorkAt

LEMMA GotoAt ==
  ASSUME Typed, NEW w \in Workers, NEW s, Goto(w, s)
  PROVE  (\A v \in Workers \ {w} : work'[v] = work[v]) /\ work'[w].pc = s
  BY DEF Goto, Typed, TypeOK, Work

LEMMA DmLegAt ==
  ASSUME Typed, NEW w \in Workers, DmLeg(w)
  PROVE  (\A v \in Workers \ {w} : work'[v] = work[v]) /\ work'[w].pc \in {"read", "idle", "dedup"}
<1>1. CASE work[w].seen.status = "SENT"
  BY <1>1, AdvanceAt DEF DmLeg
<1>2. CASE work[w].seen.status # "SENT"
  BY <1>2 DEF DmLeg, Typed, TypeOK, Work
<1> QED
  BY <1>1, <1>2

LEMMA ThrowAt ==
  ASSUME Typed, NEW w \in Workers, Throw(w)
  PROVE  (\A v \in Workers \ {w} : work'[v] = work[v]) /\ work'[w].pc = "idle"
  BY OneWorkAt, IdleTyped DEF Throw

LEMMA WorkerSpends == ASSUME Typed, NEW w \in Workers, WorkerStep(w) PROVE Spends(w)
<1> DEFINE Rest == \A v \in Workers \ {w} : work'[v] = work[v]
<1>1. CASE Take(w)
  <2>1. PICK j \in JobIds : work' = [work EXCEPT ![w] = [IdleWork EXCEPT !.pc = "read", !.job = j, !.cur = 1]]
    BY <1>1 DEF Take
  <2>2. [IdleWork EXCEPT !.pc = "read", !.job = j, !.cur = 1].pc = "read"
    BY DEF IdleWork
  <2>3. Rest /\ work'[w].pc = "read"
    BY <2>1, <2>2, OneWorkAt
  <2> QED
    BY <1>1, <2>3 DEF Take, Spends, Reserving, At
<1>2. CASE Read(w)
  <2>1. \/ Advance(w, jobs, FALSE)
        \/ \E pc \in {"open"} : \E s : work' = [work EXCEPT ![w].pc = pc, ![w].seen = s]
        \/ \E pc \in {"mark"} : \E s : work' = [work EXCEPT ![w].pc = pc, ![w].mark = s]
    BY <1>2 DEF Read
  <2>2. ASSUME NEW pc, NEW s, work' = [work EXCEPT ![w].pc = pc, ![w].seen = s] PROVE Rest /\ work'[w].pc = pc
    BY <2>2 DEF Typed, TypeOK, Work
  <2>3. ASSUME NEW pc, NEW s, work' = [work EXCEPT ![w].pc = pc, ![w].mark = s] PROVE Rest /\ work'[w].pc = pc
    BY <2>3 DEF Typed, TypeOK, Work
  <2> HIDE DEF Rest
  <2>4. Rest /\ work'[w].pc \in {"read", "idle", "open", "mark"}
    <3>1. Advance(w, jobs, FALSE) => Rest /\ work'[w].pc \in {"read", "idle"}
      BY AdvanceAt DEF Rest
    <3> QED
      BY <2>1, <2>2, <2>3, <3>1
  <2> QED
    BY <1>2, <2>4 DEF Rest, Read, Spends, Reserving, At
<1>3. CASE Open(w)
  <2>1. Goto(w, "public") \/ DmLeg(w) \/ Throw(w)
    BY <1>3 DEF Open
  <2>2. Rest /\ work'[w].pc \in {"public", "read", "idle", "dedup"}
    BY <2>1, GotoAt, DmLegAt, ThrowAt
  <2> QED
    BY <1>3, <2>2 DEF Open, Spends, Reserving, At
<1>4. CASE PublicSend(w)
  <2>1. Rest /\ work'[w].pc \in {"publicOk", "publicError"}
    BY <1>4, GotoAt DEF PublicSend
  <2> QED
    BY <1>4, <2>1 DEF PublicSend, Spends, Reserving, At
<1>5. CASE PublicLog(w)
  <2>1. Rest /\ work'[w].pc \in {"read", "idle", "dedup"}
    BY <1>5, DmLegAt DEF PublicLog
  <2> QED
    BY <1>5, <2>1 DEF PublicLog, Spends, Reserving, At
<1>6. CASE Dedup(w)
  <2>1. Goto(w, "usage") \/ work' = [work EXCEPT ![w].pc = "mark", ![w].mark = "SKIPPED_DEDUP"]
    BY <1>6 DEF Dedup
  <2>2. Rest /\ work'[w].pc \in {"usage", "mark"}
    BY <2>1, GotoAt DEF Typed, TypeOK, Work
  <2> QED
    BY <1>6, <2>2 DEF Dedup, Spends, Reserving, At
<1>7. CASE Usage(w)
  <2>1. \/ usage' = usage + 1 /\ Goto(w, "slot")
        \/ usage' = usage /\ work' = [work EXCEPT ![w].pc = "mark", ![w].mark = "SKIPPED_PLAN_LIMIT"]
    BY <1>7 DEF Usage
  <2>2. Rest /\ (usage' = usage + 1 \/ (usage' = usage /\ work'[w].pc = "mark"))
    BY <2>1, GotoAt DEF Typed, TypeOK, Work
  <2> QED
    BY <1>7, <2>2 DEF Usage, Spends, Reserving, At
<1>8. CASE Mark(w) \/ Blocked(w) \/ Sent(w) \/ Fail(w)
  <2>1. \E js, e : Advance(w, js, e)
    BY <1>8 DEF Mark, Blocked, Sent, Fail
  <2>2. Rest /\ work'[w].pc \in {"read", "idle"}
    BY <2>1, AdvanceAt
  <2>3. (usage' = usage /\ work[w].pc # "fail") \/ (usage' = Released /\ work[w].pc = "fail")
    BY <1>8 DEF Mark, Blocked, Sent, Fail, At
  <2> QED
    BY <2>2, <2>3 DEF Spends, Reserving
<1>9. CASE Slot(w)
  <2>1. (Goto(w, "send") /\ usage' = usage) \/ (usage' = Released /\ (Goto(w, "blocked") \/ Throw(w)))
    BY <1>9 DEF Slot
  <2>2. Rest /\ ((work'[w].pc = "send" /\ usage' = usage) \/ (usage' = Released /\ work'[w].pc \in {"blocked", "idle"}))
    BY <2>1, GotoAt, ThrowAt
  <2> QED
    BY <1>9, <2>2 DEF Slot, Spends, Reserving, At
<1>10. CASE Send(w)
  <2>1. Goto(w, "sent") \/ \E b : work' = [work EXCEPT ![w].pc = "fail", ![w].permanent = b]
    BY <1>10 DEF Send
  <2>2. Rest /\ work'[w].pc \in {"sent", "fail"}
    BY <2>1, GotoAt DEF Typed, TypeOK, Work
  <2> QED
    BY <1>10, <2>2 DEF Send, Spends, Reserving, At
<1> QED
  BY <1>1, <1>2, <1>3, <1>4, <1>5, <1>6, <1>7, <1>8, <1>9, <1>10 DEF WorkerStep

\* Sizes of what a step leaves.
LEMMA RowsFinite == IsFiniteSet(Campaigns) /\ \A S \in SUBSET Campaigns : IsFiniteSet(S) /\ Cardinality(S) \in Nat
<1>1. IsFiniteSet(Campaigns)
  BY CommentAssumption, FS_Interval DEF Campaigns
<1> QED
  BY <1>1, FS_Subset, FS_CardinalityType

LEMMA OneMore ==
  ASSUME NEW S, IsFiniteSet(S), NEW x
  PROVE  IsFiniteSet(S \cup {x}) /\ Cardinality(S \cup {x}) \in Nat /\ Cardinality(S \cup {x}) <= Cardinality(S) + 1
<1>1. Cardinality(S) \in Nat
  BY FS_CardinalityType
<1>2. IsFiniteSet(S \cup {x}) /\ Cardinality(S \cup {x}) = IF x \in S THEN Cardinality(S) ELSE Cardinality(S) + 1
  BY FS_AddElement
<1>3. CASE x \in S
  BY <1>1, <1>2, <1>3
<1>4. CASE x \notin S
  BY <1>1, <1>2, <1>4
<1> QED
  BY <1>3, <1>4

LEMMA WorkerCovered ==
  ASSUME Typed, Typed', Truthful, Covered, NEW w \in Workers, WorkerStep(w)
  PROVE  Covered'
<1>1. Spends(w) /\ (\A c \in Campaigns : RowMovesBy(w, c)) /\ usage \in Nat /\ usage' \in Nat
  BY WorkerSpends, WorkerRows DEF Typed, TypeOK
<1> DEFINE rows == Cardinality(SentRows)
           held == Cardinality(Reserved)
           rowsNext == Cardinality(SentRows')
           heldNext == Cardinality(Reserved')
<1>2. rows \in Nat /\ held \in Nat /\ SentRows \in SUBSET Campaigns /\ SentRows' \in SUBSET Campaigns
      /\ IsFiniteSet(SentRows) /\ IsFiniteSet(SentRows') /\ rowsNext \in Nat /\ IsFiniteSet(Reserved)
      /\ usage >= rows + held
  <2>1. SentRows \in SUBSET Campaigns /\ SentRows' \in SUBSET Campaigns
    BY DEF SentRows
  <2> QED
    BY <2>1, RowsFinite, FS_CardinalityType DEF Covered
<1>3. rowsNext <= rows \/ (work[w].pc = "sent" /\ rowsNext <= rows + 1)
  <2>1. CASE work[w].pc # "sent"
    <3>1. SentRows' \subseteq SentRows
      BY <1>1, <2>1 DEF SentRows, RowMovesBy, RowKept, Truthful, Justified
    <3> QED
      BY <1>2, <3>1, FS_Subset
  <2>2. CASE work[w].pc = "sent"
    <3> DEFINE more == SentRows \cup {work[w].cur}
    <3>1. SentRows' \subseteq more
      BY <1>1, <2>2 DEF SentRows, RowMovesBy, RowKept
    <3>2. IsFiniteSet(more) /\ Cardinality(more) <= rows + 1 /\ Cardinality(more) \in Nat
      BY <1>2, OneMore
    <3> HIDE DEF more
    <3>3. rowsNext <= Cardinality(more)
      BY <3>1, <3>2, FS_Subset
    <3> QED
      BY <1>2, <2>2, <3>2, <3>3
  <2> QED
    BY <2>1, <2>2
<1>4. /\ IsFiniteSet(Reserved') /\ heldNext \in Nat /\ heldNext <= held + 1
      /\ (work'[w].pc \in Reserving => work[w].pc \in Reserving) => heldNext <= held
      /\ work[w].pc \in Reserving /\ work'[w].pc \notin Reserving => heldNext <= held - 1
  <2>1. IsFiniteSet(Reserved \cup {w}) /\ Cardinality(Reserved \cup {w}) \in Nat /\ Cardinality(Reserved \cup {w}) <= held + 1
    BY <1>2, OneMore
  <2>2. IsFiniteSet(Reserved \ {w}) /\ (w \in Reserved => Cardinality(Reserved \ {w}) = held - 1)
    BY <1>2, FS_RemoveElement
  <2>3. Reserved' \subseteq Reserved \cup {w}
    BY <1>1 DEF Spends, Reserved
  <2>4. IsFiniteSet(Reserved') /\ heldNext \in Nat /\ heldNext <= held + 1
    BY <1>2, <2>1, <2>3, FS_Subset, FS_CardinalityType
  <2>5. ASSUME work'[w].pc \in Reserving => work[w].pc \in Reserving PROVE heldNext <= held
    <3>1. Reserved' \subseteq Reserved
      BY <1>1, <2>5 DEF Spends, Reserved
    <3> QED
      BY <1>2, <3>1, FS_Subset
  <2>6. ASSUME work[w].pc \in Reserving, work'[w].pc \notin Reserving PROVE heldNext <= held - 1
    <3>1. Reserved' \subseteq Reserved \ {w} /\ w \in Reserved
      BY <1>1, <2>6 DEF Spends, Reserved
    <3> QED
      BY <2>2, <3>1, FS_Subset
  <2> QED
    BY <2>4, <2>5, <2>6
<1> HIDE DEF rows, held, rowsNext, heldNext
<1>5. usage \in Nat /\ usage' \in Nat /\ rows \in Nat /\ held \in Nat /\ rowsNext \in Nat /\ heldNext \in Nat /\ usage >= rows + held
  BY <1>1, <1>2, <1>4
<1>6. usage' >= rowsNext + heldNext
  <2>1. ASSUME usage' = usage, work'[w].pc \in Reserving => work[w].pc \in Reserving,
               work[w].pc = "sent" => work'[w].pc \notin Reserving
        PROVE  usage' >= rowsNext + heldNext
    <3>1. CASE work[w].pc # "sent"
      <4>1. rowsNext <= rows /\ heldNext <= held
        BY <1>3, <1>4, <2>1, <3>1
      <4> QED
        BY <1>5, <2>1, <4>1
    <3>2. CASE work[w].pc = "sent"
      <4>1. rowsNext <= rows + 1 /\ heldNext <= held - 1
        BY <1>2, <1>3, <1>4, <2>1, <3>2 DEF Reserving
      <4> QED
        BY <1>5, <2>1, <4>1
    <3> QED
      BY <3>1, <3>2
  <2>2. ASSUME usage' = usage + 1, work[w].pc # "sent" PROVE usage' >= rowsNext + heldNext
    <3>1. rowsNext <= rows /\ heldNext <= held + 1
      BY <1>3, <1>4, <2>2
    <3> QED
      BY <1>5, <2>2, <3>1
  <2>3. ASSUME usage' = Released, work[w].pc \in Reserving \ {"sent"}, work'[w].pc \notin Reserving
        PROVE  usage' >= rowsNext + heldNext
    <3>1. rowsNext <= rows /\ heldNext <= held - 1 /\ usage' >= usage - 1
      BY <1>1, <1>3, <1>4, <2>3 DEF Released
    <3> QED
      BY <1>5, <3>1
  <2> QED
    BY <1>1, <2>1, <2>2, <2>3 DEF Spends
<1> QED
  BY <1>4, <1>6 DEF Covered, rowsNext, heldNext

LEMMA StepCovered == Typed /\ Typed' /\ Truthful /\ Covered /\ [Next]_vars => Covered'
<1> SUFFICES ASSUME Typed, Typed', Truthful, Covered, [Next]_vars PROVE Covered'
  OBVIOUS
<1>1. ASSUME usage' = usage, SentRows' = SentRows, Reserved' \subseteq Reserved PROVE Covered'
  <2>1. IsFiniteSet(Reserved') /\ Cardinality(Reserved') <= Cardinality(Reserved)
        /\ Cardinality(Reserved') \in Nat /\ Cardinality(Reserved) \in Nat
    BY <1>1, FS_Subset, FS_CardinalityType DEF Covered
  <2>2. usage \in Nat /\ Cardinality(SentRows) \in Nat /\ Cardinality(SentRows') = Cardinality(SentRows)
    BY <1>1, RowsFinite DEF Typed, TypeOK, SentRows
  <2> QED
    BY <1>1, <2>1, <2>2 DEF Covered
<1>2. CASE \E w \in Workers : WorkerStep(w)
  BY <1>2, WorkerCovered
<1>3. ASSUME NEW w \in Workers, Crash(w) PROVE Covered'
  <2>1. (\A v \in Workers \ {w} : work'[v] = work[v]) /\ work'[w].pc = "idle" /\ UNCHANGED <<log, usage>>
    BY <1>3, OneWorkAt, IdleTyped DEF Crash
  <2>2. Reserved' \subseteq Reserved /\ SentRows' = SentRows
    BY <2>1 DEF Reserved, Reserving, SentRows
  <2> QED
    BY <1>1, <2>1, <2>2
<1>4. ASSUME NEW c \in Campaigns, Ages(c) PROVE Covered'
  <2>1. UNCHANGED <<work, usage>>
    BY <1>4 DEF Ages, World
  <2>2. \A d \in Campaigns : log'[d].status = log[d].status
    BY <1>4 DEF Ages, Typed, TypeOK, Log
  <2>3. Reserved' = Reserved /\ SentRows' = SentRows
    BY <2>1, <2>2 DEF Reserved, SentRows
  <2> QED
    BY <1>1, <2>1, <2>3
<1>5. CASE (\E c \in Campaigns : Poll(c)) \/ (\E j \in JobIds : JobMoves(j)) \/ GrowOld \/ UNCHANGED vars
  <2>1. UNCHANGED <<log, work, usage>>
    BY <1>5 DEF Poll, JobMoves, GrowOld, World, vars
  <2> QED
    BY <1>1, <2>1 DEF Reserved, SentRows
<1> QED
  BY <1>2, <1>3, <1>4, <1>5 DEF Next

LEMMA InitCovered == Init => Covered
<1> SUFFICES ASSUME Init PROVE Covered
  OBVIOUS
<1>1. Reserved = {} /\ SentRows = {} /\ usage = 0
  BY DEF Init, Reserved, Reserving, SentRows, IdleWork, NoLog
<1> QED
  BY <1>1, FS_EmptySet DEF Covered

\* The month's usage covers every DM logged as sent and every send on its way: through
\* crashes, failures and the hourly limit no path gives a reservation back twice
\* (releaseDmUsage, dm-worker.ts), for all constants.
THEOREM UsageNeverShort == Spec => []UsageCovers
<1>1. Typed /\ Covered => UsageCovers
  <2> SUFFICES ASSUME Typed, Covered PROVE UsageCovers
    OBVIOUS
  <2> DEFINE S == {w \in Workers : work[w].pc \in {"slot", "send", "fail"}}
  <2>1. S \subseteq Reserved
    BY DEF Reserved, Reserving
  <2>2. Cardinality(S) <= Cardinality(Reserved) /\ Cardinality(S) \in Nat /\ Cardinality(Reserved) \in Nat
    BY <2>1, FS_Subset, FS_CardinalityType DEF Covered
  <2>3. usage \in Nat /\ Cardinality(SentRows) \in Nat
    BY RowsFinite DEF Typed, TypeOK, SentRows
  <2> HIDE DEF S
  <2>4. usage >= Cardinality(SentRows) + Cardinality(S)
    BY <2>2, <2>3 DEF Covered
  <2> QED
    BY <2>4 DEF UsageCovers, SentRows, S
<1>2. Typed /\ Truthful /\ Covered /\ [Next]_vars => Typed' /\ Truthful' /\ Covered'
  BY StepTyped, StepTruth, StepCovered
<1> QED
  BY <1>1, <1>2, InitTyped, InitTruth, InitCovered, PTL DEF Spec
=============================================================================
