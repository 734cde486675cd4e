--------------------------- MODULE ContentPublish ---------------------------
(***************************************************************************)
(* The Content Scheduler's Instagram publish pipeline (src/lib/content):   *)
(* the ScheduledPost row, the BullMQ jobs that carry its alarm clock, the  *)
(* workers that run preparePost and publishPost step by step, the Redis    *)
(* lock of the Instagram account, the minute sweeper, the users' requests  *)
(* and what Meta knows (containers and the account's media list).          *)
(*                                                                         *)
(* Every step between two awaits of the code that reads or writes shared   *)
(* state is an action, so that two workers, the sweeper and two requests   *)
(* interleave where the code lets them.  All posts belong to one account:  *)
(* accounts share nothing but the workers.                                 *)
(***************************************************************************)
EXTENDS Integers, Sequences

CONSTANTS
  Posts,         \* the scheduled posts of the account
  Workers,       \* job slots of the content-publish worker (concurrency)
  Users,         \* dashboard requests that may overlap
  Containers,    \* Meta container ids; an id nothing refers to is used again
  NoContainer, NoJob, NoWorker,
  MaxSlot,       \* bound: slots are the ticks 1..MaxSlot
  LateMax,       \* latePublishMaxMs in ticks
  MaxRetry,      \* length of delaysMs: retries of one step
  MaxAttempts,   \* bound: scheduling attempts of a post
  MaxContent,    \* bound: versions of a post's content
  MaxRequests,   \* bound: user requests in a behaviour
  MaxCrashes,    \* bound: worker crashes in a behaviour
  MaxLosses      \* bound: losses of the whole Redis queue

MaxTime == MaxSlot + LateMax + 1

Status == {"DRAFT", "SCHEDULED", "PAUSED", "PREPARING", "READY_TO_PUBLISH",
           "PUBLISHING", "PUBLISHED", "FAILED", "NEEDS_MANUAL",
           "PUBLISHED_MANUAL", "CANCELED"}

\* lib/content/transitions.ts: what the dashboard consults before its CAS.
Editable == {"DRAFT", "SCHEDULED", "PAUSED", "FAILED", "NEEDS_MANUAL", "CANCELED"}
MaySchedule == {"SCHEDULED", "DRAFT", "PAUSED", "PREPARING", "READY_TO_PUBLISH", "FAILED"}
MayPause == {"SCHEDULED", "READY_TO_PUBLISH"}
MayDraft == {"SCHEDULED", "PAUSED", "NEEDS_MANUAL", "FAILED", "CANCELED"}
MayCancel == {"DRAFT", "SCHEDULED", "PAUSED", "NEEDS_MANUAL", "FAILED"}

\* A job's id is everything but its time; "lock" jobs carry a random stamp.
\* at: when a delayed job falls due; 0 for a waiting job.
Job == [post : Posts, kind : {"prepare", "publish"}, attempt : Nat,
        retry : Nat, tag : {"plain", "retry", "lock"}, at : Nat]

ASSUME ContentAssumption ==
  /\ Posts # {} /\ NoContainer \notin Containers /\ NoJob \notin Job /\ NoWorker \notin Workers
  /\ MaxSlot \in Nat \ {0} /\ LateMax \in Nat
  /\ MaxRetry \in Nat /\ MaxAttempts \in Nat \ {0} /\ MaxContent \in Nat
  /\ MaxRequests \in Nat /\ MaxCrashes \in Nat /\ MaxLosses \in Nat

VARIABLES
  now,        \* the wall clock, in ticks of a few minutes
  row,        \* ScheduledPost
  campaign,   \* the automation linked to the post: live, and on which media
  queue,      \* waiting and delayed jobs in Redis
  work,       \* what each worker is doing
  lock,       \* content:acct:<account>
  tokenOk,    \* InstagramAccount.tokenStatus = ACTIVE
  meta,       \* Meta: the containers
  feed,       \* Meta: the account's media, oldest first
  sweep,      \* what the sweeper read about a post and has not acted on yet
  req,        \* a user request between its load and its write
  fuel        \* what is left of the bounds on the environment

vars == <<now, row, campaign, queue, work, lock, tokenOk, meta, feed, sweep, req, fuel>>

Row == [status : Status, attempts : Nat, slot : Nat,
        container : Containers \cup {NoContainer}, content : Nat,
        manual : BOOLEAN, deleted : BOOLEAN, igMedia : Nat, linkFailed : BOOLEAN]

\* Prepare and publish, as the steps between their awaits.
PrepareSteps == {"prepare", "claim", "build", "poll", "ready", "prepareError"}
LockedSteps == {"cas", "call", "ask", "publishError", "backoff", "finish", "failLocked", "refuseLocked"}
Steps == {"idle", "publish", "reload", "lock", "fail", "refuse"} \cup PrepareSteps \cup LockedSteps

Work == [pc : Steps, job : Job \cup {NoJob}, inline : BOOLEAN, rebuilt : BOOLEAN,
         content : Nat, slot : Nat, attempts : Nat, container : Containers \cup {NoContainer}, media : Nat]

IdleWork == [pc |-> "idle", job |-> NoJob, inline |-> FALSE, rebuilt |-> FALSE,
             content |-> 0, slot |-> 0, attempts |-> 0, container |-> NoContainer, media |-> 0]

\* open: a media_publish of this container got no answer, and Meta was not asked since.
Container == [state : {"IN_PROGRESS", "FINISHED", "PUBLISHED"}, post : Posts,
              content : Nat, open : BOOLEAN]

\* What the sweeper decided about a post; a found media or a stale attempt with it.
SweepSteps == {"idle", "manual", "late", "requeue", "found", "finished", "fail"}
Sweep == [step : SweepSteps, attempt : Nat, media : Nat]
IdleSweep == [step |-> "idle", attempt |-> 0, media |-> 0]

\* What schedulePost and deletePost loaded before they write.
Request == [op : {"none", "schedule", "cancel", "delete"}, post : Posts, status : Status,
            attempts : Nat, slot : Nat]
Fuel == [requests : Nat, crashes : Nat, losses : Nat]

-----------------------------------------------------------------------------
(* Helpers *)

InFlight == {"SCHEDULED", "PREPARING", "READY_TO_PUBLISH", "PUBLISHING"}
Late(slot) == now - slot > LateMax
PassedAlways(slot) == TRUE
Passed(slot) == slot <= now

\* Jobs a worker has taken keep their id until they end.
Active == {work[w].job : w \in Workers} \ {NoJob}
SameId(j, k) == /\ j.post = k.post /\ j.kind = k.kind /\ j.attempt = k.attempt
                /\ j.retry = k.retry /\ j.tag = k.tag

\* addPublish: BullMQ ignores an id it holds in any state; active: the jobs running after the step.
Add(q, active, j) ==
  IF j.tag # "lock" /\ \E k \in q \cup active : SameId(j, k) THEN q ELSE q \cup {j}

PlainJobUnfloored(p, kind, a, at) ==
  [post |-> p, kind |-> kind, attempt |-> a, retry |-> 0, tag |-> "plain", at |-> at - 1]
PlainJob(p, kind, a, at) ==
  [post |-> p, kind |-> kind, attempt |-> a, retry |-> 0, tag |-> "plain", at |-> at]
RetryJob(p, kind, a, r) ==
  [post |-> p, kind |-> kind, attempt |-> a, retry |-> r, tag |-> "retry", at |-> 0]

\* removePostJobs: the plain ids of one attempt; retry and lock jobs stay.
WithoutJobs(q, p, a) == {j \in q : ~(j.post = p /\ j.attempt = a /\ j.tag = "plain")}

\* armJobs: prepare one lead (a tick) ahead of the slot, publish at the slot.
Until(t) == IF t > now THEN t ELSE 0
Armed(q, p, a, slot) ==
  Add(Add(q, Active, PlainJob(p, "prepare", a, Until(slot - 1))), Active,
      PlainJob(p, "publish", a, Until(slot)))

\* move / cas: UPDATE ... WHERE id = p AND status IN from.
Move(p, from, r) == row' = IF row[p].status \in from THEN [row EXCEPT ![p] = r] ELSE row

\* failPost: FAILED, or NEEDS_MANUAL when the API refuses the post for good.
FailFrom == {"SCHEDULED", "PREPARING", "READY_TO_PUBLISH", "PUBLISHING", "FAILED"}
FailPost(p, toManual) ==
  Move(p, FailFrom, [row[p] EXCEPT !.status = IF toManual THEN "NEEDS_MANUAL" ELSE "FAILED",
                                   !.manual = @ \/ toManual])

\* igMediaId is unique: a media another post holds cannot be recorded.
Taken(p, m) == \E q \in Posts \ {p} : row[q].igMedia = m

\* A caught link error that leaves no trace on the row.
FinishForgetful(p, m) ==
  /\ row' = [row EXCEPT ![p].status = "PUBLISHED", ![p].igMedia = m, ![p].linkFailed = FALSE]
  /\ \/ campaign' = [campaign EXCEPT ![p] = [active |-> TRUE, media |-> m]]
     \/ UNCHANGED campaign

\* finishPublished, whatever the status has become: the campaign goes live in
\* the same transaction, or the failed link is recorded for the sweeper; a
\* taken media id fails both writes, and the second failure is swallowed.
Finish(p, m) ==
  \/ /\ ~Taken(p, m)
     /\ row' = [row EXCEPT ![p].status = "PUBLISHED", ![p].igMedia = m, ![p].linkFailed = FALSE]
     /\ campaign' = [campaign EXCEPT ![p] = [active |-> TRUE, media |-> m]]
  \/ /\ ~Taken(p, m)
     /\ row' = [row EXCEPT ![p].status = "PUBLISHED", ![p].igMedia = m, ![p].linkFailed = TRUE]
     /\ UNCHANGED campaign
  \/ /\ Taken(p, m)
     /\ UNCHANGED <<row, campaign>>

\* findJustPublished: the newest media of the account, if the list answers.
Newest == {Len(feed)} \ {0}

\* A container neither a row nor a worker refers to is forgotten and its id used again.
Referenced == {row[p].container : p \in Posts} \cup {work[w].container : w \in Workers}
NewContainer(p, content) == [state |-> "IN_PROGRESS", post |-> p, content |-> content, open |-> FALSE]
Blank == NewContainer(CHOOSE p \in Posts : TRUE, 0)
Known == [c \in Containers |-> IF c \in Referenced THEN meta[c] ELSE Blank]

\* What the worker is working on.
Post(w) == work[w].job.post
At(w, step) == work[w].pc = step
Goto(w, step) == work' = [work EXCEPT ![w].pc = step]
Only(w, step) == work' = [work EXCEPT ![w] = [IdleWork EXCEPT !.pc = step, !.job = work[w].job]]
Done(w) == work' = [work EXCEPT ![w] = IdleWork]
ActiveBut(w) == {work[v].job : v \in Workers \ {w}} \ {NoJob}

\* Release by compare-and-delete: an expired lock someone else took stays theirs.
Release(w) == lock' = IF lock = w THEN NoWorker ELSE lock

Env == <<now, tokenOk, fuel>>
Others == <<sweep, req>>

-----------------------------------------------------------------------------
(* The worker takes a job and runs preparePost *)

Take(w) ==
  /\ At(w, "idle")
  /\ \E j \in queue :
       /\ j.at = 0
       /\ queue' = queue \ {j}
       /\ work' = [work EXCEPT ![w] = [IdleWork EXCEPT !.pc = j.kind, !.job = j]]
  /\ meta' = Known
  /\ UNCHANGED <<Env, Others, row, campaign, lock, feed>>

\* The load and the checks of preparePost, up to its first write.
PrepareLoad(w) ==
  LET r == row[Post(w)] IN
  /\ At(w, "prepare")
  /\ \/ /\ \/ r.deleted \/ r.attempts # work[w].job.attempt \/ r.manual
           \/ r.status \notin {"SCHEDULED", "READY_TO_PUBLISH"}
           \/ r.status = "READY_TO_PUBLISH" /\ r.container = NoContainer
           \/ ~tokenOk /\ r.status = "SCHEDULED"     \* waitForToken keeps it SCHEDULED
        /\ Done(w)
     \/ /\ ~r.deleted /\ r.attempts = work[w].job.attempt
        /\ r.status = "READY_TO_PUBLISH" /\ r.container # NoContainer
        /\ IF work[w].inline THEN Only(w, "reload") ELSE Done(w)
     \/ /\ ~r.deleted /\ r.attempts = work[w].job.attempt
        /\ r.status = "SCHEDULED" /\ ~r.manual /\ tokenOk
        /\ \/ work' = [work EXCEPT ![w].pc = "claim", ![w].content = r.content, ![w].slot = r.slot]
           \/ Only(w, "fail")                       \* ~canPublish, or media that is not READY
  /\ UNCHANGED <<Env, Others, row, campaign, queue, lock, meta, feed>>

ClaimFromAny == Status
ClaimFrom == {"SCHEDULED"}

PrepareClaim(w) ==
  /\ At(w, "claim")
  /\ Move(Post(w), ClaimFrom, [row[Post(w)] EXCEPT !.status = "PREPARING"])
  /\ IF row[Post(w)].status \in ClaimFrom THEN Goto(w, "build") ELSE Done(w)
  /\ UNCHANGED <<Env, Others, campaign, queue, lock, meta, feed>>

\* createContainer from the content read at the load; containerId is written
\* whatever the row's status has become.
Build(w) ==
  /\ At(w, "build")
  /\ \/ \E c \in Containers \ Referenced :
          /\ meta' = [Known EXCEPT ![c] = NewContainer(Post(w), work[w].content)]
          /\ row' = [row EXCEPT ![Post(w)].container = c]
          /\ work' = [work EXCEPT ![w].pc = "poll", ![w].container = c]
     \/ /\ Only(w, "prepareError")
        /\ UNCHANGED <<meta, row>>
  /\ UNCHANGED <<Env, Others, campaign, queue, lock, feed>>

\* waitForContainer: FINISHED; EXPIRED or TIMEOUT (built once more, then given
\* up); ERROR; or the status request itself fails.
Poll(w) ==
  /\ At(w, "poll")
  /\ \/ /\ meta' = [meta EXCEPT ![work[w].container].state = "FINISHED"]
        /\ Goto(w, "ready")
     \/ /\ ~work[w].rebuilt
        /\ work' = [work EXCEPT ![w].pc = "build", ![w].rebuilt = TRUE, ![w].container = NoContainer]
        /\ UNCHANGED meta
     \/ \E next \in {"fail", "prepareError"} : Only(w, next) /\ UNCHANGED meta
  /\ UNCHANGED <<Env, Others, row, campaign, queue, lock, feed>>

\* READY_TO_PUBLISH with this container; the publish job now when the slot passed.
PrepareReady(w) ==
  LET p == Post(w) IN
  /\ At(w, "ready")
  /\ Move(p, {"PREPARING"}, [row[p] EXCEPT !.status = "READY_TO_PUBLISH",
                                           !.container = work[w].container])
  /\ queue' = IF Passed(work[w].slot)
              THEN Add(queue, Active, PlainJob(p, "publish", work[w].job.attempt, 0)) ELSE queue
  /\ IF work[w].inline THEN Only(w, "reload") ELSE Done(w)
  /\ UNCHANGED <<Env, Others, campaign, lock, meta, feed>>

\* handlePrepareError: a broken token waits in SCHEDULED, a transient error
\* backs off under a retry job, anything else fails the post.
PrepareError(w) ==
  LET p == Post(w) IN
  /\ At(w, "prepareError")
  /\ \/ /\ tokenOk' = FALSE
        /\ Move(p, {"PREPARING"}, [row[p] EXCEPT !.status = "SCHEDULED"])
        /\ Done(w)
        /\ UNCHANGED queue
     \/ /\ work[w].job.retry < MaxRetry
        /\ Move(p, {"PREPARING"}, [row[p] EXCEPT !.status = "SCHEDULED", !.container = NoContainer])
        /\ queue' = Add(queue, Active, RetryJob(p, "prepare", work[w].job.attempt, work[w].job.retry + 1))
        /\ Done(w)
        /\ UNCHANGED tokenOk
     \/ \E next \in {"fail", "refuse"} : Only(w, next) /\ UNCHANGED <<row, queue, tokenOk>>
  /\ UNCHANGED <<Others, now, fuel, campaign, lock, meta, feed>>

\* failPost outside and inside the account lock.
Fail(w) ==
  /\ work[w].pc \in {"fail", "refuse", "failLocked", "refuseLocked"}
  /\ FailPost(Post(w), work[w].pc \in {"refuse", "refuseLocked"})
  /\ IF work[w].pc \in LockedSteps THEN Release(w) ELSE UNCHANGED lock
  /\ Done(w)
  /\ UNCHANGED <<Env, Others, campaign, queue, meta, feed>>

-----------------------------------------------------------------------------
(* publishPost *)

\* READY_TO_PUBLISH with a container: the late rule, then the lock.
CheckReady(w) ==
  LET r == row[Post(w)] IN
  IF r.status # "READY_TO_PUBLISH" \/ r.container = NoContainer THEN Done(w)
  ELSE Only(w, IF Late(r.slot) THEN "fail" ELSE "lock")

PublishLoad(w) ==
  LET r == row[Post(w)] IN
  /\ At(w, "publish")
  /\ \/ /\ r.deleted \/ r.attempts # work[w].job.attempt \/ r.manual
        /\ Done(w)
     \/ /\ ~r.deleted /\ r.attempts = work[w].job.attempt /\ ~r.manual
        /\ IF r.status = "SCHEDULED"
           THEN work' = [work EXCEPT ![w].pc = "prepare", ![w].inline = TRUE]
           ELSE CheckReady(w)
  /\ UNCHANGED <<Env, Others, row, campaign, queue, lock, meta, feed>>

\* After an inline prepare the row is loaded again and only its status is looked at.
Reload(w) ==
  /\ At(w, "reload")
  /\ CheckReady(w)
  /\ UNCHANGED <<Env, Others, row, campaign, queue, lock, meta, feed>>

LockFree == lock = NoWorker

\* withAccountLock: SET NX, or a lock-retry job under a fresh id.
AcquireLock(w) ==
  /\ At(w, "lock")
  /\ \/ /\ LockFree
        /\ lock' = w
        /\ Goto(w, "cas")
        /\ UNCHANGED queue
     \/ /\ ~LockFree
        /\ queue' = Add(queue, Active, [work[w].job EXCEPT !.kind = "publish", !.tag = "lock", !.at = 0])
        /\ Done(w)
        /\ UNCHANGED lock
  /\ UNCHANGED <<Env, Others, row, campaign, meta, feed>>

\* READY_TO_PUBLISH -> PUBLISHING, and the row (its container) read again.
PublishClaim(w) ==
  LET r == row[Post(w)] IN
  /\ At(w, "cas")
  /\ Move(Post(w), {"READY_TO_PUBLISH"}, [r EXCEPT !.status = "PUBLISHING"])
  /\ \/ /\ r.status = "READY_TO_PUBLISH"
        /\ work' = [work EXCEPT ![w].pc = "call", ![w].container = r.container,
                              ![w].attempts = r.attempts]
        /\ UNCHANGED lock
     \/ /\ r.status # "READY_TO_PUBLISH"
        /\ Release(w)
        /\ Done(w)
  /\ UNCHANGED <<Env, Others, campaign, queue, meta, feed>>

\* media_publish.  Meta publishes a finished container at most once; the
\* answer may be lost either way, and any container may be refused.
PublishCall(w) ==
  LET c == work[w].container
      heard == [meta EXCEPT ![c].open = FALSE]
      lost == [meta EXCEPT ![c].open = TRUE]
      published(m) == [m EXCEPT ![c].state = "PUBLISHED"]
      goes == tokenOk /\ c # NoContainer /\ meta[c].state = "FINISHED"
  IN
  /\ At(w, "call")
  /\ \/ /\ goes
        /\ feed' = Append(feed, [post |-> meta[c].post, content |-> meta[c].content,
                                 attempt |-> work[w].attempts])
        /\ \/ /\ meta' = published(heard)
              /\ work' = [work EXCEPT ![w].pc = "finish", ![w].media = Len(feed) + 1]
           \/ /\ meta' = published(lost)
              /\ Goto(w, "ask")
     \/ /\ meta' = lost
        /\ Goto(w, "ask")
        /\ UNCHANGED feed
     \/ /\ meta' = heard
        /\ Goto(w, "publishError")
        /\ UNCHANGED feed
  /\ UNCHANGED <<Env, Others, row, campaign, queue, lock>>

\* getContainerStatus: whatever comes back, the container has been asked about.
Inquired(c) == IF c = NoContainer THEN meta ELSE [meta EXCEPT ![c].open = FALSE]

\* A lost answer taken for a publish.
AskTrusting(w) ==
  /\ At(w, "ask")
  /\ Goto(w, "finish")
  /\ UNCHANGED <<Env, Others, row, campaign, queue, lock, meta, feed>>

\* isAmbiguousFailure: ask for the container; no answer counts as not published.
Ask(w) ==
  LET c == work[w].container IN
  /\ At(w, "ask")
  /\ meta' = Inquired(c)
  /\ \/ Goto(w, "backoff")
     \/ /\ c # NoContainer /\ meta[c].state = "PUBLISHED"
        /\ \/ \E m \in Newest : work' = [work EXCEPT ![w].pc = "finish", ![w].media = m]
           \/ Only(w, "failLocked")
  /\ UNCHANGED <<Env, Others, row, campaign, queue, lock, feed>>

\* Backing off with the container dropped, as handlePrepareError does.
BackoffRebuild(w) ==
  LET p == Post(w) IN
  /\ Move(p, {"PUBLISHING"}, [row[p] EXCEPT !.status = "SCHEDULED", !.container = NoContainer])
  /\ queue' = Add(queue, Active, RetryJob(p, "publish", work[w].attempts, work[w].job.retry + 1))
  /\ Release(w)
  /\ Done(w)

\* The backoff branch of handlePublishError: a retry job, or the end of the budget.
Backoff(w) ==
  LET p == Post(w) IN
  \/ /\ work[w].job.retry < MaxRetry
     /\ Move(p, {"PUBLISHING"}, [row[p] EXCEPT !.status = "READY_TO_PUBLISH"])
     /\ queue' = Add(queue, Active, RetryJob(p, "publish", work[w].attempts, work[w].job.retry + 1))
     /\ Release(w)
     /\ Done(w)
  \/ /\ work[w].job.retry >= MaxRetry
     /\ Only(w, "failLocked")
     /\ UNCHANGED <<row, queue, lock>>

\* rescheduleForQuota: a later slot under a fresh attempt number.
QuotaMove(w) ==
  LET p == Post(w) IN
  \E slot \in (now + 1)..MaxSlot :
    /\ row[p].attempts < MaxAttempts /\ work[w].attempts < MaxAttempts
    /\ Move(p, {"PUBLISHING"}, [row[p] EXCEPT !.status = "SCHEDULED", !.slot = slot,
                                              !.attempts = @ + 1, !.container = NoContainer])
    /\ queue' = Add(queue, Active, PlainJob(p, "publish", work[w].attempts + 1, slot))
    /\ Release(w)
    /\ Done(w)

\* handlePublishError on an answered refusal: token, quota, a class the post
\* fails on, a transient class, or a container Meta let expire.
PublishError(w) ==
  LET p == Post(w) IN
  /\ At(w, "publishError")
  /\ \/ /\ tokenOk' = FALSE
        /\ Move(p, {"PUBLISHING"}, [row[p] EXCEPT !.status = "READY_TO_PUBLISH"])
        /\ Release(w)
        /\ Done(w)
        /\ UNCHANGED queue
     \/ /\ tokenOk
        /\ \/ QuotaMove(w)
           \/ \E next \in {"failLocked", "refuseLocked"} : Only(w, next) /\ UNCHANGED <<row, queue, lock>>
           \/ Backoff(w)
           \/ /\ meta[work[w].container].state # "PUBLISHED"
              /\ Move(p, {"PUBLISHING"}, [row[p] EXCEPT !.status = "SCHEDULED", !.container = NoContainer])
              /\ queue' = Add(queue, Active, RetryJob(p, "prepare", work[w].attempts, work[w].job.retry + 1))
              /\ Release(w)
              /\ Done(w)
        /\ UNCHANGED tokenOk
  /\ UNCHANGED <<Others, now, fuel, campaign, meta, feed>>

PublishBackoff(w) ==
  /\ At(w, "backoff")
  /\ Backoff(w)
  /\ UNCHANGED <<Env, Others, campaign, meta, feed>>

PublishFinish(w) ==
  /\ At(w, "finish")
  /\ Finish(Post(w), work[w].media)
  /\ Release(w)
  /\ Done(w)
  /\ UNCHANGED <<Env, Others, queue, meta, feed>>

-----------------------------------------------------------------------------
(* The minute sweeper reads the due posts first and acts on each one later *)

SweepRead(p) ==
  LET r == row[p]
      decide(step) == sweep' = [sweep EXCEPT ![p] = [step |-> step, attempt |-> r.attempts, media |-> 0]]
  IN
  /\ sweep[p].step = "idle" /\ ~r.deleted /\ Passed(r.slot)
  /\ r.status \in {"SCHEDULED", "READY_TO_PUBLISH"}
  /\ \/ r.manual /\ decide("manual")
     \/ ~r.manual /\ Late(r.slot) /\ decide("late")
     \/ ~r.manual /\ ~Late(r.slot) /\ decide("requeue")
  /\ UNCHANGED <<Env, row, campaign, queue, work, lock, meta, feed, req>>

SweepDone(p) == sweep' = [sweep EXCEPT ![p] = IdleSweep]

\* hasLivePublishJob: a waiting or running job under one of the plain ids.
HasLiveJob(p, a) ==
  \E j \in queue \cup Active : j.post = p /\ j.attempt = a /\ j.tag = "plain"

SweepRequeue(p) ==
  /\ sweep[p].step = "requeue"
  /\ queue' = IF HasLiveJob(p, sweep[p].attempt) THEN queue
              ELSE Add(queue, Active, PlainJob(p, "publish", sweep[p].attempt, 0))
  /\ SweepDone(p)
  /\ UNCHANGED <<Env, row, campaign, work, lock, meta, feed, req>>

\* failPost by the sweeper: past the late window, stuck, or halted for good.
SweepFail(p) ==
  /\ sweep[p].step \in {"late", "fail"}
  /\ FailPost(p, FALSE)
  /\ SweepDone(p)
  /\ UNCHANGED <<Env, campaign, queue, work, lock, meta, feed, req>>

\* sendManualNotice; the job of a manual post runs the same function at the slot.
ManualFrom == {"SCHEDULED", "FAILED", "PREPARING", "READY_TO_PUBLISH", "PAUSED"}
SweepManual(p) ==
  LET r == row[p] IN
  /\ sweep[p].step = "manual"
  /\ IF ~r.deleted /\ r.status \in ManualFrom
     THEN /\ row' = [row EXCEPT ![p].status = "NEEDS_MANUAL", ![p].manual = TRUE]
          /\ queue' = WithoutJobs(queue, p, r.attempts)
     ELSE UNCHANGED <<row, queue>>
  /\ SweepDone(p)
  /\ UNCHANGED <<Env, campaign, work, lock, meta, feed, req>>

\* The stuck rows looked for by their container's age instead of their own.
SweepStuckContainer(p) ==
  /\ sweep[p].step = "idle" /\ ~row[p].deleted /\ row[p].status = "PREPARING"
  /\ row[p].container # NoContainer
  /\ sweep' = [sweep EXCEPT ![p].step = "fail"]
  /\ UNCHANGED <<Env, row, campaign, queue, work, lock, meta, feed, req>>

\* PREPARING untouched for the video ceiling and five minutes more: its worker died,
\* or it still waits for the videos of a carousel, one ceiling each.
SweepStuck(p) ==
  /\ sweep[p].step = "idle" /\ ~row[p].deleted /\ row[p].status = "PREPARING"
  /\ sweep' = [sweep EXCEPT ![p].step = "fail"]
  /\ UNCHANGED <<Env, row, campaign, queue, work, lock, meta, feed, req>>

Working(p, steps) == \E w \in Workers : work[w].pc \in steps /\ Post(w) = p

\* A stuck publish tried again without asking Meta.
SweepRecoverUnasked(p) ==
  /\ sweep[p].step = "idle" /\ ~row[p].deleted /\ row[p].status = "PUBLISHING"
  /\ ~Working(p, LockedSteps \ {"finish"})
  /\ sweep' = [sweep EXCEPT ![p].step = "finished"]
  /\ UNCHANGED <<Env, row, campaign, queue, work, lock, meta, feed, req>>

\* recoverStuckPublishing, up to Meta's answer.  Five quiet minutes: no worker
\* is still inside the calls, which time out long before.
SweepRecover(p) ==
  LET c == row[p].container
      decide(step, m) == sweep' = [sweep EXCEPT ![p].step = step, ![p].media = m]
  IN
  /\ sweep[p].step = "idle" /\ ~row[p].deleted /\ row[p].status = "PUBLISHING"
  /\ ~Working(p, LockedSteps \ {"finish"})
  /\ meta' = Inquired(c)
  /\ \/ decide("fail", 0)                                   \* no answer, no media, ERROR or EXPIRED
     \/ c # NoContainer /\ meta[c].state = "PUBLISHED" /\ \E m \in Newest : decide("found", m)
     \/ c # NoContainer /\ meta[c].state = "FINISHED" /\ decide("finished", 0)
  /\ UNCHANGED <<Env, row, campaign, queue, work, lock, feed, req>>

SweepFound(p) ==
  /\ sweep[p].step = "found"
  /\ Finish(p, sweep[p].media)
  /\ SweepDone(p)
  /\ UNCHANGED <<Env, queue, work, lock, meta, feed, req>>

\* Not published: back to READY_TO_PUBLISH with a publish job now.
SweepFinished(p) ==
  /\ sweep[p].step = "finished"
  /\ Move(p, {"PUBLISHING"}, [row[p] EXCEPT !.status = "READY_TO_PUBLISH"])
  /\ queue' = Add(queue, Active, PlainJob(p, "publish", row[p].attempts, 0))
  /\ SweepDone(p)
  /\ UNCHANGED <<Env, campaign, work, lock, meta, feed, req>>

\* A published post whose campaign link failed is linked again.
SweepRelink(p) ==
  /\ ~row[p].deleted /\ row[p].status = "PUBLISHED" /\ row[p].linkFailed
  /\ campaign' = [campaign EXCEPT ![p] = [active |-> TRUE, media |-> row[p].igMedia]]
  /\ row' = [row EXCEPT ![p].linkFailed = FALSE]
  /\ UNCHANGED <<Env, Others, queue, work, lock, meta, feed>>

-----------------------------------------------------------------------------
(* Users *)

Spend(what) == fuel[what] > 0 /\ fuel' = [fuel EXCEPT ![what] = @ - 1]
NoRequest == [op |-> "none", post |-> CHOOSE p \in Posts : TRUE, status |-> "DRAFT",
              attempts |-> 0, slot |-> 0]

\* schedulePost (also retryPost, publishNow, resumePost) up to its write: the
\* row is loaded, then the plan, the spacing and Meta's quota are awaited.
ScheduleLoad(u, p) ==
  /\ req[u].op = "none" /\ Spend("requests")
  /\ ~row[p].deleted /\ row[p].status \in MaySchedule /\ row[p].attempts < MaxAttempts
  /\ \E slot \in now..MaxSlot :
       req' = [req EXCEPT ![u] = [op |-> "schedule", post |-> p, status |-> row[p].status,
                                  attempts |-> row[p].attempts, slot |-> slot]]
  /\ UNCHANGED <<now, tokenOk, row, campaign, queue, work, lock, meta, feed, sweep>>

\* Old plain jobs out, the CAS on the loaded status, the jobs of the new attempt.
ScheduleWrite(u) ==
  LET q == req[u]
      p == q.post
      r == row[p]
      cleared == WithoutJobs(queue, p, q.attempts)
  IN
  /\ q.op = "schedule"
  /\ IF r.status = q.status
     THEN /\ row' = [row EXCEPT ![p] = [r EXCEPT !.status = "SCHEDULED", !.slot = q.slot,
                                                 !.attempts = q.attempts + 1, !.container = NoContainer]]
          /\ queue' = IF r.manual THEN cleared ELSE Armed(cleared, p, q.attempts + 1, q.slot)
     ELSE /\ queue' = cleared
          /\ UNCHANGED row
  /\ req' = [req EXCEPT ![u] = NoRequest]
  /\ UNCHANGED <<Env, campaign, work, lock, meta, feed, sweep>>

\* pausePost, unschedulePost, markPublishedManually: the load is followed at
\* once by a CAS on the loaded status, so the two are one step.
UserMove(p, from, to) ==
  LET r == row[p] IN
  /\ Spend("requests") /\ ~r.deleted /\ r.status \in from
  /\ row' = [row EXCEPT ![p].status = to,
                        ![p].slot = IF to = "DRAFT" THEN 0 ELSE @,
                        ![p].container = IF to = "DRAFT" THEN NoContainer ELSE @]
  /\ queue' = IF to = "PUBLISHED_MANUAL" THEN queue ELSE WithoutJobs(queue, p, r.attempts)

Leave(p) ==
  /\ \/ UserMove(p, MayPause, "PAUSED")
     \/ UserMove(p, MayDraft, "DRAFT")
     \/ UserMove(p, {"NEEDS_MANUAL"}, "PUBLISHED_MANUAL")
  /\ UNCHANGED <<Others, now, tokenOk, campaign, work, lock, meta, feed>>

\* cancelPost: the same CAS, and then the linked campaigns are paused.
CancelWrite(u, p) ==
  /\ req[u].op = "none"
  /\ UserMove(p, MayCancel, "CANCELED")
  /\ req' = [req EXCEPT ![u] = [NoRequest EXCEPT !.op = "cancel", !.post = p]]
  /\ UNCHANGED <<now, tokenOk, campaign, work, lock, meta, feed, sweep>>

CancelCampaign(u) ==
  /\ req[u].op = "cancel"
  /\ campaign' = [campaign EXCEPT ![req[u].post].active = FALSE]
  /\ req' = [req EXCEPT ![u] = NoRequest]
  /\ UNCHANGED <<Env, row, queue, work, lock, meta, feed, sweep>>

\* updatePost, guarded by the row's version.  rearmIfNeeded: an edit that
\* changes which jobs the slot needs opens a fresh attempt.
Edit(p) ==
  LET r == row[p]
      cleared == WithoutJobs(queue, p, r.attempts)
  IN
  /\ Spend("requests") /\ ~r.deleted
  /\ r.status \in Editable /\ r.content < MaxContent
  /\ \E manual, rearm \in BOOLEAN :
       /\ rearm => r.status = "SCHEDULED" /\ r.attempts < MaxAttempts
       /\ r.status = "SCHEDULED" /\ manual # r.manual => rearm
       /\ row' = [row EXCEPT ![p] = [r EXCEPT !.content = @ + 1, !.manual = manual,
                                     !.attempts = IF rearm THEN @ + 1 ELSE @]]
       /\ queue' = CASE ~rearm -> queue
                      [] rearm /\ manual -> cleared
                      [] rearm /\ ~manual -> Armed(cleared, p, r.attempts + 1, r.slot)
  /\ UNCHANGED <<Others, now, tokenOk, campaign, work, lock, meta, feed>>

\* deletePost: refused while PUBLISHING when loaded; its update is unconditional.
DeleteLoad(u, p) ==
  /\ req[u].op = "none" /\ Spend("requests")
  /\ ~row[p].deleted /\ row[p].status # "PUBLISHING"
  /\ req' = [req EXCEPT ![u] = [op |-> "delete", post |-> p, status |-> row[p].status,
                                attempts |-> row[p].attempts, slot |-> 0]]
  /\ UNCHANGED <<now, tokenOk, row, campaign, queue, work, lock, meta, feed, sweep>>

DeleteWrite(u) ==
  LET p == req[u].post IN
  /\ req[u].op = "delete"
  /\ row' = [row EXCEPT ![p].deleted = TRUE]
  /\ queue' = WithoutJobs(queue, p, req[u].attempts)
  /\ campaign' = [campaign EXCEPT ![p].active = FALSE]
  /\ req' = [req EXCEPT ![u] = NoRequest]
  /\ UNCHANGED <<Env, work, lock, meta, feed, sweep>>

Reconnect ==
  /\ ~tokenOk /\ Spend("requests")
  /\ tokenOk' = TRUE
  /\ UNCHANGED <<Others, now, row, campaign, queue, work, lock, meta, feed>>

-----------------------------------------------------------------------------
(* Time and faults *)

\* Delayed jobs whose time has come are moved to the waiting list.
Tick ==
  /\ now < MaxTime
  /\ now' = now + 1
  /\ queue' = {IF j.at > now + 1 THEN j ELSE [j EXCEPT !.at = 0] : j \in queue}
  /\ UNCHANGED <<Others, tokenOk, fuel, row, campaign, work, lock, meta, feed>>

\* The worker process dies: BullMQ runs the stalled job again, or it is lost
\* with the process; the lock stays until its TTL.
Crash(w) ==
  /\ ~At(w, "idle") /\ Spend("crashes")
  /\ queue' \in {queue, Add(queue, ActiveBut(w), [work[w].job EXCEPT !.at = 0])}
  /\ Done(w)
  /\ UNCHANGED <<Others, now, tokenOk, row, campaign, lock, meta, feed>>

\* Redis loses the queue (a flush, an eviction).
LoseQueue ==
  /\ queue # {} /\ Spend("losses")
  /\ queue' = {}
  /\ UNCHANGED <<Others, now, tokenOk, row, campaign, work, lock, meta, feed>>

\* A TTL the calls may outlast.
LockExpireEarly ==
  /\ lock # NoWorker /\ lock' = NoWorker
  /\ UNCHANGED <<Env, Others, row, campaign, queue, work, meta, feed>>

\* LOCK_TTL_SEC outlasts the calls up to the container status (30 + 90 + 30 s);
\* the lookups after them have no such bound.
LockExpire ==
  /\ lock # NoWorker
  /\ work[lock].pc \notin (LockedSteps \ {"finish"})
  /\ lock' = NoWorker
  /\ UNCHANGED <<Env, Others, row, campaign, queue, work, meta, feed>>

-----------------------------------------------------------------------------
\* Every post has just been scheduled by schedulePost.
Init ==
  /\ now = 0
  /\ \E slot \in [Posts -> 1..MaxSlot] :
       /\ row = [p \in Posts |-> [status |-> "SCHEDULED", attempts |-> 1, slot |-> slot[p],
                  container |-> NoContainer, content |-> 0, manual |-> FALSE, deleted |-> FALSE,
                  igMedia |-> 0, linkFailed |-> FALSE]]
       /\ queue = UNION {{PlainJob(p, "prepare", 1, slot[p] - 1), PlainJob(p, "publish", 1, slot[p])} : p \in Posts}
  /\ campaign = [p \in Posts |-> [active |-> FALSE, media |-> 0]]
  /\ work = [w \in Workers |-> IdleWork]
  /\ lock = NoWorker /\ tokenOk = TRUE
  /\ meta = [c \in Containers |-> Blank]
  /\ feed = <<>>
  /\ sweep = [p \in Posts |-> IdleSweep]
  /\ req = [u \in Users |-> NoRequest]
  /\ fuel = [requests |-> MaxRequests, crashes |-> MaxCrashes, losses |-> MaxLosses]

WorkerStep(w) ==
  \/ Take(w) \/ PrepareLoad(w) \/ PrepareClaim(w) \/ Build(w) \/ Poll(w) \/ PrepareReady(w)
  \/ PrepareError(w) \/ Fail(w) \/ PublishLoad(w) \/ Reload(w) \/ AcquireLock(w) \/ PublishClaim(w)
  \/ PublishCall(w) \/ Ask(w) \/ PublishError(w) \/ PublishBackoff(w) \/ PublishFinish(w)

SweepStep(p) ==
  \/ SweepRead(p) \/ SweepRequeue(p) \/ SweepFail(p) \/ SweepManual(p) \/ SweepStuck(p)
  \/ SweepRecover(p) \/ SweepFound(p) \/ SweepFinished(p) \/ SweepRelink(p)

UserStep ==
  \/ \E u \in Users : ScheduleWrite(u) \/ DeleteWrite(u) \/ CancelCampaign(u)
  \/ \E u \in Users, p \in Posts : ScheduleLoad(u, p) \/ DeleteLoad(u, p) \/ CancelWrite(u, p)
  \/ \E p \in Posts : Leave(p) \/ Edit(p)
  \/ Reconnect

FaultStep == LoseQueue \/ LockExpire \/ \E w \in Workers : Crash(w)

Next ==
  \/ \E w \in Workers : WorkerStep(w)
  \/ \E p \in Posts : SweepStep(p)
  \/ UserStep
  \/ Tick
  \/ FaultStep

Spec == Init /\ [][Next]_vars

-----------------------------------------------------------------------------
(* Properties *)

TypeOK ==
  /\ now \in Nat /\ tokenOk \in BOOLEAN /\ fuel \in Fuel
  /\ row \in [Posts -> Row]
  /\ campaign \in [Posts -> [active : BOOLEAN, media : Nat]]
  /\ queue \subseteq Job
  /\ work \in [Workers -> Work]
  /\ lock \in Workers \cup {NoWorker}
  /\ meta \in [Containers -> Container]
  /\ feed \in Seq([post : Posts, content : Nat, attempt : Nat])
  /\ sweep \in [Posts -> Sweep]
  /\ req \in [Users -> Request]

\* The account lock: two workers are never both between the lock and the end
\* of their calls to Meta, whatever crashes and expires.
OnePublisher ==
  \A v, w \in Workers :
    {work[v].pc, work[w].pc} \subseteq LockedSteps \ {"finish"} => v = w

\* PUBLISHED is terminal: no late failure, cancel, reschedule, recovery or
\* zombie worker takes a published post back into the pipeline.
PublishedIsFinal ==
  [][\A p \in Posts : row[p].status = "PUBLISHED" => row'[p].status = "PUBLISHED"]_vars

\* A post is called PUBLISHED only when a media of its own is on Instagram:
\* recovery and lost answers never invent a publish.
HasMedia(p) == \E i \in DOMAIN feed : feed[i].post = p
PublishedIsLive == \A p \in Posts : row[p].status = "PUBLISHED" => HasMedia(p)

\* The linked campaign is silent until the post is out (FR-L2): lost answers,
\* recovery and the sweeper's relink switch it on only for a PUBLISHED post.
CampaignWaits == \A p \in Posts : campaign[p].active => row[p].status = "PUBLISHED"

\* One scheduling attempt puts at most one media on Instagram, through
\* crashes, lost answers, stalled jobs and the sweeper's recovery (AC-8, AC-9).
OncePerAttempt ==
  \A i, j \in DOMAIN feed :
    feed[i].post = feed[j].post /\ feed[i].attempt = feed[j].attempt => i = j

\* In its first attempt a post never goes out before its slot, though its jobs are
\* armed a lead ahead, lost, retried, re-queued by the sweeper and run again.
NeverEarly ==
  [][\A p \in Posts : (Len(feed') > Len(feed) /\ feed'[Len(feed')].post = p /\ row[p].attempts = 1)
                     => row[p].slot <= now]_vars

\* A published post's campaign answers on that post, or the failed link is
\* on record and the sweeper still owes it (FR-L3).
PublishedIsLinked ==
  \A p \in Posts : row[p].status = "PUBLISHED" =>
    row[p].linkFailed \/ campaign[p] = [active |-> TRUE, media |-> row[p].igMedia]

\* publish.ts:428, "Ask for the container before any second call": media_publish is not
\* called again on a container whose call got no answer until Meta was asked about it,
\* by a stalled job, a retry, another worker or the sweeper.  The question may fail
\* too (publish.ts:429), and then the retry calls all the same.
NoUnaskedRepeat ==
  \A w \in Workers : At(w, "call") => ~meta[work[w].container].open

-----------------------------------------------------------------------------
(* Fairness: the worker process runs its jobs, the sweeper runs every minute, *)
(* a lock expires, time passes.  Users and faults promise nothing.            *)
Fairness ==
  /\ \A w \in Workers : WF_vars(WorkerStep(w))
  /\ \A p \in Posts : WF_vars(SweepStep(p))
  /\ WF_vars(Tick) /\ WF_vars(LockExpire)

\* Another post was recorded under the media id Meta names as the newest: no write of
\* this one succeeds, and it keeps PUBLISHING (publish.ts:474-477).
Buried(p) == row[p].status = "PUBLISHING" /\ HasMedia(p) /\ Taken(p, Len(feed))

\* Postgres is the source of truth: a post in the pipeline always leaves it, published
\* or failed or handed to a person, though its worker dies or Redis loses its jobs.
\* A post buried by another one is the exception.
Settles ==
  \A p \in Posts : row[p].status \in InFlight ~> row[p].status \notin InFlight \/ Buried(p)
=============================================================================
