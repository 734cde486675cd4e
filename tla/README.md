# SocialAuto: TLA+ models, model checking and proofs

SocialAuto automates Instagram accounts: it schedules posts, answers comments and
messages, collects leads and runs campaigns. It is a Next.js application over
Postgres (Prisma) and Redis (BullMQ), in three kinds of process: the **web** process
(dashboard, API, webhooks), the **workers** (BullMQ consumers) and the **cron**
process (sweepers, reconcilers). The difficulty of the code is in what lies between
those processes: a row in Postgres, a job in Redis and a call to Meta change one after
another, never together, and every `await` is a place for somebody else to act.

This directory models that, checks it with TLC and proves with TLAPS, for every value
of the constants, each safety and action property and each refinement that TLC checks.

| file | what it is |
|---|---|
| `ContentPublish.tla` | the publish pipeline of the Content Scheduler |
| `PublishOnce.tla` | what that pipeline promises, without its machinery |
| `ContentRefinement.tla` | the refinement mapping from the one to the other |
| `CommentDm.tla` | one comment in the Comment-to-DM pipeline |
| `LeadDelivery.tla` | the outbox that carries leads to amoCRM, Bitrix24 and Telegram |
| `CrmBroadcast.tla` | one CRM broadcast |
| `Billing.tla` | the tariff payments of one workspace through Payme and Click |
| `FlowRun.tla` | one person in the Flow Builder's engine |
| `CrossPost.tla` | the targets of one post on Telegram, Facebook, Threads and YouTube |
| `MC*.tla`, `*.cfg` | their model-checking instances |
| `ContentSafetyProofs` | the publish pipeline: types, safety and the refinement, for all constants |
| `ContentOnceProofs` | once per attempt, linked, in time; EXTENDS `ContentSafetyProofs` |
| `CommentDmProofs`, `LeadDeliveryProofs`, `CrmBroadcastProofs`, `BillingProofs`, `FlowRunProofs`, `CrossPostProofs` | types and every safety property of each |
| `PROJECT.json` | components, runs, mutants, source map, hazards, theorems |

## 1. Inventory

For each part: the state it keeps, what it does, whom it meets, what is hard, and
what makes it correct. Paths are under `src/`.

**Content scheduler, publish pipeline** (`lib/content/publish.ts`, `service.ts`,
`sweep.ts`, `queue.ts`, `lock.ts`, `transitions.ts`, `worker.ts`, `manual.ts`,
`link-campaign.ts`). State: `ScheduledPost` (status, attempt number, slot, container,
media id), the prepare/publish/retry/lock jobs, the Redis lock of the account, the
linked campaign; at Meta: containers and the account's media. Operations: schedule,
edit, pause, draft, cancel, delete, hand over to a person; prepare a container ahead of
the slot, publish at the slot; a sweeper each minute that re-queues lost jobs, fails
late posts, frees stuck ones, recovers lost answers and relinks campaigns. Hard: two
jobs of one post, lost answers of `media_publish`, crashes between two writes, requests
that overlap, an expired lock. Correct when a scheduling attempt publishes once, never
early, PUBLISHED is true and final, the campaign is live exactly on a published post,
and a post always leaves the pipeline. **Modelled.**

**Content scheduler, the rest** (`review.ts`, `recurrence.ts`, `series.ts`, `media*.ts`,
`csv.ts`, `insights.ts`). Drafts, approvals, repeats, uploads, analytics. Mostly CRUD and
file I/O; approvals would extend the status machine above.

**Cross-posting channels** (`lib/channels/crosspost.ts`). State: `ChannelPostTarget` per
network (status, attempts, the token of an upload in processing and since when). A sweep
each minute, in the worker and in the cron, fails what died in a call, polls uploads,
claims and publishes what is due, and settles a post without Instagram. Hard: two sweeps
at one row, writes by id from a copy that is old, an answer that is lost, an upload that
outlives its row, a retry of what is still under way. Correct when a network gets a post
once and one network's failure does not hold another's. **Modelled** for posts without
Instagram (section 8).

**Comment-to-DM pipeline** (`lib/queue/dm-worker.ts`, `lib/queue/client.ts`,
`lib/polling/comment-reconciler.ts`, `app/api/webhook/route.ts`). State: `DmLog` per
campaign and comment (status, lease, attempts, public leg), jobs; at Instagram: one
private reply per comment. Operations: the webhook's job, the reconciler's job every five
minutes, put-off jobs, BullMQ retries and stalled jobs. Hard: two jobs on one comment, a
lease that is read and taken in two queries, lost answers, crashes between the send and
the log. Correct when SENT is true, usage is not given back twice, and nothing is left
PENDING. **Modelled for comments**; postbacks, follow-ups and message jobs are not.

**DM limiter and quota** (`lib/utils/rate-limiter.ts`, `lib/utils/rate-limit-age.ts`,
`lib/billing/usage.ts`). State: a counter with an expiry per account in Redis, a monthly
counter in Postgres. Hard: a slot reserved in one window and given back in the next.
Correct when a window admits no more than its limit. Their answers are modelled in
`CommentDm`; the windows are planned.

**Lead delivery** (`lib/leads/delivery.ts`, `lib/integrations`). State: `LeadDelivery` per
lead and integration, the integration's status and health streak, the lead's status.
Claim by compare-and-set with a two-minute lease, retries after 30 s, 2 m, 10 m, 1 h and
6 h, a sweep of due and stuck rows, connection checks that break and repair an
integration, redelivery by a user. Hard: the same row in a job, a sweep and a redelivery;
a lead taken by the provider and not recorded; a repeat that must attach to the
original's card. Correct when SENT and DEAD are true, a provider gets a lead once, and a
delivery ends. **Modelled** (section 4).

**CRM broadcast** (`lib/crm/broadcast.ts`, `broadcast-queue.ts`, `broadcast-worker.ts`).
State: broadcast, recipients, a tick number, the jobs' ids. Batches lease recipients and
send; pause, resume and cancel interleave; maintenance restarts what lost its job. Hard:
two ticks at a time, leases of the dead and of the slow, an id that BullMQ keeps. Correct
when a contact gets a broadcast once, one chain of ticks is left, COMPLETED means
completed, and a broadcast ends. **Modelled** (section 5).

**CRM inbox, deals, pipelines** (`lib/crm/service.ts`, `pipeline.ts`): request-level CRUD.

**Triggers** (`lib/triggers`): generalised campaigns; an event claim and a log per action,
much like `CommentDm`, which they can take a comment over from.

**Flows** (`lib/flows`, `lib/triggers/processor.ts`). State: `FlowRun` (status, node,
step number, what it waits for), markers of sent messages, the wake-up jobs. Events start
runs; taps, answers and timers take a waiting run; a loop executes node after node, each
with a message or another effect, and commits each by compare-and-set on the step number;
a sweep each minute wakes, continues or cancels. Hard: a retried event, a timer and the
sweep at one run; a crash between a send and its commit; a window that closed. Correct
when a message goes out once, a person has one live run, a run follows the graph, and
every run ends. **Modelled** (section 7).

**Javob AI and assistant** (`lib/javobai`, `lib/assistant`): AI replies and the hand-off
between bot and operator; the hand-off's races are worth a model, the rest is model I/O.

**Integrations 2** (`lib/integrations2`): an outbox of webhooks to customers' systems.

**Engagement** (`lib/engagement`): giveaways, referrals, points; single transactions.

**Billing** (`lib/billing`). State: `Payment`, the workspace's plan. Checkout, the
callbacks of Payme and Click, which come twice, cross and time out, and the plan they
extend or take back. Correct when a payment extends the plan once, what a provider was
told stays true, and months add up. **Modelled** (section 6).

**Telegram** (`lib/telegram`), **MCP** (`lib/mcp`), **Meta
client** (`lib/meta`) and the **platform** (i18n, admin, auth, pages): front-ends of the
above, or request-level code.

How they meet: services write rows and add jobs; workers read rows, call Meta and write
rows; sweepers repair what the two lost. Postgres is the source of truth, Redis an alarm
clock that may be lost; Meta's state is only learned by asking. The content pipeline
switches campaigns on (`activateLinkedCampaigns`), from which the DM pipeline starts.

## 2. `ContentPublish`

One Instagram account with its posts: accounts share nothing but worker slots.

| variable | stands for |
|---|---|
| `now` | the clock, in ticks of a few minutes |
| `row` | `ScheduledPost` per post |
| `campaign` | the automation linked to the post: live, and on which media |
| `queue`, `work` | BullMQ's jobs, and the step each worker is at with what it read |
| `lock` | `content:acct:<account>` in Redis |
| `tokenOk` | `InstagramAccount.tokenStatus = ACTIVE` |
| `meta`, `feed` | Meta's containers and the account's media, oldest first |
| `sweep` | what the sweeper decided about a post and has not written yet |
| `req` | what a request loaded and has not written yet |
| `fuel` | what is left of the bounds on requests, crashes and losses |

A worker's step is the code between two awaits on shared state. `preparePost` is
`PrepareLoad`, `PrepareClaim` (the CAS to PREPARING), `Build`, `Poll`, `PrepareReady`,
with `PrepareError`; `publishPost` is `PublishLoad`, `Reload`, `AcquireLock`,
`PublishClaim` (the CAS to PUBLISHING), `PublishCall`, `Ask` (an answer that was lost),
`PublishError`, `PublishBackoff` and `PublishFinish`. The sweeper's steps are
`SweepRead` and, per decision, `SweepRequeue`, `SweepFail`, `SweepManual`, `SweepStuck`,
`SweepRecover`, `SweepFound`, `SweepFinished`, `SweepRelink`. `schedulePost` and
`deletePost` are split at their awaits (`ScheduleLoad`/`ScheduleWrite`,
`DeleteLoad`/`DeleteWrite`, `CancelWrite`/`CancelCampaign`); pause, draft and manual are one
CAS (`Leave`), an edit is `Edit`. Faults: `Crash` (BullMQ hands the stalled job out
again), `LoseQueue` (Redis loses everything), `LockExpire`; and answers lost at each
call to Meta.

Abstractions and assumptions, by name:

- `schedulePost`'s write and its `armJobs` are one step; the two are not separated by
  anything another actor waits for, and the sweeper repairs a crash between them.
- `LockExpire` does not fire between the lock and the last call to Meta. The lock lives
  180 s (`lock.ts:11`); the calls under it time out after 30, 90 and 30 s. It may
  expire while the holder records the result, and after a crash.
- `tokenOk` is both the stored status and the truth: a token revoked at Meta but still
  ACTIVE in the database shows as a refused call.
- A container nothing refers to is used again for a new one, which keeps the instance
  finite without a bound on how many are built.
- Media published outside the application are left out of `feed`.

Not modelled: the 23-hour expiry of containers (sweep step 4), first comments,
`bindManualPost`, reviews, story series, cross-posts and posts without Instagram.

### What it promises: `PublishOnce`

`PublishOnce` has three variables: the media that are `out`, the posts recorded as
`published`, those whose campaign is `live`. A media goes out behind the others
(`Publish`), a post is recorded once and for good, only after a media of it is out
(`Record`), and only then is its campaign switched on or off (`Switch`). `ContentRefinement`
maps the pipeline to it: `out` is the account's feed, `published` the rows that say so,
`live` the active campaigns; queues, workers, lock, containers, sweeper and requests are
invisible. `KeepsPromise` is `PublishOnce!Spec` under that mapping, `PublishesOnce` adds
that no scheduling attempt goes out twice.

### Properties

- `TypeOK`: the types; floors of delays and the like.
- `OnePublisher`: two workers are never both between the lock and the end of their calls.
- `OncePerAttempt`: one scheduling attempt puts at most one media on Instagram.
- `PublishedIsLinked`: a published post's campaign is live on that media or is owed by the
  sweeper. That it is silent before (`CampaignWaits`) is proved.
- `NeverEarly`: in its first attempt a post does not go out before its slot. Later attempts
  have no such guarantee: the claims compare the status only, so a worker that prepared
  itself for an earlier attempt (between `PrepareLoad` and the claim) takes the attempt
  that a full quota, a retry or a user opened meanwhile and publishes it at the old time.
- `NoUnaskedRepeat`: the publish call is not repeated before Meta was asked what became
  of an unanswered one, whether a retry, a stalled job, another worker or the sweeper
  would repeat it. `open` of a container is set by a lost answer and cleared by the
  question, also by one that fails: that is as much as the code does (section 9).
- `KeepsPromise`, `PublishesOnce`: the two refinements above.
- `Settles`: a post in the pipeline leaves it, or is `Buried`: its media is out and the
  row of another post holds the media id Meta names as the newest, so that no write of
  this one can succeed.
- `PublishedIsFinal` (no step takes a post out of PUBLISHED), `CampaignWaits` and
  `PublishedIsLive` (PUBLISHED only with a media of the post's own on Instagram) are what
  the refinement rests on; they are proved and implied by `KeepsPromise`, so no run
  repeats them.

### Runs

| run | instance | shows |
|---|---|---|
| `content_faults` | 1 post, 2 workers, an edit or a reconnect, a crash, a lost queue | two jobs meet at the lock and one publishes; no fault publishes twice, early, unrecorded or unlinked |
| `content_users` | 1 post, 1 worker, 2 overlapping requests, 2 attempts | whatever users do, the pipeline implements `PublishOnce`: PUBLISHED stays and the campaign waits |
| `content_settles` | 2 posts, 1 worker, a retry, a crash or a lost queue, fairness | every post leaves the pipeline or is buried by the other, its attempt published once, no call repeated before the question |

`content_settles` starts from two states (`SettleSpec` in `MCContentPublish`). In
`InitFresh` one post has just been scheduled on an account whose other post is out, and a
worker will die or Redis lose its jobs. In `InitHalted` the worker of one post has died
inside `media_publish` with the media out, and the other waits for its last retry: the
second may be recorded first, and then the recovery of the first finds the second's media.
Without the `Buried` exception TLC finds that run at once.

Bounds: one post suffices for everything but the media id another post holds, since
posts meet only in the lock and in the media list; two workers are enough for any
pairwise race, and the hazards here are pairwise; slot 1 leaves a tick before it, at it
and after it, so early, due and late all occur; three containers allow a rebuild
besides a container in use and one that is out. One retry of the code's three or four
shows what a retry can do: the budget only counts them. Every instance turns deadlock checking
off: a published post with no jobs left has nothing more to do.

Fairness (`Fairness`): each worker that can step does, the sweeper's passes happen, time
passes and a lock expires. That is what a running worker process and the minute cron
give. Users, crashes and Meta promise nothing: a refusal may come every time.

## 3. `CommentDm`

One comment, the campaigns that match it in the order of the loop, the DM worker's
slots, the rows and Instagram.

| variable | stands for |
|---|---|
| `log` | `DmLog` per campaign; `fresh`: `updatedAt` within the lease or the cool-down |
| `jobs` | what BullMQ holds under each id: webhook, reconciler, put-off |
| `work` | per worker: job, campaign, step and what it read |
| `reply`, `posted` | Instagram: whose private reply was delivered; public replies |
| `usage` | `dmsSentThisPeriod` |
| `age` | recent, past the reconciler's lookback, past Meta's seven days |
| `fuel` | what is left of the bounds on faults and blocked sends |

The steps follow the awaits of `processComment` for one campaign: `Read` (the row, the
lease, the token), `Open` (create or update to PENDING), `PublicSend` / `PublicLog`,
`Dedup`, `Usage`, `Slot`, `Blocked`, `Send`, `Sent` or `Fail`, and `Mark` for the statuses
written on the way out. `Advance` is the loop: the next campaign, or the end of the job
with the first error rethrown. `Poll` is the reconciler, `JobMoves` the ends of delays and
backoffs and the clearing of ids, `Ages` the end of a lease or a cool-down, `Crash` the
stalled job: handed out again once, failed the second time.

Assumptions, by name: a lease (two minutes) outlasts a live worker's calls, and the
cool-down (thirty minutes) the job's backoffs (five and fifteen); both are conjuncts of
`Ages`. At most `MaxPolls` reconciler jobs exist, none added while one waits. `attempts`
is counted up to `MaxFailed`, beyond which no guard distinguishes it. The plain-text
repeat of a refused button message, follow gating, the day after which a failed public
reply is given up, and the take-over by Comment 2.0 are abstracted or left out. The
hourly window and the month are nondeterministic answers.

Properties: `SentIsDelivered` (a SENT row's campaign is the one whose private reply
Instagram delivered), `DedupIsTrue` (a campaign is told another one used the reply only
when that is so), `UsageCovers` (usage is never below the DMs sent and on their way),
`PendingEnds` (a PENDING row is taken up again while the comment can be swept: recent
and without a public reply of the owner. The second condition is a gap of the code: a
crash after the public reply leaves a row PENDING for good).

| run | instance | shows |
|---|---|---|
| `comment_safe` | 2 workers, 2 campaigns, one with a public reply, 1 fault | SENT, dedup and usage stay true in every race |
| `comment_ends` | 1 worker, 1 campaign, 2 attempts, a blocked send, 1 fault, fairness | nothing stays PENDING |

Bounds: two campaigns are the least for the dedup, two workers for the lease; a fault is
a crash of a worker or of Redis. `comment_safe` keeps the comment recent: age matters
only to the limit's give-up and the sweep, which `comment_ends` runs. Fairness is that
of the worker and the five-minute cron; leases get strong fairness, being of a fixed
length. Faults are bounded: with Redis failing for ever a campaign earlier in the loop
can keep a later one PENDING.

## 4. `LeadDelivery`

The leads of one customer who leaves a number ("new") and may leave it again
("repeat"), and the integrations of the workspace that take them.

| variable | stands for |
|---|---|
| `integ` | `Integration`: its status and `healthOkStreak` |
| `row` | `LeadDelivery` per integration and lead: status, attempts, `nextAttemptAt` |
| `lead` | `Lead.status` |
| `jobs` | how many jobs of a delivery BullMQ holds |
| `fan` | `enqueueLeadDeliveries`: what it has read and still has to serve |
| `work` | the `processDelivery` of each worker |
| `sweep`, `check`, `redeliver` | what the sweeper, a connection check and a user read and have not written |
| `got`, `own`, `tries`, `excuse` | history: calls carried out, cards of their own, errors caught, reasons for a second copy |

`processDelivery` is `Take`, then `Hold` or `Claim` (the compare-and-set with the
two-minute lease), `Original` (a repeat looks for its card), `Call`, `Record`, and
`RefreshRead` / `RefreshWrite` for `refreshLeadStatus`, whose two queries others come
between. A call may be refused (`Auth`, `Broken`), fail (`Fail`, `Queue`: the retry
ladder), or be carried out without an answer. Around it: the fan-out (`FanStart`,
`FanUpsert`, `FanQueue`), the sweep (`SweepRead`, `SweepOrphan`), the health check
(`CheckStart`, `CheckPass`, `CheckRefused`, `CheckHeld`, `Resume`), users (`SetDisabled`,
`RedeliverRead`, `Redeliver`), time (`Elapse`), and faults (`Crash`, `StoreError`,
`Flush`).

Assumptions: a repeat comes after the first fan-out has ended, for it is another
conversation; a job id carries the time, so no job swallows another (`MaxJobs` bounds
how many wait); a call that outlives its lease is one of the `MaxTrouble` faults.

Properties: `SentIsDelivered` and `DeadIsEarned` (SENT and DEAD are true: the provider
has it, or all attempts were used by errors), `OneCopy` (a second copy needs a lost
answer or a write that reopened the row during the call), `OneCard` (a repeat makes a
card of its own only if the original never gets one), `LeadIsTrue` (SENT or PARTIAL
only if some provider has the lead), `DeliveryEnds` (sent or given up in the end, or
its integration stays disabled).

| run | instance | shows |
|---|---|---|
| `lead_safe` | 1 CRM, 2 workers, 2 attempts, 2 faults | a delivery is true, once, given up only when earned, in every race |
| `lead_ends` | 1 CRM, new and repeat, 1 worker, 2 attempts, 1 fault, fairness | every delivery ends; the repeat finds its card |

Deliveries of different integrations meet only in the lead's status; two faults let a
fault strike the repair of another (an outlived lease, then a lost answer). Two
attempts are the least with a retry. Fairness: workers, the sweeper and the health
check run for ever, leases and delays end, a redelivery begun is finished.

## 5. `CrmBroadcast`

| variable | stands for |
|---|---|
| `bc` | `CrmBroadcast`: status, started, tick number, which `scheduledAt` and is it past |
| `row`, `count` | the recipients; the three counters |
| `jobs`, `kept` | jobs that wait; ids of ended start jobs, which BullMQ holds for a day |
| `work` | the start or the tick each worker runs |
| `asked` | what a request of the dashboard still has to do |
| `got`, `lost`, `early` | history: messages carried out, answers lost, a tick that counted during a start |

`startBroadcast` is `StartClaim`, `StartRows`, `StartCount`, `StartTick`, with
`StartError`; `runBroadcastBatch` is `Stale` (leases of the dead go back), `Lease`, then
for each recipient `Next1` (is the broadcast still running?), `Handle`, `Send`,
`Outcome` (mark, retry, rate limit, refused), and `Remain`, `Complete` or `TickOn`. The
dashboard's writes and the `removeBroadcastJobs` that follows are separate steps
(`Pause`, `Cancel`, `Remove`, `CancelRows`, `ResumeSchedule`, `ResumeRun`, `ResumeTick`).
Maintenance restarts a start or a tick that is late. Faults: `Crash`, `Flush`, a slow
queue that maintenance takes for a dead one, lost answers, rate limits.

Assumption: a tick that finds nothing but leases of less than ten minutes only numbers
its successor; those ticks are left out (`OnlyYoung`), and time goes on to the first
that does something.

Properties: `SentOnce`, `OneChain` (one job with the row's number, waiting or running),
`CompletedIsFinal` (COMPLETED leaves nobody waiting or leased, except when a tick
counted while a second start was still inserting), `CountsMatch` (with nothing gone
wrong the counters are those of the rows), `BroadcastEnds` (it does not stay RUNNING).

`crm_safe` has one contact, two workers, batches of one, two attempts, one click and one
fault, and is fair, so safety and liveness come from one state space. Two workers are
what `OneChain` is about. One contact is enough where the lease is per contact; the
theorems hold for any audience.

## 6. `Billing`

| variable | stands for |
|---|---|
| `order` | `Payment`: status, Payme's state, the provider's transaction, twelve hours old |
| `plan` | the workspace's plan and the months it has left |
| `call` | each callback being handled: its step and the copy a later write is computed from |
| `applied`, `revoked`, `told`, `crossed`, `clash`, `elapsed` | history |

`Receive` begins a callback. Payme: `CreateLook`, `CreateOrder`, `CreateClaim`;
`PerformLoad`, `Pay`, `ApplyRead`, `ApplyWrite`, `Answer`; `CancelLoad`, `CancelWrite`,
`RevokeRead`, `RevokeWrite`. Click: `PrepareLoad`, `PrepareWrite`; `CompleteLoad` and the
same `Pay`; `RefuseWrite`. `Checkout` makes an order, `TwelveHours` lets a transaction
time out, `Month` passes, `Crash` ends a callback anywhere.

Assumptions: a provider waits for the answer about a transaction before its next call;
where it does not, that is one of the faults and the payment is `crossed`. `Month` does
not fall between the two queries of one call. `clash` marks two payments of one
workspace whose plan writes overlapped (section 9).

Properties: `ExtendsOnce`, `PaidIsServed` (with nothing under way a PAID payment has its
month and no other has), `MonthsAddUp`, `ToldIsPaid` (what the provider was told is
performed stays paid or is refunded), `OneTransaction` (a Payme transaction that claimed
an order is not replaced).

`billing_safe`: one Payme and one Click payment, two tariffs, two transactions, two
callbacks at a time, one fault. Two payments are the least that share a plan, two
transactions the least that compete for an order, two callbacks give every pairwise race.

## 7. `FlowRun`

One person and one published flow: the runs their events start, and the workers at them.

| variable | stands for |
|---|---|
| `run` | `FlowRun` of each start: status, node, `seq`, what it waits for, retries, its variables |
| `quiet`, `old`, `open` | untouched for ten minutes or a day; past its age; its 24-hour window is open |
| `alarm` | the `flow-resume` job of the present seq |
| `exec`, `marker`, `replied` | the proxy `TriggerExecution`, the markers of sent messages, Instagram's one private reply |
| `event`, `published` | the `InstagramEvent`s and their claim; the flow's status |
| `work` | per worker: the step, the run as loaded, what is to be committed |
| `sent`, `twice`, `lost`, `met`, `raced` | history |

Starting a run is `Claim`, `StartAgain`, `StartRefused`, `StartLock`, `Create`; resuming
one `Load`, `Take` (a compare-and-set on `seq` and status), `Apply`. The loop is `Guard`
(the step limit), `Quietly` (a node that sends nothing), `PreSend` (the window), then
for a private reply `Reply`, `Sending`, `Call`, `Answered`, for a direct message `Look`,
`Mark`, `Send`, `Name`, with `NodeError`, and `Commit`. Timers are `Ring`; the minute
sweep `DueFound`, `Revive`, `PutBack`, `Cancel`. `Arrive`, `Close`, `Unpublish`, `Pass`,
`Rest`, `GrowOld` are the person, Meta, the dashboard and time; `Crash` is a dead worker
or a failed query.

Assumptions: a worker's steps between two of its writes take less than ten minutes
(`Rest`), and none is at a run for a day (`Alone`). The conditional writes of the sweep
are merged with the reads before them, as they do nothing when the run moved. A
condition node is an edge or an effect; all Delay nodes share one `IfClosed`.

Left out: the trigger node and the public reply, asking an AI question again, the spam
cap, the twenty visits of a node and the hundred steps of one advance, cancel-on-reply,
the texts of lead, operator and takeover nodes, phone chips, a live worker that loses
its event's lease (five minutes), the builder.

Properties: `SentOnce` (no step's message goes out twice, unless its answer was lost or
two workers stood between the marker's lookup and its write), `OneLiveRun` (one live run
per person, unless a cold one is taken while it is replaced), `Walks` (a run goes along
one edge at a time, only when active and numbered, and from its end nowhere), `RunEnds`.

| run | instance | shows |
|---|---|---|
| `flow_safe` | a comment and a message that start, a tap, 2 workers, 4 nodes, 1 fault | messages once, one live run |
| `flow_ends` | one comment, a tap, a text, 2 workers, 6 nodes, 1 fault, fairness | the run walks the graph and ends |

The graph has one node of each kind that behaves differently (message, chips with a
timeout, question, delay, effect, end); `flow_safe` keeps those where two starts can
meet. Its windows wait for the person (`wait_for_inbound`), the policy with the longest
history. Fairness: workers step, the sweep comes, time passes; people promise nothing,
and what waits for them is cancelled by age.

## 8. `CrossPost`

One post without Instagram and its targets.

| variable | stands for |
|---|---|
| `post` | `ScheduledPost`: status, whether its slot is past and long past, deleted |
| `row` | `ChannelPostTarget` per target: status, attempts, `nextAttemptAt`, `pollToken`, `pollStartedAt`, ten minutes untouched |
| `sweep` | per sweep: its step, the rows it read and what its copies say, the target at hand and the answer |
| `asked`, `clicks` | requests of the owner that have read and not written |
| `uploads` | the platform: what it makes of each upload of a target |
| `out` | history: posts on the channel, up to two |
| `unsure`, `lost`, `renewed` | history: targets an outcome of which was not learned, or was written over; those a call put out unknown to its answer and left alive; those the owner asked for again |
| `fuel` | what is left of the faults |

A sweep is `Begin` and `FailStuck` (rows that died in a call), `ReadProcessing`, `GiveUp`,
`Poll`, `Polled` (`pollProcessing`), `ReadPending`, `Withdraw`, `Early`, `Miss`, `Hinder`,
`Claim` (the only conditional write), `Call`, `Record`, and `ReadTargets` / `SettlePost`
(`settleNetworkOnlyPosts`). Queries with nothing to handle between them are one step. The
owner's `Schedule` and `RetryFailed` are the two writes of `scheduleNetworkOnly`; `Leave`
is pause, draft, cancel and delete; `ChooseRead` / `Choose` choose a failed target again.
`SlotComes`, `GrowsLate`, `WaitOver`, `Still`, `ThreeHours` are time, `Process` a platform
that finishes an upload by itself, `Crash` a process or query that fails.

`Call` and `Poll` stand for one call of an adapter, which makes several requests and whose
`channelFetch` repeats a POST up to three times after a timeout or a 5xx
(`http.ts:66-87`). So one call of Facebook may put two posts out, whatever it answers, and
any error, a refusal too, may come with one post or upload out (Telegram's long caption
after the media, `telegram.ts:159-163`; a repeated `threads_publish`). Threads publishes a
container once, and Telegram's requests are not repeated after a lost answer.

Facebook and YouTube publish an upload when it is processed, Threads on the poll that
finds it ready, and Telegram at once. An upload is running, shown or broken; a poll that
is told it broke has it broken for good.

Left out: adding and removing targets, formats a channel does not take, editing and
deleting a cross-post, comments, posts that also go to Instagram.

Property: `OnceOut`, from `crosspost.ts:10-11`, "FAILED, never re-sent": a target is out
twice only if it is in `lost`, or in both `unsure` and `renewed`. `lost` has the calls
whose answer hid a post and was no refusal: the row then goes on as if nothing were out.
`unsure` has besides the rows failed while a call or an upload may still be under way, the
refusals that came with a post, and the unconditional writes over a row that had moved:
these put nothing out again by themselves, only when the owner renews the target.

`cross_safe` has one target, of each kind of channel in turn, two sweeps, one click and two
faults, two attempts (the code has three). It stops (`UntilLost`) where the target gets
into `lost`, of which `OnceOut` says nothing more; the theorem has no such stop. Targets share nothing but the sweep that reads them,
so one shows the races; two sweeps are the two processes; two faults let one strike
during the repair of another. Safety only: nothing promises that a channel ever takes a
post, and the three-hour and ten-minute limits end a row by giving up.

## 9. Disagreements met while modelling

Places where the model follows the code and a reader might expect otherwise; the
properties name them as their exceptions.

Content scheduler:

- Two overlapping schedule requests share one attempt number and job id
  (`service.ts:505`): the job fires at the first slot, the row shows the last. And a worker
  left over from an earlier attempt can claim the next (section 2). So `NeverEarly`
  speaks of the first attempt.
- An unanswered `media_publish` "is not called again: first the container's `status_code`"
  (`docs/DECISIONS.md:110`, in Uzbek). The question comes first, but when it fails too the
  retry calls again (`publish.ts:429`, `:556`). So `NoUnaskedRepeat` is about the question,
  not the answer.
- The media of a lost answer is found by recency; when another post holds that id, the
  unique index stops both writes and the post stays PUBLISHING (`publish.ts:474-477`),
  recovered in vain by every sweep (`Buried` in `Settles`).
- An edit between the load and the claim is accepted and not published
  (`publish.ts:246-269`).
- A delete or cancel that loses the race with the publish silences the campaign of a
  published post (`service.ts:622`).

Cross-posts:

- "A PUBLISHING row older than 10 min is FAILED, never re-sent" (`crosspost.ts:10`), but a
  transient answer after a call that went through puts the row back to PENDING and it is
  sent again (`:252`), and the owner's retry sends a failed row again (`service.ts:540`).
- "A duplicate post in a channel is worse than a miss" (`crosspost.ts:10`), but
  `channelFetch` repeats a POST whose answer was lost (`http.ts:66-87`): Facebook gets a
  second post inside one call and the target is PUBLISHED. And a call can be refused with
  its post out (section 8): the row is FAILED, and a retry posts it again.
- "Its targets never publish" (`crosspost.ts:49`) of a withdrawn post: the sweep goes by the
  post as it read it, so a cancel during the sweep comes too late.
- That retry keeps `pollStartedAt`, unlike choosing the target again (`crosspost.ts:116`):
  a new upload may be given up at its first poll for the age of the old one (`:268`).
- The writes of failures are by id (`failTarget`, `crosspost.ts:187`): one sweep can fail
  a row that the other has just published, and a retry then posts it again.
- On Threads a poll whose answer was lost finds the container published, which is an
  error (`threads.ts:134`): the target is FAILED with its post on the channel.
- A target chosen again after `latePublishMaxMs` fails at once, being late with no attempt.
- Attempts are counted from the sweep's copy, so two sweeps can make more than three.

Comments and leads:

- The comment's lease is read and taken in two queries (`dm-worker.ts:56-64`, `:545`), so two workers
  can both send; Instagram's single private reply decides. A SENT row may become FAILED
  on the pass that repeats the public reply (`dm-worker.ts:468`, `:528`).
- A lead's status may be that of rows read before another delivery ended.
- `docs/DECISIONS.md:55` gives a delivery up after five errors; the code makes six
  attempts (`integrations/errors.ts:35`).

Broadcasts:

- A start job that failed keeps its id for a day, so the maintenance's new start is
  ignored and the broadcast stays SCHEDULED (`broadcast.ts:1338-1346`,
  `broadcast-queue.ts:49`).
- A cancel that overlaps a start leaves rows PENDING that were inserted after it.

Payments:

- Two payments of one workspace at a time can lose a month: the plan is read and written
  in two queries (`payments.ts:92`).
- Click's Prepare can put an order that was paid meanwhile back to PENDING
  (`click.ts:60`).
- A crash between PAID and `applyPaidPlan` is not repaired: the repeated Perform is
  answered performed (`payme.ts:120`).

Flows:

- The pending marker is renamed when Meta answers, so a second worker that stood before
  the lookup writes its own and sends again (`effects.ts:143-186`).
- A cold run is replaced without looking at how many rows the write matched
  (`engine.ts:257`), although at most one live run exists by the comment at `:133`.
- A retried start goes on with an ACTIVE run without taking it, although
  `worker.ts:5-6` has two jobs of a run serialised by its compare-and-swap.
- A first message whose answer was lost goes out again under the next seq when its node
  is retried.

## 10. What is proved

Every invariant, every action property and every refinement that a run checks is a
theorem, for all values of the constants: any number of posts, workers, targets, sweeps,
payments, contacts, any flow graph, faults and bounds of any size. The assumptions are
the `...Assumption` of each component's module, as weak as the code allows: model values
are apart, bounds are naturals, an audience is finite, a flow's edges stay in the flow;
TLC evaluates them in every run. Four theorems of the publish pipeline have the hypothesis
`Users = {}` (below).

| theorem | statement | argument |
|---|---|---|
| `TypeCorrect` | `Spec => []TypeOK` | `Typed`: the types alone are not inductive, a step reads the job of its worker; `Busy` adds that a worker doing something has one |
| `LockExcludes` | `Spec => []OnePublisher` | `LockHeld`: a worker in its calls is the one the lock names |
| `PublishedStays` | `Spec => PublishedIsFinal` | `Asked`: a request that has loaded asked from a status the dashboard may schedule; only `Finish` makes a post PUBLISHED, nothing else touches that status |
| `CampaignIsSilent` | `Spec => []CampaignWaits` | the campaign goes on only with `Finish` or the relink of a PUBLISHED post, which stays so |
| `PublishedMeansLive` | `Spec => []PublishedIsLive` | `Owned`: a container somebody holds belongs to the post it is held for; `Shown`: a published container, and a media id a worker or the sweeper carries, has its media in the list |
| `PipelineKeepsPromise` | `Spec => KeepsPromise` | a step is of one of the kinds `PublishesOne`, `RecordsOne`, `SwitchesOne` or a stutter; `PublishedIsLive` and `CampaignWaits` give the abstract guards |
| `NeverRepeatsUnasked` | `Users = {}`: `Spec => []NoUnaskedRepeat` | `Orderly` and `Answered`: no container that may be called, be it on a retry, has an unanswered call nobody asked about |
| `OneMediaEachAttempt` | `Users = {}`: `Spec => []OncePerAttempt` | `Orderly` and `Counted`: while a container somebody may call is not published, no media of its attempt is out |
| `PipelinePublishesOnce` | `Users = {}`: `Spec => PublishesOnce` | `PipelineKeepsPromise` with the theorem above: a step that publishes adds a media of a new attempt |
| `PublishedGetsLinked` | `Users = {}`: `Spec => []PublishedIsLinked` | only a finish makes a post PUBLISHED, and only the relink changes the campaign after it |
| `FirstTryInTime` | `Spec => NeverEarly` | `Timely`: in a first attempt every job of the publish, every worker past the look at the clock and every post in PUBLISHING is due |
| `CommentTypeCorrect` | `Spec => []TypeOK` | `Typed`: `Busy` adds that a worker doing something is at a campaign |
| `SentMeansDelivered` | `Spec => []SentIsDelivered` | `Delivered`: a worker at `sent` delivered the reply of its campaign; Instagram's one reply, once given, does not change |
| `DedupHasReason` | `Spec => []DedupIsTrue` | `Justified`: a worker that carries SKIPPED_DEDUP to its row read another campaign's SENT, which was true |
| `UsageNeverShort` | `Spec => []UsageCovers` | `Covered`: the workers that hold a reservation are finitely many, and with the SENT rows no more than the usage; each step spends, reserves or releases one |
| `LeadTypeCorrect` | `Spec => []TypeOK` | `Typed`: a worker that sends loaded fewer than the last attempt |
| `SentWasDelivered`, `DeadWasEarned`, `LeadStatusIsTrue` | their properties | `Truth`: a worker at `record` was answered, attempts are errors counted, the status a worker carries to the lead was true and cannot become false |
| `DeliveredOnce` | `Spec => []OneCopy` | `Order`: a row without excuse has one carrier at a time and is SENT or carried once the provider has it |
| `OneCardEach` | `Spec => []OneCard` | `Cards`: a repeat is on its own only after its original was given up, which is for good unless redelivered |
| `CrmTypeCorrect` | `Spec => []TypeOK` | `Typed`: attempts at a lease, a start's inserts, what each worker holds |
| `NothingSentTwice` | `Spec => []SentOnce` | `Once`: a contact that waits, or is in the hands of a worker without an answer yet, has not got the message, unless an answer for it was lost |
| `OneChainLeft` | `Spec => []OneChain` | `Chain`: no tick is ahead of the row, and of those with its number one is queued or running; a new number leaves every older tick behind |
| `CompletedMeansCompleted` | `Spec => []CompletedIsFinal` | `Final`: a tick at `complete` saw nothing left, and nothing comes back without a lease or a start |
| `CountersMatch` | `Spec => []CountsMatch` | `Even`: with nothing gone wrong no two workers hold one contact, and each counter with the rows a worker still owes it is the number of the rows |
| `BillingTypeCorrect`, `PlanExtendedOnce`, `PaidMonthStands`, `ToldStaysPaid` | their properties | `Good`, per payment: how many calls are between its two writes, and what was applied and taken back, follow from its state |
| `TransactionStays` | `Spec => OneTransaction` | from the same invariant: the claim is the only writer and needs a free order |
| `MonthsStand` | `Spec => []MonthsAddUp` | `MonthsInv`: while one tariff is bought and no two plan writes crossed, the plan has as many months as payments are served; at rest those are the PAID ones |
| `FlowTypeCorrect`, `FlowWalks`, `FlowOneLiveRun`, `FlowSentOnce` | their properties | `FlowSound`: whoever holds a copy of a run at its `seq` is at the same node with the same message (`Agreed`); a sent message has a marker or is behind its run (`SentKnown`, `Markers`); the start that may create is the only one (`OneLive`) |
| `CrossTypeCorrect` | `Spec => []TypeOK` | `Typed`: every upload in a sweep's copies and hands exists, which the row alone does not say |
| `OnChannelOnce` | `Spec => []OnceOut` | `OnceKnown`, per target not in `unsure`: at most one upload runs and none once it is out; the row, the one sweep that holds it, and a poll that heard a refusal know what became of it. `Sole`, per target that is neither `lost` nor `renewed`: what is out and what may still put it out are one, since nothing the code does by itself brings such a row back |

`LockExcludes` rests on the timing assumption in `LockExpire` of section 2. Each proof
has one lemma per action, or one per kind of change with the actions sorted under it:
a comment's step moves a row only as `RowMoves` allows, a worker as `WorkMoves` and the
reply as `ReplyMoves`, and these keep the invariant.

What keeps a post of the pipeline to one worker is not the lock but the compare-and-set
of its status: `Orderly` says that no two workers make or send one post (`Alone`), that a
claimed row stays as its worker left it or leaves the pipeline (`Claimed`), that the
sweeper takes a post back only when nobody sends it (`Swept`), and that there is a
container by then (`Held`). That is false with users, who are therefore left out of the
four theorems (`Users = {}`; the quota's move to another slot, the sweeper, the edits and
reconnects and all faults stay): a reschedule can put a second worker on a post whose
first is still preparing it, and that one can hand a container back whose publish call
has no answer yet; two requests can open one attempt number twice; and a delete or cancel
switches the campaign of a published post off. `NeverEarly` needs no such hypothesis but
speaks of the first attempt only.

The step invariants were checked with TLC on the bounds of the runs before they were
proved; so were the conditions in the properties, by dropping them and looking at the
counterexample.

Only model-checked: liveness (`Settles`, `PendingEnds`, `DeliveryEnds`, `BroadcastEnds`,
`RunEnds`), because weak and strong fairness need ENABLED, which the prover does not
reach.

## 11. Plan

1. `DmRateLimiter`: hourly windows, reservations and late releases, composed with the
   reserve and release of `CommentDm`. A slot reserved in one window and given back after
   it rolled over takes one from the next (`rate-limiter.ts:227`); no module shows it yet.
2. An abstract specification of a delivery (claimed, carried out, recorded) and
   `LeadDelivery` and `CrossPost` shown to implement it.
3. Triggers' claim and take-over from the comment pipeline; cross-posts of a post that also
   goes to Instagram, composed with `ContentPublish`.
4. The outbound webhooks of Integrations 2, Javob AI's hand-off, giveaways, the token
   exchange of MCP.

## 12. What is not modelled, and why

Most of the repository's lines are pages, dictionaries in two languages, forms, prompts,
file processing, parsing, statistics and request-level CRUD: no behaviour of several
steps, so nothing for a state machine to say. What has such behaviour is listed in
section 1, and what of it is still open in section 11. External services (Meta, amoCRM,
Bitrix24, Telegram, Payme, Click) appear as what the code may observe of them. Per
component the reasons are in `PROJECT.json`.
