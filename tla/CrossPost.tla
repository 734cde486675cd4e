----------------------------- MODULE CrossPost -----------------------------
(***************************************************************************)
(* Cross-posting (lib/channels/crosspost.ts): one post without an          *)
(* Instagram account, its ChannelPostTarget rows on Telegram channels and  *)
(* on Facebook, Threads and YouTube accounts, the minute sweeps that claim *)
(* and publish them (the worker's and the cron's, which overlap), the      *)
(* uploads the platforms still process, and the owner who schedules,       *)
(* pauses, withdraws and retries (lib/content/service.ts).                 *)
(***************************************************************************)
EXTENDS Naturals, Sequences, FiniteSets

CONSTANTS
  Targets,     \* the channels and accounts the post goes to
  Sweeps,      \* sweepContent under way at a time: the worker's and the cron's
  MaxAttempts, \* MAX_ATTEMPTS
  MaxClicks,   \* bound: requests of the owner
  MaxTrouble   \* bound: errors, limits and lost answers of a channel, crashes, slow calls

ASSUME CrossPostAssumption ==
  /\ MaxAttempts \in Nat \ {0} /\ MaxClicks \in Nat /\ MaxTrouble \in Nat

VARIABLES
  post,     \* ScheduledPost: status, scheduledAt against the clock, deletedAt
  row,      \* ChannelPostTarget of each target
  sweep,    \* what each sweep is doing
  asked,    \* what requests of the owner have read and not written
  uploads,  \* the platform: what it makes of each upload of a target
  out,      \* history: posts of a target on its channel, up to two
  unsure,   \* history: the targets an outcome of which was not learned, or was written over
  lost,     \* history: of these, the ones a call put out unknown to its answer, and did not end
  renewed,  \* history: the targets the owner asked for again
  clicks, fuel \* what is left of the bounds

owner == <<asked, clicks>>
platform == <<uploads, out>>
history == <<unsure, lost, renewed>>
vars == <<post, row, sweep, owner, platform, history, fuel>>

PostStatus == {"DRAFT", "SCHEDULED", "PAUSED", "PUBLISHED", "FAILED", "CANCELED"}
\* due: scheduledAt is past; late: by more than latePublishMaxMs.
Post == [status : PostStatus, due : BOOLEAN, late : BOOLEAN, deleted : BOOLEAN]

Status == {"PENDING", "PUBLISHING", "PUBLISHED", "FAILED", "SKIPPED"}
\* Telegram takes a post at once; YouTube does what Facebook does with its Reels.
Channels == {"telegram", "facebook", "threads"}
\* wait: nextAttemptAt, null again once it is past and the row claimed or polled; token:
\* pollToken, the number of the upload, 0 when null; since: pollStartedAt, old when it is
\* more than PROCESSING_MAX_MS ago; still: PUBLISHING and untouched for STUCK_MS.
Row == [channel : Channels, status : Status, attempts : Nat, wait : {"null", "later", "due"}, token : Nat,
        since : {"null", "young", "old"}, still : BOOLEAN]
NewRow(channel) == [channel |-> channel, status |-> "PENDING", attempts |-> 0, wait |-> "null", token |-> 0,
                    since |-> "null", still |-> FALSE]

Steps == {"idle", "stuck", "processing", "polled", "targets", "call", "called", "settle"}
Answers == {"none", "published", "processing", "transient", "wait", "refused"}
Verdicts == {"none", "withdrawn", "early", "ready", "late"}
\* What the sweep goes by in its copy of a row.
Copy == [attempts : Nat, waited : BOOLEAN, since : {"null", "young", "old"}, token : Nat]
NoCopy == [attempts |-> 0, waited |-> FALSE, since |-> "null", token |-> 0]
\* todo: rows read and not handled; post: what the copy of the post says; on: the target at
\* hand; answer: what its channel said, or the status the post is about to get.
Sweep == [pc : Steps, todo : SUBSET Targets, seen : [Targets -> Copy], post : Verdicts,
          on : SUBSET Targets, answer : Answers \cup {"PUBLISHED", "FAILED"}]
Idle == [pc |-> "idle", todo |-> {}, seen |-> [t \in Targets |-> NoCopy], post |-> "none",
         on |-> {}, answer |-> "none"]

-----------------------------------------------------------------------------
(* Helpers *)

At(s, step) == sweep[s].pc = step
On(s, t) == sweep[s].on = {t}
OnTelegram(t) == row[t].channel = "telegram"
OnThreads(t) == row[t].channel = "threads"
OnFacebook(t) == row[t].channel = "facebook"
Trouble == fuel > 0 /\ fuel' = fuel - 1
Doubt(t, when) == unsure' = (IF when THEN unsure \cup {t} ELSE unsure) /\ UNCHANGED <<lost, renewed>>
\* A call sent more than its answer says; after any answer but a refusal the row goes on.
Untold(t, goesOn) ==
  /\ unsure' = unsure \cup {t} /\ lost' = (IF goesOn THEN lost \cup {t} ELSE lost)
  /\ UNCHANGED renewed

\* A query of the rows in `found`, to be handled one after another.
Read(s, step, found, seen, verdict) ==
  sweep' = [sweep EXCEPT ![s] = [Idle EXCEPT !.pc = step, !.todo = found, !.seen = seen, !.post = verdict]]
NoCopies == [t \in Targets |-> NoCopy]
UploadCopies(found) ==
  [t \in Targets |-> IF t \in found THEN [NoCopy EXCEPT !.since = row[t].since, !.token = row[t].token] ELSE NoCopy]
TryCopies(found) ==
  [t \in Targets |-> IF t \in found
                     THEN [NoCopy EXCEPT !.attempts = row[t].attempts, !.since = row[t].since,
                                         !.waited = row[t].attempts > 0 \/ row[t].wait # "null"]
                     ELSE NoCopy]
Handled(s, t) ==
  [sweep[s] EXCEPT !.todo = @ \ {t}, !.seen[t] = NoCopy, !.on = {}, !.answer = "none",
                   !.post = IF sweep[s].todo = {t} THEN "none" ELSE @]
Next1(s, t) == sweep' = [sweep EXCEPT ![s] = Handled(s, t)]
Back(s, t, step) == sweep' = [sweep EXCEPT ![s] = [Handled(s, t) EXCEPT !.pc = step]]
Called(s, t, step, answer, token) ==
  sweep' = [sweep EXCEPT ![s].pc = step, ![s].on = {t}, ![s].answer = answer, ![s].seen[t].token = token]

\* Every write is by id, and touches updatedAt.
Write(t, new) == row' = [row EXCEPT ![t] = [new EXCEPT !.still = FALSE]]
FailedKept(r) == [r EXCEPT !.status = "FAILED"]
Failed(r) == [r EXCEPT !.status = "FAILED", !.token = 0]
Again(r) == [r EXCEPT !.status = "PENDING"]
Later(r) == [r EXCEPT !.wait = "later"]

\* Some sweep has claimed t and has not written what became of it.
InHands(t) == \E s \in Sweeps : On(s, t) /\ sweep[s].pc \in {"call", "called"}
\* So many more posts on the channel of t.
Show(t, posts) == out' = [out EXCEPT ![t] = IF @ + posts < 2 THEN @ + posts ELSE 2]
Upload(t) == uploads' = [uploads EXCEPT ![t] = Append(@, "running")] /\ UNCHANGED out

Withdrawn(p) == p.deleted \/ p.status = "CANCELED"
\* LIVE_STATUSES, of those a post without Instagram can have.
Live(p) == p.status \in {"SCHEDULED", "PUBLISHED", "FAILED"}

-----------------------------------------------------------------------------
(* sweepCrossPosts: rows that died in a call *)

\* Queries with nothing to handle between them are one step.
Stuck == {t \in Targets : row[t].status = "PUBLISHING" /\ row[t].token = 0 /\ row[t].still}
Processing == {t \in Targets : row[t].status = "PUBLISHING" /\ row[t].token # 0 /\ row[t].wait # "later"}
Pending == {t \in Targets : row[t].status = "PENDING" /\ row[t].wait # "later"}
NothingStuck(s) == (At(s, "idle") /\ Stuck = {}) \/ (At(s, "stuck") /\ sweep[s].todo = {})
NothingProcessed(s) == (NothingStuck(s) /\ Processing = {}) \/ (At(s, "processing") /\ sweep[s].todo = {})

Begin(s) ==
  /\ At(s, "idle") /\ Stuck # {}
  /\ Read(s, "stuck", Stuck, NoCopies, "none")
  /\ UNCHANGED <<post, row, owner, platform, history, fuel>>

FailStuckResent(s, t) ==
  /\ At(s, "stuck") /\ t \in sweep[s].todo
  /\ Write(t, Again(row[t]))
  /\ Doubt(t, TRUE)
  /\ Next1(s, t)
  /\ UNCHANGED <<post, owner, platform, fuel>>

FailStuck(s, t) ==
  /\ At(s, "stuck") /\ t \in sweep[s].todo
  /\ Write(t, Failed(row[t]))
  /\ Doubt(t, TRUE)
  /\ Next1(s, t)
  /\ UNCHANGED <<post, owner, platform, fuel>>

-----------------------------------------------------------------------------
(* pollProcessing *)

ReadProcessing(s) ==
  /\ NothingStuck(s) /\ Processing # {}
  /\ Read(s, "processing", Processing, UploadCopies(Processing), "none")
  /\ UNCHANGED <<post, row, owner, platform, history, fuel>>

\* Too long in processing: given up, whatever the platform makes of it.
GiveUp(s, t) ==
  /\ At(s, "processing") /\ t \in sweep[s].todo /\ sweep[s].seen[t].since = "old"
  /\ Write(t, Failed(row[t]))
  /\ Doubt(t, TRUE)
  /\ Next1(s, t)
  /\ UNCHANGED <<post, owner, platform, fuel>>

\* continuePublish, or an error before or in it. An upload has broken by the time a poll
\* is told so. On Threads the poll publishes, and takes "already published" for a refusal,
\* also that of its own request when channelFetch repeats it.
Poll(s, t) ==
  LET token == sweep[s].seen[t].token
      made == uploads[t][token]
      Says(answer) == Called(s, t, "polled", answer, token)
      Made(state) == uploads' = [uploads EXCEPT ![t][token] = state] IN
  /\ At(s, "processing") /\ t \in sweep[s].todo /\ sweep[s].seen[t].since # "old"
  /\ \/ made = "running" /\ Says("processing") /\ UNCHANGED <<platform, history, fuel>>
     \/ made # "shown" /\ Says("refused") /\ Made("broken") /\ UNCHANGED <<out, history, fuel>>
     \/ /\ made = "shown" /\ Says(IF OnThreads(t) THEN "refused" ELSE "published")
        /\ Doubt(t, OnThreads(t)) /\ UNCHANGED <<platform, fuel>>
     \/ /\ OnThreads(t) /\ made = "running" /\ Made("shown") /\ Show(t, 1)
        /\ \/ Says("published") /\ UNCHANGED <<history, fuel>>
           \/ \E answer \in {"transient", "wait"} : Says(answer) /\ Trouble /\ UNCHANGED history
           \/ Says("refused") /\ Trouble /\ Doubt(t, TRUE)
     \/ Says("refused") /\ Trouble /\ Doubt(t, made # "broken") /\ UNCHANGED platform
     \/ \E answer \in {"transient", "wait"} : Says(answer) /\ Trouble /\ UNCHANGED <<platform, history>>
  /\ UNCHANGED <<post, row, owner>>

\* settle: pollStartedAt is that of the first upload the row knows.
Settled(s, t) ==
  LET seen == sweep[s].seen[t] IN
  IF sweep[s].answer = "published"
  THEN [row[t] EXCEPT !.status = "PUBLISHED", !.token = 0, !.wait = "null"]
  ELSE [row[t] EXCEPT !.status = "PUBLISHING", !.token = seen.token, !.wait = "later",
                      !.since = IF seen.since = "null" THEN "young" ELSE seen.since]

\* The row as the poll read it: no other sweep and no request has written it since.
Unmoved(s, t) == row[t].status = "PUBLISHING" /\ row[t].token = sweep[s].seen[t].token

Polled(s, t) ==
  /\ At(s, "polled") /\ On(s, t)
  /\ Write(t, CASE sweep[s].answer \in {"published", "processing"} -> Settled(s, t)
                [] sweep[s].answer \in {"transient", "wait"} -> Later(row[t])
                [] OTHER -> Failed(row[t]))
  /\ Doubt(t, sweep[s].answer \notin {"transient", "wait"} /\ ~Unmoved(s, t))
  /\ Back(s, t, "processing")
  /\ UNCHANGED <<post, owner, platform, fuel>>

-----------------------------------------------------------------------------
(* The due targets *)

Verdict(p) ==
  IF p.deleted \/ p.status = "CANCELED" THEN "withdrawn"
  ELSE IF ~p.due \/ ~Live(p) THEN "early"
  ELSE IF p.late THEN "late" ELSE "ready"

ReadPending(s) ==
  /\ NothingProcessed(s)
  /\ Read(s, "targets", Pending, TryCopies(Pending), IF Pending = {} THEN "none" ELSE Verdict(post))
  /\ UNCHANGED <<post, row, owner, platform, history, fuel>>

Due(s, t) == At(s, "targets") /\ t \in sweep[s].todo
\* What the copies leave of the row, by writes that do not look at it again.
Overwrites(t) == row[t].status # "PENDING"

Withdraw(s, t) ==
  /\ Due(s, t) /\ sweep[s].post = "withdrawn"
  /\ Write(t, [row[t] EXCEPT !.status = "SKIPPED"])
  /\ Doubt(t, Overwrites(t))
  /\ Next1(s, t)
  /\ UNCHANGED <<post, owner, platform, fuel>>

Ready(s, t) == Due(s, t) /\ sweep[s].post \in {"ready", "late"}
\* A target pushed back by a limit is late on purpose.
TooLate(s, t) == sweep[s].post = "late" /\ ~sweep[s].seen[t].waited

Early(s, t) ==
  /\ Due(s, t) /\ sweep[s].post = "early"
  /\ Next1(s, t)
  /\ UNCHANGED <<post, row, owner, platform, history, fuel>>

Miss(s, t) ==
  /\ Ready(s, t) /\ TooLate(s, t)
  /\ Write(t, Failed(row[t]))
  /\ Doubt(t, Overwrites(t))
  /\ Next1(s, t)
  /\ UNCHANGED <<post, owner, platform, fuel>>

\* The channel is gone or the bot may not post; its day is full; its minute is.
Hinder(s, t) ==
  /\ Ready(s, t) /\ ~TooLate(s, t) /\ Trouble
  /\ \/ OnTelegram(t) /\ Write(t, Failed(row[t])) /\ Doubt(t, Overwrites(t))
     \/ ~OnTelegram(t) /\ Write(t, Later(row[t])) /\ UNCHANGED history
     \/ OnTelegram(t) /\ UNCHANGED <<row, history>>
  /\ Next1(s, t)
  /\ UNCHANGED <<post, owner, platform>>

Claimable(t) == row[t].status = "PENDING"

\* The updateMany only one sweep wins.
Claim(s, t) ==
  /\ Ready(s, t) /\ ~TooLate(s, t)
  /\ IF Claimable(t)
     THEN /\ Write(t, [row[t] EXCEPT !.status = "PUBLISHING", !.attempts = @ + 1, !.wait = "null"])
          /\ Called(s, t, "call", "none", 0)
     ELSE Next1(s, t) /\ UNCHANGED row
  /\ UNCHANGED <<post, owner, platform, history, fuel>>

\* The channel takes the post, at once or for processing; or the adapter ends in an error,
\* with nothing out, or with one post or upload: its answer, or the write after it, was
\* lost, or a later request of the call was refused (Telegram's caption; the repeated
\* threads_publish). Facebook gets two when channelFetch repeats a POST it had carried out.
Errors(t) == {"transient", "refused"} \cup (IF OnTelegram(t) THEN {} ELSE {"wait"})
Call(s, t) ==
  LET Says(answer) == Called(s, t, "called", answer, 0)
      Takes == Called(s, t, "called", "processing", Len(uploads[t]) + 1) IN
  /\ At(s, "call") /\ On(s, t)
  /\ \/ Says("published") /\ Show(t, 1) /\ UNCHANGED <<uploads, history, fuel>>
     \/ ~OnTelegram(t) /\ Takes /\ Upload(t) /\ UNCHANGED <<history, fuel>>
     \/ /\ \E answer \in Errors(t) :
             /\ Says(answer)
             /\ \/ UNCHANGED <<platform, history>>
                \/ Show(t, 1) /\ UNCHANGED uploads /\ Untold(t, answer # "refused")
                \/ ~OnTelegram(t) /\ Upload(t) /\ Untold(t, answer # "refused")
        /\ Trouble
     \/ /\ OnFacebook(t) /\ \E answer \in Errors(t) \cup {"published"} : Says(answer)
        /\ Show(t, 2) /\ Untold(t, TRUE) /\ Trouble /\ UNCHANGED uploads
  /\ UNCHANGED <<post, row, owner>>

\* settle or onAdapterError: a known wait gives the attempt back, others count.
LastTry(s, t) == sweep[s].seen[t].attempts + 1 >= MaxAttempts
Record(s, t) ==
  /\ At(s, "called") /\ On(s, t)
  /\ Write(t, CASE sweep[s].answer \in {"published", "processing"} -> Settled(s, t)
                [] sweep[s].answer = "wait" -> [Again(row[t]) EXCEPT !.attempts = sweep[s].seen[t].attempts, !.wait = "later"]
                [] sweep[s].answer = "transient" /\ ~LastTry(s, t) -> Again(row[t])
                [] OTHER -> Failed(row[t]))
  /\ Back(s, t, "targets")
  /\ UNCHANGED <<post, owner, platform, history, fuel>>

-----------------------------------------------------------------------------
(* settleNetworkOnlyPosts *)

Done(status) == status \notin {"PENDING", "PUBLISHING"}
ReadTargets(s) ==
  /\ At(s, "targets") /\ sweep[s].todo = {}
  /\ IF /\ post.status = "SCHEDULED" /\ post.due /\ ~post.deleted
        /\ \A t \in Targets : Done(row[t].status)
     THEN sweep' = [sweep EXCEPT ![s] = [Idle EXCEPT !.pc = "settle",
                      !.answer = IF \E t \in Targets : row[t].status = "PUBLISHED" THEN "PUBLISHED" ELSE "FAILED"]]
     ELSE sweep' = [sweep EXCEPT ![s] = Idle]
  /\ UNCHANGED <<post, row, owner, platform, history, fuel>>

SettlePost(s) ==
  /\ At(s, "settle")
  /\ post' = IF post.status = "SCHEDULED" THEN [post EXCEPT !.status = sweep[s].answer] ELSE post
  /\ sweep' = [sweep EXCEPT ![s] = Idle]
  /\ UNCHANGED <<row, owner, platform, history, fuel>>

-----------------------------------------------------------------------------
(* The owner *)

Click == clicks > 0 /\ clicks' = clicks - 1

\* schedulePost / retryPost, then scheduleNetworkOnly's second write.
Schedule ==
  /\ ~post.deleted /\ post.status \in {"DRAFT", "SCHEDULED", "PAUSED", "FAILED"}
  /\ \E t \in Targets : row[t].status # "SKIPPED"
  /\ IF post.status = "DRAFT" THEN UNCHANGED clicks ELSE Click
  /\ post' = [post EXCEPT !.status = "SCHEDULED", !.due = FALSE, !.late = FALSE]
  /\ asked' = [asked EXCEPT !.retry = TRUE]
  /\ UNCHANGED <<row, sweep, platform, history, fuel>>

\* A row that is retried keeps its pollStartedAt here.
RetryFailed ==
  /\ asked.retry
  /\ row' = [t \in Targets |-> IF row[t].status = "FAILED"
                               THEN [Again(row[t]) EXCEPT !.attempts = 0, !.wait = "null", !.still = FALSE] ELSE row[t]]
  /\ asked' = [asked EXCEPT !.retry = FALSE]
  /\ renewed' = renewed \cup {t \in Targets : row[t].status = "FAILED"}
  /\ UNCHANGED <<post, sweep, clicks, platform, unsure, lost, fuel>>

\* pausePost, unschedulePost, cancelPost, deletePost.
Leave ==
  /\ ~post.deleted /\ Click
  /\ \/ post.status = "SCHEDULED" /\ post' = [post EXCEPT !.status = "PAUSED"]
     \/ /\ post.status \in {"SCHEDULED", "PAUSED", "FAILED", "CANCELED"}
        /\ post' = [post EXCEPT !.status = "DRAFT", !.due = FALSE, !.late = FALSE]
     \/ /\ post.status \in {"DRAFT", "SCHEDULED", "PAUSED", "FAILED"}
        /\ post' = [post EXCEPT !.status = "CANCELED"]
     \/ post' = [post EXCEPT !.deleted = TRUE]
  /\ UNCHANGED <<row, sweep, asked, platform, history, fuel>>

\* setTelegramTargets, setChannelTargets: choosing a failed target again.
ChooseRead(t) ==
  /\ ~post.deleted /\ row[t].status \in {"FAILED", "SKIPPED"} /\ Click
  /\ asked' = [asked EXCEPT !.choose = @ \cup {t}]
  /\ UNCHANGED <<post, row, sweep, platform, history, fuel>>

Choose(t) ==
  /\ t \in asked.choose
  /\ Write(t, IF OnTelegram(t) THEN [Again(row[t]) EXCEPT !.attempts = 0] ELSE NewRow(row[t].channel))
  /\ unsure' = (IF row[t].status \in {"FAILED", "SKIPPED"} THEN unsure ELSE unsure \cup {t})
  /\ renewed' = renewed \cup {t}
  /\ asked' = [asked EXCEPT !.choose = @ \ {t}]
  /\ UNCHANGED <<post, sweep, clicks, platform, lost, fuel>>

-----------------------------------------------------------------------------
(* Time, the platforms, crashes *)

SlotComes ==
  /\ post.status \notin {"DRAFT"} /\ ~post.due
  /\ post' = [post EXCEPT !.due = TRUE]
  /\ UNCHANGED <<row, sweep, owner, platform, history, fuel>>

GrowsLate ==
  /\ post.due /\ ~post.late /\ Trouble
  /\ post' = [post EXCEPT !.late = TRUE]
  /\ UNCHANGED <<row, sweep, owner, platform, history>>

WaitOver(t) ==
  /\ row[t].wait = "later"
  /\ row' = [row EXCEPT ![t].wait = IF row[t].status = "PENDING" THEN "due" ELSE "null"]
  /\ UNCHANGED <<post, sweep, owner, platform, history, fuel>>

\* Ten minutes without a word; a call that takes so long is one of the faults.
Still(t) ==
  /\ row[t].status = "PUBLISHING" /\ row[t].token = 0 /\ ~row[t].still
  /\ IF InHands(t) THEN Trouble ELSE UNCHANGED fuel
  /\ row' = [row EXCEPT ![t].still = TRUE]
  /\ UNCHANGED <<post, sweep, owner, platform, history>>

ThreeHours(t) ==
  /\ row[t].since = "young"
  /\ row' = [row EXCEPT ![t].since = "old"]
  /\ UNCHANGED <<post, sweep, owner, platform, history, fuel>>

Process(t) ==
  /\ ~OnThreads(t)
  /\ \E n \in DOMAIN uploads[t] :
       /\ uploads[t][n] = "running"
       /\ uploads' = [uploads EXCEPT ![t][n] = "shown"]
  /\ Show(t, 1)
  /\ UNCHANGED <<post, row, sweep, owner, history, fuel>>

\* The process, or a query outside a call, fails: the rest of the sweep is left.
Crash(s) ==
  /\ ~At(s, "idle") /\ Trouble
  /\ sweep' = [sweep EXCEPT ![s] = Idle]
  /\ UNCHANGED <<post, row, owner, platform, history>>

-----------------------------------------------------------------------------
\* The owner has just scheduled the post.
Init ==
  /\ post = [status |-> "SCHEDULED", due |-> FALSE, late |-> FALSE, deleted |-> FALSE]
  /\ \E channel \in [Targets -> Channels] : row = [t \in Targets |-> NewRow(channel[t])]
  /\ sweep = [s \in Sweeps |-> Idle]
  /\ asked = [retry |-> FALSE, choose |-> {}]
  /\ uploads = [t \in Targets |-> <<>>]
  /\ out = [t \in Targets |-> 0] /\ unsure = {} /\ lost = {} /\ renewed = {}
  /\ clicks = MaxClicks /\ fuel = MaxTrouble

Step(s) ==
  \/ Begin(s) \/ ReadProcessing(s) \/ ReadPending(s) \/ ReadTargets(s) \/ SettlePost(s)
  \/ \E t \in Targets :
       \/ FailStuck(s, t) \/ GiveUp(s, t) \/ Poll(s, t) \/ Polled(s, t)
       \/ Withdraw(s, t) \/ Early(s, t) \/ Miss(s, t) \/ Hinder(s, t)
       \/ Claim(s, t) \/ Call(s, t) \/ Record(s, t)
Request == RetryFailed \/ \E t \in Targets : Choose(t)

Next ==
  \/ \E s \in Sweeps : Step(s) \/ Crash(s)
  \/ Schedule \/ Leave \/ Request \/ \E t \in Targets : ChooseRead(t)
  \/ SlotComes \/ GrowsLate
  \/ \E t \in Targets : WaitOver(t) \/ Still(t) \/ ThreeHours(t) \/ Process(t)

Spec == Init /\ [][Next]_vars

-----------------------------------------------------------------------------
(* Properties *)

TypeOK ==
  /\ post \in Post
  /\ row \in [Targets -> Row]
  /\ \A t \in Targets : row[t].token # 0 => row[t].token \in DOMAIN uploads[t] /\ row[t].status \notin {"PUBLISHED", "FAILED"}
  /\ sweep \in [Sweeps -> Sweep]
  /\ asked \in [retry : BOOLEAN, choose : SUBSET Targets]
  /\ uploads \in [Targets -> Seq({"running", "shown", "broken"})]
  /\ out \in [Targets -> 0..2] /\ lost \subseteq unsure /\ unsure \subseteq Targets /\ renewed \subseteq Targets
  /\ clicks \in 0..MaxClicks /\ fuel \in 0..MaxTrouble

\* A row whose call died or took too long "is FAILED, never re-sent: ... a duplicate post
\* in a channel is worse than a miss" (crosspost.ts:10-11). However sweeps, slow calls and
\* polls overlap, a target is put on its channel twice only by a call whose answer hid that
\* something went out (channelFetch repeats the POST, or a sweep the row), or when the owner
\* asks again for one whose outcome nobody learned or a write went over.
OnceOut == \A t \in Targets : out[t] > 1 => t \in lost \/ (t \in unsure /\ t \in renewed)
=============================================================================
