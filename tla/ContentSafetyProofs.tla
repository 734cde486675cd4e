------------------------ MODULE ContentSafetyProofs ------------------------
(***************************************************************************)
(* What the publish pipeline guarantees for any number of posts, workers,  *)
(* users, retries, crashes and losses.  The invariants build on each       *)
(* other: types and the job of every busy worker, who holds the account    *)
(* lock, that PUBLISHED is final, whose container is whose, that PUBLISHED *)
(* means a media on Instagram, when a campaign is live, and from those     *)
(* that the pipeline keeps the scheduler's promise, PublishOnce.           *)
(***************************************************************************)
EXTENDS ContentRefinement, TLAPS

-----------------------------------------------------------------------------
(* Types *)

\* A worker that is doing something holds a job.
Busy == \A w \in Workers : work[w].pc # "idle" => work[w].job \in Job

Typed == TypeOK /\ Busy

LEMMA ChosenPost == (CHOOSE p \in Posts : TRUE) \in Posts
  BY ContentAssumption

LEMMA KnownType == ASSUME TypeOK PROVE Known \in [Containers -> Container]
  BY ChosenPost DEF TypeOK, Known, Blank, NewContainer, Container

LEMMA InitTyped == Init => Typed
<1> SUFFICES ASSUME Init PROVE Typed
  OBVIOUS
<1>1. PICK slot \in [Posts -> 1..MaxSlot] :
        /\ row = [p \in Posts |-> [status |-> "SCHEDULED", attempts |-> 1, slot |-> slot[p],
                  container |-> NoContainer, content |-> 0, manual |-> FALSE, deleted |-> FALSE,
                  igMedia |-> 0, linkFailed |-> FALSE]]
        /\ queue = UNION {{PlainJob(p, "prepare", 1, slot[p] - 1), PlainJob(p, "publish", 1, slot[p])} : p \in Posts}
  BY DEF Init
<1>2. row \in [Posts -> Row]
  BY <1>1, ContentAssumption DEF Row, Status
<1>3. queue \subseteq Job
  <2> SUFFICES ASSUME NEW p \in Posts
               PROVE  PlainJob(p, "prepare", 1, slot[p] - 1) \in Job /\ PlainJob(p, "publish", 1, slot[p]) \in Job
    BY <1>1
  <2>1. slot[p] \in 1..MaxSlot
    BY <1>1
  <2> QED
    BY <2>1, ContentAssumption DEF PlainJob, Job
<1>4. work \in [Workers -> Work] /\ Busy
  BY DEF Init, Work, IdleWork, Steps, Busy
<1>5. meta \in [Containers -> Container]
  BY ChosenPost DEF Init, Blank, NewContainer, Container
<1>6. sweep \in [Posts -> Sweep] /\ req \in [Users -> Request]
  BY ChosenPost DEF Init, Sweep, IdleSweep, SweepSteps, Request, NoRequest, Status
<1>7. campaign \in [Posts -> [active : BOOLEAN, media : Nat]] /\ fuel \in Fuel /\ feed = <<>>
  BY ContentAssumption DEF Init, Fuel
<1> QED
  BY <1>2, <1>3, <1>4, <1>5, <1>6, <1>7 DEF Typed, TypeOK, Init

\* Reading and writing one field of a row, of a worker, of a container.
LEMMA RowFields ==
  \A r \in Row :
    /\ r.status \in Status /\ r.attempts \in Nat /\ r.slot \in Nat /\ r.content \in Nat
    /\ r.container \in Containers \cup {NoContainer}
    /\ r.manual \in BOOLEAN /\ r.deleted \in BOOLEAN /\ r.igMedia \in Nat
    /\ \A x \in Status : [r EXCEPT !.status = x] \in Row
    /\ \A x \in Nat : /\ [r EXCEPT !.attempts = x] \in Row /\ [r EXCEPT !.slot = x] \in Row
                     /\ [r EXCEPT !.content = x] \in Row /\ [r EXCEPT !.igMedia = x] \in Row
    /\ \A x \in Containers \cup {NoContainer} : [r EXCEPT !.container = x] \in Row
    /\ \A x \in BOOLEAN : /\ [r EXCEPT !.manual = x] \in Row /\ [r EXCEPT !.deleted = x] \in Row
                         /\ [r EXCEPT !.linkFailed = x] \in Row
  BY DEF Row

\* The same worker on the same job.
OnSameJob(r, x) == x \in Work /\ x.job = r.job

LEMMA WorkFields ==
  \A r \in Work :
    /\ r.pc \in Steps /\ r.content \in Nat /\ r.slot \in Nat /\ r.attempts \in Nat /\ r.media \in Nat
    /\ r.container \in Containers \cup {NoContainer}
    /\ \A x \in Steps : [r EXCEPT !.pc = x] \in Work
    /\ \A x \in BOOLEAN : [r EXCEPT !.inline = x] \in Work /\ [r EXCEPT !.rebuilt = x] \in Work
    /\ \A x \in Nat : /\ [r EXCEPT !.content = x] \in Work /\ [r EXCEPT !.slot = x] \in Work
                     /\ [r EXCEPT !.attempts = x] \in Work /\ [r EXCEPT !.media = x] \in Work
    /\ \A x \in Containers \cup {NoContainer} : [r EXCEPT !.container = x] \in Work
  BY DEF Work

LEMMA ContainerFields ==
  \A r \in Container :
    /\ r.post \in Posts /\ r.content \in Nat
    /\ \A x \in {"IN_PROGRESS", "FINISHED", "PUBLISHED"} : [r EXCEPT !.state = x] \in Container
    /\ \A x \in BOOLEAN : [r EXCEPT !.open = x] \in Container
  BY DEF Container

LEMMA MetaTyped ==
  ASSUME NEW m \in [Containers -> Container], NEW c
  PROVE  /\ \A s \in {"IN_PROGRESS", "FINISHED", "PUBLISHED"} : [m EXCEPT ![c].state = s] \in [Containers -> Container]
         /\ \A b \in BOOLEAN : [m EXCEPT ![c].open = b] \in [Containers -> Container]
<1>1. CASE c \in Containers
  BY <1>1, ContainerFields
<1>2. CASE c \notin Containers
  BY <1>2
<1> QED
  BY <1>1, <1>2

LEMMA JobFields ==
  \A j \in Job :
    /\ j.post \in Posts /\ j.kind \in {"prepare", "publish"} /\ j.attempt \in Nat /\ j.retry \in Nat
    /\ \A x \in {"prepare", "publish"} : [j EXCEPT !.kind = x] \in Job
    /\ \A x \in {"plain", "retry", "lock"} : [j EXCEPT !.tag = x] \in Job
    /\ \A x \in Nat : [j EXCEPT !.at = x] \in Job
  BY DEF Job

LEMMA IdleTyped == IdleWork \in Work /\ IdleWork.pc = "idle"
  BY DEF IdleWork, Work, Steps

\* The shapes the actions give a worker's state.
LEMMA DoneTyped ==
  ASSUME Typed, NEW w \in Workers, Done(w)
  PROVE  work' \in [Workers -> Work] /\ Busy'
  BY IdleTyped DEF Typed, TypeOK, Busy, Done

LEMMA OnlyTyped ==
  ASSUME Typed, NEW w \in Workers, ~At(w, "idle"), NEW step \in Steps, Only(w, step)
  PROVE  work' \in [Workers -> Work] /\ Busy'
  BY DEF Typed, TypeOK, Busy, Only, At, IdleWork, Work

\* The same job in a state of any other shape.
LEMMA SameJobTyped ==
  ASSUME Typed, NEW w \in Workers, ~At(w, "idle"),
         NEW x, OnSameJob(work[w], x), work' = [work EXCEPT ![w] = x]
  PROVE  work' \in [Workers -> Work] /\ Busy'
  BY DEF Typed, TypeOK, Busy, At, OnSameJob

LEMMA GotoTyped ==
  ASSUME Typed, NEW w \in Workers, ~At(w, "idle"), NEW step \in Steps, Goto(w, step)
  PROVE  work' \in [Workers -> Work] /\ Busy'
<1> DEFINE x == [work[w] EXCEPT !.pc = step]
<1>1. work[w] \in Work
  BY DEF Typed, TypeOK
<1>2. x \in Work /\ x.job = work[w].job
  BY <1>1, WorkFields DEF Work
<1>3. work' = [work EXCEPT ![w] = x]
  BY DEF Goto
<1> QED
  BY <1>2, <1>3, SameJobTyped DEF OnSameJob

LEMMA PostTyped ==
  ASSUME Typed, NEW w \in Workers, ~At(w, "idle")
  PROVE  /\ Post(w) \in Posts /\ row[Post(w)] \in Row /\ work[w] \in Work /\ work[w].job \in Job
         /\ work[w].job.retry \in Nat /\ work[w].job.attempt \in Nat
  BY JobFields DEF Typed, TypeOK, Busy, At, Post

LEMMA AddTyped ==
  \A q \in SUBSET Job, j \in Job : \A active : Add(q, active, j) \in SUBSET Job
  BY DEF Add

LEMMA PlainTyped ==
  \A p \in Posts, kind \in {"prepare", "publish"}, a, at \in Nat : PlainJob(p, kind, a, at) \in Job
  BY DEF PlainJob, Job

LEMMA RetryTyped ==
  \A p \in Posts, kind \in {"prepare", "publish"}, a, r \in Nat : RetryJob(p, kind, a, r) \in Job
  BY DEF RetryJob, Job

LEMMA WithoutTyped == \A q \in SUBSET Job : \A p, a : WithoutJobs(q, p, a) \in SUBSET Job
  BY DEF WithoutJobs

LEMMA ArmedTyped ==
  ASSUME TypeOK, NEW q \in SUBSET Job, NEW p \in Posts, NEW a \in Nat, NEW slot \in Nat
  PROVE  Armed(q, p, a, slot) \in SUBSET Job
<1> DEFINE prepared == Add(q, Active, PlainJob(p, "prepare", a, Until(slot - 1)))
<1>1. now \in Nat /\ Until(slot) \in Nat /\ Until(slot - 1) \in Nat
  BY DEF TypeOK, Until
<1>2. prepared \in SUBSET Job
  BY <1>1, AddTyped, PlainTyped
<1>3. Add(prepared, Active, PlainJob(p, "publish", a, Until(slot))) \in SUBSET Job
  BY <1>1, <1>2, AddTyped, PlainTyped
<1> QED
  BY <1>3 DEF Armed

LEMMA MoveTyped ==
  ASSUME TypeOK, NEW p \in Posts, NEW from, NEW r \in Row, Move(p, from, r)
  PROVE  row' \in [Posts -> Row]
  BY DEF TypeOK, Move

LEMMA FailPostTyped ==
  ASSUME TypeOK, NEW p \in Posts, NEW toManual \in BOOLEAN, FailPost(p, toManual)
  PROVE  row' \in [Posts -> Row]
<1> DEFINE s == IF toManual THEN "NEEDS_MANUAL" ELSE "FAILED"
<1>1. row[p] \in Row /\ s \in Status /\ (row[p].manual \/ toManual) \in BOOLEAN
  BY DEF TypeOK, Status
<1>2. [row[p] EXCEPT !.status = s, !.manual = @ \/ toManual] \in Row
  BY <1>1, RowFields
<1> QED
  BY <1>2, MoveTyped DEF FailPost

LEMMA FinishTyped ==
  ASSUME TypeOK, NEW p \in Posts, NEW m \in Nat, Finish(p, m)
  PROVE  row' \in [Posts -> Row] /\ campaign' \in [Posts -> [active : BOOLEAN, media : Nat]]
<1>1. row[p] \in Row /\ "PUBLISHED" \in Status
  BY DEF TypeOK, Status
<1>2. \A b \in BOOLEAN : [row EXCEPT ![p].status = "PUBLISHED", ![p].igMedia = m, ![p].linkFailed = b] \in [Posts -> Row]
  BY <1>1, RowFields DEF TypeOK
<1>3. row' \in [Posts -> Row]
  <2>1. CASE Taken(p, m)
    BY <2>1 DEF Finish, TypeOK
  <2>2. CASE ~Taken(p, m)
    <3>1. \E b \in BOOLEAN : row' = [row EXCEPT ![p].status = "PUBLISHED", ![p].igMedia = m, ![p].linkFailed = b]
      BY <2>2 DEF Finish
    <3> QED
      BY <1>2, <3>1
  <2> QED
    BY <2>1, <2>2
<1>4. campaign' = [campaign EXCEPT ![p] = [active |-> TRUE, media |-> m]] \/ campaign' = campaign
  BY DEF Finish
<1>5. [active |-> TRUE, media |-> m] \in [active : BOOLEAN, media : Nat]
  OBVIOUS
<1> QED
  BY <1>3, <1>4, <1>5 DEF TypeOK
-----------------------------------------------------------------------------
(* Each action keeps the types *)

LEMMA TakeTyped == ASSUME Typed, NEW w \in Workers, Take(w) PROVE Typed'
<1>1. PICK j \in queue : /\ queue' = queue \ {j}
                         /\ work' = [work EXCEPT ![w] = [IdleWork EXCEPT !.pc = j.kind, !.job = j]]
  BY DEF Take
<1>2. j \in Job /\ j.kind \in Steps
  BY JobFields DEF Typed, TypeOK, Steps, PrepareSteps
<1>3. [IdleWork EXCEPT !.pc = j.kind, !.job = j] \in Work
  BY <1>2 DEF IdleWork, Work, Steps
<1>4. work' \in [Workers -> Work] /\ Busy'
  BY <1>1, <1>2, <1>3 DEF Typed, TypeOK, Busy, IdleWork
<1> QED
  BY <1>1, <1>4, KnownType DEF Typed, TypeOK, Take, Env, Others

LEMMA PrepareLoadTyped == ASSUME Typed, NEW w \in Workers, PrepareLoad(w) PROVE Typed'
<1> DEFINE claimed == [work[w] EXCEPT !.pc = "claim", !.content = row[Post(w)].content, !.slot = row[Post(w)].slot]
<1>1. ~At(w, "idle") /\ work[w] \in Work /\ row[Post(w)] \in Row
  BY PostTyped DEF PrepareLoad, At
<1>2. Done(w) \/ Only(w, "reload") \/ Only(w, "fail") \/ work' = [work EXCEPT ![w] = claimed]
  BY <1>1 DEF PrepareLoad, Typed, TypeOK
<1>3. OnSameJob(work[w], claimed)
  <2>1. claimed \in Work
    BY <1>1, WorkFields, RowFields DEF Steps, PrepareSteps
  <2>2. claimed.job = work[w].job
    BY <1>1 DEF Work
  <2> QED
    BY <2>1, <2>2 DEF OnSameJob
<1>4. work' \in [Workers -> Work] /\ Busy'
  BY <1>1, <1>2, <1>3, DoneTyped, OnlyTyped, SameJobTyped DEF Steps
<1> QED
  BY <1>4 DEF Typed, TypeOK, PrepareLoad, Env, Others

LEMMA PrepareClaimTyped == ASSUME Typed, NEW w \in Workers, PrepareClaim(w) PROVE Typed'
<1>1. ~At(w, "idle") /\ Post(w) \in Posts /\ row[Post(w)] \in Row
  BY PostTyped DEF PrepareClaim, At
<1>2. work' \in [Workers -> Work] /\ Busy'
  BY <1>1, DoneTyped, GotoTyped DEF PrepareClaim, Steps, PrepareSteps
<1>3. [row[Post(w)] EXCEPT !.status = "PREPARING"] \in Row
  BY <1>1, RowFields DEF Status
<1>4. row' \in [Posts -> Row]
  BY <1>1, <1>3, MoveTyped DEF PrepareClaim, Typed
<1> QED
  BY <1>2, <1>4 DEF Typed, TypeOK, PrepareClaim, Env, Others

LEMMA BuildTyped == ASSUME Typed, NEW w \in Workers, Build(w) PROVE Typed'
<1>1. ~At(w, "idle") /\ Post(w) \in Posts /\ row[Post(w)] \in Row /\ work[w] \in Work
  BY PostTyped DEF Build, At
<1>2. CASE Only(w, "prepareError") /\ UNCHANGED <<meta, row>>
  <2>1. work' \in [Workers -> Work] /\ Busy'
    BY <1>1, <1>2, OnlyTyped DEF Steps, PrepareSteps
  <2> QED
    BY <1>2, <2>1 DEF Typed, TypeOK, Build, Env, Others
<1>3. CASE ~(Only(w, "prepareError") /\ UNCHANGED <<meta, row>>)
  <2>1. PICK c \in Containers :
          /\ meta' = [Known EXCEPT ![c] = NewContainer(Post(w), work[w].content)]
          /\ row' = [row EXCEPT ![Post(w)].container = c]
          /\ work' = [work EXCEPT ![w].pc = "poll", ![w].container = c]
    BY <1>3 DEF Build
  <2> DEFINE polling == [work[w] EXCEPT !.pc = "poll", !.container = c]
  <2>2. NewContainer(Post(w), work[w].content) \in Container
    BY <1>1, WorkFields DEF NewContainer, Container
  <2>3. meta' \in [Containers -> Container]
    BY <2>1, <2>2, KnownType DEF Typed
  <2>4. row' \in [Posts -> Row]
    BY <1>1, <2>1, RowFields DEF Typed, TypeOK
  <2>5. polling \in Work
    BY <1>1, WorkFields DEF Steps, PrepareSteps
  <2>6. polling.job = work[w].job
    BY <1>1 DEF Work
  <2>7. work' \in [Workers -> Work] /\ Busy'
    <3>1. work' = [work EXCEPT ![w] = polling]
      BY <2>1 DEF Typed, TypeOK
    <3> QED
      BY <1>1, <2>5, <2>6, <3>1, SameJobTyped DEF OnSameJob
  <2> QED
    BY <2>3, <2>4, <2>7 DEF Typed, TypeOK, Build, Env, Others
<1> QED
  BY <1>2, <1>3

LEMMA PollTyped == ASSUME Typed, NEW w \in Workers, Poll(w) PROVE Typed'
<1> DEFINE rebuilding == [work[w] EXCEPT !.pc = "build", !.rebuilt = TRUE, !.container = NoContainer]
<1>1. ~At(w, "idle") /\ work[w] \in Work
  BY PostTyped DEF Poll, At
<1>2. Goto(w, "ready") \/ Only(w, "fail") \/ Only(w, "prepareError") \/ work' = [work EXCEPT ![w] = rebuilding]
  BY DEF Poll
<1>3. rebuilding \in Work
  BY <1>1, WorkFields DEF Steps, PrepareSteps
<1>4. rebuilding.job = work[w].job
  BY <1>1 DEF Work
<1>5. work' \in [Workers -> Work] /\ Busy'
  <2>1. {"ready", "fail", "prepareError"} \subseteq Steps
    BY DEF Steps, PrepareSteps
  <2> QED
    BY <1>1, <1>2, <1>3, <1>4, <2>1, GotoTyped, OnlyTyped, SameJobTyped DEF OnSameJob
<1>6. meta' \in [Containers -> Container]
  <2>1. meta' = meta \/ meta' = [meta EXCEPT ![work[w].container].state = "FINISHED"]
    BY DEF Poll
  <2>2. meta \in [Containers -> Container]
    BY DEF Typed, TypeOK
  <2>3. [meta EXCEPT ![work[w].container].state = "FINISHED"] \in [Containers -> Container]
    BY <2>2, MetaTyped
  <2> QED
    BY <2>1, <2>2, <2>3
<1> QED
  BY <1>5, <1>6 DEF Typed, TypeOK, Poll, Env, Others

LEMMA PrepareReadyTyped == ASSUME Typed, NEW w \in Workers, PrepareReady(w) PROVE Typed'
<1>1. ~At(w, "idle") /\ Post(w) \in Posts /\ row[Post(w)] \in Row /\ work[w] \in Work /\ work[w].job.attempt \in Nat
  BY PostTyped DEF PrepareReady, At
<1>2. work' \in [Workers -> Work] /\ Busy'
  BY <1>1, DoneTyped, OnlyTyped DEF PrepareReady, Steps
<1>3. [row[Post(w)] EXCEPT !.status = "READY_TO_PUBLISH", !.container = work[w].container] \in Row
  BY <1>1, RowFields, WorkFields DEF Status
<1>4. row' \in [Posts -> Row]
  BY <1>1, <1>3, MoveTyped DEF PrepareReady, Typed
<1>5. queue' \in SUBSET Job
  BY <1>1, AddTyped, PlainTyped DEF PrepareReady, Typed, TypeOK
<1> QED
  BY <1>2, <1>4, <1>5 DEF Typed, TypeOK, PrepareReady, Env, Others

LEMMA PrepareErrorTyped == ASSUME Typed, NEW w \in Workers, PrepareError(w) PROVE Typed'
<1>1. ~At(w, "idle") /\ Post(w) \in Posts /\ row[Post(w)] \in Row /\ work[w] \in Work
  BY PostTyped DEF PrepareError, At
<1>2. work' \in [Workers -> Work] /\ Busy'
  <2>1. Done(w) \/ Only(w, "fail") \/ Only(w, "refuse")
    BY DEF PrepareError
  <2> QED
    BY <1>1, <2>1, DoneTyped, OnlyTyped DEF Steps
<1>3. row' \in [Posts -> Row]
  <2>1. /\ [row[Post(w)] EXCEPT !.status = "SCHEDULED"] \in Row
        /\ [row[Post(w)] EXCEPT !.status = "SCHEDULED", !.container = NoContainer] \in Row
    BY <1>1, RowFields DEF Status
  <2> QED
    BY <1>1, <2>1, MoveTyped DEF PrepareError, Typed, TypeOK
<1>4. queue' \in SUBSET Job
  <2>1. work[w].job.attempt \in Nat /\ work[w].job.retry + 1 \in Nat
    BY <1>1, PostTyped
  <2>2. RetryJob(Post(w), "prepare", work[w].job.attempt, work[w].job.retry + 1) \in Job
    BY <1>1, <2>1, RetryTyped
  <2> QED
    BY <2>2, AddTyped DEF PrepareError, Typed, TypeOK
<1>5. tokenOk' \in BOOLEAN
  BY DEF PrepareError, Typed, TypeOK
<1> QED
  BY <1>2, <1>3, <1>4, <1>5 DEF Typed, TypeOK, PrepareError, Others

LEMMA FailTyped == ASSUME Typed, NEW w \in Workers, Fail(w) PROVE Typed'
<1>1. ~At(w, "idle") /\ Post(w) \in Posts
  BY PostTyped DEF Fail, At
<1>2. row' \in [Posts -> Row]
  <2> DEFINE toManual == work[w].pc \in {"refuse", "refuseLocked"}
  <2>1. toManual \in BOOLEAN
    OBVIOUS
  <2>2. FailPost(Post(w), toManual)
    BY DEF Fail
  <2> HIDE DEF toManual
  <2> QED
    BY <1>1, <2>1, <2>2, FailPostTyped DEF Typed
<1> QED
  BY <1>2, DoneTyped DEF Typed, TypeOK, Fail, Release, Env, Others

LEMMA CheckReadyTyped ==
  ASSUME Typed, NEW w \in Workers, ~At(w, "idle"), CheckReady(w)
  PROVE  work' \in [Workers -> Work] /\ Busy'
<1>1. Done(w) \/ Only(w, "fail") \/ Only(w, "lock")
  BY DEF CheckReady
<1> QED
  BY <1>1, DoneTyped, OnlyTyped DEF Steps

LEMMA PublishLoadTyped == ASSUME Typed, NEW w \in Workers, PublishLoad(w) PROVE Typed'
<1> DEFINE inlined == [work[w] EXCEPT !.pc = "prepare", !.inline = TRUE]
<1>1. ~At(w, "idle") /\ work[w] \in Work
  BY PostTyped DEF PublishLoad, At
<1>2. inlined \in Work
  BY <1>1, WorkFields DEF Steps, PrepareSteps
<1>3. inlined.job = work[w].job
  BY <1>1 DEF Work
<1>4. Done(w) \/ CheckReady(w) \/ work' = [work EXCEPT ![w] = inlined]
  BY DEF PublishLoad
<1>5. work' \in [Workers -> Work] /\ Busy'
  BY <1>1, <1>2, <1>3, <1>4, DoneTyped, CheckReadyTyped, SameJobTyped DEF OnSameJob
<1> QED
  BY <1>5 DEF Typed, TypeOK, PublishLoad, Env, Others

LEMMA ReloadTyped == ASSUME Typed, NEW w \in Workers, Reload(w) PROVE Typed'
<1>1. work' \in [Workers -> Work] /\ Busy'
  BY CheckReadyTyped DEF Reload, At
<1> QED
  BY <1>1 DEF Typed, TypeOK, Reload, Env, Others

LEMMA AcquireLockTyped == ASSUME Typed, NEW w \in Workers, AcquireLock(w) PROVE Typed'
<1>1. ~At(w, "idle") /\ work[w].job \in Job
  BY PostTyped DEF AcquireLock, At
<1>2. Goto(w, "cas") \/ Done(w)
  BY DEF AcquireLock
<1>3. work' \in [Workers -> Work] /\ Busy'
  BY <1>1, <1>2, DoneTyped, GotoTyped DEF Steps, LockedSteps
<1>4. [work[w].job EXCEPT !.kind = "publish", !.tag = "lock", !.at = 0] \in Job
  BY <1>1, JobFields
<1>5. queue' \in SUBSET Job
  BY <1>4, AddTyped DEF AcquireLock, Typed, TypeOK
<1> QED
  BY <1>3, <1>5 DEF Typed, TypeOK, AcquireLock, Env, Others

LEMMA PublishClaimTyped == ASSUME Typed, NEW w \in Workers, PublishClaim(w) PROVE Typed'
<1> DEFINE calling == [work[w] EXCEPT !.pc = "call", !.container = row[Post(w)].container, !.attempts = row[Post(w)].attempts]
<1>1. ~At(w, "idle") /\ Post(w) \in Posts /\ row[Post(w)] \in Row /\ work[w] \in Work
  BY PostTyped DEF PublishClaim, At
<1>2. calling \in Work
  BY <1>1, WorkFields, RowFields DEF Steps, LockedSteps
<1>3. calling.job = work[w].job
  BY <1>1 DEF Work
<1>4. work' = [work EXCEPT ![w] = calling] \/ Done(w)
  BY DEF PublishClaim
<1>5. work' \in [Workers -> Work] /\ Busy'
  BY <1>1, <1>2, <1>3, <1>4, DoneTyped, SameJobTyped DEF OnSameJob
<1>6. row' \in [Posts -> Row]
  <2>1. [row[Post(w)] EXCEPT !.status = "PUBLISHING"] \in Row
    BY <1>1, RowFields DEF Status
  <2> QED
    BY <1>1, <2>1, MoveTyped DEF PublishClaim, Typed
<1>7. lock' \in Workers \cup {NoWorker}
  BY DEF PublishClaim, Release, Typed, TypeOK
<1> QED
  BY <1>5, <1>6, <1>7 DEF Typed, TypeOK, PublishClaim, Env, Others

LEMMA PublishCallTyped == ASSUME Typed, NEW w \in Workers, PublishCall(w) PROVE Typed'
<1> DEFINE c == work[w].container
           finishing == [work[w] EXCEPT !.pc = "finish", !.media = Len(feed) + 1]
<1>1. ~At(w, "idle") /\ work[w] \in Work /\ feed \in Seq([post : Posts, content : Nat, attempt : Nat])
  BY PostTyped DEF PublishCall, At, Typed, TypeOK
<1>2. finishing \in Work
  <2>1. Len(feed) + 1 \in Nat
    BY <1>1
  <2> QED
    BY <1>1, <2>1, WorkFields DEF Steps, LockedSteps
<1>3. finishing.job = work[w].job
  BY <1>1 DEF Work
<1>4. Goto(w, "ask") \/ Goto(w, "publishError") \/ work' = [work EXCEPT ![w] = finishing]
  BY DEF PublishCall
<1>5. work' \in [Workers -> Work] /\ Busy'
  BY <1>1, <1>2, <1>3, <1>4, GotoTyped, SameJobTyped DEF OnSameJob, Steps, LockedSteps
<1>6. meta' \in [Containers -> Container]
  <2> DEFINE heard == [meta EXCEPT ![c].open = FALSE]
             lost == [meta EXCEPT ![c].open = TRUE]
  <2>1. heard \in [Containers -> Container] /\ lost \in [Containers -> Container]
    BY MetaTyped DEF Typed, TypeOK
  <2>2. /\ [heard EXCEPT ![c].state = "PUBLISHED"] \in [Containers -> Container]
        /\ [lost EXCEPT ![c].state = "PUBLISHED"] \in [Containers -> Container]
    BY <2>1, MetaTyped
  <2>3. meta' \in {heard, lost, [heard EXCEPT ![c].state = "PUBLISHED"], [lost EXCEPT ![c].state = "PUBLISHED"]}
    BY DEF PublishCall
  <2> QED
    BY <2>1, <2>2, <2>3
<1>7. feed' \in Seq([post : Posts, content : Nat, attempt : Nat])
  <2>1. CASE feed' = feed
    BY <1>1, <2>1
  <2>2. CASE feed' # feed
    <3>1. meta[c].state = "FINISHED" /\ feed' = Append(feed, [post |-> meta[c].post, content |-> meta[c].content,
                                                             attempt |-> work[w].attempts])
      BY <2>2 DEF PublishCall
    <3>2. c \in Containers
      BY <1>1, <2>2, WorkFields DEF PublishCall
    <3>3. [post |-> meta[c].post, content |-> meta[c].content, attempt |-> work[w].attempts]
            \in [post : Posts, content : Nat, attempt : Nat]
      BY <1>1, <3>2, ContainerFields, WorkFields DEF Typed, TypeOK
    <3> QED
      BY <1>1, <3>1, <3>3
  <2> QED
    BY <2>1, <2>2
<1> QED
  BY <1>5, <1>6, <1>7 DEF Typed, TypeOK, PublishCall, Env, Others

LEMMA NewestTyped == ASSUME TypeOK PROVE Newest \subseteq Nat
  BY DEF TypeOK, Newest

LEMMA AskTyped == ASSUME Typed, NEW w \in Workers, Ask(w) PROVE Typed'
<1>1. ~At(w, "idle") /\ work[w] \in Work
  BY PostTyped DEF Ask, At
<1>2. work' \in [Workers -> Work] /\ Busy'
  <2>1. Goto(w, "backoff") \/ Only(w, "failLocked")
        \/ \E m \in Newest : work' = [work EXCEPT ![w].pc = "finish", ![w].media = m]
    BY DEF Ask
  <2>2. CASE Goto(w, "backoff") \/ Only(w, "failLocked")
    BY <1>1, <2>2, GotoTyped, OnlyTyped DEF Steps, LockedSteps
  <2>3. ASSUME NEW m \in Newest, work' = [work EXCEPT ![w].pc = "finish", ![w].media = m]
        PROVE  work' \in [Workers -> Work] /\ Busy'
    <3> DEFINE finishing == [work[w] EXCEPT !.pc = "finish", !.media = m]
    <3>1. m \in Nat
      BY NewestTyped DEF Typed
    <3>2. finishing \in Work
      BY <1>1, <3>1, WorkFields DEF Steps, LockedSteps
    <3>3. finishing.job = work[w].job
      BY <1>1 DEF Work
    <3>4. work' = [work EXCEPT ![w] = finishing]
      BY <2>3
    <3> QED
      BY <1>1, <3>2, <3>3, <3>4, SameJobTyped DEF OnSameJob
  <2> QED
    BY <2>1, <2>2, <2>3
<1>3. meta' \in [Containers -> Container]
  <2>1. meta \in [Containers -> Container]
    BY DEF Typed, TypeOK
  <2>2. [meta EXCEPT ![work[w].container].open = FALSE] \in [Containers -> Container]
    BY <2>1, MetaTyped
  <2> QED
    BY <2>1, <2>2 DEF Ask, Inquired
<1> QED
  BY <1>2, <1>3 DEF Typed, TypeOK, Ask, Env, Others

LEMMA BackoffTyped ==
  ASSUME Typed, NEW w \in Workers, ~At(w, "idle"), Backoff(w)
  PROVE  /\ row' \in [Posts -> Row] /\ queue' \in SUBSET Job /\ lock' \in Workers \cup {NoWorker}
         /\ work' \in [Workers -> Work] /\ Busy'
<1>1. Post(w) \in Posts /\ row[Post(w)] \in Row /\ work[w] \in Work /\ work[w].job.retry + 1 \in Nat
  BY PostTyped
<1>2. [row[Post(w)] EXCEPT !.status = "READY_TO_PUBLISH"] \in Row
  BY <1>1, RowFields DEF Status
<1>3. row' \in [Posts -> Row]
  BY <1>1, <1>2, MoveTyped DEF Backoff, Typed, TypeOK
<1>4. queue' \in SUBSET Job
  <2>1. RetryJob(Post(w), "publish", work[w].attempts, work[w].job.retry + 1) \in Job
    BY <1>1, RetryTyped, WorkFields
  <2> QED
    BY <2>1, AddTyped DEF Backoff, Typed, TypeOK
<1>5. work' \in [Workers -> Work] /\ Busy'
  <2>1. Done(w) \/ Only(w, "failLocked")
    BY DEF Backoff
  <2> QED
    BY <2>1, DoneTyped, OnlyTyped DEF Steps, LockedSteps
<1>6. lock' \in Workers \cup {NoWorker}
  BY DEF Backoff, Release, Typed, TypeOK
<1> QED
  BY <1>3, <1>4, <1>5, <1>6

LEMMA QuotaMoveTyped ==
  ASSUME Typed, NEW w \in Workers, ~At(w, "idle"), QuotaMove(w)
  PROVE  /\ row' \in [Posts -> Row] /\ queue' \in SUBSET Job /\ lock' \in Workers \cup {NoWorker}
         /\ work' \in [Workers -> Work] /\ Busy'
<1> DEFINE p == Post(w)
<1>1. p \in Posts /\ row[p] \in Row /\ work[w] \in Work
  BY PostTyped
<1>2. PICK slot \in (now + 1)..MaxSlot :
        /\ Move(p, {"PUBLISHING"}, [row[p] EXCEPT !.status = "SCHEDULED", !.slot = slot,
                                                  !.attempts = @ + 1, !.container = NoContainer])
        /\ queue' = Add(queue, Active, PlainJob(p, "publish", work[w].attempts + 1, slot))
        /\ Release(w) /\ Done(w)
  BY DEF QuotaMove
<1>3. slot \in Nat /\ row[p].attempts + 1 \in Nat /\ work[w].attempts + 1 \in Nat
  <2>1. now \in Nat /\ MaxSlot \in Nat
    BY ContentAssumption DEF Typed, TypeOK
  <2>2. row[p].attempts \in Nat /\ work[w].attempts \in Nat
    BY <1>1, RowFields, WorkFields
  <2> QED
    BY <2>1, <2>2
<1>4. [row[p] EXCEPT !.status = "SCHEDULED", !.slot = slot, !.attempts = @ + 1, !.container = NoContainer] \in Row
  BY <1>1, <1>3, RowFields DEF Status
<1>5. row' \in [Posts -> Row]
  BY <1>1, <1>2, <1>4, MoveTyped DEF Typed
<1>6. queue' \in SUBSET Job
  <2>1. PlainJob(p, "publish", work[w].attempts + 1, slot) \in Job
    BY <1>1, <1>3, PlainTyped
  <2> QED
    BY <1>2, <2>1, AddTyped DEF Typed, TypeOK
<1>7. lock' \in Workers \cup {NoWorker}
  BY <1>2 DEF Release, Typed, TypeOK
<1> QED
  BY <1>2, <1>5, <1>6, <1>7, DoneTyped

LEMMA PublishErrorTyped == ASSUME Typed, NEW w \in Workers, PublishError(w) PROVE Typed'
<1> DEFINE changed == /\ row' \in [Posts -> Row] /\ queue' \in SUBSET Job /\ lock' \in Workers \cup {NoWorker}
                      /\ work' \in [Workers -> Work] /\ Busy'
<1>1. /\ ~At(w, "idle") /\ Post(w) \in Posts /\ row[Post(w)] \in Row /\ work[w] \in Work
      /\ work[w].job.retry + 1 \in Nat
  BY PostTyped DEF PublishError, At
<1>2. Release(w) => lock' \in Workers \cup {NoWorker}
  BY DEF Release, Typed, TypeOK
<1>3. ASSUME Move(Post(w), {"PUBLISHING"}, [row[Post(w)] EXCEPT !.status = "READY_TO_PUBLISH"]),
             Release(w), Done(w), UNCHANGED queue
      PROVE  changed
  <2>1. [row[Post(w)] EXCEPT !.status = "READY_TO_PUBLISH"] \in Row
    BY <1>1, RowFields DEF Status
  <2>2. row' \in [Posts -> Row]
    BY <1>1, <1>3, <2>1, MoveTyped DEF Typed
  <2> QED
    BY <1>2, <1>3, <2>2, DoneTyped DEF Typed, TypeOK
<1>4. ASSUME QuotaMove(w) PROVE changed
  BY <1>1, <1>4, QuotaMoveTyped
<1>5. ASSUME NEW next \in {"failLocked", "refuseLocked"}, Only(w, next), UNCHANGED <<row, queue, lock>>
      PROVE  changed
  BY <1>1, <1>5, OnlyTyped DEF Steps, LockedSteps, Typed, TypeOK
<1>6. ASSUME Backoff(w) PROVE changed
  BY <1>1, <1>6, BackoffTyped
<1>7. ASSUME Move(Post(w), {"PUBLISHING"}, [row[Post(w)] EXCEPT !.status = "SCHEDULED", !.container = NoContainer]),
             queue' = Add(queue, Active, RetryJob(Post(w), "prepare", work[w].attempts, work[w].job.retry + 1)),
             Release(w), Done(w)
      PROVE  changed
  <2>1. [row[Post(w)] EXCEPT !.status = "SCHEDULED", !.container = NoContainer] \in Row
    BY <1>1, RowFields DEF Status
  <2>2. row' \in [Posts -> Row]
    BY <1>1, <1>7, <2>1, MoveTyped DEF Typed
  <2>3. RetryJob(Post(w), "prepare", work[w].attempts, work[w].job.retry + 1) \in Job
    BY <1>1, RetryTyped, WorkFields
  <2>4. queue' \in SUBSET Job
    BY <1>7, <2>3, AddTyped DEF Typed, TypeOK
  <2> QED
    BY <1>2, <1>7, <2>2, <2>4, DoneTyped
<1>8. changed
  BY <1>3, <1>4, <1>5, <1>6, <1>7 DEF PublishError
<1> QED
  BY <1>8 DEF Typed, TypeOK, PublishError, Others

LEMMA PublishBackoffTyped == ASSUME Typed, NEW w \in Workers, PublishBackoff(w) PROVE Typed'
<1>1. ~At(w, "idle")
  BY DEF PublishBackoff, At
<1> QED
  BY <1>1, BackoffTyped DEF Typed, TypeOK, PublishBackoff, Env, Others

LEMMA PublishFinishTyped == ASSUME Typed, NEW w \in Workers, PublishFinish(w) PROVE Typed'
<1>1. ~At(w, "idle") /\ Post(w) \in Posts /\ work[w].media \in Nat
  BY PostTyped, WorkFields DEF PublishFinish, At
<1>2. row' \in [Posts -> Row] /\ campaign' \in [Posts -> [active : BOOLEAN, media : Nat]]
  BY <1>1, FinishTyped DEF PublishFinish, Typed
<1> QED
  BY <1>2, DoneTyped DEF Typed, TypeOK, PublishFinish, Release, Env, Others

-----------------------------------------------------------------------------
(* The sweeper *)

LEMMA SweepFields ==
  \A s \in Sweep :
    /\ s.step \in SweepSteps /\ s.attempt \in Nat /\ s.media \in Nat
    /\ \A x \in SweepSteps : [s EXCEPT !.step = x] \in Sweep
    /\ \A x \in Nat : [s EXCEPT !.media = x] \in Sweep
  BY DEF Sweep

LEMMA SweepDoneTyped ==
  ASSUME TypeOK, NEW p \in Posts, SweepDone(p) PROVE sweep' \in [Posts -> Sweep]
  BY DEF TypeOK, SweepDone, IdleSweep, Sweep, SweepSteps

LEMMA SweepReadTyped == ASSUME Typed, NEW p \in Posts, SweepRead(p) PROVE Typed'
<1>1. row[p].attempts \in Nat
  BY RowFields DEF Typed, TypeOK
<1>2. \A s \in {"manual", "late", "requeue"} : [step |-> s, attempt |-> row[p].attempts, media |-> 0] \in Sweep
  BY <1>1 DEF Sweep, SweepSteps
<1>3. \E s \in {"manual", "late", "requeue"} :
        sweep' = [sweep EXCEPT ![p] = [step |-> s, attempt |-> row[p].attempts, media |-> 0]]
  BY DEF SweepRead
<1>4. sweep' \in [Posts -> Sweep]
  BY <1>2, <1>3 DEF Typed, TypeOK
<1> QED
  BY <1>4 DEF Typed, TypeOK, Busy, SweepRead, Env

LEMMA SweepRequeueTyped == ASSUME Typed, NEW p \in Posts, SweepRequeue(p) PROVE Typed'
<1>1. sweep[p].attempt \in Nat
  BY SweepFields DEF Typed, TypeOK
<1>2. PlainJob(p, "publish", sweep[p].attempt, 0) \in Job
  BY <1>1, PlainTyped
<1>3. queue' \in SUBSET Job
  BY <1>2, AddTyped DEF SweepRequeue, Typed, TypeOK
<1> QED
  BY <1>3, SweepDoneTyped DEF Typed, TypeOK, Busy, SweepRequeue, Env

LEMMA SweepFailTyped == ASSUME Typed, NEW p \in Posts, SweepFail(p) PROVE Typed'
<1>1. row' \in [Posts -> Row]
  BY FailPostTyped DEF SweepFail, Typed
<1>2. sweep' \in [Posts -> Sweep]
  BY SweepDoneTyped DEF SweepFail, Typed
<1> QED
  BY <1>1, <1>2 DEF Typed, TypeOK, Busy, SweepFail, Env

LEMMA SweepManualTyped == ASSUME Typed, NEW p \in Posts, SweepManual(p) PROVE Typed'
<1>1. row[p] \in Row /\ "NEEDS_MANUAL" \in Status
  BY DEF Typed, TypeOK, Status
<1>2. [row EXCEPT ![p].status = "NEEDS_MANUAL", ![p].manual = TRUE] \in [Posts -> Row]
  BY <1>1, RowFields DEF Typed, TypeOK
<1>3. row' \in [Posts -> Row]
  BY <1>2 DEF SweepManual, Typed, TypeOK
<1>5. queue' \in SUBSET Job
  <2>1. queue' = queue \/ queue' = WithoutJobs(queue, p, row[p].attempts)
    BY DEF SweepManual
  <2> QED
    BY <2>1, WithoutTyped DEF Typed, TypeOK
<1>4. sweep' \in [Posts -> Sweep]
  BY SweepDoneTyped DEF SweepManual, Typed
<1> QED
  BY <1>3, <1>4, <1>5 DEF Typed, TypeOK, Busy, SweepManual, Env

LEMMA SweepStuckTyped == ASSUME Typed, NEW p \in Posts, SweepStuck(p) PROVE Typed'
<1>1. sweep' \in [Posts -> Sweep]
  BY SweepFields DEF SweepStuck, Typed, TypeOK, SweepSteps
<1> QED
  BY <1>1 DEF Typed, TypeOK, Busy, SweepStuck, Env

LEMMA SweepRecoverTyped == ASSUME Typed, NEW p \in Posts, SweepRecover(p) PROVE Typed'
<1>1. PICK step \in SweepSteps, m \in Nat : sweep' = [sweep EXCEPT ![p].step = step, ![p].media = m]
  BY NewestTyped DEF SweepRecover, SweepSteps, Typed
<1>2. sweep' \in [Posts -> Sweep]
  <2>1. sweep[p] \in Sweep
    BY DEF Typed, TypeOK
  <2>2. [sweep[p] EXCEPT !.step = step, !.media = m] \in Sweep
    BY <2>1, SweepFields
  <2> QED
    BY <1>1, <2>2 DEF Typed, TypeOK
<1>3. meta' \in [Containers -> Container]
  <2>1. meta \in [Containers -> Container]
    BY DEF Typed, TypeOK
  <2>2. [meta EXCEPT ![row[p].container].open = FALSE] \in [Containers -> Container]
    BY <2>1, MetaTyped
  <2> QED
    BY <2>1, <2>2 DEF SweepRecover, Inquired
<1> QED
  BY <1>2, <1>3 DEF Typed, TypeOK, Busy, SweepRecover, Env

LEMMA SweepFoundTyped == ASSUME Typed, NEW p \in Posts, SweepFound(p) PROVE Typed'
<1>1. sweep[p].media \in Nat
  BY SweepFields DEF Typed, TypeOK
<1>2. row' \in [Posts -> Row] /\ campaign' \in [Posts -> [active : BOOLEAN, media : Nat]]
  BY <1>1, FinishTyped DEF SweepFound, Typed
<1>3. sweep' \in [Posts -> Sweep]
  BY SweepDoneTyped DEF SweepFound, Typed
<1> QED
  BY <1>2, <1>3 DEF Typed, TypeOK, Busy, SweepFound, Env

LEMMA SweepFinishedTyped == ASSUME Typed, NEW p \in Posts, SweepFinished(p) PROVE Typed'
<1>1. row[p] \in Row /\ row[p].attempts \in Nat
  BY RowFields DEF Typed, TypeOK
<1>2. [row[p] EXCEPT !.status = "READY_TO_PUBLISH"] \in Row
  BY <1>1, RowFields DEF Status
<1>3. row' \in [Posts -> Row]
  BY <1>2, MoveTyped DEF SweepFinished, Typed
<1>4. PlainJob(p, "publish", row[p].attempts, 0) \in Job
  BY <1>1, PlainTyped
<1>5. queue' \in SUBSET Job
  BY <1>4, AddTyped DEF SweepFinished, Typed, TypeOK
<1>6. sweep' \in [Posts -> Sweep]
  BY SweepDoneTyped DEF SweepFinished, Typed
<1> QED
  BY <1>3, <1>5, <1>6 DEF Typed, TypeOK, Busy, SweepFinished, Env

LEMMA SweepRelinkTyped == ASSUME Typed, NEW p \in Posts, SweepRelink(p) PROVE Typed'
<1>1. row[p] \in Row /\ row[p].igMedia \in Nat
  BY RowFields DEF Typed, TypeOK
<1>2. row' \in [Posts -> Row]
  BY <1>1, RowFields DEF SweepRelink, Typed, TypeOK
<1>3. campaign' \in [Posts -> [active : BOOLEAN, media : Nat]]
  BY <1>1 DEF SweepRelink, Typed, TypeOK
<1> QED
  BY <1>2, <1>3 DEF Typed, TypeOK, Busy, SweepRelink, Env, Others

-----------------------------------------------------------------------------
(* Users, time and faults *)

LEMMA SpendTyped ==
  ASSUME TypeOK, NEW what \in {"requests", "crashes", "losses"}, Spend(what)
  PROVE  fuel' \in Fuel
<1>1. \A x \in Nat : x > 0 => x - 1 \in Nat
  OBVIOUS
<1> QED
  BY <1>1 DEF TypeOK, Spend, Fuel

LEMMA RequestFields ==
  \A q \in Request :
    /\ q.post \in Posts /\ q.attempts \in Nat /\ q.slot \in Nat /\ q.status \in Status
    /\ \A x \in {"none", "schedule", "cancel", "delete"} : [q EXCEPT !.op = x] \in Request
    /\ \A x \in Posts : [q EXCEPT !.post = x] \in Request
  BY DEF Request

LEMMA NoRequestTyped == NoRequest \in Request
  BY ChosenPost DEF NoRequest, Request, Status

LEMMA ScheduleLoadTyped ==
  ASSUME Typed, NEW u \in Users, NEW p \in Posts, ScheduleLoad(u, p) PROVE Typed'
<1>1. PICK slot \in now..MaxSlot :
        req' = [req EXCEPT ![u] = [op |-> "schedule", post |-> p, status |-> row[p].status,
                                   attempts |-> row[p].attempts, slot |-> slot]]
  BY DEF ScheduleLoad
<1>2. row[p].status \in Status /\ row[p].attempts \in Nat
  BY RowFields DEF Typed, TypeOK
<1>3. slot \in Nat
  BY ContentAssumption DEF Typed, TypeOK
<1>4. req' \in [Users -> Request]
  BY <1>1, <1>2, <1>3 DEF Request, Typed, TypeOK
<1>5. fuel' \in Fuel
  BY SpendTyped DEF ScheduleLoad, Typed
<1> QED
  BY <1>4, <1>5 DEF Typed, TypeOK, Busy, ScheduleLoad

LEMMA ScheduleWriteTyped == ASSUME Typed, NEW u \in Users, ScheduleWrite(u) PROVE Typed'
<1> DEFINE q == req[u]
           cleared == WithoutJobs(queue, q.post, q.attempts)
           new == [row[q.post] EXCEPT !.status = "SCHEDULED", !.slot = q.slot,
                                      !.attempts = q.attempts + 1, !.container = NoContainer]
<1>1. q.post \in Posts /\ q.attempts \in Nat /\ q.attempts + 1 \in Nat /\ q.slot \in Nat
  <2>1. q \in Request
    BY DEF Typed, TypeOK
  <2> HIDE DEF q
  <2>2. q.post \in Posts /\ q.attempts \in Nat /\ q.slot \in Nat
    BY <2>1, RequestFields
  <2> QED
    BY <2>2
<1>2. new \in Row
  <2>1. row[q.post] \in Row /\ "SCHEDULED" \in Status
    BY <1>1 DEF Typed, TypeOK, Status
  <2> QED
    BY <1>1, <2>1, RowFields
<1>3. row' = [row EXCEPT ![q.post] = new] \/ row' = row
  BY DEF ScheduleWrite
<1>4. row' \in [Posts -> Row]
  BY <1>1, <1>2, <1>3 DEF Typed, TypeOK
<1>5. cleared \in SUBSET Job
  BY WithoutTyped DEF Typed, TypeOK
<1>6. Armed(cleared, q.post, q.attempts + 1, q.slot) \in SUBSET Job
  BY <1>1, <1>5, ArmedTyped DEF Typed
<1>7. queue' \in {cleared, Armed(cleared, q.post, q.attempts + 1, q.slot)}
  BY DEF ScheduleWrite
<1>8. req' \in [Users -> Request]
  BY NoRequestTyped DEF ScheduleWrite, Typed, TypeOK
<1> QED
  BY <1>4, <1>5, <1>6, <1>7, <1>8 DEF Typed, TypeOK, Busy, ScheduleWrite, Env

LEMMA UserMoveTyped ==
  ASSUME TypeOK, NEW p \in Posts, NEW from, NEW to \in Status, UserMove(p, from, to)
  PROVE  row' \in [Posts -> Row] /\ queue' \in SUBSET Job /\ fuel' \in Fuel
<1> DEFINE slot == IF to = "DRAFT" THEN 0 ELSE row[p].slot
           container == IF to = "DRAFT" THEN NoContainer ELSE row[p].container
<1>1. row[p] \in Row /\ slot \in Nat /\ container \in Containers \cup {NoContainer}
  BY RowFields DEF TypeOK
<1>2. [row[p] EXCEPT !.status = to, !.slot = slot, !.container = container] \in Row
  BY <1>1, RowFields
<1>3. row' = [row EXCEPT ![p] = [row[p] EXCEPT !.status = to, !.slot = slot, !.container = container]]
  BY DEF UserMove, TypeOK
<1>4. row' \in [Posts -> Row]
  BY <1>2, <1>3 DEF TypeOK
<1>5. queue' \in SUBSET Job
  BY WithoutTyped DEF UserMove, TypeOK
<1>6. fuel' \in Fuel
  BY SpendTyped DEF UserMove
<1> QED
  BY <1>4, <1>5, <1>6

LEMMA LeaveTyped == ASSUME Typed, NEW p \in Posts, Leave(p) PROVE Typed'
<1>1. {"PAUSED", "DRAFT", "PUBLISHED_MANUAL"} \subseteq Status
  BY DEF Status
<1>2. row' \in [Posts -> Row] /\ queue' \in SUBSET Job /\ fuel' \in Fuel
  BY <1>1, UserMoveTyped DEF Leave, Typed
<1> QED
  BY <1>2 DEF Typed, TypeOK, Busy, Leave, Others

LEMMA CancelWriteTyped ==
  ASSUME Typed, NEW u \in Users, NEW p \in Posts, CancelWrite(u, p) PROVE Typed'
<1>1. "CANCELED" \in Status
  BY DEF Status
<1>2. row' \in [Posts -> Row] /\ queue' \in SUBSET Job /\ fuel' \in Fuel
  BY <1>1, UserMoveTyped DEF CancelWrite, Typed
<1>3. [NoRequest EXCEPT !.op = "cancel", !.post = p] \in Request
  BY NoRequestTyped, RequestFields
<1>4. req' \in [Users -> Request]
  BY <1>3 DEF CancelWrite, Typed, TypeOK
<1> QED
  BY <1>2, <1>4 DEF Typed, TypeOK, Busy, CancelWrite

\* Switching a campaign off.
LEMMA CampaignOffTyped ==
  ASSUME TypeOK, NEW p, campaign' = [campaign EXCEPT ![p].active = FALSE]
  PROVE  campaign' \in [Posts -> [active : BOOLEAN, media : Nat]]
  BY DEF TypeOK

LEMMA CancelCampaignTyped == ASSUME Typed, NEW u \in Users, CancelCampaign(u) PROVE Typed'
<1>1. campaign' \in [Posts -> [active : BOOLEAN, media : Nat]]
  BY CampaignOffTyped DEF CancelCampaign, Typed
<1>2. req' \in [Users -> Request]
  BY NoRequestTyped DEF CancelCampaign, Typed, TypeOK
<1> QED
  BY <1>1, <1>2 DEF Typed, TypeOK, Busy, CancelCampaign, Env

LEMMA EditTyped == ASSUME Typed, NEW p \in Posts, Edit(p) PROVE Typed'
<1> DEFINE cleared == WithoutJobs(queue, p, row[p].attempts)
           armed == Armed(cleared, p, row[p].attempts + 1, row[p].slot)
<1>1. PICK manual \in BOOLEAN, rearm \in BOOLEAN :
        /\ row' = [row EXCEPT ![p] = [row[p] EXCEPT !.content = @ + 1, !.manual = manual,
                                     !.attempts = IF rearm THEN @ + 1 ELSE @]]
        /\ queue' = CASE ~rearm -> queue
                      [] rearm /\ manual -> cleared
                      [] rearm /\ ~manual -> armed
  BY DEF Edit
<1>2. /\ row[p] \in Row /\ row[p].content + 1 \in Nat /\ row[p].attempts + 1 \in Nat
      /\ row[p].attempts \in Nat /\ row[p].slot \in Nat
  BY RowFields DEF Typed, TypeOK
<1>3. [row[p] EXCEPT !.content = @ + 1, !.manual = manual, !.attempts = IF rearm THEN @ + 1 ELSE @] \in Row
  <2> DEFINE attempts == IF rearm THEN row[p].attempts + 1 ELSE row[p].attempts
  <2>1. attempts \in Nat
    BY <1>2
  <2>2. [row[p] EXCEPT !.content = row[p].content + 1, !.manual = manual, !.attempts = attempts] \in Row
    BY <1>2, <2>1, RowFields
  <2> QED
    BY <2>2
<1>4. row' \in [Posts -> Row]
  BY <1>1, <1>3 DEF Typed, TypeOK
<1>5. cleared \in SUBSET Job
  BY WithoutTyped DEF Typed, TypeOK
<1>6. armed \in SUBSET Job
  BY <1>2, <1>5, ArmedTyped DEF Typed
<1>7. queue' \in {queue, cleared, armed}
  BY <1>1
<1>8. fuel' \in Fuel
  BY SpendTyped DEF Edit, Typed
<1> QED
  BY <1>4, <1>5, <1>6, <1>7, <1>8 DEF Typed, TypeOK, Busy, Edit, Others

LEMMA DeleteLoadTyped ==
  ASSUME Typed, NEW u \in Users, NEW p \in Posts, DeleteLoad(u, p) PROVE Typed'
<1>1. row[p].status \in Status /\ row[p].attempts \in Nat
  BY RowFields DEF Typed, TypeOK
<1>2. req' \in [Users -> Request]
  BY <1>1 DEF DeleteLoad, Request, Typed, TypeOK
<1>3. fuel' \in Fuel
  BY SpendTyped DEF DeleteLoad, Typed
<1> QED
  BY <1>2, <1>3 DEF Typed, TypeOK, Busy, DeleteLoad

LEMMA DeleteWriteTyped == ASSUME Typed, NEW u \in Users, DeleteWrite(u) PROVE Typed'
<1>1. req[u].post \in Posts
  BY RequestFields DEF Typed, TypeOK
<1>2. row' \in [Posts -> Row]
  BY <1>1, RowFields DEF DeleteWrite, Typed, TypeOK
<1>3. queue' \in SUBSET Job
  BY WithoutTyped DEF DeleteWrite, Typed, TypeOK
<1>4. campaign' \in [Posts -> [active : BOOLEAN, media : Nat]]
  BY CampaignOffTyped DEF DeleteWrite, Typed
<1>5. req' \in [Users -> Request]
  BY NoRequestTyped DEF DeleteWrite, Typed, TypeOK
<1> QED
  BY <1>2, <1>3, <1>4, <1>5 DEF Typed, TypeOK, Busy, DeleteWrite, Env

LEMMA ReconnectTyped == ASSUME Typed, Reconnect PROVE Typed'
<1>1. fuel' \in Fuel
  BY SpendTyped DEF Reconnect, Typed
<1> QED
  BY <1>1 DEF Typed, TypeOK, Busy, Reconnect, Others

LEMMA TickTyped == ASSUME Typed, Tick PROVE Typed'
<1>1. ASSUME NEW j \in queue PROVE (IF j.at > now + 1 THEN j ELSE [j EXCEPT !.at = 0]) \in Job
  <2>1. j \in Job
    BY DEF Typed, TypeOK
  <2>2. [j EXCEPT !.at = 0] \in Job
    BY <2>1, JobFields
  <2> QED
    BY <2>1, <2>2
<1>2. queue' \in SUBSET Job
  BY <1>1 DEF Tick
<1> QED
  BY <1>2 DEF Typed, TypeOK, Busy, Tick, Others

LEMMA CrashTyped == ASSUME Typed, NEW w \in Workers, Crash(w) PROVE Typed'
<1>1. ~At(w, "idle") /\ work[w].job \in Job
  BY PostTyped DEF Crash
<1>2. [work[w].job EXCEPT !.at = 0] \in Job
  BY <1>1, JobFields
<1>3. queue' \in SUBSET Job
  BY <1>2, AddTyped DEF Crash, Typed, TypeOK
<1>4. work' \in [Workers -> Work] /\ Busy'
  BY DoneTyped DEF Crash
<1>5. fuel' \in Fuel
  BY SpendTyped DEF Crash, Typed
<1> QED
  BY <1>3, <1>4, <1>5 DEF Typed, TypeOK, Crash, Others

LEMMA LoseQueueTyped == ASSUME Typed, LoseQueue PROVE Typed'
<1>1. fuel' \in Fuel
  BY SpendTyped DEF LoseQueue, Typed
<1> QED
  BY <1>1 DEF Typed, TypeOK, Busy, LoseQueue, Others

LEMMA LockExpireTyped == ASSUME Typed, LockExpire PROVE Typed'
  BY DEF Typed, TypeOK, Busy, LockExpire, Env, Others

-----------------------------------------------------------------------------
(* Type correctness *)

LEMMA WorkerStepTyped == ASSUME Typed, NEW w \in Workers, WorkerStep(w) PROVE Typed'
  BY TakeTyped, PrepareLoadTyped, PrepareClaimTyped, BuildTyped, PollTyped, PrepareReadyTyped,
     PrepareErrorTyped, FailTyped, PublishLoadTyped, ReloadTyped, AcquireLockTyped, PublishClaimTyped,
     PublishCallTyped, AskTyped, PublishErrorTyped, PublishBackoffTyped, PublishFinishTyped DEF WorkerStep

LEMMA SweepStepTyped == ASSUME Typed, NEW p \in Posts, SweepStep(p) PROVE Typed'
  BY SweepReadTyped, SweepRequeueTyped, SweepFailTyped, SweepManualTyped, SweepStuckTyped,
     SweepRecoverTyped, SweepFoundTyped, SweepFinishedTyped, SweepRelinkTyped DEF SweepStep

LEMMA UserStepTyped == ASSUME Typed, UserStep PROVE Typed'
  BY ScheduleWriteTyped, DeleteWriteTyped, CancelCampaignTyped, ScheduleLoadTyped, DeleteLoadTyped,
     CancelWriteTyped, LeaveTyped, EditTyped, ReconnectTyped DEF UserStep

LEMMA FaultStepTyped == ASSUME Typed, FaultStep PROVE Typed'
  BY LoseQueueTyped, LockExpireTyped, CrashTyped DEF FaultStep

LEMMA StepTyped == Typed /\ [Next]_vars => Typed'
<1> SUFFICES ASSUME Typed, [Next]_vars PROVE Typed'
  OBVIOUS
<1>1. CASE UNCHANGED vars
  BY <1>1 DEF vars, Typed, TypeOK, Busy
<1>2. CASE Next
  BY <1>2, WorkerStepTyped, SweepStepTyped, UserStepTyped, TickTyped, FaultStepTyped DEF Next
<1> QED
  BY <1>1, <1>2

\* Types are kept by every step of every worker, request, sweep and fault, and
\* a worker between two steps of preparePost or publishPost always holds its job.
THEOREM TypeCorrect == Spec => []TypeOK
<1>1. Init => Typed
  BY InitTyped
<1>2. Typed /\ [Next]_vars => Typed'
  BY StepTyped
<1>3. Typed => TypeOK
  BY DEF Typed
<1> QED
  BY <1>1, <1>2, <1>3, PTL DEF Spec

-----------------------------------------------------------------------------
(* The account lock *)

InCalls == LockedSteps \ {"finish"}

\* A worker inside the locked calls is the one the lock names.
LockHeld == \A w \in Workers : work[w].pc \in InCalls => lock = w

\* A step of one worker that takes the lock while it is free, keeps it or releases it.
LEMMA OneWorkerKeepsLock ==
  ASSUME Typed, LockHeld, NEW w \in Workers,
         \A v \in Workers \ {w} : work'[v] = work[v],
         work'[w].pc \in InCalls => lock' = w,
         lock = NoWorker \/ lock' = lock \/ Release(w)
  PROVE  LockHeld'
<1> SUFFICES ASSUME NEW v \in Workers, work'[v].pc \in InCalls PROVE lock' = v
  BY DEF LockHeld
<1>1. CASE v = w
  BY <1>1
<1>2. CASE v # w
  <2>1. lock = v
    BY <1>2 DEF LockHeld
  <2> QED
    BY <1>2, <2>1, ContentAssumption DEF Release
<1> QED
  BY <1>1, <1>2

\* A step after which the worker is not between the lock and the end of its calls.
LEMMA OutsideKeepsLock ==
  ASSUME Typed, LockHeld, NEW w \in Workers,
         \A v \in Workers \ {w} : work'[v] = work[v],
         work'[w].pc \notin InCalls, lock' = lock \/ Release(w)
  PROVE  LockHeld'
  BY OneWorkerKeepsLock

\* A step inside the calls leaves the lock where it is.
LEMMA InsideKeepsLock ==
  ASSUME Typed, LockHeld, NEW w \in Workers,
         \A v \in Workers \ {w} : work'[v] = work[v],
         work[w].pc \in InCalls, lock' = lock
  PROVE  LockHeld'
<1>1. lock = w
  BY DEF LockHeld
<1> QED
  BY <1>1, OneWorkerKeepsLock

\* What Done, Only and Goto leave of the workers' states.
LEMMA WorkShapes ==
  ASSUME Typed, NEW w \in Workers
  PROVE  /\ Done(w) => work'[w] = IdleWork /\ \A v \in Workers \ {w} : work'[v] = work[v]
         /\ \A s : Only(w, s) => /\ work'[w].pc = s /\ work'[w].job = work[w].job
                                /\ work'[w].container = NoContainer
                                /\ \A v \in Workers \ {w} : work'[v] = work[v]
         /\ \A s : Goto(w, s) => /\ work'[w].pc = s /\ work'[w].job = work[w].job
                                /\ work'[w].container = work[w].container
                                /\ \A v \in Workers \ {w} : work'[v] = work[v]
<1>1. work \in [Workers -> Work]
  BY DEF Typed, TypeOK
<1>2. Done(w) => work'[w] = IdleWork /\ \A v \in Workers \ {w} : work'[v] = work[v]
  BY <1>1 DEF Done
<1>3. ASSUME NEW s, Only(w, s)
      PROVE  /\ work'[w].pc = s /\ work'[w].job = work[w].job /\ work'[w].container = NoContainer
             /\ \A v \in Workers \ {w} : work'[v] = work[v]
  BY <1>1, <1>3 DEF Only, IdleWork
<1>4. ASSUME NEW s, Goto(w, s)
      PROVE  /\ work'[w].pc = s /\ work'[w].job = work[w].job /\ work'[w].container = work[w].container
             /\ \A v \in Workers \ {w} : work'[v] = work[v]
  BY <1>1, <1>4 DEF Goto, Work
<1> QED
  BY <1>2, <1>3, <1>4

LEMMA IdleOutside == IdleWork.pc \notin InCalls
  BY DEF IdleWork, InCalls, LockedSteps

LEMMA WorkerKeepsLock ==
  ASSUME Typed, LockHeld, NEW w \in Workers, WorkerStep(w) PROVE LockHeld'
<1>0. work \in [Workers -> Work]
  BY DEF Typed, TypeOK
<1>1. CASE Take(w)
  <2>1. PICK j \in queue : work' = [work EXCEPT ![w] = [IdleWork EXCEPT !.pc = j.kind, !.job = j]]
    BY <1>1 DEF Take
  <2>2. j.kind \in {"prepare", "publish"}
    BY JobFields DEF Typed, TypeOK
  <2>3. work'[w].pc \notin InCalls
    BY <1>0, <2>1, <2>2 DEF IdleWork, InCalls, LockedSteps
  <2> QED
    BY <1>0, <1>1, <2>1, <2>3, OutsideKeepsLock DEF Take
<1>2. CASE PrepareLoad(w)
  <2>1. Done(w) \/ Only(w, "reload") \/ Only(w, "fail")
        \/ work' = [work EXCEPT ![w].pc = "claim", ![w].content = row[Post(w)].content, ![w].slot = row[Post(w)].slot]
    BY <1>2 DEF PrepareLoad
  <2>2. work'[w].pc \notin InCalls /\ \A v \in Workers \ {w} : work'[v] = work[v]
    BY <1>0, <2>1, WorkShapes, IdleOutside DEF InCalls, LockedSteps, Work
  <2> QED
    BY <1>2, <2>2, OutsideKeepsLock DEF PrepareLoad
<1>3. CASE PrepareClaim(w) \/ PrepareReady(w) \/ PrepareError(w) \/ Reload(w)
  <2>1. Done(w) \/ Goto(w, "build") \/ Only(w, "reload") \/ Only(w, "fail") \/ Only(w, "refuse") \/ Only(w, "lock")
    BY <1>3 DEF PrepareClaim, PrepareReady, PrepareError, Reload, CheckReady
  <2>2. work'[w].pc \notin InCalls /\ \A v \in Workers \ {w} : work'[v] = work[v]
    BY <2>1, WorkShapes, IdleOutside DEF InCalls, LockedSteps
  <2> QED
    BY <1>3, <2>2, OutsideKeepsLock DEF PrepareClaim, PrepareReady, PrepareError, Reload
<1>4. CASE Build(w)
  <2>1. Only(w, "prepareError") \/ \E c \in Containers : work' = [work EXCEPT ![w].pc = "poll", ![w].container = c]
    BY <1>4 DEF Build
  <2>2. work'[w].pc \notin InCalls /\ \A v \in Workers \ {w} : work'[v] = work[v]
    BY <1>0, <2>1, WorkShapes DEF InCalls, LockedSteps, Work
  <2> QED
    BY <1>4, <2>2, OutsideKeepsLock DEF Build
<1>5. CASE Poll(w)
  <2>1. Goto(w, "ready") \/ Only(w, "fail") \/ Only(w, "prepareError")
        \/ work' = [work EXCEPT ![w].pc = "build", ![w].rebuilt = TRUE, ![w].container = NoContainer]
    BY <1>5 DEF Poll
  <2>2. work'[w].pc \notin InCalls /\ \A v \in Workers \ {w} : work'[v] = work[v]
    BY <1>0, <2>1, WorkShapes DEF InCalls, LockedSteps, Work
  <2> QED
    BY <1>5, <2>2, OutsideKeepsLock DEF Poll
<1>6. CASE Fail(w)
  <2>1. work'[w].pc \notin InCalls /\ \A v \in Workers \ {w} : work'[v] = work[v]
    BY <1>6, WorkShapes, IdleOutside DEF Fail
  <2> QED
    BY <1>6, <2>1, OutsideKeepsLock DEF Fail
<1>7. CASE PublishLoad(w)
  <2>1. Done(w) \/ Only(w, "fail") \/ Only(w, "lock") \/ work' = [work EXCEPT ![w].pc = "prepare", ![w].inline = TRUE]
    BY <1>7 DEF PublishLoad, CheckReady
  <2>2. work'[w].pc \notin InCalls /\ \A v \in Workers \ {w} : work'[v] = work[v]
    BY <1>0, <2>1, WorkShapes, IdleOutside DEF InCalls, LockedSteps, Work
  <2> QED
    BY <1>7, <2>2, OutsideKeepsLock DEF PublishLoad
<1>8. CASE AcquireLock(w)
  <2>1. CASE LockFree /\ lock' = w /\ Goto(w, "cas")
    BY <2>1, WorkShapes, OneWorkerKeepsLock DEF LockFree
  <2>2. CASE Done(w) /\ UNCHANGED lock
    BY <2>2, WorkShapes, IdleOutside, OutsideKeepsLock
  <2> QED
    BY <1>8, <2>1, <2>2 DEF AcquireLock
<1>9. CASE PublishClaim(w)
  <2>1. CASE /\ work' = [work EXCEPT ![w].pc = "call", ![w].container = row[Post(w)].container,
                                     ![w].attempts = row[Post(w)].attempts]
             /\ UNCHANGED lock
    <3>1. \A v \in Workers \ {w} : work'[v] = work[v]
      BY <1>0, <2>1
    <3>2. work[w].pc \in InCalls
      BY <1>9 DEF PublishClaim, At, InCalls, LockedSteps
    <3> QED
      BY <2>1, <3>1, <3>2, InsideKeepsLock
  <2>2. CASE Release(w) /\ Done(w)
    BY <2>2, WorkShapes, IdleOutside, OutsideKeepsLock
  <2> QED
    BY <1>9, <2>1, <2>2 DEF PublishClaim
<1>10. CASE PublishCall(w) \/ Ask(w)
  <2>1. Goto(w, "ask") \/ Goto(w, "publishError") \/ Goto(w, "backoff") \/ Only(w, "failLocked")
        \/ \E m : work' = [work EXCEPT ![w].pc = "finish", ![w].media = m]
    BY <1>10 DEF PublishCall, Ask
  <2>2. \A v \in Workers \ {w} : work'[v] = work[v]
    BY <1>0, <2>1, WorkShapes
  <2>3. work[w].pc \in InCalls /\ lock' = lock
    BY <1>10 DEF PublishCall, Ask, At, InCalls, LockedSteps
  <2> QED
    BY <2>2, <2>3, InsideKeepsLock
<1>11. CASE PublishError(w) \/ PublishBackoff(w)
  <2>1. \/ Done(w) /\ Release(w)
        \/ Only(w, "failLocked") /\ lock' = lock
        \/ Only(w, "refuseLocked") /\ lock' = lock
    BY <1>11 DEF PublishError, PublishBackoff, Backoff, QuotaMove
  <2>2. work[w].pc \in InCalls
    BY <1>11 DEF PublishError, PublishBackoff, At, InCalls, LockedSteps
  <2>3. CASE Done(w) /\ Release(w)
    BY <2>3, WorkShapes, IdleOutside, OutsideKeepsLock
  <2>4. CASE (Only(w, "failLocked") \/ Only(w, "refuseLocked")) /\ lock' = lock
    <3>1. \A v \in Workers \ {w} : work'[v] = work[v]
      BY <2>4, WorkShapes
    <3> QED
      BY <2>2, <2>4, <3>1, InsideKeepsLock
  <2> QED
    BY <2>1, <2>3, <2>4
<1>12. CASE PublishFinish(w)
  <2>1. work'[w].pc \notin InCalls /\ \A v \in Workers \ {w} : work'[v] = work[v]
    BY <1>12, WorkShapes, IdleOutside DEF PublishFinish
  <2> QED
    BY <1>12, <2>1, OutsideKeepsLock DEF PublishFinish
<1> QED
  BY <1>1, <1>2, <1>3, <1>4, <1>5, <1>6, <1>7, <1>8, <1>9, <1>10, <1>11, <1>12 DEF WorkerStep

LEMMA StepLockHeld == Typed /\ LockHeld /\ [Next]_vars => LockHeld'
<1> SUFFICES ASSUME Typed, LockHeld, [Next]_vars PROVE LockHeld'
  OBVIOUS
<1>1. ASSUME NEW w \in Workers, WorkerStep(w) PROVE LockHeld'
  BY <1>1, WorkerKeepsLock
<1>2. ASSUME NEW p \in Posts, SweepStep(p) PROVE LockHeld'
  <2>1. UNCHANGED <<work, lock>>
    BY <1>2 DEF SweepStep, SweepRead, SweepRequeue, SweepFail, SweepManual, SweepStuck, SweepRecover,
                SweepFound, SweepFinished, SweepRelink
  <2> QED
    BY <2>1 DEF LockHeld
<1>3. CASE UserStep
  <2>1. UNCHANGED <<work, lock>>
    BY <1>3 DEF UserStep, ScheduleWrite, DeleteWrite, CancelCampaign, ScheduleLoad, DeleteLoad, CancelWrite,
                Leave, Edit, Reconnect
  <2> QED
    BY <2>1 DEF LockHeld
<1>4. CASE Tick \/ LoseQueue \/ UNCHANGED vars
  BY <1>4 DEF LockHeld, Tick, LoseQueue, vars
<1>5. CASE LockExpire
  <2>1. work[lock].pc \notin InCalls /\ UNCHANGED work
    BY <1>5 DEF LockExpire, InCalls
  <2> QED
    BY <2>1 DEF LockHeld
<1>6. ASSUME NEW w \in Workers, Crash(w) PROVE LockHeld'
  <2>1. Done(w) /\ lock' = lock
    BY <1>6 DEF Crash
  <2> QED
    BY <2>1, WorkShapes, IdleOutside, OutsideKeepsLock
<1> QED
  BY <1>1, <1>2, <1>3, <1>4, <1>5, <1>6 DEF Next, FaultStep

\* Two workers are never both between the account lock and the end of their
\* calls to Meta (withAccountLock), however workers die and locks expire.
THEOREM LockExcludes == Spec => []OnePublisher
<1>1. Init => LockHeld
  BY DEF Init, LockHeld, IdleWork, InCalls, LockedSteps
<1>2. LockHeld => OnePublisher
  BY DEF LockHeld, OnePublisher, InCalls
<1>3. Init => Typed
  BY InitTyped
<1>4. Typed /\ [Next]_vars => Typed'
  BY StepTyped
<1>5. Typed /\ LockHeld /\ [Next]_vars => LockHeld'
  BY StepLockHeld
<1> QED
  BY <1>1, <1>2, <1>3, <1>4, <1>5, PTL DEF Spec

-----------------------------------------------------------------------------
(* What PUBLISHED means *)

\* A request never overwrites a status schedulePost would have refused.
Asked == \A u \in Users : req[u].op = "schedule" => req[u].status \in MaySchedule

LEMMA StepAsked == Typed /\ Asked /\ [Next]_vars => Asked'
<1> SUFFICES ASSUME Typed, Asked, [Next]_vars, NEW u \in Users, req'[u].op = "schedule"
             PROVE  req'[u].status \in MaySchedule
  BY DEF Asked
<1>1. CASE req' = req
  BY <1>1 DEF Asked
<1>2. ASSUME NEW v \in Users, NEW p \in Posts, ScheduleLoad(v, p) PROVE req'[u].status \in MaySchedule
  BY <1>2 DEF ScheduleLoad, Asked, Typed, TypeOK
<1>3. ASSUME NEW v \in Users, ScheduleWrite(v) \/ DeleteWrite(v) \/ CancelCampaign(v)
      PROVE  req'[u].status \in MaySchedule
  <2>1. req' = [req EXCEPT ![v] = NoRequest]
    BY <1>3 DEF ScheduleWrite, DeleteWrite, CancelCampaign
  <2> QED
    BY <2>1 DEF NoRequest, Asked, Typed, TypeOK
<1>4. ASSUME NEW v \in Users, NEW p \in Posts, DeleteLoad(v, p) PROVE req'[u].status \in MaySchedule
  BY <1>4 DEF DeleteLoad, Asked, Typed, TypeOK
<1>5. ASSUME NEW v \in Users, NEW p \in Posts, CancelWrite(v, p) PROVE req'[u].status \in MaySchedule
  BY <1>5 DEF CancelWrite, NoRequest, Asked, Typed, TypeOK
<1>6. ASSUME NEW p \in Posts, SweepStep(p) PROVE req' = req
  BY <1>6 DEF SweepStep, SweepRead, SweepRequeue, SweepFail, SweepManual, SweepStuck, SweepRecover,
              SweepFound, SweepFinished, SweepRelink, Others
<1>7. ASSUME NEW w \in Workers, WorkerStep(w) PROVE req' = req
  BY <1>7 DEF WorkerStep, Take, PrepareLoad, PrepareClaim, Build, Poll, PrepareReady, PrepareError, Fail,
              PublishLoad, Reload, AcquireLock, PublishClaim, PublishCall, Ask, PublishError, PublishBackoff,
              PublishFinish, Others
<1>8. ASSUME NEW p \in Posts, Leave(p) \/ Edit(p) PROVE req' = req
  BY <1>8 DEF Leave, Edit, Others
<1>9. CASE Reconnect \/ Tick \/ FaultStep \/ UNCHANGED vars
  BY <1>1, <1>9 DEF Reconnect, Tick, FaultStep, LoseQueue, LockExpire, Crash, Others, vars
<1> QED
  BY <1>1, <1>2, <1>3, <1>4, <1>5, <1>6, <1>7, <1>8, <1>9 DEF Next, UserStep

\* The step neither makes a post PUBLISHED nor unmakes one.
Neutral == \A p \in Posts : row'[p].status = "PUBLISHED" <=> row[p].status = "PUBLISHED"

LEMMA SameRowsNeutral == row' = row => Neutral
  BY DEF Neutral

LEMMA SameStatusNeutral ==
  ASSUME Typed, NEW p \in Posts, NEW r, r.status = row[p].status, row' = [row EXCEPT ![p] = r]
  PROVE  Neutral
  BY DEF Typed, TypeOK, Neutral

LEMMA MoveNeutral ==
  ASSUME Typed, NEW p \in Posts, NEW from, "PUBLISHED" \notin from,
         NEW r, r.status # "PUBLISHED", Move(p, from, r)
  PROVE  Neutral
  BY DEF Typed, TypeOK, Neutral, Move

LEMMA FailPostNeutral ==
  ASSUME Typed, NEW p \in Posts, NEW toManual, FailPost(p, toManual)
  PROVE  Neutral
<1> DEFINE r == [row[p] EXCEPT !.status = IF toManual THEN "NEEDS_MANUAL" ELSE "FAILED",
                               !.manual = @ \/ toManual]
<1>1. row[p] \in Row
  BY DEF Typed, TypeOK
<1>2. r.status # "PUBLISHED"
  BY <1>1 DEF Row
<1>3. Move(p, FailFrom, r)
  BY DEF FailPost
<1> QED
  BY <1>2, <1>3, MoveNeutral DEF FailFrom

\* The row record with another status.
LEMMA StatusOf ==
  ASSUME NEW r \in Row
  PROVE  /\ \A x : [r EXCEPT !.status = x].status = x
         /\ \A x, c : [r EXCEPT !.status = x, !.container = c].status = x
         /\ \A x, y, z, c : [r EXCEPT !.status = x, !.slot = y, !.attempts = z, !.container = c].status = x
  BY DEF Row

LEMMA WorkerNeutral ==
  ASSUME Typed, NEW w \in Workers, WorkerStep(w), ~PublishFinish(w)
  PROVE  Neutral
<1> DEFINE p == Post(w)
<1>1. CASE Take(w) \/ PrepareLoad(w) \/ Poll(w) \/ PublishLoad(w) \/ Reload(w) \/ AcquireLock(w)
           \/ PublishCall(w) \/ Ask(w)
  BY <1>1, SameRowsNeutral DEF Take, PrepareLoad, Poll, PublishLoad, Reload, AcquireLock, PublishCall, Ask
<1>2. ASSUME ~At(w, "idle") PROVE p \in Posts /\ row[p] \in Row
  BY <1>2, PostTyped
<1>3. CASE PrepareClaim(w)
  <2>1. p \in Posts /\ row[p] \in Row
    BY <1>2, <1>3 DEF PrepareClaim, At
  <2>2. Move(p, ClaimFrom, [row[p] EXCEPT !.status = "PREPARING"])
    BY <1>3 DEF PrepareClaim
  <2>3. [row[p] EXCEPT !.status = "PREPARING"].status = "PREPARING"
    BY <2>1, StatusOf
  <2> QED
    BY <2>1, <2>2, <2>3, MoveNeutral DEF ClaimFrom
<1>4. CASE Build(w)
  <2>1. p \in Posts /\ row[p] \in Row
    BY <1>2, <1>4 DEF Build, At
  <2>2. row' = row \/ \E c : row' = [row EXCEPT ![p].container = c]
    BY <1>4 DEF Build
  <2>3. \A c : [row[p] EXCEPT !.container = c].status = row[p].status
    BY <2>1 DEF Row
  <2> QED
    BY <2>1, <2>2, <2>3, SameRowsNeutral, SameStatusNeutral
<1>5. CASE PrepareReady(w)
  <2>1. p \in Posts /\ row[p] \in Row
    BY <1>2, <1>5 DEF PrepareReady, At
  <2>2. Move(p, {"PREPARING"}, [row[p] EXCEPT !.status = "READY_TO_PUBLISH", !.container = work[w].container])
    BY <1>5 DEF PrepareReady
  <2>3. [row[p] EXCEPT !.status = "READY_TO_PUBLISH", !.container = work[w].container].status = "READY_TO_PUBLISH"
    BY <2>1, StatusOf
  <2> QED
    BY <2>1, <2>2, <2>3, MoveNeutral
<1>6. CASE PrepareError(w)
  <2>1. p \in Posts /\ row[p] \in Row
    BY <1>2, <1>6 DEF PrepareError, At
  <2>2. \/ Move(p, {"PREPARING"}, [row[p] EXCEPT !.status = "SCHEDULED"])
        \/ Move(p, {"PREPARING"}, [row[p] EXCEPT !.status = "SCHEDULED", !.container = NoContainer])
        \/ row' = row
    BY <1>6 DEF PrepareError
  <2>3. /\ [row[p] EXCEPT !.status = "SCHEDULED"].status = "SCHEDULED"
        /\ [row[p] EXCEPT !.status = "SCHEDULED", !.container = NoContainer].status = "SCHEDULED"
    BY <2>1, StatusOf
  <2> QED
    BY <2>1, <2>2, <2>3, MoveNeutral, SameRowsNeutral
<1>7. CASE Fail(w)
  BY <1>2, <1>7, FailPostNeutral DEF Fail, At
<1>8. CASE PublishClaim(w)
  <2>1. p \in Posts /\ row[p] \in Row
    BY <1>2, <1>8 DEF PublishClaim, At
  <2>2. Move(p, {"READY_TO_PUBLISH"}, [row[p] EXCEPT !.status = "PUBLISHING"])
    BY <1>8 DEF PublishClaim
  <2>3. [row[p] EXCEPT !.status = "PUBLISHING"].status = "PUBLISHING"
    BY <2>1, StatusOf
  <2> QED
    BY <2>1, <2>2, <2>3, MoveNeutral
<1>9. CASE PublishError(w) \/ PublishBackoff(w)
  <2>1. p \in Posts /\ row[p] \in Row
    BY <1>2, <1>9 DEF PublishError, PublishBackoff, At
  <2>2. \/ Move(p, {"PUBLISHING"}, [row[p] EXCEPT !.status = "READY_TO_PUBLISH"])
        \/ Move(p, {"PUBLISHING"}, [row[p] EXCEPT !.status = "SCHEDULED", !.container = NoContainer])
        \/ \E slot : Move(p, {"PUBLISHING"}, [row[p] EXCEPT !.status = "SCHEDULED", !.slot = slot,
                                              !.attempts = row[p].attempts + 1, !.container = NoContainer])
        \/ row' = row
    BY <1>9 DEF PublishError, PublishBackoff, Backoff, QuotaMove
  <2>3. /\ [row[p] EXCEPT !.status = "READY_TO_PUBLISH"].status = "READY_TO_PUBLISH"
        /\ [row[p] EXCEPT !.status = "SCHEDULED", !.container = NoContainer].status = "SCHEDULED"
        /\ \A slot : [row[p] EXCEPT !.status = "SCHEDULED", !.slot = slot, !.attempts = row[p].attempts + 1,
                                     !.container = NoContainer].status = "SCHEDULED"
    BY <2>1, StatusOf
  <2> QED
    BY <2>1, <2>2, <2>3, MoveNeutral, SameRowsNeutral
<1> QED
  BY <1>1, <1>3, <1>4, <1>5, <1>6, <1>7, <1>8, <1>9 DEF WorkerStep

LEMMA SweepNeutral ==
  ASSUME Typed, NEW p \in Posts, SweepStep(p), ~SweepFound(p)
  PROVE  Neutral
<1>0. row[p] \in Row
  BY DEF Typed, TypeOK
<1>1. CASE SweepRead(p) \/ SweepRequeue(p) \/ SweepStuck(p) \/ SweepRecover(p)
  BY <1>1, SameRowsNeutral DEF SweepRead, SweepRequeue, SweepStuck, SweepRecover
<1>2. CASE SweepFail(p)
  BY <1>2, FailPostNeutral DEF SweepFail
<1>3. CASE SweepManual(p)
  <2>1. row' = row \/ (row[p].status # "PUBLISHED"
                       /\ row' = [row EXCEPT ![p].status = "NEEDS_MANUAL", ![p].manual = TRUE])
    BY <1>3 DEF SweepManual, ManualFrom
  <2>2. [row[p] EXCEPT !.status = "NEEDS_MANUAL", !.manual = TRUE].status # "PUBLISHED"
    BY <1>0 DEF Row
  <2> QED
    BY <2>1, <2>2 DEF Neutral, Typed, TypeOK
<1>4. CASE SweepFinished(p)
  <2>1. Move(p, {"PUBLISHING"}, [row[p] EXCEPT !.status = "READY_TO_PUBLISH"])
    BY <1>4 DEF SweepFinished
  <2> QED
    BY <1>0, <2>1, StatusOf, MoveNeutral
<1>5. CASE SweepRelink(p)
  <2>1. row' = [row EXCEPT ![p].linkFailed = FALSE]
    BY <1>5 DEF SweepRelink
  <2>2. [row[p] EXCEPT !.linkFailed = FALSE].status = row[p].status
    BY <1>0 DEF Row
  <2> QED
    BY <2>1, <2>2, SameStatusNeutral
<1> QED
  BY <1>1, <1>2, <1>3, <1>4, <1>5 DEF SweepStep

LEMMA UserMoveNeutral ==
  ASSUME Typed, NEW p \in Posts, NEW from, NEW to, "PUBLISHED" \notin from, to # "PUBLISHED",
         UserMove(p, from, to)
  PROVE  Neutral
<1> DEFINE slot == IF to = "DRAFT" THEN 0 ELSE row[p].slot
           container == IF to = "DRAFT" THEN NoContainer ELSE row[p].container
           r == [row[p] EXCEPT !.status = to, !.slot = slot, !.container = container]
<1>1. row[p] \in Row /\ row[p].status # "PUBLISHED"
  BY DEF UserMove, Typed, TypeOK
<1>2. row' = [row EXCEPT ![p] = r]
  BY DEF UserMove, Typed, TypeOK
<1>3. r.status = to
  BY <1>1 DEF Row
<1> QED
  BY <1>1, <1>2, <1>3 DEF Neutral, Typed, TypeOK

LEMMA UserNeutral == ASSUME Typed, Asked, UserStep PROVE Neutral
<1>1. ASSUME NEW u \in Users, ScheduleWrite(u) PROVE Neutral
  <2> DEFINE p == req[u].post
             r == [row[p] EXCEPT !.status = "SCHEDULED", !.slot = req[u].slot,
                                 !.attempts = req[u].attempts + 1, !.container = NoContainer]
  <2>1. p \in Posts /\ row[p] \in Row
    BY RequestFields DEF Typed, TypeOK
  <2>2. row' = row \/ (row[p].status = req[u].status /\ row' = [row EXCEPT ![p] = r])
    BY <1>1 DEF ScheduleWrite
  <2>3. req[u].status # "PUBLISHED"
    BY <1>1 DEF ScheduleWrite, Asked, MaySchedule
  <2>4. r.status = "SCHEDULED"
    BY <2>1, StatusOf
  <2> QED
    BY <2>1, <2>2, <2>3, <2>4 DEF Neutral, Typed, TypeOK
<1>2. ASSUME NEW u \in Users, DeleteWrite(u) PROVE Neutral
  <2>1. req[u].post \in Posts
    BY RequestFields DEF Typed, TypeOK
  <2>2. row' = [row EXCEPT ![req[u].post].deleted = TRUE]
    BY <1>2 DEF DeleteWrite
  <2>3. [row[req[u].post] EXCEPT !.deleted = TRUE].status = row[req[u].post].status
    BY <2>1 DEF Typed, TypeOK, Row
  <2> QED
    BY <2>1, <2>2, <2>3, SameStatusNeutral
<1>3. ASSUME NEW p \in Posts, Leave(p) \/ \E u \in Users : CancelWrite(u, p) PROVE Neutral
  <2>1. \E from \in {MayPause, MayDraft, {"NEEDS_MANUAL"}, MayCancel} :
          \E to \in {"PAUSED", "DRAFT", "PUBLISHED_MANUAL", "CANCELED"} : UserMove(p, from, to)
    BY <1>3 DEF Leave, CancelWrite
  <2>2. \A from \in {MayPause, MayDraft, {"NEEDS_MANUAL"}, MayCancel} : "PUBLISHED" \notin from
    BY DEF MayPause, MayDraft, MayCancel
  <2> QED
    BY <2>1, <2>2, UserMoveNeutral
<1>4. ASSUME NEW p \in Posts, Edit(p) PROVE Neutral
  <2>1. PICK manual, rearm \in BOOLEAN :
          row' = [row EXCEPT ![p] = [row[p] EXCEPT !.content = @ + 1, !.manual = manual,
                                     !.attempts = IF rearm THEN @ + 1 ELSE @]]
    BY <1>4 DEF Edit
  <2>2. row[p] \in Row
    BY DEF Typed, TypeOK
  <2>3. [row[p] EXCEPT !.content = @ + 1, !.manual = manual,
                       !.attempts = IF rearm THEN @ + 1 ELSE @].status = row[p].status
    BY <2>2 DEF Row
  <2> QED
    BY <2>1, <2>3, SameStatusNeutral
<1>5. ASSUME \/ \E u \in Users, p \in Posts : ScheduleLoad(u, p) \/ DeleteLoad(u, p)
             \/ \E u \in Users : CancelCampaign(u)
             \/ Reconnect
      PROVE  row' = row
  BY <1>5 DEF ScheduleLoad, DeleteLoad, CancelCampaign, Reconnect
<1> QED
  BY <1>1, <1>2, <1>3, <1>4, <1>5, SameRowsNeutral DEF UserStep

LEMMA OnlyFinishPublishes ==
  ASSUME Typed, Asked, [Next]_vars,
         \A w \in Workers : ~PublishFinish(w), \A p \in Posts : ~SweepFound(p)
  PROVE  Neutral
<1>1. CASE UNCHANGED vars \/ Tick \/ FaultStep
  BY <1>1, SameRowsNeutral DEF vars, Tick, FaultStep, LoseQueue, LockExpire, Crash
<1> QED
  BY <1>1, WorkerNeutral, SweepNeutral, UserNeutral DEF Next

\* finishPublished touches its own post and nothing else, or nothing at all.
LEMMA FinishPublishes ==
  ASSUME Typed, NEW p \in Posts, NEW m, Finish(p, m)
  PROVE  /\ row'[p].status = "PUBLISHED" \/ UNCHANGED <<row, campaign>>
         /\ \A q \in Posts \ {p} : row'[q] = row[q] /\ campaign'[q] = campaign[q]
<1>1. row \in [Posts -> Row] /\ campaign \in [Posts -> [active : BOOLEAN, media : Nat]]
  BY DEF Typed, TypeOK
<1>2. CASE ~Taken(p, m)
  <2>1. \E b \in BOOLEAN : row' = [row EXCEPT ![p].status = "PUBLISHED", ![p].igMedia = m, ![p].linkFailed = b]
    BY <1>2 DEF Finish
  <2>2. row'[p].status = "PUBLISHED" /\ \A q \in Posts \ {p} : row'[q] = row[q]
    BY <1>1, <2>1 DEF Row
  <2>3. campaign' = campaign \/ campaign' = [campaign EXCEPT ![p] = [active |-> TRUE, media |-> m]]
    BY <1>2 DEF Finish
  <2> QED
    BY <1>1, <2>2, <2>3
<1>3. CASE Taken(p, m)
  BY <1>3 DEF Finish
<1> QED
  BY <1>2, <1>3

LEMMA StepKeepsPublished ==
  Typed /\ Asked /\ [Next]_vars
    => \A p \in Posts : row[p].status = "PUBLISHED" => row'[p].status = "PUBLISHED"
<1> SUFFICES ASSUME Typed, Asked, [Next]_vars, NEW p \in Posts, row[p].status = "PUBLISHED"
             PROVE  row'[p].status = "PUBLISHED"
  OBVIOUS
<1>1. ASSUME NEW w \in Workers, PublishFinish(w) PROVE row'[p].status = "PUBLISHED"
  <2>1. Post(w) \in Posts /\ Finish(Post(w), work[w].media)
    BY <1>1, PostTyped DEF PublishFinish, At
  <2> QED
    BY <2>1, FinishPublishes
<1>2. ASSUME NEW q \in Posts, SweepFound(q) PROVE row'[p].status = "PUBLISHED"
  BY <1>2, FinishPublishes DEF SweepFound
<1> QED
  BY <1>1, <1>2, OnlyFinishPublishes DEF Neutral

LEMMA InitAsked == Init => Asked
  BY DEF Init, Asked, NoRequest

\* PUBLISHED is terminal: no late failure, cancel, reschedule, recovery or zombie
\* worker takes a published post back into the pipeline (move, cas and failPost
\* guard every write of the status).
THEOREM PublishedStays == Spec => PublishedIsFinal
<1>1. Init => Typed /\ Asked
  BY InitTyped, InitAsked
<1>2. Typed /\ Asked /\ [Next]_vars => (Typed /\ Asked)'
  BY StepTyped, StepAsked
<1>3. Typed /\ Asked /\ [Next]_vars
        => [\A p \in Posts : row[p].status = "PUBLISHED" => row'[p].status = "PUBLISHED"]_vars
  BY StepKeepsPublished
<1> QED
  BY <1>1, <1>2, <1>3, PTL DEF Spec, PublishedIsFinal

-----------------------------------------------------------------------------
(* When a campaign is live *)

\* The step switches no campaign on.
Quiet == \A p \in Posts : campaign'[p].active => campaign[p].active

LEMMA QuietNeutralWaits ==
  ASSUME CampaignWaits, Neutral, Quiet PROVE CampaignWaits'
  BY DEF CampaignWaits, Neutral, Quiet

LEMMA FinishWaits ==
  ASSUME Typed, CampaignWaits, NEW p \in Posts, NEW m, Finish(p, m) PROVE CampaignWaits'
<1> SUFFICES ASSUME NEW q \in Posts, campaign'[q].active PROVE row'[q].status = "PUBLISHED"
  BY DEF CampaignWaits
<1>1. CASE q = p
  BY <1>1, FinishPublishes DEF CampaignWaits
<1>2. CASE q # p
  BY <1>2, FinishPublishes DEF CampaignWaits
<1> QED
  BY <1>1, <1>2

LEMMA SwitchOffQuiet ==
  ASSUME Typed, NEW p, campaign' = [campaign EXCEPT ![p].active = FALSE] PROVE Quiet
  BY DEF Typed, TypeOK, Quiet

LEMMA StepWaits == Typed /\ Asked /\ CampaignWaits /\ [Next]_vars => CampaignWaits'
<1> SUFFICES ASSUME Typed, Asked, CampaignWaits, [Next]_vars PROVE CampaignWaits'
  OBVIOUS
<1>1. ASSUME NEW w \in Workers, PublishFinish(w) PROVE CampaignWaits'
  <2>1. Post(w) \in Posts /\ Finish(Post(w), work[w].media)
    BY <1>1, PostTyped DEF PublishFinish, At
  <2> QED
    BY <2>1, FinishWaits
<1>2. ASSUME NEW p \in Posts, SweepFound(p) PROVE CampaignWaits'
  BY <1>2, FinishWaits DEF SweepFound
<1>3. ASSUME NEW p \in Posts, SweepRelink(p), Neutral PROVE CampaignWaits'
  <2>1. row[p].status = "PUBLISHED" /\ campaign' = [campaign EXCEPT ![p] = [active |-> TRUE, media |-> row[p].igMedia]]
    BY <1>3 DEF SweepRelink
  <2> QED
    BY <1>3, <2>1 DEF CampaignWaits, Neutral, Typed, TypeOK
<1>4. ASSUME NEW w \in Workers, WorkerStep(w), ~PublishFinish(w) PROVE Quiet
  BY <1>4 DEF WorkerStep, Take, PrepareLoad, PrepareClaim, Build, Poll, PrepareReady, PrepareError, Fail,
              PublishLoad, Reload, AcquireLock, PublishClaim, PublishCall, Ask, PublishError, PublishBackoff, Quiet
<1>5. ASSUME NEW p \in Posts, SweepStep(p), ~SweepFound(p), ~SweepRelink(p) PROVE Quiet
  BY <1>5 DEF SweepStep, SweepRead, SweepRequeue, SweepFail, SweepManual, SweepStuck, SweepRecover,
              SweepFinished, Quiet
<1>6. CASE UserStep
  <2>1. ASSUME NEW u \in Users, DeleteWrite(u) \/ CancelCampaign(u) PROVE Quiet
    BY <2>1, SwitchOffQuiet DEF DeleteWrite, CancelCampaign
  <2>2. campaign' = campaign => Quiet
    BY DEF Quiet
  <2>3. Quiet
    BY <1>6, <2>1, <2>2 DEF UserStep, ScheduleWrite, ScheduleLoad, DeleteLoad, CancelWrite, Leave, Edit, Reconnect
  <2> QED
    BY <1>6, <2>3, UserNeutral, QuietNeutralWaits
<1>7. CASE UNCHANGED vars \/ Tick \/ FaultStep
  BY <1>7 DEF vars, Tick, FaultStep, LoseQueue, LockExpire, Crash, CampaignWaits
<1>8. ASSUME NEW w \in Workers, WorkerStep(w), ~PublishFinish(w) PROVE CampaignWaits'
  BY <1>4, <1>8, WorkerNeutral, QuietNeutralWaits
<1>9. ASSUME NEW p \in Posts, SweepStep(p), ~SweepFound(p) PROVE CampaignWaits'
  BY <1>3, <1>5, <1>9, SweepNeutral, QuietNeutralWaits
<1> QED
  BY <1>1, <1>2, <1>6, <1>7, <1>8, <1>9 DEF Next

\* The campaign linked to a scheduled post answers only once the post is out
\* (FR-L2): finishPublished and the sweeper's relink are the only ways on.
THEOREM CampaignIsSilent == Spec => []CampaignWaits
<1>1. Init => Typed /\ Asked /\ CampaignWaits
  <2>1. Init => campaign = [p \in Posts |-> [active |-> FALSE, media |-> 0]]
    BY DEF Init
  <2>2. Init => CampaignWaits
    BY <2>1 DEF CampaignWaits
  <2> QED
    BY <2>2, InitTyped, InitAsked
<1>2. Typed /\ Asked /\ CampaignWaits /\ [Next]_vars => (Typed /\ Asked /\ CampaignWaits)'
  BY StepTyped, StepAsked, StepWaits
<1> QED
  BY <1>1, <1>2, PTL DEF Spec

-----------------------------------------------------------------------------
(* Whose container, whose media *)

\* The container on a row or with a worker was built for that post.
Owned ==
  /\ \A p \in Posts : row[p].container # NoContainer => meta[row[p].container].post = p
  /\ \A w \in Workers : work[w].container # NoContainer =>
       work[w].pc # "idle" /\ meta[work[w].container].post = Post(w)

\* A row's container after the step is one the post had before it.
RowsKeep ==
  \A p \in Posts : row'[p].container # NoContainer =>
    \/ row'[p].container = row[p].container
    \/ \E w \in Workers : work[w].job \in Job /\ Post(w) = p /\ row'[p].container = work[w].container

\* A worker's container after the step is one its post had before it.
WorkKeeps ==
  \A w \in Workers : work'[w].container # NoContainer =>
    /\ work'[w].pc # "idle" /\ work'[w].job = work[w].job
    /\ \/ work'[w].container = work[w].container
       \/ Post(w) \in Posts /\ work'[w].container = row[Post(w)].container

\* Containers in use stay with their post.
PostsKeep == \A c \in Containers \cap Referenced : meta'[c].post = meta[c].post

LEMMA OwnedKept ==
  ASSUME Typed, Owned, RowsKeep, WorkKeeps, PostsKeep PROVE Owned'
<1>0. row \in [Posts -> Row] /\ work \in [Workers -> Work]
  BY DEF Typed, TypeOK
<1>1. ASSUME NEW p \in Posts, row[p].container # NoContainer
      PROVE  row[p].container \in Containers \cap Referenced /\ meta'[row[p].container].post = p
  <2>1. row[p].container \in Containers \cap Referenced
    BY <1>0, <1>1, RowFields DEF Referenced
  <2> QED
    BY <1>1, <2>1 DEF PostsKeep, Owned
<1>2. ASSUME NEW w \in Workers, work[w].container # NoContainer
      PROVE  meta'[work[w].container].post = Post(w)
  <2>1. work[w].container \in Containers \cap Referenced
    BY <1>0, <1>2, WorkFields DEF Referenced
  <2> QED
    BY <1>2, <2>1 DEF PostsKeep, Owned
<1>3. ASSUME NEW p \in Posts, row'[p].container # NoContainer PROVE meta'[row'[p].container].post = p
  BY <1>1, <1>2, <1>3 DEF RowsKeep
<1>4. ASSUME NEW w \in Workers, work'[w].container # NoContainer
      PROVE  work'[w].pc # "idle" /\ meta'[work'[w].container].post = work'[w].job.post
  BY <1>1, <1>2, <1>4 DEF WorkKeeps, Post
<1> QED
  BY <1>3, <1>4 DEF Owned, Post

LEMMA SameWorkKeeps == ASSUME Typed, Owned, work' = work PROVE WorkKeeps
  BY DEF WorkKeeps, Owned

LEMMA SameRowsKeep == row' = row => RowsKeep
  BY DEF RowsKeep

LEMMA SameMetaKeeps == meta' = meta => PostsKeep
  BY DEF PostsKeep

\* The shapes a worker's state takes.
LEMMA OneWorkKeeps ==
  ASSUME Typed, Owned, NEW w \in Workers, \A v \in Workers \ {w} : work'[v] = work[v],
         \/ work'[w].container = NoContainer
         \/ /\ work'[w].pc # "idle" /\ work'[w].job = work[w].job
            /\ \/ work'[w].container = work[w].container
               \/ Post(w) \in Posts /\ work'[w].container = row[Post(w)].container
  PROVE  WorkKeeps
  BY DEF WorkKeeps, Owned

LEMMA IdleEmpty == IdleWork.container = NoContainer
  BY DEF IdleWork

LEMMA MoveKeeps ==
  ASSUME Typed, NEW p \in Posts, NEW from, NEW r, Move(p, from, r),
         r.container = NoContainer \/ r.container = row[p].container
  PROVE  RowsKeep
  BY DEF Typed, TypeOK, Move, RowsKeep

LEMMA FailPostKeeps ==
  ASSUME Typed, NEW p \in Posts, NEW toManual, FailPost(p, toManual) PROVE RowsKeep
<1> DEFINE r == [row[p] EXCEPT !.status = IF toManual THEN "NEEDS_MANUAL" ELSE "FAILED",
                               !.manual = @ \/ toManual]
<1>1. r.container = row[p].container
  BY DEF Typed, TypeOK, Row
<1>2. Move(p, FailFrom, r)
  BY DEF FailPost
<1> QED
  BY <1>1, <1>2, MoveKeeps

LEMMA FinishKeeps == ASSUME Typed, NEW p \in Posts, NEW m, Finish(p, m) PROVE RowsKeep
<1>1. CASE row' = row
  BY <1>1 DEF RowsKeep
<1>2. ASSUME NEW b \in BOOLEAN,
             row' = [row EXCEPT ![p].status = "PUBLISHED", ![p].igMedia = m, ![p].linkFailed = b]
      PROVE  RowsKeep
  BY <1>2 DEF Typed, TypeOK, Row, RowsKeep
<1> QED
  BY <1>1, <1>2 DEF Finish

LEMMA ContainerPost ==
  ASSUME NEW m \in [Containers -> Container], NEW c
  PROVE  /\ \A s : \A d \in Containers : [m EXCEPT ![c].state = s][d].post = m[d].post
         /\ \A b : \A d \in Containers : [m EXCEPT ![c].open = b][d].post = m[d].post
         /\ \A b : \A d \in Containers : [m EXCEPT ![c].open = b][d].state = m[d].state
  BY DEF Container

\* The row record with another status keeps or drops its container.
LEMMA ContainerOf ==
  ASSUME NEW r \in Row
  PROVE  /\ \A x : [r EXCEPT !.status = x].container = r.container
         /\ \A x, c : [r EXCEPT !.status = x, !.container = c].container = c
         /\ \A x, y, z, c : [r EXCEPT !.status = x, !.slot = y, !.attempts = z, !.container = c].container = c
  BY DEF Row

LEMMA KnownKeeps ==
  ASSUME Typed PROVE \A c \in Containers \cap Referenced : Known[c] = meta[c]
  BY DEF Known

LEMMA WorkerOwned == ASSUME Typed, Owned, NEW w \in Workers, WorkerStep(w) PROVE Owned'
<1> DEFINE p == Post(w)
<1>0. work \in [Workers -> Work] /\ row \in [Posts -> Row] /\ meta \in [Containers -> Container]
  BY DEF Typed, TypeOK
<1>1. CASE Take(w)
  <2>1. PICK j \in queue : work' = [work EXCEPT ![w] = [IdleWork EXCEPT !.pc = j.kind, !.job = j]]
    BY <1>1 DEF Take
  <2>2. work'[w].container = NoContainer /\ \A v \in Workers \ {w} : work'[v] = work[v]
    BY <1>0, <2>1 DEF IdleWork
  <2>3. RowsKeep /\ PostsKeep
    BY <1>1, KnownKeeps, SameRowsKeep DEF Take, PostsKeep
  <2> QED
    BY <2>2, <2>3, OneWorkKeeps, OwnedKept
<1>2. CASE PrepareLoad(w) \/ PublishLoad(w) \/ Reload(w) \/ AcquireLock(w)
  <2>1. \/ Done(w) \/ \E s \in Steps : Only(w, s)
        \/ work' = [work EXCEPT ![w].pc = "claim", ![w].content = row[p].content, ![w].slot = row[p].slot]
        \/ work' = [work EXCEPT ![w].pc = "prepare", ![w].inline = TRUE]
        \/ Goto(w, "cas")
    BY <1>2 DEF PrepareLoad, PublishLoad, Reload, AcquireLock, CheckReady, Steps
  <2>2. \/ work'[w].container = NoContainer
        \/ work'[w].pc # "idle" /\ work'[w].job = work[w].job /\ work'[w].container = work[w].container
    BY <1>0, <2>1, WorkShapes, IdleEmpty DEF Work
  <2>3. \A v \in Workers \ {w} : work'[v] = work[v]
    BY <1>0, <2>1, WorkShapes
  <2>4. row' = row /\ meta' = meta
    BY <1>2 DEF PrepareLoad, PublishLoad, Reload, AcquireLock
  <2> QED
    BY <2>2, <2>3, <2>4, OneWorkKeeps, SameRowsKeep, SameMetaKeeps, OwnedKept
<1>3. CASE PrepareClaim(w) \/ PrepareReady(w) \/ PrepareError(w)
  <2>1. p \in Posts /\ row[p] \in Row /\ work[w].job \in Job
    BY <1>3, PostTyped DEF PrepareClaim, PrepareReady, PrepareError, At
  <2>2. Done(w) \/ Goto(w, "build") \/ \E s \in Steps : Only(w, s)
    BY <1>3 DEF PrepareClaim, PrepareReady, PrepareError, Steps
  <2>3. WorkKeeps
    BY <2>2, WorkShapes, IdleEmpty, OneWorkKeeps
  <2>4. RowsKeep
    <3>1. CASE PrepareClaim(w)
      <4>1. Move(p, ClaimFrom, [row[p] EXCEPT !.status = "PREPARING"])
        BY <3>1 DEF PrepareClaim
      <4>2. [row[p] EXCEPT !.status = "PREPARING"].container = row[p].container
        BY <2>1, ContainerOf
      <4> QED
        BY <2>1, <4>1, <4>2, MoveKeeps
    <3>2. CASE PrepareReady(w)
      <4> DEFINE r == [row[p] EXCEPT !.status = "READY_TO_PUBLISH", !.container = work[w].container]
      <4>1. row' = row \/ row' = [row EXCEPT ![p] = r]
        BY <3>2 DEF PrepareReady, Move
      <4>2. r.container = work[w].container
        BY <2>1, ContainerOf
      <4> HIDE DEF r
      <4> QED
        BY <1>0, <2>1, <4>1, <4>2 DEF RowsKeep
    <3>3. CASE PrepareError(w)
      <4>1. \/ Move(p, {"PREPARING"}, [row[p] EXCEPT !.status = "SCHEDULED"])
            \/ Move(p, {"PREPARING"}, [row[p] EXCEPT !.status = "SCHEDULED", !.container = NoContainer])
            \/ row' = row
        BY <3>3 DEF PrepareError
      <4>2. /\ [row[p] EXCEPT !.status = "SCHEDULED"].container = row[p].container
            /\ [row[p] EXCEPT !.status = "SCHEDULED", !.container = NoContainer].container = NoContainer
        BY <2>1, ContainerOf
      <4> QED
        BY <2>1, <4>1, <4>2, MoveKeeps, SameRowsKeep
    <3> QED
      BY <1>3, <3>1, <3>2, <3>3
  <2>5. meta' = meta
    BY <1>3 DEF PrepareClaim, PrepareReady, PrepareError
  <2> QED
    BY <2>3, <2>4, <2>5, SameMetaKeeps, OwnedKept
<1>4. CASE Build(w)
  <2>1. p \in Posts /\ row[p] \in Row /\ work[w] \in Work
    BY <1>4, PostTyped DEF Build, At
  <2>2. CASE Only(w, "prepareError") /\ UNCHANGED <<meta, row>>
    BY <2>2, WorkShapes, OneWorkKeeps, SameRowsKeep, SameMetaKeeps, OwnedKept
  <2>3. ASSUME NEW c \in Containers \ Referenced,
               meta' = [Known EXCEPT ![c] = NewContainer(p, work[w].content)],
               row' = [row EXCEPT ![p].container = c],
               work' = [work EXCEPT ![w].pc = "poll", ![w].container = c]
        PROVE  Owned'
    <3>1. meta'[c].post = p
      BY <2>3, KnownType DEF NewContainer, Typed
    <3>2. \A d \in Containers \cap Referenced : meta'[d].post = meta[d].post
      BY <2>3, KnownType, KnownKeeps DEF Typed
    <3>3. /\ row'[p].container = c
          /\ \A q \in Posts \ {p} : row'[q] = row[q]
      BY <1>0, <2>1, <2>3 DEF Row
    <3>4. /\ work'[w].container = c /\ work'[w].pc = "poll" /\ work'[w].job = work[w].job
          /\ \A v \in Workers \ {w} : work'[v] = work[v]
      BY <1>0, <2>1, <2>3 DEF Work
    <3>5. ASSUME NEW q \in Posts, row'[q].container # NoContainer PROVE meta'[row'[q].container].post = q
      <4>1. CASE q # p
        <5>1. row[q].container \in Containers \cap Referenced
          BY <1>0, <3>3, <3>5, <4>1, RowFields DEF Referenced
        <5> QED
          BY <3>2, <3>3, <3>5, <4>1, <5>1 DEF Owned
      <4> QED
        BY <3>1, <3>3, <4>1
    <3>6. ASSUME NEW v \in Workers, work'[v].container # NoContainer
          PROVE  work'[v].pc # "idle" /\ meta'[work'[v].container].post = work'[v].job.post
      <4>1. CASE v # w
        <5>1. work[v].container \in Containers \cap Referenced
          BY <1>0, <3>4, <3>6, <4>1, WorkFields DEF Referenced
        <5> QED
          BY <3>2, <3>4, <3>6, <4>1, <5>1 DEF Owned, Post
      <4> QED
        BY <3>1, <3>4, <4>1 DEF Post
    <3> QED
      BY <3>5, <3>6 DEF Owned, Post
  <2> QED
    BY <1>4, <2>2, <2>3 DEF Build
<1>5. CASE Poll(w) \/ PublishCall(w) \/ Ask(w)
  <2>1. \/ \E s \in Steps \ {"idle"} : Goto(w, s)
        \/ \E s \in Steps : Only(w, s)
        \/ work' = [work EXCEPT ![w].pc = "build", ![w].rebuilt = TRUE, ![w].container = NoContainer]
        \/ \E m : work' = [work EXCEPT ![w].pc = "finish", ![w].media = m]
    BY <1>5 DEF Poll, PublishCall, Ask, Steps, PrepareSteps, LockedSteps
  <2>2. \/ work'[w].container = NoContainer
        \/ work'[w].pc # "idle" /\ work'[w].job = work[w].job /\ work'[w].container = work[w].container
    BY <1>0, <2>1, WorkShapes DEF Work
  <2>3. \A v \in Workers \ {w} : work'[v] = work[v]
    BY <1>0, <2>1, WorkShapes
  <2>4. PostsKeep
    <3> DEFINE c == work[w].container
               heard == [meta EXCEPT ![c].open = FALSE]
               lost == [meta EXCEPT ![c].open = TRUE]
    <3>1. meta' \in {meta, [meta EXCEPT ![c].state = "FINISHED"], heard, lost,
                     [heard EXCEPT ![c].state = "PUBLISHED"], [lost EXCEPT ![c].state = "PUBLISHED"]}
      BY <1>5 DEF Poll, PublishCall, Ask, Inquired
    <3>2. heard \in [Containers -> Container] /\ lost \in [Containers -> Container]
      BY <1>0, MetaTyped
    <3>3. \A d \in Containers : heard[d].post = meta[d].post /\ lost[d].post = meta[d].post
      BY <1>0, ContainerPost
    <3>4. \A d \in Containers : [meta EXCEPT ![c].state = "FINISHED"][d].post = meta[d].post
      BY <1>0, ContainerPost
    <3> HIDE DEF heard, lost
    <3>5. \A d \in Containers : /\ [heard EXCEPT ![c].state = "PUBLISHED"][d].post = meta[d].post
                                /\ [lost EXCEPT ![c].state = "PUBLISHED"][d].post = meta[d].post
      BY <3>2, <3>3, ContainerPost
    <3> QED
      BY <3>1, <3>3, <3>4, <3>5 DEF PostsKeep
  <2>5. row' = row
    BY <1>5 DEF Poll, PublishCall, Ask
  <2> QED
    BY <2>2, <2>3, <2>4, <2>5, OneWorkKeeps, SameRowsKeep, OwnedKept
<1>6. CASE Fail(w)
  <2>1. p \in Posts
    BY <1>6, PostTyped DEF Fail, At
  <2> QED
    BY <1>6, <2>1, FailPostKeeps, WorkShapes, IdleEmpty, OneWorkKeeps, SameMetaKeeps, OwnedKept DEF Fail
<1>7. CASE PublishClaim(w)
  <2>1. p \in Posts /\ row[p] \in Row
    BY <1>7, PostTyped DEF PublishClaim, At
  <2>2. Move(p, {"READY_TO_PUBLISH"}, [row[p] EXCEPT !.status = "PUBLISHING"])
    BY <1>7 DEF PublishClaim
  <2>3. [row[p] EXCEPT !.status = "PUBLISHING"].container = row[p].container
    BY <2>1, ContainerOf
  <2>4. RowsKeep
    BY <2>1, <2>2, <2>3, MoveKeeps
  <2>5. Done(w) \/ work' = [work EXCEPT ![w].pc = "call", ![w].container = row[p].container,
                                       ![w].attempts = row[p].attempts]
    BY <1>7 DEF PublishClaim
  <2>6. \/ work'[w].container = NoContainer
        \/ work'[w].pc # "idle" /\ work'[w].job = work[w].job /\ work'[w].container = row[p].container
    BY <1>0, <2>5, WorkShapes, IdleEmpty DEF Work
  <2>7. \A v \in Workers \ {w} : work'[v] = work[v]
    BY <1>0, <2>5, WorkShapes
  <2>8. meta' = meta
    BY <1>7 DEF PublishClaim
  <2> QED
    BY <2>1, <2>4, <2>6, <2>7, <2>8, OneWorkKeeps, SameMetaKeeps, OwnedKept
<1>8. CASE PublishError(w) \/ PublishBackoff(w)
  <2>1. p \in Posts /\ row[p] \in Row
    BY <1>8, PostTyped DEF PublishError, PublishBackoff, At
  <2>2. Done(w) \/ \E s \in Steps : Only(w, s)
    BY <1>8 DEF PublishError, PublishBackoff, Backoff, QuotaMove, Steps, LockedSteps
  <2>3. WorkKeeps
    BY <2>2, WorkShapes, IdleEmpty, OneWorkKeeps
  <2>4. \/ Move(p, {"PUBLISHING"}, [row[p] EXCEPT !.status = "READY_TO_PUBLISH"])
        \/ Move(p, {"PUBLISHING"}, [row[p] EXCEPT !.status = "SCHEDULED", !.container = NoContainer])
        \/ \E slot : Move(p, {"PUBLISHING"}, [row[p] EXCEPT !.status = "SCHEDULED", !.slot = slot,
                                              !.attempts = row[p].attempts + 1, !.container = NoContainer])
        \/ row' = row
    BY <1>8 DEF PublishError, PublishBackoff, Backoff, QuotaMove
  <2>5. /\ [row[p] EXCEPT !.status = "READY_TO_PUBLISH"].container = row[p].container
        /\ [row[p] EXCEPT !.status = "SCHEDULED", !.container = NoContainer].container = NoContainer
        /\ \A slot : [row[p] EXCEPT !.status = "SCHEDULED", !.slot = slot, !.attempts = row[p].attempts + 1,
                                     !.container = NoContainer].container = NoContainer
    BY <2>1, ContainerOf
  <2>6. RowsKeep
    BY <2>1, <2>4, <2>5, MoveKeeps, SameRowsKeep
  <2>7. meta' = meta
    BY <1>8 DEF PublishError, PublishBackoff
  <2> QED
    BY <2>3, <2>6, <2>7, SameMetaKeeps, OwnedKept
<1>9. CASE PublishFinish(w)
  <2>1. p \in Posts
    BY <1>9, PostTyped DEF PublishFinish, At
  <2> QED
    BY <1>9, <2>1, FinishKeeps, WorkShapes, IdleEmpty, OneWorkKeeps, SameMetaKeeps, OwnedKept DEF PublishFinish
<1> QED
  BY <1>1, <1>2, <1>3, <1>4, <1>5, <1>6, <1>7, <1>8, <1>9 DEF WorkerStep

LEMMA OneRowKeeps ==
  ASSUME Typed, NEW p \in Posts, NEW r, row' = [row EXCEPT ![p] = r],
         r.container = NoContainer \/ r.container = row[p].container
  PROVE  RowsKeep
  BY DEF Typed, TypeOK, RowsKeep

LEMMA SweepOwned == ASSUME Typed, Owned, NEW p \in Posts, SweepStep(p) PROVE Owned'
<1>0. row[p] \in Row /\ meta \in [Containers -> Container]
  BY DEF Typed, TypeOK
<1>1. work' = work
  BY DEF SweepStep, SweepRead, SweepRequeue, SweepFail, SweepManual, SweepStuck, SweepRecover,
         SweepFound, SweepFinished, SweepRelink
<1>2. WorkKeeps
  BY <1>1, SameWorkKeeps
<1>3. PostsKeep
  <2>1. meta' = meta \/ meta' = [meta EXCEPT ![row[p].container].open = FALSE]
    BY DEF SweepStep, SweepRead, SweepRequeue, SweepFail, SweepManual, SweepStuck, SweepRecover,
           SweepFound, SweepFinished, SweepRelink, Inquired
  <2>2. \A d \in Containers : [meta EXCEPT ![row[p].container].open = FALSE][d].post = meta[d].post
    BY <1>0, ContainerPost
  <2> QED
    BY <2>1, <2>2 DEF PostsKeep
<1>4. CASE SweepFail(p)
  BY <1>2, <1>3, <1>4, FailPostKeeps, OwnedKept DEF SweepFail
<1>5. CASE SweepFound(p)
  BY <1>2, <1>3, <1>5, FinishKeeps, OwnedKept DEF SweepFound
<1>6. CASE SweepFinished(p)
  <2>1. Move(p, {"PUBLISHING"}, [row[p] EXCEPT !.status = "READY_TO_PUBLISH"])
    BY <1>6 DEF SweepFinished
  <2>2. [row[p] EXCEPT !.status = "READY_TO_PUBLISH"].container = row[p].container
    BY <1>0, ContainerOf
  <2> QED
    BY <1>2, <1>3, <2>1, <2>2, MoveKeeps, OwnedKept
<1>7. CASE SweepManual(p) \/ SweepRelink(p)
  <2>1. \/ row' = [row EXCEPT ![p].status = "NEEDS_MANUAL", ![p].manual = TRUE]
        \/ row' = [row EXCEPT ![p].linkFailed = FALSE]
        \/ row' = row
    BY <1>7 DEF SweepManual, SweepRelink
  <2>2. /\ [row[p] EXCEPT !.status = "NEEDS_MANUAL", !.manual = TRUE].container = row[p].container
        /\ [row[p] EXCEPT !.linkFailed = FALSE].container = row[p].container
    BY <1>0 DEF Row
  <2>3. \/ row' = [row EXCEPT ![p] = [row[p] EXCEPT !.status = "NEEDS_MANUAL", !.manual = TRUE]]
        \/ row' = [row EXCEPT ![p] = [row[p] EXCEPT !.linkFailed = FALSE]]
        \/ row' = row
    BY <2>1 DEF Typed, TypeOK
  <2>4. RowsKeep
    BY <2>2, <2>3, OneRowKeeps, SameRowsKeep
  <2> QED
    BY <1>2, <1>3, <2>4, OwnedKept
<1>8. CASE SweepRead(p) \/ SweepRequeue(p) \/ SweepStuck(p) \/ SweepRecover(p)
  <2>1. row' = row
    BY <1>8 DEF SweepRead, SweepRequeue, SweepStuck, SweepRecover
  <2> QED
    BY <1>2, <1>3, <2>1, SameRowsKeep, OwnedKept
<1> QED
  BY <1>4, <1>5, <1>6, <1>7, <1>8 DEF SweepStep

LEMMA UserRowsKeep == ASSUME Typed, UserStep PROVE RowsKeep
<1>1. ASSUME NEW u \in Users, ScheduleWrite(u) PROVE RowsKeep
  <2> DEFINE p == req[u].post
             r == [row[p] EXCEPT !.status = "SCHEDULED", !.slot = req[u].slot,
                                 !.attempts = req[u].attempts + 1, !.container = NoContainer]
  <2>1. p \in Posts /\ row[p] \in Row
    BY RequestFields DEF Typed, TypeOK
  <2>2. row' = row \/ row' = [row EXCEPT ![p] = r]
    BY <1>1 DEF ScheduleWrite
  <2>3. r.container = NoContainer
    BY <2>1, ContainerOf
  <2> HIDE DEF r
  <2> QED
    BY <2>1, <2>2, <2>3, OneRowKeeps, SameRowsKeep
<1>2. ASSUME NEW u \in Users, DeleteWrite(u) PROVE RowsKeep
  <2>1. req[u].post \in Posts
    BY RequestFields DEF Typed, TypeOK
  <2>2. row' = [row EXCEPT ![req[u].post].deleted = TRUE]
    BY <1>2 DEF DeleteWrite
  <2>3. [row[req[u].post] EXCEPT !.deleted = TRUE].container = row[req[u].post].container
    BY <2>1 DEF Typed, TypeOK, Row
  <2> QED
    BY <2>1, <2>2, <2>3, OneRowKeeps
<1>3. ASSUME NEW p \in Posts, Leave(p) \/ \E u \in Users : CancelWrite(u, p) PROVE RowsKeep
  <2>1. PICK from \in {MayPause, MayDraft, {"NEEDS_MANUAL"}, MayCancel},
             to \in {"PAUSED", "DRAFT", "PUBLISHED_MANUAL", "CANCELED"} : UserMove(p, from, to)
    BY <1>3 DEF Leave, CancelWrite
  <2> DEFINE slot == IF to = "DRAFT" THEN 0 ELSE row[p].slot
             container == IF to = "DRAFT" THEN NoContainer ELSE row[p].container
             r == [row[p] EXCEPT !.status = to, !.slot = slot, !.container = container]
  <2>2. row' = [row EXCEPT ![p] = r]
    BY <2>1 DEF UserMove, Typed, TypeOK
  <2>3. r.container = NoContainer \/ r.container = row[p].container
    BY DEF Typed, TypeOK, Row
  <2> HIDE DEF r
  <2> QED
    BY <2>2, <2>3, OneRowKeeps
<1>4. ASSUME NEW p \in Posts, Edit(p) PROVE RowsKeep
  <2>1. PICK manual, rearm \in BOOLEAN :
          row' = [row EXCEPT ![p] = [row[p] EXCEPT !.content = @ + 1, !.manual = manual,
                                     !.attempts = IF rearm THEN @ + 1 ELSE @]]
    BY <1>4 DEF Edit
  <2>2. [row[p] EXCEPT !.content = @ + 1, !.manual = manual,
                       !.attempts = IF rearm THEN @ + 1 ELSE @].container = row[p].container
    BY DEF Typed, TypeOK, Row
  <2> QED
    BY <2>1, <2>2, OneRowKeeps
<1>5. ASSUME \/ \E u \in Users, p \in Posts : ScheduleLoad(u, p) \/ DeleteLoad(u, p)
             \/ \E u \in Users : CancelCampaign(u)
             \/ Reconnect
      PROVE  row' = row
  BY <1>5 DEF ScheduleLoad, DeleteLoad, CancelCampaign, Reconnect
<1> QED
  BY <1>1, <1>2, <1>3, <1>4, <1>5, SameRowsKeep DEF UserStep

LEMMA StepOwned == Typed /\ Owned /\ [Next]_vars => Owned'
<1> SUFFICES ASSUME Typed, Owned, [Next]_vars PROVE Owned'
  OBVIOUS
<1>1. CASE UserStep
  <2>1. work' = work /\ meta' = meta
    BY <1>1 DEF UserStep, ScheduleWrite, DeleteWrite, CancelCampaign, ScheduleLoad, DeleteLoad, CancelWrite,
                Leave, Edit, Reconnect
  <2> QED
    BY <1>1, <2>1, UserRowsKeep, SameWorkKeeps, SameMetaKeeps, OwnedKept
<1>2. CASE Tick \/ LoseQueue \/ LockExpire \/ UNCHANGED vars
  <2>1. row' = row /\ work' = work /\ meta' = meta
    BY <1>2 DEF Tick, LoseQueue, LockExpire, vars
  <2> QED
    BY <2>1, SameRowsKeep, SameWorkKeeps, SameMetaKeeps, OwnedKept
<1>3. ASSUME NEW w \in Workers, Crash(w) PROVE Owned'
  BY <1>3, WorkShapes, IdleEmpty, OneWorkKeeps, SameRowsKeep, SameMetaKeeps, OwnedKept DEF Crash
<1> QED
  BY <1>1, <1>2, <1>3, WorkerOwned, SweepOwned DEF Next, FaultStep

\* A media of the post in a given state of the account.
MediaIn(f, p) == \E i \in DOMAIN f : f[i].post = p

\* What the pipeline takes for a publish is one.
Shown ==
  /\ \A c \in Containers : meta[c].state = "PUBLISHED" => MediaIn(feed, meta[c].post)
  /\ \A w \in Workers : work[w].pc = "finish" => MediaIn(feed, work[w].job.post)
  /\ \A p \in Posts : sweep[p].step = "found" => MediaIn(feed, p)

LEMMA AppendShows ==
  ASSUME Typed, NEW e, feed' = Append(feed, e)
  PROVE  MediaIn(feed', e.post) /\ \A p : MediaIn(feed, p) => MediaIn(feed', p)
<1>1. feed \in Seq([post : Posts, content : Nat, attempt : Nat])
  BY DEF Typed, TypeOK
<1>2. /\ DOMAIN feed = 1..Len(feed) /\ DOMAIN feed' = 1..(Len(feed) + 1) /\ Len(feed) \in Nat
      /\ feed'[Len(feed) + 1] = e /\ \A i \in 1..Len(feed) : feed'[i] = feed[i]
  BY <1>1
<1> QED
  BY <1>2 DEF MediaIn

LEMMA FeedGrows == ASSUME Typed, [Next]_vars PROVE \A p : MediaIn(feed, p) => MediaIn(feed', p)
<1>1. feed' = feed \/ \E e : feed' = Append(feed, e)
  <2>1. ASSUME NEW w \in Workers, WorkerStep(w) PROVE feed' = feed \/ \E e : feed' = Append(feed, e)
    BY <2>1 DEF WorkerStep, Take, PrepareLoad, PrepareClaim, Build, Poll, PrepareReady, PrepareError, Fail,
                PublishLoad, Reload, AcquireLock, PublishClaim, PublishCall, Ask, PublishError, PublishBackoff,
                PublishFinish
  <2>2. ASSUME NEW q \in Posts, SweepStep(q) PROVE feed' = feed
    BY <2>2 DEF SweepStep, SweepRead, SweepRequeue, SweepFail, SweepManual, SweepStuck, SweepRecover,
                SweepFound, SweepFinished, SweepRelink
  <2>3. CASE UserStep
    BY <2>3 DEF UserStep, ScheduleWrite, DeleteWrite, CancelCampaign, ScheduleLoad, DeleteLoad, CancelWrite,
                Leave, Edit, Reconnect
  <2>4. CASE Tick \/ FaultStep \/ UNCHANGED vars
    BY <2>4 DEF Tick, FaultStep, LoseQueue, LockExpire, Crash, vars
  <2> QED
    BY <2>1, <2>2, <2>3, <2>4 DEF Next
<1> QED
  BY <1>1, AppendShows

\* A container Meta calls PUBLISHED has put its post's media on the account.
LEMMA StepShowsContainers ==
  ASSUME Typed, Shown, [Next]_vars, NEW c \in Containers, meta'[c].state = "PUBLISHED"
  PROVE  MediaIn(feed', meta'[c].post)
<1>0. meta \in [Containers -> Container] /\ meta[c].post \in Posts
  BY ContainerFields DEF Typed, TypeOK
<1>1. CASE meta'[c].state = meta[c].state /\ meta'[c].post = meta[c].post
  BY <1>0, <1>1, FeedGrows DEF Shown
<1>2. ASSUME NEW w \in Workers, PublishCall(w) PROVE MediaIn(feed', meta'[c].post)
  <2> DEFINE d == work[w].container
             heard == [meta EXCEPT ![d].open = FALSE]
             lost == [meta EXCEPT ![d].open = TRUE]
  <2>1. /\ heard \in [Containers -> Container] /\ lost \in [Containers -> Container]
        /\ \A x \in Containers : heard[x].post = meta[x].post /\ heard[x].state = meta[x].state
        /\ \A x \in Containers : lost[x].post = meta[x].post /\ lost[x].state = meta[x].state
    <3>1. heard \in [Containers -> Container] /\ lost \in [Containers -> Container]
      BY <1>0, MetaTyped
    <3>2. \A x \in Containers : heard[x].post = meta[x].post /\ heard[x].state = meta[x].state
      BY <1>0, ContainerPost
    <3>3. \A x \in Containers : lost[x].post = meta[x].post /\ lost[x].state = meta[x].state
      BY <1>0, ContainerPost
    <3> QED
      BY <3>1, <3>2, <3>3
  <2>2. CASE meta' = heard \/ meta' = lost
    BY <1>1, <2>1, <2>2
  <2>3. CASE /\ feed' = Append(feed, [post |-> meta[d].post, content |-> meta[d].content, attempt |-> work[w].attempts])
             /\ meta' = [heard EXCEPT ![d].state = "PUBLISHED"] \/ meta' = [lost EXCEPT ![d].state = "PUBLISHED"]
    <3> HIDE DEF heard, lost
    <3>4. \A x \in Containers : /\ [heard EXCEPT ![d].state = "PUBLISHED"][x].post = heard[x].post
                                /\ [lost EXCEPT ![d].state = "PUBLISHED"][x].post = lost[x].post
      BY <2>1, ContainerPost
    <3>1. meta'[c].post = meta[c].post
      BY <2>1, <2>3, <3>4
    <3>2. CASE c = d
      BY <2>3, <3>1, <3>2, AppendShows
    <3>3. CASE c # d
      <4>1. meta'[c] = heard[c] \/ meta'[c] = lost[c]
        BY <2>1, <2>3, <3>3
      <4> QED
        BY <1>1, <2>1, <4>1
    <3> QED
      BY <3>2, <3>3
  <2> QED
    BY <1>2, <2>2, <2>3 DEF PublishCall
<1>3. ASSUME NEW w \in Workers, Take(w) \/ Build(w) PROVE MediaIn(feed', meta'[c].post)
  <2>1. meta'[c] = meta[c] \/ meta'[c].state = "IN_PROGRESS"
    <3>1. Known \in [Containers -> Container] /\ (Known[c] = meta[c] \/ Known[c].state = "IN_PROGRESS")
      BY KnownType DEF Known, Blank, NewContainer, Typed
    <3>2. \/ meta' = meta \/ meta' = Known
          \/ \E d \in Containers : meta' = [Known EXCEPT ![d] = NewContainer(Post(w), work[w].content)]
      BY <1>3 DEF Take, Build
    <3> QED
      BY <3>1, <3>2 DEF NewContainer
  <2> QED
    BY <1>1, <2>1
<1>4. ASSUME NEW w \in Workers, Poll(w) PROVE MediaIn(feed', meta'[c].post)
  <2>1. meta' = meta \/ meta' = [meta EXCEPT ![work[w].container].state = "FINISHED"]
    BY <1>4 DEF Poll
  <2>2. meta'[c] = meta[c] \/ meta'[c].state = "FINISHED"
    BY <1>0, <2>1 DEF Container
  <2> QED
    BY <1>1, <2>2
<1>5. ASSUME NEW w \in Workers, Ask(w) PROVE MediaIn(feed', meta'[c].post)
  <2>1. meta' = meta \/ meta' = [meta EXCEPT ![work[w].container].open = FALSE]
    BY <1>5 DEF Ask, Inquired
  <2>2. \A x \in Containers : /\ [meta EXCEPT ![work[w].container].open = FALSE][x].post = meta[x].post
                              /\ [meta EXCEPT ![work[w].container].open = FALSE][x].state = meta[x].state
    BY <1>0, ContainerPost
  <2> QED
    BY <1>1, <2>1, <2>2
<1>6. ASSUME NEW p \in Posts, SweepStep(p) PROVE MediaIn(feed', meta'[c].post)
  <2>1. meta' = meta \/ meta' = [meta EXCEPT ![row[p].container].open = FALSE]
    BY <1>6 DEF SweepStep, SweepRead, SweepRequeue, SweepFail, SweepManual, SweepStuck, SweepRecover,
                SweepFound, SweepFinished, SweepRelink, Inquired
  <2>2. \A x \in Containers : /\ [meta EXCEPT ![row[p].container].open = FALSE][x].post = meta[x].post
                              /\ [meta EXCEPT ![row[p].container].open = FALSE][x].state = meta[x].state
    BY <1>0, ContainerPost
  <2> QED
    BY <1>1, <2>1, <2>2
<1>7. ASSUME NEW w \in Workers, WorkerStep(w), ~Take(w), ~Build(w), ~Poll(w), ~PublishCall(w), ~Ask(w)
      PROVE  meta' = meta
  BY <1>7 DEF WorkerStep, PrepareLoad, PrepareClaim, PrepareReady, PrepareError, Fail,
              PublishLoad, Reload, AcquireLock, PublishClaim, PublishError, PublishBackoff, PublishFinish
<1>8. UserStep => meta' = meta
  BY DEF UserStep, ScheduleWrite, DeleteWrite, CancelCampaign, ScheduleLoad, DeleteLoad, CancelWrite,
         Leave, Edit, Reconnect
<1>9. Tick \/ FaultStep \/ UNCHANGED vars => meta' = meta
  BY DEF Tick, FaultStep, LoseQueue, LockExpire, Crash, vars
<1> QED
  BY <1>1, <1>2, <1>3, <1>4, <1>5, <1>6, <1>7, <1>8, <1>9 DEF Next

\* A worker that goes to record a publish has one to record.
LEMMA StepShowsWork ==
  ASSUME Typed, Owned, Shown, [Next]_vars, NEW w \in Workers, work'[w].pc = "finish"
  PROVE  MediaIn(feed', work'[w].job.post)
<1>0. work \in [Workers -> Work] /\ meta \in [Containers -> Container] /\ row \in [Posts -> Row]
  BY DEF Typed, TypeOK
<1>1. CASE work'[w] = work[w]
  BY <1>1, FeedGrows DEF Shown
<1>2. ASSUME NEW v \in Workers, WorkerStep(v), v # w PROVE work'[w] = work[w]
  BY <1>0, <1>2 DEF WorkerStep, Take, PrepareLoad, PrepareClaim, Build, Poll, PrepareReady, PrepareError, Fail,
              PublishLoad, Reload, AcquireLock, PublishClaim, PublishCall, Ask, PublishError, PublishBackoff,
              PublishFinish, CheckReady, Backoff, QuotaMove, Done, Only, Goto
<1>3. CASE PublishCall(w)
  <2> DEFINE c == work[w].container
  <2>1. /\ c # NoContainer /\ work' = [work EXCEPT ![w].pc = "finish", ![w].media = Len(feed) + 1]
        /\ feed' = Append(feed, [post |-> meta[c].post, content |-> meta[c].content, attempt |-> work[w].attempts])
    <3>1. ~Goto(w, "ask") /\ ~Goto(w, "publishError")
      BY WorkShapes
    <3> QED
      BY <1>3, <3>1 DEF PublishCall
  <2>2. meta[c].post = work[w].job.post
    BY <2>1 DEF Owned, Post
  <2>3. work'[w].job = work[w].job
    BY <1>0, <2>1 DEF Work
  <2>4. MediaIn(feed', meta[c].post)
    BY <2>1, AppendShows
  <2> QED
    BY <2>2, <2>3, <2>4
<1>4. CASE Ask(w)
  <2> DEFINE c == work[w].container
  <2>1. /\ c # NoContainer /\ meta[c].state = "PUBLISHED"
        /\ \E m \in Newest : work' = [work EXCEPT ![w].pc = "finish", ![w].media = m]
    <3>1. ~Goto(w, "backoff") /\ ~Only(w, "failLocked")
      BY WorkShapes
    <3> QED
      BY <1>4, <3>1 DEF Ask
  <2>2. c \in Containers /\ meta[c].post = work[w].job.post
    BY <1>0, <2>1, WorkFields DEF Owned, Post
  <2>3. MediaIn(feed, work[w].job.post)
    BY <2>1, <2>2 DEF Shown
  <2>4. work'[w].job = work[w].job
    BY <1>0, <2>1 DEF Work
  <2> QED
    BY <2>3, <2>4, FeedGrows
<1>5. ASSUME WorkerStep(w), ~PublishCall(w), ~Ask(w) PROVE FALSE
  <2>1. ASSUME NEW j \in queue, work' = [work EXCEPT ![w] = [IdleWork EXCEPT !.pc = j.kind, !.job = j]] PROVE FALSE
    <3>1. work'[w].pc = j.kind /\ j.kind \in {"prepare", "publish"}
      BY <1>0, <2>1, JobFields DEF IdleWork, Typed, TypeOK
    <3> QED
      BY <3>1
  <2>2. \A s : Goto(w, s) \/ Only(w, s) => s = "finish"
    BY WorkShapes
  <2>3. ~Done(w)
    BY WorkShapes DEF IdleWork
  <2>4. ASSUME \/ work' = [work EXCEPT ![w].pc = "claim", ![w].content = row[Post(w)].content, ![w].slot = row[Post(w)].slot]
               \/ \E c : work' = [work EXCEPT ![w].pc = "poll", ![w].container = c]
               \/ work' = [work EXCEPT ![w].pc = "build", ![w].rebuilt = TRUE, ![w].container = NoContainer]
               \/ work' = [work EXCEPT ![w].pc = "prepare", ![w].inline = TRUE]
               \/ work' = [work EXCEPT ![w].pc = "call", ![w].container = row[Post(w)].container,
                                     ![w].attempts = row[Post(w)].attempts]
        PROVE  FALSE
    BY <1>0, <2>4 DEF Work
  <2>5. ~(Take(w) \/ PrepareLoad(w) \/ PrepareClaim(w) \/ Build(w) \/ Poll(w) \/ PrepareReady(w))
    BY <2>1, <2>2, <2>3, <2>4 DEF Take, PrepareLoad, PrepareClaim, Build, Poll, PrepareReady
  <2>6. ~(PrepareError(w) \/ Fail(w) \/ PublishLoad(w) \/ Reload(w) \/ AcquireLock(w) \/ PublishClaim(w))
    BY <2>2, <2>3, <2>4 DEF PrepareError, Fail, PublishLoad, Reload, AcquireLock, PublishClaim, CheckReady
  <2>7. ~(PublishError(w) \/ PublishBackoff(w) \/ PublishFinish(w))
    BY <2>2, <2>3 DEF PublishError, PublishBackoff, PublishFinish, Backoff, QuotaMove
  <2> QED
    BY <1>5, <2>5, <2>6, <2>7 DEF WorkerStep
<1>6. ASSUME NEW p \in Posts, SweepStep(p) PROVE work' = work
  BY <1>6 DEF SweepStep, SweepRead, SweepRequeue, SweepFail, SweepManual, SweepStuck, SweepRecover,
              SweepFound, SweepFinished, SweepRelink
<1>7. UserStep => work' = work
  BY DEF UserStep, ScheduleWrite, DeleteWrite, CancelCampaign, ScheduleLoad, DeleteLoad, CancelWrite,
         Leave, Edit, Reconnect
<1>8. Tick \/ LoseQueue \/ LockExpire \/ UNCHANGED vars => work' = work
  BY DEF Tick, LoseQueue, LockExpire, vars
<1>9. ASSUME NEW v \in Workers, Crash(v) PROVE work'[w] = work[w]
  BY <1>9, WorkShapes DEF Crash, IdleWork
<1> QED
  BY <1>1, <1>2, <1>3, <1>4, <1>5, <1>6, <1>7, <1>8, <1>9 DEF Next, FaultStep

\* So has the sweeper's recovery.
LEMMA StepShowsSweep ==
  ASSUME Typed, Owned, Shown, [Next]_vars, NEW p \in Posts, sweep'[p].step = "found"
  PROVE  MediaIn(feed', p)
<1>0. sweep \in [Posts -> Sweep] /\ row[p] \in Row
  BY DEF Typed, TypeOK
<1>1. CASE sweep'[p] = sweep[p]
  BY <1>1, FeedGrows DEF Shown
<1>2. ASSUME NEW q \in Posts, SweepStep(q), q # p PROVE sweep'[p] = sweep[p]
  BY <1>0, <1>2 DEF SweepStep, SweepRead, SweepRequeue, SweepFail, SweepManual, SweepStuck, SweepRecover,
              SweepFound, SweepFinished, SweepRelink, SweepDone, Others
<1>3. CASE SweepRecover(p)
  <2> DEFINE c == row[p].container
  <2>1. c # NoContainer /\ meta[c].state = "PUBLISHED"
    <3>1. ASSUME NEW s \in {"fail", "finished"}, NEW m, sweep' = [sweep EXCEPT ![p].step = s, ![p].media = m]
          PROVE  FALSE
      <4>1. sweep'[p].step = s
        BY <1>0, <3>1 DEF Sweep
      <4> QED
        BY <4>1
    <3> QED
      BY <1>3, <3>1 DEF SweepRecover
  <2>2. c \in Containers /\ meta[c].post = p
    BY <1>0, <2>1, RowFields DEF Owned
  <2>3. MediaIn(feed, p)
    BY <2>1, <2>2 DEF Shown
  <2> QED
    BY <2>3, FeedGrows
<1>4. ASSUME SweepStep(p), ~SweepRecover(p), ~SweepRelink(p) PROVE FALSE
  <2>1. ASSUME NEW x, sweep' = [sweep EXCEPT ![p] = x], x.step # "found" PROVE FALSE
    BY <1>0, <2>1
  <2>2. ~SweepDone(p)
    <3>1. IdleSweep.step # "found"
      BY DEF IdleSweep
    <3> QED
      BY <2>1, <3>1 DEF SweepDone
  <2>3. ~SweepRead(p)
    BY <2>1 DEF SweepRead
  <2>4. ~SweepStuck(p)
    BY <1>0 DEF SweepStuck, Sweep
  <2> QED
    BY <1>4, <2>2, <2>3, <2>4 DEF SweepStep, SweepRequeue, SweepFail, SweepManual, SweepFound, SweepFinished
<1>5. SweepRelink(p) => sweep' = sweep
  BY DEF SweepRelink, Others
<1>6. ASSUME NEW w \in Workers, WorkerStep(w) PROVE sweep' = sweep
  BY <1>6 DEF WorkerStep, Take, PrepareLoad, PrepareClaim, Build, Poll, PrepareReady, PrepareError, Fail,
              PublishLoad, Reload, AcquireLock, PublishClaim, PublishCall, Ask, PublishError, PublishBackoff,
              PublishFinish, Others
<1>7. UserStep => sweep' = sweep
  BY DEF UserStep, ScheduleWrite, DeleteWrite, CancelCampaign, ScheduleLoad, DeleteLoad, CancelWrite,
         Leave, Edit, Reconnect, Others
<1>8. Tick \/ FaultStep \/ UNCHANGED vars => sweep' = sweep
  BY DEF Tick, FaultStep, LoseQueue, LockExpire, Crash, Others, vars
<1> QED
  BY <1>1, <1>2, <1>3, <1>4, <1>5, <1>6, <1>7, <1>8 DEF Next

LEMMA StepShown == Typed /\ Owned /\ Shown /\ [Next]_vars => Shown'
  BY StepShowsContainers, StepShowsWork, StepShowsSweep DEF Shown

\* Only finishPublished makes a post PUBLISHED, and it has the media.
LEMMA StepLive ==
  Typed /\ Asked /\ Shown /\ PublishedIsLive /\ [Next]_vars => PublishedIsLive'
<1> SUFFICES ASSUME Typed, Asked, Shown, PublishedIsLive, [Next]_vars,
                    NEW p \in Posts, row'[p].status = "PUBLISHED"
             PROVE  MediaIn(feed', p)
  BY DEF PublishedIsLive, HasMedia, MediaIn
<1>1. row[p].status = "PUBLISHED" => MediaIn(feed, p)
  BY DEF PublishedIsLive, HasMedia, MediaIn
<1>2. ASSUME NEW q \in Posts, NEW m, Finish(q, m), MediaIn(feed, q) PROVE MediaIn(feed', p)
  BY <1>1, <1>2, FinishPublishes, FeedGrows
<1>3. ASSUME NEW w \in Workers, PublishFinish(w) PROVE MediaIn(feed', p)
  <2>1. Post(w) \in Posts /\ Finish(Post(w), work[w].media)
    BY <1>3, PostTyped DEF PublishFinish, At
  <2>2. MediaIn(feed, Post(w))
    BY <1>3 DEF PublishFinish, At, Shown, Post
  <2> QED
    BY <1>2, <2>1, <2>2
<1>4. ASSUME NEW q \in Posts, SweepFound(q) PROVE MediaIn(feed', p)
  BY <1>2, <1>4 DEF SweepFound, Shown
<1>5. CASE Neutral
  BY <1>1, <1>5, FeedGrows DEF Neutral
<1> QED
  BY <1>3, <1>4, <1>5, OnlyFinishPublishes

LEMMA InitShown == Init => Owned /\ Shown /\ PublishedIsLive
<1> SUFFICES ASSUME Init PROVE Owned /\ Shown /\ PublishedIsLive
  OBVIOUS
<1>1. PICK slot \in [Posts -> 1..MaxSlot] :
        row = [p \in Posts |-> [status |-> "SCHEDULED", attempts |-> 1, slot |-> slot[p],
                container |-> NoContainer, content |-> 0, manual |-> FALSE, deleted |-> FALSE,
                igMedia |-> 0, linkFailed |-> FALSE]]
  BY DEF Init
<1>2. \A p \in Posts : row[p].container = NoContainer /\ row[p].status = "SCHEDULED"
  BY <1>1
<1>3. \A w \in Workers : work[w] = IdleWork
  BY DEF Init
<1>4. \A c \in Containers : meta[c].state = "IN_PROGRESS"
  BY DEF Init, Blank, NewContainer
<1>5. \A p \in Posts : sweep[p].step = "idle"
  BY DEF Init, IdleSweep
<1>6. Owned
  BY <1>2, <1>3 DEF Owned, IdleWork
<1>7. Shown
  BY <1>3, <1>4, <1>5 DEF Shown, IdleWork
<1> QED
  BY <1>2, <1>6, <1>7 DEF PublishedIsLive

\* Lost answers, crashes and the sweeper's recovery never invent a publish: a
\* PUBLISHED post has a media of its own on the account (publishPost records a
\* success only on an answer or on the status of the post's own container).
THEOREM PublishedMeansLive == Spec => []PublishedIsLive
<1>1. Init => Typed /\ Asked /\ Owned /\ Shown /\ PublishedIsLive
  BY InitTyped, InitAsked, InitShown
<1>2. Typed /\ Asked /\ Owned /\ Shown /\ PublishedIsLive /\ [Next]_vars
        => (Typed /\ Asked /\ Owned /\ Shown /\ PublishedIsLive)'
  BY StepTyped, StepAsked, StepOwned, StepShown, StepLive
<1> QED
  BY <1>1, <1>2, PTL DEF Spec

-----------------------------------------------------------------------------
(* The pipeline implements PublishOnce: each of its steps publishes one    *)
(* media, records one post, switches one campaign, or is none of these.    *)

\* The state of PublishOnce.
Out == [i \in DOMAIN feed |-> [post |-> feed[i].post, attempt |-> feed[i].attempt]]
Recorded == {p \in Posts : row[p].status = "PUBLISHED"}
Answering == {p \in Posts : campaign[p].active}

-----------------------------------------------------------------------------
(* Three kinds of steps *)

\* One campaign at most changes its mind.
OneSwitch == \E p \in Posts : \A q \in Posts \ {p} : campaign'[q].active = campaign[q].active

PublishesOne ==
  /\ \E e \in [post : Posts, content : Nat, attempt : Nat] : feed' = Append(feed, e)
  /\ UNCHANGED <<row, campaign>>
RecordsOne == \E p \in Posts, m \in Nat : Finish(p, m) /\ UNCHANGED feed
SwitchesOne == Neutral /\ OneSwitch /\ UNCHANGED feed

LEMMA SameCampaigns == campaign' = campaign => OneSwitch
<1>1. (CHOOSE p \in Posts : TRUE) \in Posts
  BY ChosenPost
<1> QED
  BY <1>1 DEF OneSwitch

LEMMA SwitchOne ==
  ASSUME Typed, NEW p \in Posts, NEW x, campaign' = [campaign EXCEPT ![p] = x] \/ campaign' = [campaign EXCEPT ![p].active = x]
  PROVE  OneSwitch
<1>1. campaign \in [Posts -> [active : BOOLEAN, media : Nat]]
  BY DEF Typed, TypeOK
<1>2. \A q \in Posts \ {p} : campaign'[q].active = campaign[q].active
  BY <1>1
<1> QED
  BY <1>2 DEF OneSwitch

LEMMA PublishKind ==
  ASSUME Typed, NEW w \in Workers, PublishCall(w)
  PROVE  PublishesOne \/ UNCHANGED <<row, campaign, feed>>
<1> DEFINE c == work[w].container
           e == [post |-> meta[c].post, content |-> meta[c].content, attempt |-> work[w].attempts]
<1>1. UNCHANGED <<row, campaign>>
  BY DEF PublishCall
<1>2. UNCHANGED feed \/ (c # NoContainer /\ feed' = Append(feed, e))
  BY DEF PublishCall
<1>3. CASE c # NoContainer /\ feed' = Append(feed, e)
  <2>1. work[w] \in Work
    BY DEF Typed, TypeOK
  <2>2. c \in Containers
    BY <1>3, <2>1, WorkFields
  <2>3. e \in [post : Posts, content : Nat, attempt : Nat]
    BY <2>1, <2>2, ContainerFields, WorkFields DEF Typed, TypeOK
  <2> HIDE DEF e
  <2> QED
    BY <1>1, <1>3, <2>3 DEF PublishesOne
<1> QED
  BY <1>1, <1>2, <1>3

LEMMA StepKind ==
  ASSUME Typed, Asked, [Next]_vars
  PROVE  PublishesOne \/ RecordsOne \/ SwitchesOne
<1>1. ASSUME NEW w \in Workers, WorkerStep(w), ~PublishCall(w), ~PublishFinish(w) PROVE SwitchesOne
  <2>1. UNCHANGED <<campaign, feed>>
    BY <1>1 DEF WorkerStep, Take, PrepareLoad, PrepareClaim, Build, Poll, PrepareReady, PrepareError, Fail,
                PublishLoad, Reload, AcquireLock, PublishClaim, Ask, PublishError, PublishBackoff
  <2> QED
    BY <1>1, <2>1, WorkerNeutral, SameCampaigns DEF SwitchesOne
<1>2. ASSUME NEW w \in Workers, PublishCall(w) PROVE PublishesOne \/ SwitchesOne
  BY <1>2, PublishKind, SameRowsNeutral, SameCampaigns DEF SwitchesOne
<1>3. ASSUME NEW w \in Workers, PublishFinish(w) PROVE RecordsOne
  <2>1. Post(w) \in Posts /\ Finish(Post(w), work[w].media) /\ UNCHANGED feed
    BY <1>3, PostTyped DEF PublishFinish, At
  <2>2. work[w].media \in Nat
    BY WorkFields DEF Typed, TypeOK
  <2> QED
    BY <2>1, <2>2 DEF RecordsOne
<1>4. ASSUME NEW p \in Posts, SweepFound(p) PROVE RecordsOne
  <2>1. Finish(p, sweep[p].media) /\ UNCHANGED feed
    BY <1>4 DEF SweepFound
  <2>2. sweep[p].media \in Nat
    BY DEF Typed, TypeOK, Sweep
  <2> QED
    BY <2>1, <2>2 DEF RecordsOne
<1>5. ASSUME NEW p \in Posts, SweepStep(p), ~SweepFound(p) PROVE SwitchesOne
  <2>1. UNCHANGED feed
    BY <1>5 DEF SweepStep, SweepRead, SweepRequeue, SweepFail, SweepManual, SweepStuck, SweepRecover,
                SweepFinished, SweepRelink
  <2>2. campaign' = campaign \/ campaign' = [campaign EXCEPT ![p] = [active |-> TRUE, media |-> row[p].igMedia]]
    BY <1>5 DEF SweepStep, SweepRead, SweepRequeue, SweepFail, SweepManual, SweepStuck, SweepRecover,
                SweepFinished, SweepRelink
  <2> QED
    BY <1>5, <2>1, <2>2, SweepNeutral, SameCampaigns, SwitchOne DEF SwitchesOne
<1>6. CASE UserStep
  <2>1. UNCHANGED feed
    BY <1>6 DEF UserStep, ScheduleWrite, DeleteWrite, CancelCampaign, ScheduleLoad, DeleteLoad, CancelWrite,
                Leave, Edit, Reconnect
  <2>2. ASSUME NEW u \in Users, DeleteWrite(u) \/ CancelCampaign(u) PROVE OneSwitch
    <3>1. req[u].post \in Posts
      BY RequestFields DEF Typed, TypeOK
    <3>2. campaign' = [campaign EXCEPT ![req[u].post].active = FALSE]
      BY <2>2 DEF DeleteWrite, CancelCampaign
    <3> QED
      BY <3>1, <3>2, SwitchOne
  <2>3. OneSwitch
    BY <1>6, <2>2, SameCampaigns DEF UserStep, ScheduleWrite, ScheduleLoad, DeleteLoad, CancelWrite, Leave, Edit, Reconnect
  <2> QED
    BY <1>6, <2>1, <2>3, UserNeutral DEF SwitchesOne
<1>7. CASE UNCHANGED vars \/ Tick \/ FaultStep
  <2>1. UNCHANGED <<row, campaign, feed>>
    BY <1>7 DEF vars, Tick, FaultStep, LoseQueue, LockExpire, Crash
  <2> QED
    BY <2>1, SameRowsNeutral, SameCampaigns DEF SwitchesOne
<1> QED
  BY <1>1, <1>2, <1>3, <1>4, <1>5, <1>6, <1>7 DEF Next

-----------------------------------------------------------------------------
(* Each kind is a step of PublishOnce *)

LEMMA OutSeq ==
  ASSUME NEW f \in Seq([post : Posts, content : Nat, attempt : Nat])
  PROVE  LET o == [i \in DOMAIN f |-> [post |-> f[i].post, attempt |-> f[i].attempt]]
         IN  o \in Seq([post : Posts, attempt : Nat]) /\ Len(o) = Len(f) /\ DOMAIN o = 1..Len(f) /\ Len(f) \in Nat
<1> DEFINE o == [i \in DOMAIN f |-> [post |-> f[i].post, attempt |-> f[i].attempt]]
<1>1. Len(f) \in Nat /\ DOMAIN f = 1..Len(f) /\ \A i \in 1..Len(f) : f[i] \in [post : Posts, content : Nat, attempt : Nat]
  <2> DEFINE T == [post : Posts, content : Nat, attempt : Nat]
  <2>1. f \in Seq(T)
    OBVIOUS
  <2> HIDE DEF T
  <2>2. Len(f) \in Nat /\ DOMAIN f = 1..Len(f)
    BY <2>1
  <2>3. \A i \in 1..Len(f) : f[i] \in T
    BY <2>1
  <2> QED
    BY <2>2, <2>3 DEF T
<1>2. o \in [1..Len(f) -> [post : Posts, attempt : Nat]]
  BY <1>1
<1>3. o \in Seq([post : Posts, attempt : Nat])
  BY <1>1, <1>2
<1>4. DOMAIN o = 1..Len(o) /\ Len(o) \in Nat
  BY <1>3
<1>5. Len(o) = Len(f)
  BY <1>1, <1>2, <1>4
<1> QED
  BY <1>1, <1>3, <1>4, <1>5

LEMMA PublishMaps ==
  ASSUME Typed, PublishesOne
  PROVE  \E p \in Posts : /\ Len(Out') = Len(Out) + 1
                          /\ \A i \in DOMAIN Out : Out'[i] = Out[i]
                          /\ Out'[Len(Out')].post = p
                          /\ Recorded' = Recorded /\ Answering' = Answering
<1>1. PICK e \in [post : Posts, content : Nat, attempt : Nat] : feed' = Append(feed, e)
  BY DEF PublishesOne
<1>2. feed \in Seq([post : Posts, content : Nat, attempt : Nat])
  BY DEF Typed, TypeOK
<1>3. /\ feed' \in Seq([post : Posts, content : Nat, attempt : Nat]) /\ Len(feed') = Len(feed) + 1
      /\ feed'[Len(feed) + 1] = e /\ \A i \in 1..Len(feed) : feed'[i] = feed[i]
  BY <1>1, <1>2
<1>4. Len(Out) = Len(feed) /\ DOMAIN Out = 1..Len(feed) /\ Len(feed) \in Nat
  BY <1>2, OutSeq DEF Out
<1>5. Len(Out') = Len(feed') /\ DOMAIN feed' = 1..Len(feed')
  BY <1>3, OutSeq DEF Out
<1>6. \A i \in DOMAIN Out : Out'[i] = Out[i]
  BY <1>2, <1>3, <1>4, <1>5 DEF Out
<1>7. Out'[Len(Out')].post = e.post
  BY <1>3, <1>4, <1>5 DEF Out
<1>8. Recorded' = Recorded /\ Answering' = Answering
  BY DEF PublishesOne, Recorded, Answering
<1> QED
  BY <1>3, <1>4, <1>5, <1>6, <1>7, <1>8

\* A campaign that is switched is that of a published post.
LEMMA SwitchMaps ==
  ASSUME Recorded' = Recorded, CampaignWaits, CampaignWaits', NEW p \in Posts,
         \A q \in Posts \ {p} : campaign'[q].active = campaign[q].active
  PROVE  Answering' = Answering \/ (p \in Recorded /\ Answering' \in {Answering \cup {p}, Answering \ {p}})
<1>1. CASE p \in Answering
  <2>1. p \in Recorded
    BY <1>1 DEF CampaignWaits, Answering, Recorded
  <2>2. Answering' = Answering \/ Answering' = Answering \ {p}
    BY <1>1 DEF Answering
  <2> QED
    BY <2>1, <2>2
<1>2. CASE p \notin Answering /\ p \in Answering'
  <2>1. p \in Recorded
    BY <1>2 DEF CampaignWaits, Answering, Recorded
  <2>2. Answering' = Answering \cup {p}
    BY <1>2 DEF Answering
  <2> QED
    BY <2>1, <2>2
<1>3. CASE p \notin Answering /\ p \notin Answering'
  BY <1>3 DEF Answering
<1> QED
  BY <1>1, <1>2, <1>3

LEMMA RecordMaps ==
  ASSUME Typed, CampaignWaits, CampaignWaits', PublishedIsLive', NEW p \in Posts, NEW m \in Nat, Finish(p, m), UNCHANGED feed
  PROVE  \/ Recorded' = Recorded /\ \A q \in Posts \ {p} : campaign'[q].active = campaign[q].active
         \/ /\ p \notin Recorded /\ Recorded' = Recorded \cup {p}
            /\ \E i \in DOMAIN Out : Out[i].post = p
            /\ Answering' \in {Answering, Answering \cup {p}}
<1>1. /\ row'[p].status = "PUBLISHED" \/ UNCHANGED <<row, campaign>>
      /\ \A q \in Posts \ {p} : row'[q] = row[q] /\ campaign'[q] = campaign[q]
  BY FinishPublishes
<1>2. CASE p \in Recorded \/ UNCHANGED <<row, campaign>>
  BY <1>1, <1>2 DEF Recorded
<1>3. CASE p \notin Recorded /\ row'[p].status = "PUBLISHED"
  <2>1. Recorded' = Recorded \cup {p}
    BY <1>1, <1>3 DEF Recorded
  <2>2. \E i \in DOMAIN feed : feed[i].post = p
    BY <1>3 DEF PublishedIsLive, HasMedia
  <2>3. \E i \in DOMAIN Out : Out[i].post = p
    BY <2>2 DEF Out
  <2>4. p \notin Answering
    BY <1>3 DEF CampaignWaits, Answering, Recorded
  <2>5. Answering' = Answering \/ Answering' = Answering \cup {p}
    BY <1>1, <2>4 DEF Answering
  <2> QED
    BY <1>3, <2>1, <2>3, <2>5
<1> QED
  BY <1>1, <1>2, <1>3

LEMMA PromiseStep ==
  ASSUME Typed, Asked, CampaignWaits, CampaignWaits', PublishedIsLive', [Next]_vars
  PROVE  [Promise!Next]_(Promise!vars)
<1>1. CASE PublishesOne
  <2>1. \E p \in Posts : Promise!Publish(p)
    BY <1>1, PublishMaps DEF Promise!Publish, Out, Recorded, Answering
  <2> QED
    BY <2>1 DEF Promise!Next
<1>2. ASSUME NEW p \in Posts, Recorded' = Recorded, UNCHANGED feed,
             \A q \in Posts \ {p} : campaign'[q].active = campaign[q].active
      PROVE  Promise!Switch(p) \/ UNCHANGED Promise!vars
  <2>1. Out' = Out
    BY <1>2 DEF Out
  <2>2. Answering' = Answering \/ (p \in Recorded /\ Answering' \in {Answering \cup {p}, Answering \ {p}})
    BY <1>2, SwitchMaps
  <2> QED
    BY <1>2, <2>1, <2>2 DEF Promise!Switch, Promise!vars, Out, Recorded, Answering
<1>3. CASE SwitchesOne
  <2>1. Recorded' = Recorded
    BY <1>3 DEF SwitchesOne, Neutral, Recorded
  <2> QED
    BY <1>2, <1>3, <2>1 DEF SwitchesOne, OneSwitch, Promise!Next
<1>4. CASE RecordsOne
  <2>1. PICK p \in Posts, m \in Nat : Finish(p, m) /\ UNCHANGED feed
    BY <1>4 DEF RecordsOne
  <2>2. \/ Recorded' = Recorded /\ \A q \in Posts \ {p} : campaign'[q].active = campaign[q].active
        \/ /\ p \notin Recorded /\ Recorded' = Recorded \cup {p}
           /\ \E i \in DOMAIN Out : Out[i].post = p
           /\ Answering' \in {Answering, Answering \cup {p}}
    BY <2>1, RecordMaps
  <2>3. CASE Recorded' = Recorded /\ \A q \in Posts \ {p} : campaign'[q].active = campaign[q].active
    BY <1>2, <2>1, <2>3 DEF Promise!Next
  <2>4. CASE /\ p \notin Recorded /\ Recorded' = Recorded \cup {p}
             /\ \E i \in DOMAIN Out : Out[i].post = p
             /\ Answering' \in {Answering, Answering \cup {p}}
    <3>1. Out' = Out
      BY <2>1 DEF Out
    <3>2. Promise!Record(p)
      BY <2>4, <3>1 DEF Promise!Record, Out, Recorded, Answering
    <3> QED
      BY <3>2 DEF Promise!Next
  <2> QED
    BY <2>2, <2>3, <2>4
<1> QED
  BY <1>1, <1>3, <1>4, StepKind

LEMMA PromiseInit == Init => Promise!Init
<1> SUFFICES ASSUME Init PROVE Promise!Init
  OBVIOUS
<1>1. feed = <<>> /\ (\A p \in Posts : ~campaign[p].active)
  BY DEF Init
<1>2. Out = <<>>
  BY <1>1 DEF Out
<1>3. Recorded = {} /\ Answering = {}
  BY <1>1, InitShown DEF Recorded, Answering, PublishedIsLive, HasMedia
<1> QED
  BY <1>2, <1>3 DEF Promise!Init, Out, Recorded, Answering

\* Through crashes, lost jobs, lost answers, the sweeper's recovery and users who
\* reschedule, edit, pause, cancel and delete, media go out one by one and stay, a
\* post is recorded once, after a media of it is out, and only then may its campaign
\* answer: the pipeline implements PublishOnce (publish.ts, sweep.ts, service.ts).
THEOREM PipelineKeepsPromise == Spec => KeepsPromise
<1> DEFINE Sure == Typed /\ Asked /\ Owned /\ Shown /\ PublishedIsLive /\ CampaignWaits
<1>1. Init => Sure
  <2>1. Init => CampaignWaits
    BY DEF Init, CampaignWaits
  <2> QED
    BY <2>1, InitTyped, InitAsked, InitShown
<1>2. Sure /\ [Next]_vars => Sure'
  BY StepTyped, StepAsked, StepOwned, StepShown, StepLive, StepWaits
<1>3. Sure /\ Sure' /\ [Next]_vars => [Promise!Next]_(Promise!vars)
  BY PromiseStep
<1> HIDE DEF Sure
<1> QED
  BY <1>1, <1>2, <1>3, PromiseInit, PTL DEF Spec, KeepsPromise, Promise!Spec
=============================================================================
