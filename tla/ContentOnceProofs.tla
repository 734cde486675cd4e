------------------------- MODULE ContentOnceProofs -------------------------
(***************************************************************************)
(* What the pipeline keeps while nobody reschedules or deletes a post      *)
(* (Users = {}), for any number of posts, workers, retries, crashes and    *)
(* losses: one worker at a time for a post, no second call on a container  *)
(* before Meta was asked, one media per attempt, and a linked campaign.    *)
(* And, with users, that a first attempt is never early.                   *)
(***************************************************************************)
EXTENDS ContentSafetyProofs

\* A worker that has claimed the post: making its container, or sending it.
Making == {"build", "poll", "ready", "prepareError"}
Sending == {"call", "ask", "publishError", "backoff"}
Engaged(w) == work[w].pc \in Making \cup Sending

\* The compare-and-set of the status, not the lock, keeps a post to one worker.
Alone == \A v, w \in Workers : Engaged(v) /\ Engaged(w) /\ Post(v) = Post(w) => v = w

\* A claimed post stays as its worker claimed it, or has left the pipeline.
Claimed ==
  \A w \in Workers : LET r == row[Post(w)] IN
    /\ work[w].pc \in Making => r.status \notin InFlight \ {"PREPARING"}
    /\ work[w].pc \in Sending => r.status \notin InFlight \ {"PUBLISHING"}
    /\ work[w].pc \in Sending /\ r.status = "PUBLISHING" =>
         r.container = work[w].container /\ r.attempts = work[w].attempts

\* The sweeper sends a post back only when nobody is sending it.
Swept ==
  \A p \in Posts : sweep[p].step = "finished" =>
    /\ row[p].status \notin InFlight \ {"PUBLISHING"}
    /\ row[p].status = "PUBLISHING" => \A w \in Workers : work[w].pc \in Sending => Post(w) # p

\* What is to be published, or is being sent, has a container.
Held ==
  /\ \A p \in Posts : row[p].status \in {"READY_TO_PUBLISH", "PUBLISHING"} => row[p].container # NoContainer
  /\ \A w \in Workers : work[w].pc \in {"poll", "ready"} \cup Sending => work[w].container # NoContainer

\* No container that may be called has an unanswered call nobody asked about.
Answered ==
  /\ \A w \in Workers : work[w].pc \in {"poll", "ready", "call", "publishError", "backoff"} =>
                          ~meta[work[w].container].open
  /\ \A p \in Posts : row[p].status = "READY_TO_PUBLISH" => ~meta[row[p].container].open
  /\ \A p \in Posts : sweep[p].step = "finished" /\ row[p].status = "PUBLISHING" =>
                        ~meta[row[p].container].open

\* No media of this attempt is out.
Unused(p, a) == \A i \in DOMAIN feed : feed[i].post = p => feed[i].attempt # a
OpenStatus == {"SCHEDULED", "PREPARING"}

Counted ==
  /\ \A i \in DOMAIN feed : feed[i].attempt <= row[feed[i].post].attempts
  /\ \A w \in Workers : work[w].pc \in Sending => work[w].attempts <= row[Post(w)].attempts
  /\ \A w \in Workers : work[w].pc \in Sending /\ meta[work[w].container].state # "PUBLISHED" =>
                          Unused(Post(w), work[w].attempts)
  /\ \A p \in Posts : row[p].status \in OpenStatus => Unused(p, row[p].attempts)
  /\ \A p \in Posts : row[p].status \in {"READY_TO_PUBLISH", "PUBLISHING"}
                      /\ meta[row[p].container].state # "PUBLISHED" => Unused(p, row[p].attempts)

-----------------------------------------------------------------------------
(* The kinds of steps                                                      *)

\* The row is left alone, is edited while it waits, or leaves the pipeline.
Steady(q) ==
  \/ row'[q] = row[q]
  \/ /\ row'[q].status = row[q].status /\ row'[q].container = row[q].container
     /\ \/ row'[q].attempts = row[q].attempts
        \/ row[q].status = "SCHEDULED" /\ row'[q].attempts = row[q].attempts + 1
  \/ row'[q].status \notin InFlight /\ row'[q].attempts = row[q].attempts

\* No container in use gets an open call, and none that is published ceases to be.
MetaKeeps == \A c \in Containers \cap Referenced :
           /\ meta'[c].open => meta[c].open
           /\ meta'[c].state # "PUBLISHED" => meta[c].state # "PUBLISHED"

Idles(w) == work'[w].pc \notin Making \cup Sending
Onward(w, step) == work'[w].pc = step /\ work'[w].job = work[w].job

Aside(w) == Idles(w) /\ (\A q \in Posts : Steady(q)) /\ feed' = feed /\ MetaKeeps

\* One write of the status of the worker's post, from one status to another.
Turns(w, from, to) ==
  /\ Post(w) \in Posts
  /\ row[Post(w)].status = from /\ row'[Post(w)].status = to
  /\ \A q \in Posts \ {Post(w)} : row'[q] = row[q]
  /\ feed' = feed /\ meta' = meta
SameAttempts(w) == row'[Post(w)].attempts = row[Post(w)].attempts
SameContainer(w) == row'[Post(w)].container = row[Post(w)].container

Claims(w) == Turns(w, "SCHEDULED", "PREPARING") /\ SameAttempts(w) /\ Onward(w, "build")

Builds(w) ==
  /\ At(w, "build") /\ Post(w) \in Posts
  /\ Onward(w, "poll") /\ work'[w].container \in Containers \ Referenced
  /\ ~meta'[work'[w].container].open
  /\ row'[Post(w)].status = row[Post(w)].status /\ SameAttempts(w)
  /\ row'[Post(w)].container = work'[w].container
  /\ \A q \in Posts \ {Post(w)} : row'[q] = row[q]
  /\ feed' = feed /\ MetaKeeps

Makes(w) ==
  /\ work[w].pc \in Making /\ Onward(w, work'[w].pc) /\ work'[w].pc \in Making \ {"poll"}
  /\ work'[w].pc = "ready" => At(w, "poll") /\ work'[w].container = work[w].container
  /\ row' = row /\ feed' = feed
  /\ \A c \in Containers : meta'[c].open => meta[c].open
  /\ \A c \in Containers \ {work[w].container} : meta'[c] = meta[c]
  /\ ~At(w, "poll") => meta' = meta

Readies(w) ==
  /\ At(w, "ready") /\ Turns(w, "PREPARING", "READY_TO_PUBLISH") /\ SameAttempts(w) /\ Idles(w)
  /\ row'[Post(w)].container = work[w].container

Returns(w) ==
  At(w, "prepareError") /\ Turns(w, "PREPARING", "SCHEDULED") /\ SameAttempts(w) /\ Idles(w)

Starts(w) ==
  /\ Turns(w, "READY_TO_PUBLISH", "PUBLISHING") /\ SameAttempts(w) /\ SameContainer(w) /\ Onward(w, "call")
  /\ work'[w].container = row[Post(w)].container /\ work'[w].attempts = row[Post(w)].attempts

\* media_publish: the answer leads on, and a media may appear.
Calls(w) ==
  LET c == work[w].container IN
  /\ At(w, "call") /\ Onward(w, work'[w].pc) /\ work'[w].pc \in {"finish", "ask", "publishError"}
  /\ work'[w].container = c /\ work'[w].attempts = work[w].attempts
  /\ row' = row
  /\ \A d \in Containers \ {c} : meta'[d] = meta[d]
  /\ work'[w].pc = "publishError" /\ c \in Containers => ~meta'[c].open
  /\ c \in Containers /\ meta'[c].state # "PUBLISHED" => meta[c].state # "PUBLISHED"
  /\ \/ feed' = feed
     \/ /\ c \in Containers /\ meta[c].state # "PUBLISHED" /\ meta'[c].state = "PUBLISHED"
        /\ \E e : feed' = Append(feed, e) /\ e.post = meta[c].post /\ e.attempt = work[w].attempts

Asks(w) ==
  /\ At(w, "ask") /\ Onward(w, "backoff")
  /\ work'[w].container = work[w].container /\ work'[w].attempts = work[w].attempts
  /\ row' = row /\ feed' = feed /\ MetaKeeps
  /\ work[w].container \in Containers => ~meta'[work[w].container].open

Retries(w) ==
  /\ work[w].pc \in {"publishError", "backoff"}
  /\ Turns(w, "PUBLISHING", "READY_TO_PUBLISH") /\ SameAttempts(w) /\ SameContainer(w) /\ Idles(w)

\* A new container for the same attempt, or a new attempt.
Redoes(w) ==
  /\ At(w, "publishError") /\ Turns(w, "PUBLISHING", "SCHEDULED") /\ Idles(w)
  /\ \/ SameAttempts(w) /\ meta[work[w].container].state # "PUBLISHED"
     \/ row'[Post(w)].attempts = row[Post(w)].attempts + 1

WorkerKind(w) ==
  \/ Aside(w) \/ Claims(w) \/ Builds(w) \/ Makes(w) \/ Readies(w) \/ Returns(w)
  \/ Starts(w) \/ Calls(w) \/ Asks(w) \/ Retries(w) \/ Redoes(w)
AsideFrom(w) == sweep' = sweep /\ \A v \in Workers \ {w} : work'[v] = work[v]

-----------------------------------------------------------------------------
(* Every step of a worker is of a kind                                     *)

\* What the moves of a worker leave of its own state.
LEMMA WorkLeft ==
  ASSUME Typed, NEW w \in Workers
  PROVE  /\ Done(w) => Idles(w)
         /\ \A s \in Steps \ (Making \cup Sending) : Only(w, s) \/ Goto(w, s) => Idles(w)
         /\ \A s : Goto(w, s) => /\ Onward(w, s) /\ work'[w].container = work[w].container
                                /\ work'[w].attempts = work[w].attempts
         /\ \A s : Only(w, s) => Onward(w, s)
<1>1. work \in [Workers -> Work]
  BY DEF Typed, TypeOK
<1>2. ASSUME NEW s, Goto(w, s) PROVE work'[w].attempts = work[w].attempts
  BY <1>1, <1>2 DEF Goto, Work
<1>3. IdleWork.pc \notin Making \cup Sending
  BY DEF IdleWork, Making, Sending
<1> QED
  BY <1>2, <1>3, WorkShapes DEF Idles, Onward

LEMMA SameRowsAside ==
  ASSUME row' = row PROVE \A q \in Posts : Steady(q)
  BY DEF Steady

LEMMA SameMetaQuiet == meta' = meta => MetaKeeps
  BY DEF MetaKeeps

LEMMA KnownQuiet == ASSUME Typed, meta' = Known PROVE MetaKeeps
  BY KnownKeeps DEF MetaKeeps

\* The two outcomes of a guarded write of the status.
LEMMA MoveTurns ==
  ASSUME Typed, NEW w \in Workers, Post(w) \in Posts, NEW from, NEW to, NEW r, r.status = to,
         Move(Post(w), {from}, r), feed' = feed, meta' = meta
  PROVE  row' = row \/ (Turns(w, from, to) /\ row'[Post(w)] = r)
  BY DEF Move, Turns, Typed, TypeOK

\* The row record with another status keeps its attempts.
LEMMA AttemptsOf ==
  ASSUME NEW r \in Row
  PROVE  /\ \A x : [r EXCEPT !.status = x].attempts = r.attempts
         /\ \A x, c : [r EXCEPT !.status = x, !.container = c].attempts = r.attempts
         /\ \A x, y, z, c : [r EXCEPT !.status = x, !.slot = y, !.attempts = z, !.container = c].attempts = z
  BY DEF Row

LEMMA FailPostSteady ==
  ASSUME Typed, NEW p \in Posts, NEW toManual, FailPost(p, toManual)
  PROVE  \A q \in Posts : Steady(q)
<1> DEFINE r == [row[p] EXCEPT !.status = IF toManual THEN "NEEDS_MANUAL" ELSE "FAILED",
                               !.manual = @ \/ toManual]
<1>1. r.status \notin InFlight /\ r.attempts = row[p].attempts
  BY DEF Typed, TypeOK, Row, InFlight
<1>2. Move(p, FailFrom, r)
  BY DEF FailPost
<1> HIDE DEF r
<1> QED
  BY <1>1, <1>2 DEF Move, Steady, Typed, TypeOK

LEMMA FinishSteady ==
  ASSUME Typed, NEW p \in Posts, NEW m, Finish(p, m) PROVE \A q \in Posts : Steady(q)
<1>1. CASE row' = row
  BY <1>1, SameRowsAside
<1>2. ASSUME NEW b \in BOOLEAN,
             row' = [row EXCEPT ![p].status = "PUBLISHED", ![p].igMedia = m, ![p].linkFailed = b]
      PROVE  \A q \in Posts : Steady(q)
  <2>1. row'[p].status \notin InFlight /\ row'[p].attempts = row[p].attempts
    BY <1>2 DEF Typed, TypeOK, Row, InFlight
  <2>2. \A q \in Posts \ {p} : row'[q] = row[q]
    BY <1>2 DEF Typed, TypeOK
  <2> QED
    BY <2>1, <2>2 DEF Steady
<1> QED
  BY <1>1, <1>2 DEF Finish

LEMMA MetaOf ==
  ASSUME NEW m \in [Containers -> Container], NEW c
  PROVE  /\ \A b : \A d \in Containers : d # c => [m EXCEPT ![c].open = b][d] = m[d]
         /\ \A s : \A d \in Containers : d # c => [m EXCEPT ![c].state = s][d] = m[d]
         /\ \A s : \A d \in Containers : [m EXCEPT ![c].state = s][d].open = m[d].open
         /\ c \in Containers => /\ \A b : [m EXCEPT ![c].open = b][c].open = b
                                /\ \A s : [m EXCEPT ![c].state = s][c].state = s
         /\ \A b : \A d \in Containers : [m EXCEPT ![c].open = b][d].state = m[d].state
  BY DEF Container

LEMMA PrepareKinds ==
  ASSUME Typed, NEW w \in Workers,
         PrepareClaim(w) \/ Build(w) \/ Poll(w) \/ PrepareReady(w) \/ PrepareError(w)
  PROVE  WorkerKind(w)
<1> DEFINE p == Post(w)
<1>0. work \in [Workers -> Work] /\ row \in [Posts -> Row] /\ meta \in [Containers -> Container]
  BY DEF Typed, TypeOK
<1>1. p \in Posts /\ row[p] \in Row /\ work[w] \in Work
  BY PostTyped DEF PrepareClaim, Build, Poll, PrepareReady, PrepareError, At
<1>2. CASE PrepareClaim(w)
  <2> DEFINE r == [row[p] EXCEPT !.status = "PREPARING"]
  <2>1. r.status = "PREPARING" /\ r.attempts = row[p].attempts
    BY <1>1, StatusOf, AttemptsOf
  <2>2. Move(p, {"SCHEDULED"}, r) /\ feed' = feed /\ meta' = meta
    BY <1>2 DEF PrepareClaim, ClaimFrom
  <2> HIDE DEF r
  <2>3. CASE row[p].status = "SCHEDULED"
    <3>1. Goto(w, "build")
      BY <1>2, <2>3 DEF PrepareClaim, ClaimFrom
    <3>2. row'[p] = r /\ \A q \in Posts \ {p} : row'[q] = row[q]
      BY <1>0, <1>1, <2>2, <2>3 DEF Move
    <3> QED
      BY <1>1, <2>1, <2>2, <2>3, <3>1, <3>2, WorkLeft DEF Claims, Turns, SameAttempts, WorkerKind
  <2>4. CASE row[p].status # "SCHEDULED"
    <3>1. Done(w) /\ row' = row
      BY <1>2, <2>2, <2>4 DEF PrepareClaim, ClaimFrom, Move
    <3> QED
      BY <2>2, <3>1, WorkLeft, SameRowsAside, SameMetaQuiet DEF Aside, WorkerKind
  <2> QED
    BY <2>3, <2>4
<1>3. CASE Build(w)
  <2>1. CASE Only(w, "prepareError") /\ UNCHANGED <<meta, row>>
    <3>1. work'[w].pc = "prepareError" /\ Onward(w, "prepareError") /\ feed' = feed
      BY <1>3, <2>1, WorkLeft DEF Build, Onward
    <3> QED
      BY <1>3, <2>1, <3>1 DEF Makes, Making, Build, At, WorkerKind
  <2>2. ASSUME NEW c \in Containers \ Referenced,
               meta' = [Known EXCEPT ![c] = NewContainer(p, work[w].content)],
               row' = [row EXCEPT ![p].container = c],
               work' = [work EXCEPT ![w].pc = "poll", ![w].container = c]
        PROVE  WorkerKind(w)
    <3>1. Onward(w, "poll") /\ work'[w].container = c
      BY <1>0, <2>2 DEF Work, Onward
    <3>2. ~meta'[c].open
      BY <2>2, KnownType DEF Typed, NewContainer
    <3>3. MetaKeeps
      BY <2>2, KnownType, KnownKeeps DEF Typed, MetaKeeps
    <3>4. /\ row'[p].status = row[p].status /\ row'[p].attempts = row[p].attempts /\ row'[p].container = c
          /\ \A q \in Posts \ {p} : row'[q] = row[q]
      BY <1>0, <1>1, <2>2 DEF Row
    <3>5. At(w, "build") /\ feed' = feed
      BY <1>3 DEF Build
    <3> QED
      BY <1>1, <3>1, <3>2, <3>3, <3>4, <3>5 DEF Builds, SameAttempts, WorkerKind
  <2> QED
    BY <1>3, <2>1, <2>2 DEF Build
<1>4. CASE Poll(w)
  <2>1. At(w, "poll") /\ row' = row /\ feed' = feed
    BY <1>4 DEF Poll
  <2>2. CASE meta' = [meta EXCEPT ![work[w].container].state = "FINISHED"] /\ Goto(w, "ready")
    <3>1. Onward(w, "ready") /\ work'[w].pc = "ready" /\ work'[w].container = work[w].container
      BY <2>2, WorkLeft DEF Onward
    <3>2. \A c \in Containers : meta'[c].open = meta[c].open
      BY <1>0, <2>2, MetaOf
    <3>3. \A c \in Containers \ {work[w].container} : meta'[c] = meta[c]
      BY <1>0, <2>2, MetaOf
    <3> QED
      BY <2>1, <3>1, <3>2, <3>3 DEF Makes, Making, At, WorkerKind
  <2>3. CASE /\ work' = [work EXCEPT ![w].pc = "build", ![w].rebuilt = TRUE, ![w].container = NoContainer]
             /\ UNCHANGED meta
    <3>1. Onward(w, "build") /\ work'[w].pc = "build"
      BY <1>0, <2>3 DEF Work, Onward
    <3> QED
      BY <2>1, <2>3, <3>1 DEF Makes, Making, At, WorkerKind
  <2>4. CASE Only(w, "prepareError") /\ UNCHANGED meta
    <3>1. Onward(w, "prepareError") /\ work'[w].pc = "prepareError"
      BY <2>4, WorkLeft DEF Onward
    <3> QED
      BY <2>1, <2>4, <3>1 DEF Makes, Making, At, WorkerKind
  <2>5. CASE Only(w, "fail") /\ UNCHANGED meta
    <3>1. Idles(w)
      BY <2>5, WorkLeft DEF Steps, Making, Sending
    <3> QED
      BY <2>1, <2>5, <3>1, SameRowsAside, SameMetaQuiet DEF Aside, WorkerKind
  <2> QED
    BY <1>4, <2>2, <2>3, <2>4, <2>5 DEF Poll
<1>5. CASE PrepareReady(w)
  <2> DEFINE r == [row[p] EXCEPT !.status = "READY_TO_PUBLISH", !.container = work[w].container]
  <2>1. r.status = "READY_TO_PUBLISH" /\ r.attempts = row[p].attempts /\ r.container = work[w].container
    BY <1>1, StatusOf, AttemptsOf, ContainerOf
  <2>2. Move(p, {"PREPARING"}, r) /\ feed' = feed /\ meta' = meta /\ At(w, "ready")
    BY <1>5 DEF PrepareReady
  <2> HIDE DEF r
  <2>3. Only(w, "reload") \/ Done(w)
    BY <1>5 DEF PrepareReady
  <2>4. Idles(w)
    BY <2>3, WorkLeft DEF Steps, Making, Sending, PrepareSteps, LockedSteps
  <2>5. row' = row \/ (Turns(w, "PREPARING", "READY_TO_PUBLISH") /\ row'[p] = r)
    BY <1>1, <2>1, <2>2, MoveTurns
  <2> QED
    BY <2>1, <2>2, <2>4, <2>5, SameRowsAside, SameMetaQuiet DEF Aside, Readies, SameAttempts, WorkerKind
<1>6. CASE PrepareError(w)
  <2>1. feed' = feed /\ meta' = meta /\ At(w, "prepareError")
    BY <1>6 DEF PrepareError
  <2>2. ASSUME NEW r, r.status = "SCHEDULED", r.attempts = row[p].attempts, Move(p, {"PREPARING"}, r), Done(w)
        PROVE  WorkerKind(w)
    <3>1. row' = row \/ (Turns(w, "PREPARING", "SCHEDULED") /\ row'[p] = r)
      BY <1>1, <2>1, <2>2, MoveTurns
    <3> QED
      BY <2>1, <2>2, <3>1, WorkLeft, SameRowsAside, SameMetaQuiet DEF Aside, Returns, SameAttempts, WorkerKind
  <2>3. CASE Move(p, {"PREPARING"}, [row[p] EXCEPT !.status = "SCHEDULED"]) /\ Done(w)
    BY <1>1, <2>2, <2>3, StatusOf, AttemptsOf
  <2>4. CASE Move(p, {"PREPARING"}, [row[p] EXCEPT !.status = "SCHEDULED", !.container = NoContainer]) /\ Done(w)
    <3> DEFINE r == [row[p] EXCEPT !.status = "SCHEDULED", !.container = NoContainer]
    <3>1. r.status = "SCHEDULED" /\ r.attempts = row[p].attempts /\ Move(p, {"PREPARING"}, r) /\ Done(w)
      BY <1>1, <2>4, StatusOf, AttemptsOf
    <3> HIDE DEF r
    <3> QED
      BY <2>2, <3>1
  <2>5. CASE (Only(w, "fail") \/ Only(w, "refuse")) /\ row' = row
    <3>1. Idles(w)
      BY <2>5, WorkLeft DEF Steps, Making, Sending
    <3> QED
      BY <2>1, <2>5, <3>1, SameRowsAside, SameMetaQuiet DEF Aside, WorkerKind
  <2> QED
    BY <1>6, <2>3, <2>4, <2>5 DEF PrepareError
<1> QED
  BY <1>2, <1>3, <1>4, <1>5, <1>6

LEMMA PublishKinds ==
  ASSUME Typed, NEW w \in Workers,
         PublishClaim(w) \/ PublishCall(w) \/ Ask(w) \/ PublishError(w) \/ PublishBackoff(w)
  PROVE  WorkerKind(w)
<1> DEFINE p == Post(w)
           c == work[w].container
<1>0. work \in [Workers -> Work] /\ row \in [Posts -> Row] /\ meta \in [Containers -> Container]
  BY DEF Typed, TypeOK
<1>1. p \in Posts /\ row[p] \in Row /\ work[w] \in Work /\ c \in Containers \cup {NoContainer}
  BY PostTyped, WorkFields DEF PublishClaim, PublishCall, Ask, PublishError, PublishBackoff, At
<1>2. CASE PublishClaim(w)
  <2> DEFINE r == [row[p] EXCEPT !.status = "PUBLISHING"]
  <2>1. r.status = "PUBLISHING" /\ r.attempts = row[p].attempts /\ r.container = row[p].container
    BY <1>1, StatusOf, AttemptsOf, ContainerOf
  <2>2. Move(p, {"READY_TO_PUBLISH"}, r) /\ feed' = feed /\ meta' = meta
    BY <1>2 DEF PublishClaim
  <2> HIDE DEF r
  <2>3. CASE /\ row[p].status = "READY_TO_PUBLISH"
             /\ work' = [work EXCEPT ![w].pc = "call", ![w].container = row[p].container,
                                     ![w].attempts = row[p].attempts]
    <3>1. row'[p] = r /\ \A q \in Posts \ {p} : row'[q] = row[q]
      BY <1>0, <1>1, <2>2, <2>3 DEF Move
    <3>2. Onward(w, "call") /\ work'[w].container = row[p].container /\ work'[w].attempts = row[p].attempts
      BY <1>0, <2>3 DEF Work, Onward
    <3> QED
      BY <1>1, <2>1, <2>2, <2>3, <3>1, <3>2 DEF Starts, Turns, SameAttempts, SameContainer, WorkerKind
  <2>4. CASE row[p].status # "READY_TO_PUBLISH" /\ Done(w)
    <3>1. row' = row
      BY <2>2, <2>4 DEF Move
    <3> QED
      BY <2>2, <2>4, <3>1, WorkLeft, SameRowsAside, SameMetaQuiet DEF Aside, WorkerKind
  <2> QED
    BY <1>2, <2>3, <2>4 DEF PublishClaim
<1>3. CASE PublishCall(w)
  <2> DEFINE heard == [meta EXCEPT ![c].open = FALSE]
             lost == [meta EXCEPT ![c].open = TRUE]
             e == [post |-> meta[c].post, content |-> meta[c].content, attempt |-> work[w].attempts]
  <2>1. At(w, "call") /\ row' = row
    BY <1>3 DEF PublishCall
  <2>2. /\ heard \in [Containers -> Container] /\ lost \in [Containers -> Container]
        /\ \A d \in Containers : d # c => heard[d] = meta[d] /\ lost[d] = meta[d]
        /\ \A d \in Containers : heard[d].state = meta[d].state /\ lost[d].state = meta[d].state
        /\ c \in Containers => ~heard[c].open
    <3>1. heard \in [Containers -> Container] /\ lost \in [Containers -> Container]
      BY <1>0, MetaTyped
    <3>2. \A d \in Containers : d # c => heard[d] = meta[d] /\ lost[d] = meta[d]
      BY <1>0
    <3>3. \A d \in Containers : heard[d].state = meta[d].state /\ lost[d].state = meta[d].state
      BY <1>0, MetaOf
    <3>4. c \in Containers => ~heard[c].open
      BY <1>0, MetaOf
    <3> QED
      BY <3>1, <3>2, <3>3, <3>4
  <2>3. CASE tokenOk /\ c # NoContainer /\ meta[c].state = "FINISHED" /\ feed' = Append(feed, e)
             /\ (\/ /\ meta' = [heard EXCEPT ![c].state = "PUBLISHED"]
                    /\ work' = [work EXCEPT ![w].pc = "finish", ![w].media = Len(feed) + 1]
                 \/ meta' = [lost EXCEPT ![c].state = "PUBLISHED"] /\ Goto(w, "ask"))
    <3>1. c \in Containers
      BY <1>1, <2>3
    <3> HIDE DEF heard, lost
    <3>2. meta'[c].state = "PUBLISHED" /\ \A d \in Containers \ {c} : meta'[d] = meta[d]
      <4>1. ASSUME NEW m \in [Containers -> Container], \A d \in Containers : d # c => m[d] = meta[d],
                   meta' = [m EXCEPT ![c].state = "PUBLISHED"]
            PROVE  meta'[c].state = "PUBLISHED" /\ \A d \in Containers \ {c} : meta'[d] = meta[d]
        BY <3>1, <4>1, MetaOf
      <4> QED
        BY <2>2, <2>3, <4>1
    <3>3. /\ work'[w].pc \in {"finish", "ask"} /\ Onward(w, work'[w].pc)
          /\ work'[w].container = c /\ work'[w].attempts = work[w].attempts
      <4>1. CASE work' = [work EXCEPT ![w].pc = "finish", ![w].media = Len(feed) + 1]
        BY <1>0, <4>1 DEF Work, Onward
      <4>2. CASE Goto(w, "ask")
        BY <4>2, WorkLeft DEF Onward
      <4> QED
        BY <2>3, <4>1, <4>2
    <3>4. e.post = meta[c].post /\ e.attempt = work[w].attempts
      OBVIOUS
    <3> HIDE DEF e
    <3>5. \E x : feed' = Append(feed, x) /\ x.post = meta[c].post /\ x.attempt = work[w].attempts
      BY <2>3, <3>4
    <3>6. meta[c].state # "PUBLISHED"
      BY <2>3
    <3>7. work'[w].pc # "publishError"
      BY <3>3
    <3> QED
      BY <2>1, <3>1, <3>2, <3>3, <3>5, <3>6, <3>7 DEF Calls, WorkerKind
  <2>4. CASE feed' = feed /\ (\/ meta' = lost /\ Goto(w, "ask")
                              \/ meta' = heard /\ Goto(w, "publishError"))
    <3>1. /\ work'[w].pc \in {"ask", "publishError"} /\ Onward(w, work'[w].pc)
          /\ work'[w].container = c /\ work'[w].attempts = work[w].attempts
      BY <2>4, WorkLeft DEF Onward
    <3>2. \A d \in Containers \ {c} : meta'[d] = meta[d]
      BY <2>2, <2>4
    <3>3. c \in Containers => meta'[c].state = meta[c].state
      BY <2>2, <2>4
    <3>4. c \in Containers /\ work'[w].pc = "publishError" => ~meta'[c].open
      <4>1. CASE Goto(w, "ask")
        BY <4>1, WorkShapes
      <4>2. CASE meta' = heard
        BY <2>2, <4>2
      <4> QED
        BY <2>4, <4>1, <4>2
    <3> HIDE DEF heard, lost
    <3> QED
      BY <2>1, <2>4, <3>1, <3>2, <3>3, <3>4 DEF Calls, WorkerKind
  <2> QED
    BY <1>3, <2>3, <2>4 DEF PublishCall
<1>4. CASE Ask(w)
  <2>1. At(w, "ask") /\ row' = row /\ feed' = feed
    BY <1>4 DEF Ask
  <2>2. MetaKeeps
    <3>1. meta' = meta \/ meta' = [meta EXCEPT ![c].open = FALSE]
      BY <1>4 DEF Ask, Inquired
    <3>2. CASE meta' = [meta EXCEPT ![c].open = FALSE]
      BY <1>0, <1>1, <3>2, MetaOf DEF MetaKeeps
    <3> QED
      BY <3>1, <3>2, SameMetaQuiet
  <2>3. CASE Goto(w, "backoff")
    <3>1. ASSUME c \in Containers PROVE ~meta'[c].open
      <4>1. meta' = [meta EXCEPT ![c].open = FALSE]
        BY <1>4, <3>1, ContentAssumption DEF Ask, Inquired
      <4> QED
        BY <1>0, <1>1, <3>1, <4>1, MetaOf
    <3> QED
      BY <2>1, <2>2, <2>3, <3>1, WorkLeft DEF Asks, WorkerKind
  <2>4. CASE Only(w, "failLocked") \/ \E m : work' = [work EXCEPT ![w].pc = "finish", ![w].media = m]
    <3>1. work'[w].pc \in {"failLocked", "finish"}
      BY <1>0, <2>4, WorkShapes DEF Work
    <3> QED
      BY <2>1, <2>2, <3>1, SameRowsAside DEF Aside, Idles, Making, Sending, WorkerKind
  <2> QED
    BY <1>4, <2>3, <2>4 DEF Ask
<1>5. CASE PublishError(w) \/ PublishBackoff(w)
  <2>1. feed' = feed /\ meta' = meta /\ work[w].pc \in {"publishError", "backoff"} /\ work[w].job.retry \in Nat
    BY <1>5, PostTyped DEF PublishError, PublishBackoff, At
  <2>2. ASSUME NEW r, r.status = "READY_TO_PUBLISH", r.attempts = row[p].attempts, r.container = row[p].container,
               Move(p, {"PUBLISHING"}, r), Done(w)
        PROVE  WorkerKind(w)
    <3>1. row' = row \/ (Turns(w, "PUBLISHING", "READY_TO_PUBLISH") /\ row'[p] = r)
      BY <1>1, <2>1, <2>2, MoveTurns
    <3> QED
      BY <2>1, <2>2, <3>1, WorkLeft, SameRowsAside, SameMetaQuiet
         DEF Aside, Retries, SameAttempts, SameContainer, WorkerKind
  <2>3. ASSUME NEW r, r.status = "SCHEDULED", Move(p, {"PUBLISHING"}, r), Done(w), At(w, "publishError"),
               \/ r.attempts = row[p].attempts /\ meta[c].state # "PUBLISHED"
               \/ r.attempts = row[p].attempts + 1
        PROVE  WorkerKind(w)
    <3>1. row' = row \/ (Turns(w, "PUBLISHING", "SCHEDULED") /\ row'[p] = r)
      BY <1>1, <2>1, <2>3, MoveTurns
    <3> QED
      BY <2>1, <2>3, <3>1, WorkLeft, SameRowsAside, SameMetaQuiet DEF Aside, Redoes, SameAttempts, WorkerKind
  <2>4. CASE (Only(w, "failLocked") \/ Only(w, "refuseLocked")) /\ row' = row
    <3>1. Idles(w)
      BY <2>4, WorkLeft DEF Steps, Making, Sending, LockedSteps
    <3> QED
      BY <2>1, <2>4, <3>1, SameRowsAside, SameMetaQuiet DEF Aside, WorkerKind
  <2>5. CASE Backoff(w)
    <3>1. CASE /\ work[w].job.retry < MaxRetry
               /\ Move(p, {"PUBLISHING"}, [row[p] EXCEPT !.status = "READY_TO_PUBLISH"]) /\ Done(w)
      BY <1>1, <2>2, <3>1, StatusOf, AttemptsOf, ContainerOf
    <3> QED
      BY <2>4, <2>5, <3>1 DEF Backoff
  <2>6. CASE QuotaMove(w) /\ At(w, "publishError")
    <3>1. PICK slot : Move(p, {"PUBLISHING"}, [row[p] EXCEPT !.status = "SCHEDULED", !.slot = slot,
                                               !.attempts = row[p].attempts + 1, !.container = NoContainer])
      BY <2>6 DEF QuotaMove
    <3>2. Done(w)
      BY <2>6 DEF QuotaMove
    <3> DEFINE r == [row[p] EXCEPT !.status = "SCHEDULED", !.slot = slot,
                                   !.attempts = row[p].attempts + 1, !.container = NoContainer]
    <3>3. r.status = "SCHEDULED" /\ r.attempts = row[p].attempts + 1 /\ Move(p, {"PUBLISHING"}, r)
      BY <1>1, <3>1, StatusOf, AttemptsOf
    <3> HIDE DEF r
    <3> QED
      BY <2>3, <2>6, <3>2, <3>3
  <2>7. CASE PublishError(w)
    <3>1. At(w, "publishError")
      BY <2>7 DEF PublishError
    <3>2. CASE Move(p, {"PUBLISHING"}, [row[p] EXCEPT !.status = "READY_TO_PUBLISH"]) /\ Done(w)
      BY <1>1, <2>2, <3>1, <3>2, StatusOf, AttemptsOf, ContainerOf
    <3>3. CASE /\ meta[c].state # "PUBLISHED" /\ Done(w)
               /\ Move(p, {"PUBLISHING"}, [row[p] EXCEPT !.status = "SCHEDULED", !.container = NoContainer])
      <4> DEFINE r == [row[p] EXCEPT !.status = "SCHEDULED", !.container = NoContainer]
      <4>1. r.status = "SCHEDULED" /\ r.attempts = row[p].attempts /\ Move(p, {"PUBLISHING"}, r)
        BY <1>1, <3>3, StatusOf, AttemptsOf
      <4> HIDE DEF r
      <4> QED
        BY <2>3, <3>1, <3>3, <4>1
    <3> QED
      BY <2>4, <2>5, <2>6, <2>7, <3>1, <3>2, <3>3 DEF PublishError
  <2>8. CASE PublishBackoff(w)
    BY <2>5, <2>8 DEF PublishBackoff
  <2> QED
    BY <1>5, <2>7, <2>8
<1> QED
  BY <1>2, <1>3, <1>4, <1>5

LEMMA AsideKinds ==
  ASSUME Typed, NEW w \in Workers,
         Take(w) \/ PrepareLoad(w) \/ PublishLoad(w) \/ Reload(w) \/ AcquireLock(w) \/ Fail(w) \/ PublishFinish(w)
  PROVE  Aside(w)
<1>0. work \in [Workers -> Work]
  BY DEF Typed, TypeOK
<1>1. Idles(w)
  <2>1. CASE Take(w)
    <3>1. PICK j \in queue : work' = [work EXCEPT ![w] = [IdleWork EXCEPT !.pc = j.kind, !.job = j]]
      BY <2>1 DEF Take
    <3>2. j.kind \in {"prepare", "publish"}
      BY JobFields DEF Typed, TypeOK
    <3> QED
      BY <1>0, <3>1, <3>2 DEF IdleWork, Idles, Making, Sending
  <2>2. CASE PrepareLoad(w) \/ PublishLoad(w) \/ Reload(w)
    <3>1. \/ Done(w) \/ \E s \in {"fail", "reload", "lock"} : Only(w, s)
          \/ work' = [work EXCEPT ![w].pc = "claim", ![w].content = row[Post(w)].content, ![w].slot = row[Post(w)].slot]
          \/ work' = [work EXCEPT ![w].pc = "prepare", ![w].inline = TRUE]
      BY <2>2 DEF PrepareLoad, PublishLoad, Reload, CheckReady
    <3>2. {"fail", "reload", "lock"} \subseteq Steps \ (Making \cup Sending)
      BY DEF Steps, Making, Sending
    <3> QED
      BY <1>0, <3>1, <3>2, WorkLeft DEF Idles, Making, Sending, Work
  <2>3. CASE AcquireLock(w)
    <3>1. Done(w) \/ Goto(w, "cas")
      BY <2>3 DEF AcquireLock
    <3> QED
      BY <3>1, WorkLeft DEF Steps, LockedSteps, Making, Sending
  <2>4. CASE Fail(w) \/ PublishFinish(w)
    BY <2>4, WorkLeft DEF Fail, PublishFinish
  <2> QED
    BY <2>1, <2>2, <2>3, <2>4
<1>2. \A q \in Posts : Steady(q)
  <2>1. CASE Fail(w)
    <3>1. Post(w) \in Posts /\ FailPost(Post(w), work[w].pc \in {"refuse", "refuseLocked"})
      BY <2>1, PostTyped DEF Fail, At
    <3> QED
      BY <3>1, FailPostSteady
  <2>2. CASE PublishFinish(w)
    <3>1. Post(w) \in Posts /\ Finish(Post(w), work[w].media)
      BY <2>2, PostTyped DEF PublishFinish, At
    <3> QED
      BY <3>1, FinishSteady
  <2> QED
    BY <2>1, <2>2, SameRowsAside DEF Take, PrepareLoad, PublishLoad, Reload, AcquireLock
<1>3. MetaKeeps
  BY SameMetaQuiet, KnownQuiet DEF Take, PrepareLoad, PublishLoad, Reload, AcquireLock, Fail, PublishFinish
<1>4. feed' = feed
  BY DEF Take, PrepareLoad, PublishLoad, Reload, AcquireLock, Fail, PublishFinish
<1> QED
  BY <1>1, <1>2, <1>3, <1>4 DEF Aside

LEMMA OneWorker ==
  ASSUME Typed, NEW w \in Workers, WorkerStep(w) PROVE \A v \in Workers \ {w} : work'[v] = work[v]
<1>0. work \in [Workers -> Work]
  BY DEF Typed, TypeOK
<1>1. CASE Take(w)
  BY <1>0, <1>1 DEF Take
<1>2. CASE PrepareLoad(w) \/ PublishLoad(w) \/ Reload(w) \/ AcquireLock(w)
  BY <1>0, <1>2 DEF PrepareLoad, PublishLoad, Reload, AcquireLock, CheckReady, Done, Only, Goto
<1>3. CASE PrepareClaim(w) \/ Build(w) \/ Poll(w) \/ PrepareReady(w) \/ PrepareError(w)
  BY <1>0, <1>3 DEF PrepareClaim, Build, Poll, PrepareReady, PrepareError, Done, Only, Goto
<1>4. CASE PublishClaim(w) \/ PublishCall(w) \/ Ask(w)
  BY <1>0, <1>4 DEF PublishClaim, PublishCall, Ask, Done, Only, Goto
<1>5. CASE PublishError(w) \/ PublishBackoff(w) \/ Fail(w) \/ PublishFinish(w)
  BY <1>0, <1>5 DEF PublishError, PublishBackoff, Backoff, QuotaMove, Fail, PublishFinish, Done, Only
<1> QED
  BY <1>1, <1>2, <1>3, <1>4, <1>5 DEF WorkerStep

LEMMA WorkerKinds ==
  ASSUME Typed, NEW w \in Workers, WorkerStep(w) PROVE WorkerKind(w) /\ AsideFrom(w)
<1>1. WorkerKind(w)
  <2>1. CASE Take(w) \/ PrepareLoad(w) \/ PublishLoad(w) \/ Reload(w) \/ AcquireLock(w) \/ Fail(w) \/ PublishFinish(w)
    BY <2>1, AsideKinds DEF WorkerKind
  <2> QED
    BY <2>1, PrepareKinds, PublishKinds DEF WorkerStep
<1>2. sweep' = sweep
  BY DEF WorkerStep, Take, PrepareLoad, PrepareClaim, Build, Poll, PrepareReady, PrepareError, Fail,
         PublishLoad, Reload, AcquireLock, PublishClaim, PublishCall, Ask, PublishError, PublishBackoff,
         PublishFinish, Others
<1> QED
  BY <1>1, <1>2, OneWorker DEF AsideFrom

-----------------------------------------------------------------------------
(* Steps of the sweeper, of requests and of the environment                *)

\* The sweeper decides or acts on a post, and sends nothing back.
Settled(p) == sweep'[p].step # "finished" /\ (\A q \in Posts : Steady(q)) /\ MetaKeeps

\* Meta says a stuck publish did not happen.
Recovers(p) ==
  /\ row' = row /\ row[p].status = "PUBLISHING" /\ MetaKeeps
  /\ \A w \in Workers : work[w].pc \in Sending => Post(w) # p
  /\ sweep'[p].step = "finished" => (row[p].container \in Containers => ~meta'[row[p].container].open)

SendsBack(p) ==
  /\ sweep[p].step = "finished" /\ sweep'[p].step # "finished"
  /\ row[p].status = "PUBLISHING" /\ row'[p].status = "READY_TO_PUBLISH"
  /\ row'[p].container = row[p].container /\ row'[p].attempts = row[p].attempts
  /\ \A q \in Posts \ {p} : row'[q] = row[q]
  /\ meta' = meta

SweepKind(p) ==
  /\ work' = work /\ feed' = feed /\ \A q \in Posts \ {p} : sweep'[q] = sweep[q]
  /\ Settled(p) \/ Recovers(p) \/ SendsBack(p)

Calm == UNCHANGED <<work, sweep, feed>> /\ (\A q \in Posts : Steady(q)) /\ MetaKeeps

LEMMA SweepKinds == ASSUME Typed, NEW p \in Posts, SweepStep(p) PROVE SweepKind(p) \/ Calm
<1>0. /\ row \in [Posts -> Row] /\ sweep \in [Posts -> Sweep] /\ meta \in [Containers -> Container]
      /\ row[p] \in Row /\ row[p].container \in Containers \cup {NoContainer}
  BY RowFields DEF Typed, TypeOK
<1>1. work' = work /\ feed' = feed
  BY DEF SweepStep, SweepRead, SweepRequeue, SweepFail, SweepManual, SweepStuck, SweepRecover,
         SweepFound, SweepFinished, SweepRelink
<1>2. \A q \in Posts \ {p} : sweep'[q] = sweep[q]
  BY <1>0 DEF SweepStep, SweepRead, SweepRequeue, SweepFail, SweepManual, SweepStuck, SweepRecover,
         SweepFound, SweepFinished, SweepRelink, SweepDone, Others
<1>3. IdleSweep.step = "idle" /\ (SweepDone(p) => sweep'[p].step = "idle")
  BY <1>0 DEF IdleSweep, SweepDone
<1>4. CASE SweepRead(p) \/ SweepStuck(p) \/ SweepRequeue(p)
  <2>1. sweep'[p].step # "finished"
    BY <1>0, <1>3, <1>4 DEF SweepRead, SweepStuck, SweepRequeue, Sweep
  <2> QED
    BY <1>1, <1>2, <1>4, <2>1, SameRowsAside, SameMetaQuiet DEF SweepRead, SweepStuck, SweepRequeue, Settled, SweepKind
<1>5. CASE SweepFail(p)
  BY <1>1, <1>2, <1>3, <1>5, FailPostSteady, SameMetaQuiet DEF SweepFail, Settled, SweepKind
<1>6. CASE SweepFound(p)
  BY <1>1, <1>2, <1>3, <1>6, FinishSteady, SameMetaQuiet DEF SweepFound, Settled, SweepKind
<1>7. CASE SweepManual(p)
  <2>1. \A q \in Posts : Steady(q)
    <3>1. CASE row' = [row EXCEPT ![p].status = "NEEDS_MANUAL", ![p].manual = TRUE]
      <4>1. row'[p].status = "NEEDS_MANUAL" /\ row'[p].attempts = row[p].attempts
        BY <1>0, <3>1 DEF Row
      <4>2. \A q \in Posts \ {p} : row'[q] = row[q]
        BY <1>0, <3>1
      <4> QED
        BY <4>1, <4>2 DEF Steady, InFlight
    <3> QED
      BY <1>7, <3>1, SameRowsAside DEF SweepManual
  <2> QED
    BY <1>1, <1>2, <1>3, <1>7, <2>1, SameMetaQuiet DEF SweepManual, Settled, SweepKind
<1>8. CASE SweepRelink(p)
  <2>1. row' = [row EXCEPT ![p].linkFailed = FALSE]
    BY <1>8 DEF SweepRelink
  <2>2. \A q \in Posts : Steady(q)
    BY <1>0, <2>1 DEF Row, Steady
  <2> QED
    BY <1>1, <1>8, <2>2, SameMetaQuiet DEF SweepRelink, Others, Calm
<1>9. CASE SweepFinished(p)
  <2> DEFINE r == [row[p] EXCEPT !.status = "READY_TO_PUBLISH"]
  <2>1. r.status = "READY_TO_PUBLISH" /\ r.attempts = row[p].attempts /\ r.container = row[p].container
    BY <1>0, StatusOf, AttemptsOf, ContainerOf
  <2>2. Move(p, {"PUBLISHING"}, r) /\ meta' = meta /\ sweep[p].step = "finished" /\ SweepDone(p)
    BY <1>9 DEF SweepFinished
  <2> HIDE DEF r
  <2>3. CASE row' = row
    BY <1>1, <1>2, <1>3, <2>2, <2>3, SameRowsAside, SameMetaQuiet DEF Settled, SweepKind
  <2>4. CASE row[p].status = "PUBLISHING" /\ row' = [row EXCEPT ![p] = r]
    <3>1. row'[p] = r /\ \A q \in Posts \ {p} : row'[q] = row[q]
      BY <1>0, <2>4
    <3> QED
      BY <1>1, <1>2, <1>3, <2>1, <2>2, <2>4, <3>1 DEF SendsBack, SweepKind
  <2> QED
    BY <2>2, <2>3, <2>4 DEF Move
<1>10. CASE SweepRecover(p)
  <2>1. row' = row /\ row[p].status = "PUBLISHING" /\ ~Working(p, LockedSteps \ {"finish"})
    BY <1>10 DEF SweepRecover
  <2>2. \A w \in Workers : work[w].pc \in Sending => Post(w) # p
    BY <2>1 DEF Working, Sending, LockedSteps
  <2>3. meta' = meta \/ meta' = [meta EXCEPT ![row[p].container].open = FALSE]
    BY <1>10 DEF SweepRecover, Inquired
  <2>4. MetaKeeps
    <3>1. CASE meta' = [meta EXCEPT ![row[p].container].open = FALSE]
      BY <1>0, <3>1, MetaOf DEF MetaKeeps
    <3> QED
      BY <2>3, <3>1, SameMetaQuiet
  <2>5. ASSUME sweep'[p].step = "finished", row[p].container \in Containers
        PROVE  ~meta'[row[p].container].open
    <3>1. meta' = [meta EXCEPT ![row[p].container].open = FALSE]
      BY <1>10, <2>5, ContentAssumption DEF SweepRecover, Inquired
    <3> QED
      BY <1>0, <2>5, <3>1, MetaOf
  <2> QED
    BY <1>1, <1>2, <2>1, <2>2, <2>4, <2>5 DEF Recovers, SweepKind
<1> QED
  BY <1>4, <1>5, <1>6, <1>7, <1>8, <1>9, <1>10 DEF SweepStep

\* Without users a request can only take a post out of the pipeline or edit it.
LEMMA UserKinds == ASSUME Typed, Users = {}, UserStep PROVE Calm
<1>0. row \in [Posts -> Row]
  BY DEF Typed, TypeOK
<1>1. (\E p \in Posts : Leave(p) \/ Edit(p)) \/ Reconnect
  BY DEF UserStep
<1>2. UNCHANGED <<work, sweep, feed>> /\ meta' = meta
  BY <1>1 DEF Leave, Edit, Reconnect, Others
<1>3. ASSUME NEW p \in Posts, Leave(p) PROVE \A q \in Posts : Steady(q)
  <2>1. PICK from \in {MayPause, MayDraft, {"NEEDS_MANUAL"}},
             to \in {"PAUSED", "DRAFT", "PUBLISHED_MANUAL"} : UserMove(p, from, to)
    BY <1>3 DEF Leave
  <2>2. row'[p].status = to /\ row'[p].attempts = row[p].attempts /\ \A q \in Posts \ {p} : row'[q] = row[q]
    BY <1>0, <2>1 DEF UserMove, Row
  <2> QED
    BY <2>2 DEF Steady, InFlight
<1>4. ASSUME NEW p \in Posts, Edit(p) PROVE \A q \in Posts : Steady(q)
  <2>1. PICK manual, rearm \in BOOLEAN :
          /\ rearm => row[p].status = "SCHEDULED"
          /\ row' = [row EXCEPT ![p] = [row[p] EXCEPT !.content = @ + 1, !.manual = manual,
                                     !.attempts = IF rearm THEN @ + 1 ELSE @]]
    BY <1>4 DEF Edit
  <2> DEFINE r == [row[p] EXCEPT !.content = @ + 1, !.manual = manual, !.attempts = IF rearm THEN @ + 1 ELSE @]
  <2>2. /\ r.status = row[p].status /\ r.container = row[p].container
        /\ r.attempts = IF rearm THEN row[p].attempts + 1 ELSE row[p].attempts
    BY <1>0 DEF Row
  <2>3. row'[p] = r /\ \A q \in Posts \ {p} : row'[q] = row[q]
    BY <1>0, <2>1
  <2> HIDE DEF r
  <2> QED
    BY <2>1, <2>2, <2>3 DEF Steady
<1> QED
  BY <1>1, <1>2, <1>3, <1>4, SameRowsAside, SameMetaQuiet DEF Reconnect, Calm

LEMMA StepKinds ==
  ASSUME Typed, Users = {}, [Next]_vars
  PROVE  \/ \E w \in Workers : WorkerKind(w) /\ AsideFrom(w)
         \/ \E p \in Posts : SweepKind(p)
         \/ Calm
<1>1. CASE Tick \/ LoseQueue \/ LockExpire \/ UNCHANGED vars
  BY <1>1, SameRowsAside, SameMetaQuiet DEF Tick, LoseQueue, LockExpire, vars, Others, Calm
<1>2. ASSUME NEW w \in Workers, Crash(w) PROVE WorkerKind(w) /\ AsideFrom(w)
  <2>1. Done(w) /\ UNCHANGED <<row, meta, feed, sweep>>
    BY <1>2 DEF Crash, Others
  <2> QED
    BY <2>1, WorkLeft, WorkShapes, SameRowsAside, SameMetaQuiet DEF Aside, WorkerKind, AsideFrom
<1> QED
  BY <1>1, <1>2, WorkerKinds, SweepKinds, UserKinds DEF Next, FaultStep

-----------------------------------------------------------------------------
(* One worker at a time, step by step                                      *)

Orderly == Alone /\ Claimed /\ Swept /\ Held

\* A worker is engaged after its step only if it was, or it claims the post itself.
LEMMA WorkerAlone ==
  ASSUME Typed, Alone, Claimed, NEW w \in Workers, WorkerKind(w), AsideFrom(w)
  PROVE  Alone'
<1> SUFFICES ASSUME NEW v \in Workers, v # w, Engaged(v)', Engaged(w)', Post(v)' = Post(w)'
             PROVE  FALSE
  BY DEF Alone, AsideFrom, Engaged, Post
<1>1. Engaged(v) /\ Post(v)' = Post(v)
  BY DEF AsideFrom, Engaged, Post
<1>2. ~Idles(w)
  BY DEF Engaged, Idles
<1>3. CASE Engaged(w) /\ work'[w].job = work[w].job
  BY <1>1, <1>3 DEF Alone, Post
<1>4. CASE Claims(w) \/ Starts(w)
  <2>1. Post(w)' = Post(w) /\ row[Post(w)].status \in {"SCHEDULED", "READY_TO_PUBLISH"}
    BY <1>4 DEF Claims, Starts, Turns, Onward, Post
  <2> QED
    BY <1>1, <2>1 DEF Claimed, Engaged, InFlight
<1> QED
  BY <1>2, <1>3, <1>4 DEF WorkerKind, Aside, Builds, Makes, Readies, Returns, Calls, Asks, Retries, Redoes,
                          Onward, At, Engaged, Making, Sending

\* A row that turns is in the hands of the worker that turns it, or in nobody's.
LEMMA WorkerClaimed ==
  ASSUME Typed, Alone, Claimed, NEW w \in Workers, WorkerKind(w), AsideFrom(w)
  PROVE  Claimed'
<1> SUFFICES ASSUME NEW v \in Workers
             PROVE  /\ work'[v].pc \in Making => row'[Post(v)'].status \notin InFlight \ {"PREPARING"}
                    /\ work'[v].pc \in Sending => row'[Post(v)'].status \notin InFlight \ {"PUBLISHING"}
                    /\ work'[v].pc \in Sending /\ row'[Post(v)'].status = "PUBLISHING" =>
                         row'[Post(v)'].container = work'[v].container /\ row'[Post(v)'].attempts = work'[v].attempts
  BY DEF Claimed
<1>1. CASE Aside(w)
  <2>1. CASE v = w
    BY <1>1, <2>1 DEF Aside, Idles
  <2>2. CASE v # w /\ Engaged(v)
    <3>1. work'[v] = work[v] /\ Post(v)' = Post(v) /\ Post(v) \in Posts
      BY <2>2, PostTyped DEF AsideFrom, Post, Engaged, At, Making, Sending
    <3>2. Steady(Post(v))
      BY <1>1, <3>1 DEF Aside
    <3> QED
      BY <3>1, <3>2 DEF Steady, Claimed, InFlight
  <2> QED
    BY <2>1, <2>2 DEF Engaged, AsideFrom
<1>2. ASSUME Engaged(v), v # w, Engaged(w) \/ Claims(w) \/ Starts(w) PROVE Post(v) # Post(w)
  BY <1>2 DEF Alone, Claims, Starts, Turns, Claimed, Engaged, InFlight
<1>3. CASE v # w /\ ~Aside(w)
  <2>1. CASE Engaged(v)
    <3>1. work'[v] = work[v] /\ Post(v)' = Post(v) /\ Post(v) \in Posts
      BY <1>3, <2>1, PostTyped DEF AsideFrom, Post, Engaged, At, Making, Sending
    <3>2. Post(v) # Post(w)
      BY <1>2, <1>3, <2>1 DEF WorkerKind, Builds, Makes, Readies, Returns, Calls, Asks, Retries, Redoes,
                               At, Engaged, Making, Sending
    <3>3. row'[Post(v)] = row[Post(v)]
      BY <1>3, <3>1, <3>2 DEF WorkerKind, Claims, Starts, Builds, Makes, Readies, Returns, Calls, Asks, Retries,
                               Redoes, Turns
    <3> QED
      BY <3>1, <3>3 DEF Claimed
  <2> QED
    BY <1>3, <2>1 DEF Engaged, AsideFrom
<1>4. CASE v = w /\ (Claims(w) \/ Starts(w))
  <2>1. Post(w)' = Post(w)
    BY <1>4 DEF Claims, Starts, Onward, Post
  <2> QED
    BY <1>4, <2>1 DEF Claims, Starts, Turns, Onward, SameAttempts, SameContainer, InFlight, Making, Sending
<1>5. CASE v = w /\ (Readies(w) \/ Returns(w) \/ Retries(w) \/ Redoes(w))
  BY <1>5 DEF Readies, Returns, Retries, Redoes, Idles
<1>6. CASE v = w /\ (Builds(w) \/ Makes(w))
  <2>1. Post(w)' = Post(w) /\ work[w].pc \in Making /\ work'[w].pc \in Making
    BY <1>6 DEF Builds, Makes, Onward, Post, At, Making
  <2>2. row'[Post(w)].status = row[Post(w)].status
    BY <1>6 DEF Builds, Makes
  <2> QED
    BY <1>6, <2>1, <2>2 DEF Claimed, Making, Sending
<1>7. CASE v = w /\ (Calls(w) \/ Asks(w))
  <2>1. /\ Post(w)' = Post(w) /\ work[w].pc \in Sending /\ work'[w].pc \notin Making
        /\ work'[w].container = work[w].container /\ work'[w].attempts = work[w].attempts /\ row' = row
    BY <1>7 DEF Calls, Asks, Onward, Post, At, Sending, Making
  <2> QED
    BY <1>7, <2>1 DEF Claimed
<1> QED
  BY <1>1, <1>3, <1>4, <1>5, <1>6, <1>7 DEF WorkerKind

LEMMA WorkerSwept ==
  ASSUME Typed, Alone, Claimed, Swept, NEW w \in Workers, WorkerKind(w), AsideFrom(w)
  PROVE  Swept'
<1> SUFFICES ASSUME NEW p \in Posts, sweep[p].step = "finished"
             PROVE  /\ row'[p].status \notin InFlight \ {"PUBLISHING"}
                    /\ row'[p].status = "PUBLISHING" =>
                         \A v \in Workers : work'[v].pc \in Sending => work'[v].job.post # p
  BY DEF Swept, AsideFrom, Post
<1>1. /\ row[p].status \notin InFlight \ {"PUBLISHING"}
      /\ row[p].status = "PUBLISHING" => \A v \in Workers : work[v].pc \in Sending => work[v].job.post # p
  BY DEF Swept, Post
<1>2. CASE Aside(w)
  <2>1. Steady(p) /\ work'[w].pc \notin Sending
    BY <1>2 DEF Aside, Idles
  <2> QED
    BY <1>1, <2>1 DEF Steady, InFlight, AsideFrom
<1>3. CASE Claims(w) \/ Readies(w) \/ Returns(w) \/ Starts(w)
  <2>1. Post(w) # p
    BY <1>1, <1>3 DEF Claims, Readies, Returns, Starts, Turns, InFlight
  <2>2. row'[p] = row[p]
    BY <1>3, <2>1 DEF Claims, Readies, Returns, Starts, Turns
  <2>3. work'[w].pc \in Sending => work'[w].job.post # p
    BY <1>3, <2>1 DEF Claims, Readies, Returns, Starts, Idles, Onward, Post
  <2> QED
    BY <1>1, <2>2, <2>3 DEF AsideFrom
<1>4. CASE Retries(w) \/ Redoes(w)
  <2>1. Post(w) # p
    BY <1>1, <1>4 DEF Retries, Redoes, Turns, At, Post, Sending
  <2>2. row'[p] = row[p] /\ work'[w].pc \notin Sending
    BY <1>4, <2>1 DEF Retries, Redoes, Turns, Idles
  <2> QED
    BY <1>1, <2>2 DEF AsideFrom
<1>5. CASE Builds(w) \/ Makes(w)
  <2>1. work'[w].pc \notin Sending /\ row'[p].status = row[p].status
    BY <1>5 DEF Builds, Makes, Making, Sending, Onward
  <2> QED
    BY <1>1, <2>1 DEF AsideFrom
<1>6. CASE Calls(w) \/ Asks(w)
  <2>1. row' = row /\ work[w].pc \in Sending /\ work'[w].job = work[w].job
    BY <1>6 DEF Calls, Asks, Onward, At, Sending
  <2> QED
    BY <1>1, <2>1 DEF AsideFrom
<1> QED
  BY <1>2, <1>3, <1>4, <1>5, <1>6 DEF WorkerKind

LEMMA WorkerHeld ==
  ASSUME Typed, Claimed, Held, NEW w \in Workers, WorkerKind(w), AsideFrom(w)
  PROVE  Held'
<1> DEFINE HeldRow(p) == row'[p].status \in {"READY_TO_PUBLISH", "PUBLISHING"} => row'[p].container # NoContainer
           HeldWork(v) == work'[v].pc \in {"poll", "ready"} \cup Sending => work'[v].container # NoContainer
<1> SUFFICES (\A p \in Posts : HeldRow(p)) /\ (\A v \in Workers : HeldWork(v))
  BY DEF Held
<1>0. NoContainer \notin Containers
  BY ContentAssumption
<1>1. ASSUME NEW p \in Posts, Steady(p) \/ row'[p] = row[p] PROVE HeldRow(p)
  BY <1>1 DEF Steady, Held, InFlight
<1>2. ASSUME HeldWork(w) PROVE \A v \in Workers : HeldWork(v)
  BY <1>2 DEF AsideFrom, Held
<1>3. CASE Aside(w)
  BY <1>1, <1>2, <1>3 DEF Aside, Idles, Making, Sending
<1>4. CASE Claims(w) \/ Returns(w) \/ Redoes(w)
  <2>1. HeldWork(w)
    BY <1>4 DEF Claims, Returns, Redoes, Idles, Onward, Making, Sending
  <2>2. \A p \in Posts : row'[p] = row[p] \/ row'[p].status \in {"PREPARING", "SCHEDULED"}
    BY <1>4 DEF Claims, Returns, Redoes, Turns
  <2> QED
    BY <1>1, <1>2, <2>1, <2>2
<1>5. CASE Builds(w)
  <2>1. HeldWork(w)
    BY <1>0, <1>5 DEF Builds
  <2>2. \A p \in Posts : row'[p] = row[p] \/ row'[p].container \in Containers
    BY <1>5 DEF Builds
  <2> QED
    BY <1>0, <1>1, <1>2, <2>1, <2>2
<1>6. CASE Makes(w)
  <2>1. HeldWork(w)
    BY <1>6 DEF Makes, Held, At, Making, Sending
  <2> QED
    BY <1>1, <1>2, <1>6, <2>1 DEF Makes
<1>7. CASE Readies(w)
  <2>1. HeldWork(w) /\ work[w].container # NoContainer
    BY <1>7 DEF Readies, Idles, Making, Sending, Held, At
  <2>2. \A p \in Posts : row'[p] = row[p] \/ row'[p].container = work[w].container
    BY <1>7 DEF Readies, Turns
  <2> QED
    BY <1>1, <1>2, <2>1, <2>2
<1>8. CASE Starts(w) \/ Retries(w)
  <2>1. /\ Post(w) \in Posts /\ row[Post(w)].container # NoContainer
        /\ row'[Post(w)].container = row[Post(w)].container
    BY <1>8 DEF Starts, Retries, Turns, Held, SameContainer
  <2>2. HeldWork(w)
    BY <1>8, <2>1 DEF Starts, Retries, Idles, Making, Sending
  <2>3. \A p \in Posts \ {Post(w)} : row'[p] = row[p]
    BY <1>8 DEF Starts, Retries, Turns
  <2> QED
    BY <1>1, <1>2, <2>1, <2>2, <2>3
<1>9. CASE Calls(w) \/ Asks(w)
  <2>1. HeldWork(w)
    BY <1>9 DEF Calls, Asks, Held, At, Sending
  <2> QED
    BY <1>1, <1>2, <1>9, <2>1 DEF Calls, Asks
<1> QED
  BY <1>3, <1>4, <1>5, <1>6, <1>7, <1>8, <1>9 DEF WorkerKind

\* Nobody's state changes: each row is as steady as the sweeper leaves it.
LEMMA SteadyOrderly ==
  ASSUME Typed, Alone, Claimed, Held, work' = work, \A q \in Posts : Steady(q)
  PROVE  Alone' /\ Claimed' /\ Held'
<1>1. Alone'
  BY DEF Alone, Engaged, Post
<1>2. Held'
  BY DEF Held, Steady, InFlight
<1>3. Claimed'
  <2> SUFFICES ASSUME NEW w \in Workers, Engaged(w)
               PROVE  LET r == row'[Post(w)] IN
                      /\ work[w].pc \in Making => r.status \notin InFlight \ {"PREPARING"}
                      /\ work[w].pc \in Sending => r.status \notin InFlight \ {"PUBLISHING"}
                      /\ work[w].pc \in Sending /\ r.status = "PUBLISHING" =>
                           r.container = work[w].container /\ r.attempts = work[w].attempts
    BY DEF Claimed, Engaged, Post
  <2>1. Post(w) \in Posts
    BY PostTyped DEF Engaged, At, Making, Sending
  <2>2. Steady(Post(w))
    BY <2>1
  <2> QED
    BY <2>2 DEF Steady, Claimed, InFlight
<1> QED
  BY <1>1, <1>2, <1>3

LEMMA SweepOrderly ==
  ASSUME Typed, Orderly, NEW p \in Posts, SweepKind(p) PROVE Orderly'
<1>0. Alone /\ Claimed /\ Swept /\ Held /\ work' = work /\ \A q \in Posts \ {p} : sweep'[q] = sweep[q]
  BY DEF Orderly, SweepKind
<1>1. CASE Settled(p)
  <2>1. \A q \in Posts : Steady(q)
    BY <1>1 DEF Settled
  <2>2. Swept'
    <3> SUFFICES ASSUME NEW q \in Posts, sweep'[q].step = "finished"
                 PROVE  /\ row'[q].status \notin InFlight \ {"PUBLISHING"}
                        /\ row'[q].status = "PUBLISHING" =>
                             \A v \in Workers : work[v].pc \in Sending => work[v].job.post # q
      BY <1>0 DEF Swept, Post
    <3>1. sweep[q].step = "finished"
      BY <1>0, <1>1 DEF Settled
    <3>2. Steady(q)
      BY <2>1
    <3> QED
      BY <1>0, <3>1, <3>2 DEF Steady, Swept, InFlight, Post
  <2> QED
    BY <1>0, <2>1, <2>2, SteadyOrderly DEF Orderly
<1>2. CASE Recovers(p)
  <2>1. row' = row
    BY <1>2 DEF Recovers
  <2>2. Swept'
    BY <1>0, <1>2, <2>1 DEF Swept, Recovers, Post
  <2> QED
    BY <1>0, <2>1, <2>2, SteadyOrderly, SameRowsAside DEF Orderly
<1>3. CASE SendsBack(p)
  <2>1. /\ row[p].status = "PUBLISHING" /\ row'[p].status = "READY_TO_PUBLISH"
        /\ row'[p].container = row[p].container /\ row'[p].attempts = row[p].attempts
        /\ \A q \in Posts \ {p} : row'[q] = row[q]
        /\ sweep[p].step = "finished" /\ sweep'[p].step # "finished"
    BY <1>3 DEF SendsBack
  <2>2. \A w \in Workers : Engaged(w) => Post(w) # p
    BY <1>0, <2>1 DEF Engaged, Swept, Claimed, InFlight
  <2>3. Alone'
    BY <1>0 DEF Alone, Engaged, Post
  <2>4. Held'
    BY <1>0, <2>1 DEF Held
  <2>5. Swept'
    BY <1>0, <2>1 DEF Swept, Post
  <2>6. Claimed'
    <3> SUFFICES ASSUME NEW w \in Workers, Engaged(w) PROVE row'[Post(w)] = row[Post(w)]
      BY <1>0 DEF Claimed, Engaged, Post
    <3>1. Post(w) \in Posts
      BY PostTyped DEF Engaged, At, Making, Sending
    <3> QED
      BY <2>1, <2>2, <3>1
  <2> QED
    BY <2>3, <2>4, <2>5, <2>6 DEF Orderly
<1> QED
  BY <1>1, <1>2, <1>3 DEF SweepKind

LEMMA CalmOrderly == ASSUME Typed, Orderly, Calm PROVE Orderly'
<1>1. work' = work /\ sweep' = sweep /\ \A q \in Posts : Steady(q)
  BY DEF Calm
<1>2. Alone' /\ Claimed' /\ Held'
  BY <1>1, SteadyOrderly DEF Orderly
<1>3. Swept'
  <2> SUFFICES ASSUME NEW q \in Posts, sweep[q].step = "finished"
               PROVE  /\ row'[q].status \notin InFlight \ {"PUBLISHING"}
                      /\ row'[q].status = "PUBLISHING" =>
                           \A v \in Workers : work[v].pc \in Sending => work[v].job.post # q
    BY <1>1 DEF Swept, Post
  <2>1. Steady(q)
    BY <1>1
  <2> QED
    BY <2>1 DEF Steady, Orderly, Swept, InFlight, Post
<1> QED
  BY <1>2, <1>3 DEF Orderly

LEMMA StepOrderly == ASSUME Typed, Users = {}, Orderly, [Next]_vars PROVE Orderly'
<1>1. ASSUME NEW w \in Workers, WorkerKind(w), AsideFrom(w) PROVE Orderly'
  BY <1>1, WorkerAlone, WorkerClaimed, WorkerSwept, WorkerHeld DEF Orderly
<1> QED
  BY <1>1, StepKinds, SweepOrderly, CalmOrderly

LEMMA InitOrderly == Init => Orderly
<1> SUFFICES ASSUME Init PROVE Orderly
  OBVIOUS
<1>1. (\A w \in Workers : work[w].pc = "idle") /\ (\A p \in Posts : sweep[p].step = "idle")
  BY DEF Init, IdleWork, IdleSweep
<1>2. \A p \in Posts : row[p].status = "SCHEDULED"
  <2>1. PICK slot : row = [p \in Posts |-> [status |-> "SCHEDULED", attempts |-> 1, slot |-> slot[p],
                  container |-> NoContainer, content |-> 0, manual |-> FALSE, deleted |-> FALSE,
                  igMedia |-> 0, linkFailed |-> FALSE]]
    BY DEF Init
  <2> QED
    BY <2>1
<1>3. \A w \in Workers : work[w].pc \notin Making /\ work[w].pc \notin Sending
  BY <1>1 DEF Making, Sending
<1>4. Alone /\ Claimed
  BY <1>3 DEF Alone, Claimed, Engaged
<1>5. Swept /\ Held
  BY <1>1, <1>2, <1>3 DEF Swept, Held
<1> QED
  BY <1>4, <1>5 DEF Orderly

-----------------------------------------------------------------------------
(* No second call before Meta was asked                                    *)

\* A worker's container in use belongs to its post; two posts never share one.
LEMMA WorkContainer ==
  ASSUME Typed, Owned, Held, NEW w \in Workers, work[w].pc \in {"poll", "ready"} \cup Sending
  PROVE  /\ work[w].container \in Containers \cap Referenced /\ Post(w) \in Posts
         /\ meta[work[w].container].post = Post(w)
<1>1. work[w].container # NoContainer
  BY DEF Held
<1>2. work[w] \in Work
  BY DEF Typed, TypeOK
<1>3. Post(w) \in Posts
  BY PostTyped DEF At, Sending
<1> QED
  BY <1>1, <1>2, <1>3, WorkFields DEF Owned, Referenced

LEMMA RowContainer ==
  ASSUME Typed, Owned, Held, NEW p \in Posts, row[p].status \in {"READY_TO_PUBLISH", "PUBLISHING"}
  PROVE  row[p].container \in Containers \cap Referenced /\ meta[row[p].container].post = p
<1>1. row[p].container # NoContainer
  BY DEF Held
<1>2. row[p] \in Row
  BY DEF Typed, TypeOK
<1> QED
  BY <1>1, <1>2, RowFields DEF Owned, Referenced

\* The containers a call may still be made on.
Callable(w) == work[w].pc \in {"poll", "ready", "call", "publishError", "backoff"}
MayReturn(p) == row[p].status = "READY_TO_PUBLISH" \/ (sweep[p].step = "finished" /\ row[p].status = "PUBLISHING")

LEMMA AnsweredIs ==
  Answered <=> /\ \A w \in Workers : Callable(w) => ~meta[work[w].container].open
               /\ \A p \in Posts : MayReturn(p) => ~meta[row[p].container].open
  BY DEF Answered, Callable, MayReturn

\* A quiet step keeps what it does not hand on.
LEMMA QuietAnswered ==
  ASSUME Typed, Owned, Held, Answered, MetaKeeps
  PROVE  /\ \A w \in Workers : Callable(w) => ~meta'[work[w].container].open
         /\ \A p \in Posts : MayReturn(p) => ~meta'[row[p].container].open
<1>1. ASSUME NEW w \in Workers, Callable(w) PROVE ~meta'[work[w].container].open
  <2>1. work[w].container \in Containers \cap Referenced /\ ~meta[work[w].container].open
    BY <1>1, WorkContainer DEF Callable, Answered, Sending
  <2> QED
    BY <2>1 DEF MetaKeeps
<1>2. ASSUME NEW p \in Posts, MayReturn(p) PROVE ~meta'[row[p].container].open
  <2>1. row[p].container \in Containers \cap Referenced /\ ~meta[row[p].container].open
    BY <1>2, RowContainer DEF MayReturn, Answered
  <2> QED
    BY <2>1 DEF MetaKeeps
<1> QED
  BY <1>1, <1>2

LEMMA WorkerAnswered ==
  ASSUME Typed, Owned, Orderly, Answered, NEW w \in Workers, WorkerKind(w), AsideFrom(w)
  PROVE  Answered'
<1> SUFFICES /\ \A v \in Workers : Callable(v)' => ~meta'[work'[v].container].open
             /\ \A p \in Posts : MayReturn(p)' => ~meta'[row'[p].container].open
  BY DEF Answered, Callable, MayReturn
<1>0. Held /\ Alone /\ Claimed /\ Swept /\ sweep' = sweep /\ \A v \in Workers \ {w} : work'[v] = work[v]
  BY DEF Orderly, AsideFrom
<1>1. CASE MetaKeeps /\ (Aside(w) \/ Builds(w) \/ Asks(w))
  <2>1. /\ \A v \in Workers : Callable(v) => ~meta'[work[v].container].open
        /\ \A p \in Posts : MayReturn(p) => ~meta'[row[p].container].open
    BY <1>0, <1>1, QuietAnswered
  <2>2. Callable(w)' => ~meta'[work'[w].container].open
    <3>1. CASE Asks(w)
      BY <1>0, <3>1, WorkContainer DEF Asks, At, Sending
    <3>2. CASE Aside(w) \/ Builds(w)
      BY <3>2 DEF Callable, Aside, Idles, Builds, Onward, Making, Sending
    <3> QED
      BY <1>1, <3>1, <3>2
  <2>3. ASSUME NEW p \in Posts, MayReturn(p)' PROVE row'[p].container = row[p].container /\ MayReturn(p)
    <3>1. CASE Aside(w)
      <4>1. Steady(p)
        BY <3>1 DEF Aside
      <4> QED
        BY <1>0, <2>3, <4>1 DEF Steady, MayReturn, InFlight
    <3>2. CASE Asks(w)
      BY <1>0, <2>3, <3>2 DEF Asks, MayReturn
    <3>3. CASE Builds(w)
      <4>1. row[Post(w)].status \notin InFlight \ {"PREPARING"} /\ row'[Post(w)].status = row[Post(w)].status
        BY <1>0, <3>3 DEF Builds, Claimed, At, Making
      <4>2. p # Post(w)
        BY <2>3, <4>1 DEF MayReturn, InFlight
      <4> QED
        BY <1>0, <2>3, <3>3, <4>2 DEF Builds, MayReturn
    <3> QED
      BY <1>1, <3>1, <3>2, <3>3
  <2> QED
    BY <1>0, <2>1, <2>2, <2>3 DEF Callable
<1>2. CASE Claims(w) \/ Readies(w) \/ Returns(w) \/ Starts(w) \/ Retries(w) \/ Redoes(w)
  <2>1. /\ meta' = meta /\ Post(w) \in Posts
        /\ \A q \in Posts \ {Post(w)} : row'[q] = row[q]
    BY <1>2 DEF Claims, Readies, Returns, Starts, Retries, Redoes, Turns
  <2>2. Callable(w)' => ~meta'[work'[w].container].open
    <3>1. CASE Starts(w)
      <4>1. row[Post(w)].status = "READY_TO_PUBLISH" /\ work'[w].container = row[Post(w)].container
        BY <3>1 DEF Starts, Turns
      <4> QED
        BY <2>1, <4>1 DEF Answered
    <3>2. CASE ~Starts(w)
      BY <1>2, <3>2 DEF Callable, Claims, Readies, Returns, Retries, Redoes, Idles, Onward, Making, Sending
    <3> QED
      BY <3>1, <3>2
  <2>3. ASSUME NEW p \in Posts, p = Post(w), MayReturn(p)' PROVE ~meta[row'[p].container].open
    <3>1. CASE Readies(w)
      <4>1. row'[Post(w)].container = work[w].container /\ At(w, "ready")
        BY <3>1 DEF Readies
      <4> QED
        BY <2>3, <4>1 DEF Answered, At
    <3>2. CASE Retries(w)
      <4>1. /\ row[Post(w)].status = "PUBLISHING" /\ row'[Post(w)].container = row[Post(w)].container
            /\ work[w].pc \in {"publishError", "backoff"}
        BY <3>2 DEF Retries, Turns, SameContainer
      <4>2. row[Post(w)].container = work[w].container
        BY <1>0, <4>1 DEF Claimed, Sending
      <4> QED
        BY <2>3, <4>1, <4>2 DEF Answered
    <3>3. CASE Starts(w)
      <4>1. sweep[Post(w)].step = "finished" /\ row[Post(w)].status = "READY_TO_PUBLISH"
        BY <1>0, <2>3, <3>3 DEF Starts, Turns, MayReturn
      <4> QED
        BY <1>0, <4>1, <2>1 DEF Swept, InFlight
    <3>4. CASE Claims(w) \/ Returns(w) \/ Redoes(w)
      BY <2>3, <3>4 DEF Claims, Returns, Redoes, Turns, MayReturn
    <3> QED
      BY <1>2, <3>1, <3>2, <3>3, <3>4
  <2>4. \A v \in Workers \ {w} : Callable(v)' => ~meta'[work'[v].container].open
    BY <1>0, <2>1 DEF Answered, Callable
  <2>5. \A p \in Posts \ {Post(w)} : MayReturn(p)' => ~meta'[row'[p].container].open
    BY <1>0, <2>1 DEF Answered, MayReturn
  <2> QED
    BY <2>1, <2>2, <2>3, <2>4, <2>5
<1>3. CASE Makes(w)
  <2>1. row' = row /\ \A c \in Containers : meta'[c].open => meta[c].open
    BY <1>3 DEF Makes
  <2>2. ASSUME NEW v \in Workers, Callable(v) PROVE ~meta'[work[v].container].open
    <3>1. work[v].container \in Containers /\ ~meta[work[v].container].open
      BY <1>0, <2>2, WorkContainer DEF Callable, Answered, Sending
    <3> QED
      BY <2>1, <3>1
  <2>3. ASSUME NEW p \in Posts, MayReturn(p) PROVE ~meta'[row[p].container].open
    <3>1. row[p].container \in Containers /\ ~meta[row[p].container].open
      BY <1>0, <2>3, RowContainer DEF MayReturn, Answered
    <3> QED
      BY <2>1, <3>1
  <2>4. Callable(w)' => ~meta'[work'[w].container].open
    BY <1>3, <2>2 DEF Makes, Callable, Making, At
  <2> QED
    BY <1>0, <2>1, <2>2, <2>3, <2>4 DEF Callable, MayReturn
<1>4. CASE Calls(w)
  <2> DEFINE c == work[w].container
  <2>1. /\ row' = row /\ At(w, "call") /\ \A d \in Containers \ {c} : meta'[d] = meta[d]
        /\ work'[w].pc \in {"finish", "ask", "publishError"} /\ work'[w].container = c
        /\ work'[w].pc = "publishError" /\ c \in Containers => ~meta'[c].open
    BY <1>4 DEF Calls
  <2>2. c \in Containers /\ Post(w) \in Posts /\ meta[c].post = Post(w)
    BY <1>0, <2>1, WorkContainer DEF At, Sending
  <2>3. ASSUME NEW v \in Workers \ {w}, Callable(v) PROVE ~meta'[work[v].container].open
    <3>1. work[v].container \in Containers /\ meta[work[v].container].post = Post(v) /\ ~meta[work[v].container].open
      BY <1>0, <2>3, WorkContainer DEF Callable, Answered, Sending
    <3>2. Post(v) # Post(w)
      BY <1>0, <2>1, <2>3 DEF Alone, Engaged, Callable, At, Making, Sending
    <3> QED
      BY <2>1, <2>2, <3>1, <3>2
  <2>4. ASSUME NEW p \in Posts, MayReturn(p) PROVE ~meta'[row[p].container].open
    <3>1. row[p].container \in Containers /\ meta[row[p].container].post = p /\ ~meta[row[p].container].open
      BY <1>0, <2>4, RowContainer DEF MayReturn, Answered
    <3>2. p # Post(w)
      BY <1>0, <2>1, <2>4 DEF MayReturn, Claimed, Swept, At, Sending, InFlight
    <3> QED
      BY <2>1, <2>2, <3>1, <3>2
  <2>5. Callable(w)' => ~meta'[work'[w].container].open
    BY <2>1, <2>2 DEF Callable
  <2> QED
    BY <1>0, <2>1, <2>3, <2>4, <2>5 DEF Callable, MayReturn
<1> QED
  BY <1>1, <1>2, <1>3, <1>4 DEF WorkerKind, Aside, Builds, Asks

LEMMA RestAnswered ==
  ASSUME Typed, Owned, Orderly, Answered, (\E p \in Posts : SweepKind(p)) \/ Calm
  PROVE  Answered'
<1> SUFFICES /\ \A v \in Workers : Callable(v)' => ~meta'[work'[v].container].open
             /\ \A p \in Posts : MayReturn(p)' => ~meta'[row'[p].container].open
  BY DEF Answered, Callable, MayReturn
<1>0. Held /\ Alone /\ Claimed /\ Swept /\ work' = work
  BY DEF Orderly, SweepKind, Calm
<1>1. MetaKeeps
  BY SameMetaQuiet DEF SweepKind, Settled, Recovers, SendsBack, Calm
<1>2. /\ \A v \in Workers : Callable(v) => ~meta'[work[v].container].open
      /\ \A p \in Posts : MayReturn(p) => ~meta'[row[p].container].open
  BY <1>0, <1>1, QuietAnswered
<1>3. ASSUME NEW p \in Posts, MayReturn(p)', ~MayReturn(p) PROVE ~meta'[row'[p].container].open
  <2>1. ~Calm /\ \A q \in Posts : ~Settled(q) \/ ~SweepKind(q)
    <3>1. ASSUME Steady(p), sweep'[p].step = "finished" => sweep[p].step = "finished" PROVE FALSE
      BY <1>3, <3>1 DEF MayReturn, Steady, InFlight
    <3> QED
      BY <3>1 DEF Calm, Settled, SweepKind
  <2>2. PICK q \in Posts : SweepKind(q) /\ (Recovers(q) \/ SendsBack(q))
    BY <2>1 DEF SweepKind
  <2>3. CASE SendsBack(q)
    BY <1>2, <1>3, <2>2, <2>3 DEF SendsBack, SweepKind, MayReturn
  <2>4. CASE Recovers(q)
    <3>1. p = q /\ sweep'[p].step = "finished"
      BY <1>3, <2>2, <2>4 DEF Recovers, SweepKind, MayReturn
    <3>2. row[p].container \in Containers
      BY <1>0, <2>4, <3>1, RowContainer DEF Recovers
    <3> QED
      BY <2>4, <3>1, <3>2 DEF Recovers
  <2> QED
    BY <2>2, <2>3, <2>4
<1>4. ASSUME NEW p \in Posts, MayReturn(p)', MayReturn(p) PROVE row'[p].container = row[p].container
  <2>1. Steady(p) \/ \E q \in Posts : SendsBack(q)
    BY SameRowsAside DEF Calm, SweepKind, Settled, Recovers
  <2> QED
    BY <1>4, <2>1 DEF Steady, SendsBack, MayReturn, InFlight
<1> QED
  BY <1>0, <1>2, <1>3, <1>4 DEF Callable

LEMMA StepAnswered ==
  ASSUME Typed, Users = {}, Owned, Orderly, Answered, [Next]_vars PROVE Answered'
  BY StepKinds, WorkerAnswered, RestAnswered

LEMMA InitAnswered == Init => Answered
<1> SUFFICES ASSUME Init PROVE Answered
  OBVIOUS
<1>1. (\A w \in Workers : work[w].pc = "idle") /\ (\A p \in Posts : sweep[p].step = "idle")
  BY DEF Init, IdleWork, IdleSweep
<1>2. PICK slot : row = [p \in Posts |-> [status |-> "SCHEDULED", attempts |-> 1, slot |-> slot[p],
                  container |-> NoContainer, content |-> 0, manual |-> FALSE, deleted |-> FALSE,
                  igMedia |-> 0, linkFailed |-> FALSE]]
  BY DEF Init
<1>3. \A p \in Posts : row[p].status = "SCHEDULED"
  BY <1>2
<1> QED
  BY <1>1, <1>3 DEF Answered

\* media_publish is never called again on a container whose last call got no answer
\* before Meta was asked, while nobody reschedules the post: however many retries,
\* stalled jobs, zombie workers and sweeps there are, the compare-and-set of the status
\* leaves the container with one of them, and that one asks (publish.ts:428).
THEOREM NeverRepeatsUnasked ==
  ASSUME Users = {} PROVE Spec => []NoUnaskedRepeat
<1> DEFINE Inv == Typed /\ Owned /\ Orderly /\ Answered
<1>1. Init => Inv
  BY InitTyped, InitShown, InitOrderly, InitAnswered
<1>2. Inv /\ [Next]_vars => Inv'
  BY StepTyped, StepOwned, StepOrderly, StepAnswered
<1>3. Inv => NoUnaskedRepeat
  BY DEF Answered, NoUnaskedRepeat, At
<1> QED
  BY <1>1, <1>2, <1>3, PTL DEF Spec

-----------------------------------------------------------------------------
(* One media per attempt                                                   *)

Waiting(p) == row[p].status \in {"READY_TO_PUBLISH", "PUBLISHING"}
Live(w) == work[w].pc \in Sending

LEMMA CountedIs ==
  Counted <=>
    /\ \A i \in DOMAIN feed : feed[i].attempt <= row[feed[i].post].attempts
    /\ \A w \in Workers : Live(w) => work[w].attempts <= row[Post(w)].attempts
    /\ \A w \in Workers : Live(w) /\ meta[work[w].container].state # "PUBLISHED" => Unused(Post(w), work[w].attempts)
    /\ \A p \in Posts : row[p].status \in OpenStatus => Unused(p, row[p].attempts)
    /\ \A p \in Posts : Waiting(p) /\ meta[row[p].container].state # "PUBLISHED" => Unused(p, row[p].attempts)
  BY DEF Counted, Live, Waiting

LEMMA FeedTyped ==
  ASSUME Typed
  PROVE  \A i \in DOMAIN feed : feed[i].post \in Posts /\ feed[i].attempt \in Nat
<1> DEFINE Media == [post : Posts, content : Nat, attempt : Nat]
<1>1. feed \in Seq(Media)
  BY DEF Typed, TypeOK
<1>2. \A m \in Media : m.post \in Posts /\ m.attempt \in Nat
  OBVIOUS
<1> HIDE DEF Media
<1>3. \A i \in DOMAIN feed : feed[i] \in Media
  BY <1>1
<1> QED
  BY <1>2, <1>3

LEMMA CountsTyped ==
  ASSUME Typed
  PROVE  /\ \A p \in Posts : row[p].attempts \in Nat
         /\ \A w \in Workers : work[w].attempts \in Nat
         /\ \A w \in Workers : Live(w) => Post(w) \in Posts
<1>1. \A p \in Posts : row[p].attempts \in Nat
  BY RowFields DEF Typed, TypeOK
<1>2. \A w \in Workers : work[w].attempts \in Nat
  BY WorkFields DEF Typed, TypeOK
<1>3. ASSUME NEW w \in Workers, Live(w) PROVE Post(w) \in Posts
  BY <1>3, PostTyped DEF Live, At, Sending
<1> QED
  BY <1>1, <1>2, <1>3

\* An attempt nobody has started has no media.
LEMMA NextUnused ==
  ASSUME Typed, Counted, NEW p \in Posts PROVE Unused(p, row[p].attempts + 1)
<1> SUFFICES ASSUME NEW i \in DOMAIN feed, feed[i].post = p, feed[i].attempt = row[p].attempts + 1
             PROVE  FALSE
  BY DEF Unused
<1>1. feed[i].attempt <= row[p].attempts /\ row[p].attempts \in Nat
  BY CountsTyped DEF Counted
<1> QED
  BY <1>1

\* The number of attempts of a post never goes back.
Grows == \A p \in Posts : row'[p].attempts \in {row[p].attempts, row[p].attempts + 1}

LEMMA KindGrows ==
  ASSUME Typed, \/ \E w \in Workers : WorkerKind(w)
                \/ \E p \in Posts : SweepKind(p)
                \/ Calm
  PROVE  Grows
<1>1. ASSUME NEW w \in Workers, WorkerKind(w) PROVE Grows
  <2>1. CASE Aside(w)
    BY <2>1 DEF Aside, Steady, Grows
  <2>2. CASE Builds(w) \/ Makes(w) \/ Calls(w) \/ Asks(w)
    BY <2>2 DEF Builds, Makes, Calls, Asks, SameAttempts, Grows
  <2>3. CASE Claims(w) \/ Readies(w) \/ Returns(w) \/ Starts(w) \/ Retries(w) \/ Redoes(w)
    BY <2>3 DEF Claims, Readies, Returns, Starts, Retries, Redoes, Turns, SameAttempts, Grows
  <2> QED
    BY <1>1, <2>1, <2>2, <2>3 DEF WorkerKind
<1>2. ASSUME NEW p \in Posts, SweepKind(p) PROVE Grows
  BY <1>2 DEF SweepKind, Settled, Recovers, SendsBack, Steady, Grows
<1>3. CASE Calm
  BY <1>3 DEF Calm, Steady, Grows
<1> QED
  BY <1>1, <1>2, <1>3

\* What keeps the count: nothing new is out, and an attempt in hand is one that was.
LEMMA SameFeedCounted ==
  ASSUME Typed, Counted, feed' = feed, Grows,
         \A w \in Workers : Live(w)' =>
           /\ Post(w)' \in Posts
           /\ \/ Live(w) /\ Post(w)' = Post(w) /\ work'[w].attempts = work[w].attempts
                 /\ (meta'[work'[w].container].state # "PUBLISHED" => meta[work[w].container].state # "PUBLISHED")
              \/ /\ work'[w].attempts = row[Post(w)'].attempts
                 /\ meta'[work'[w].container].state # "PUBLISHED" => Unused(Post(w)', row[Post(w)'].attempts),
         \A p \in Posts :
           (row'[p].status \in OpenStatus \/ (Waiting(p)' /\ meta'[row'[p].container].state # "PUBLISHED"))
             => \/ row'[p].attempts = row[p].attempts /\ Unused(p, row[p].attempts)
                \/ row'[p].attempts = row[p].attempts + 1
  PROVE  Counted'
<1>1. \A p, a : Unused(p, a)' <=> Unused(p, a)
  BY DEF Unused
<1>2. ASSUME NEW i \in DOMAIN feed PROVE feed[i].attempt <= row'[feed[i].post].attempts
  <2>1. feed[i].post \in Posts /\ feed[i].attempt \in Nat /\ row[feed[i].post].attempts \in Nat
    BY FeedTyped, CountsTyped
  <2>2. feed[i].attempt <= row[feed[i].post].attempts
    BY DEF Counted
  <2>3. row'[feed[i].post].attempts \in {row[feed[i].post].attempts, row[feed[i].post].attempts + 1}
    BY <2>1 DEF Grows
  <2> QED
    BY <2>1, <2>2, <2>3
<1>3. ASSUME NEW w \in Workers, Live(w)'
      PROVE  /\ work'[w].attempts <= row'[Post(w)'].attempts
             /\ meta'[work'[w].container].state # "PUBLISHED" => Unused(Post(w)', work'[w].attempts)
  <2>1. Post(w)' \in Posts
    BY <1>3
  <2>2. row[Post(w)'].attempts \in Nat /\ row'[Post(w)'].attempts \in {row[Post(w)'].attempts, row[Post(w)'].attempts + 1}
    BY <2>1, CountsTyped DEF Grows
  <2>3. CASE Live(w) /\ Post(w)' = Post(w) /\ work'[w].attempts = work[w].attempts
             /\ (meta'[work'[w].container].state # "PUBLISHED" => meta[work[w].container].state # "PUBLISHED")
    <3>1. work[w].attempts <= row[Post(w)].attempts /\ work[w].attempts \in Nat
      BY <2>3, CountsTyped, CountedIs
    <3>2. work'[w].attempts <= row'[Post(w)'].attempts
      BY <2>2, <2>3, <3>1
    <3> QED
      BY <2>3, <3>2, CountedIs
  <2>4. CASE /\ work'[w].attempts = row[Post(w)'].attempts
             /\ meta'[work'[w].container].state # "PUBLISHED" => Unused(Post(w)', row[Post(w)'].attempts)
    <3>1. work'[w].attempts <= row'[Post(w)'].attempts
      BY <2>2, <2>4
    <3> QED
      BY <2>4, <3>1
  <2> QED
    BY <1>3, <2>3, <2>4
<1>4. ASSUME NEW p \in Posts,
             row'[p].status \in OpenStatus \/ (Waiting(p)' /\ meta'[row'[p].container].state # "PUBLISHED")
      PROVE  Unused(p, row'[p].attempts)
  BY <1>4, NextUnused
<1> QED
  BY <1>1, <1>2, <1>3, <1>4 DEF Counted, Live, Waiting

\* A step that changes no container in use for the worse keeps what is live.
LEMMA StillLive ==
  ASSUME Typed, Owned, Held, MetaKeeps, NEW w \in Workers, work'[w] = work[w], Live(w)'
  PROVE  /\ Live(w) /\ Post(w)' = Post(w) /\ Post(w) \in Posts
         /\ meta'[work'[w].container].state # "PUBLISHED" => meta[work[w].container].state # "PUBLISHED"
<1>1. Live(w) /\ Post(w)' = Post(w)
  BY DEF Live, Post
<1>2. work[w].container \in Containers \cap Referenced /\ Post(w) \in Posts
  BY <1>1, WorkContainer DEF Live
<1> QED
  BY <1>1, <1>2 DEF MetaKeeps

\* A steady row hands on no more than it had.
LEMMA SteadyRow ==
  ASSUME Typed, Owned, Held, Counted, MetaKeeps, NEW p \in Posts, Steady(p),
         row'[p].status \in OpenStatus \/ (Waiting(p)' /\ meta'[row'[p].container].state # "PUBLISHED")
  PROVE  \/ row'[p].attempts = row[p].attempts /\ Unused(p, row[p].attempts)
         \/ row'[p].attempts = row[p].attempts + 1
<1>1. row'[p].status \in InFlight
  BY DEF OpenStatus, Waiting, InFlight
<1>2. /\ row'[p].status = row[p].status /\ row'[p].container = row[p].container
      /\ row'[p].attempts \in {row[p].attempts, row[p].attempts + 1}
  BY <1>1 DEF Steady
<1>3. CASE row'[p].status \in OpenStatus
  BY <1>2, <1>3 DEF Counted
<1>4. CASE Waiting(p)' /\ meta'[row'[p].container].state # "PUBLISHED"
  <2>1. Waiting(p)
    BY <1>2, <1>4 DEF Waiting
  <2>2. row[p].container \in Containers \cap Referenced
    BY <2>1, RowContainer DEF Waiting
  <2>3. meta[row[p].container].state # "PUBLISHED"
    BY <1>2, <1>4, <2>2 DEF MetaKeeps
  <2> QED
    BY <1>2, <2>1, <2>3 DEF Counted, Waiting
<1> QED
  BY <1>3, <1>4

LEMMA QuietKindCounted ==
  ASSUME Typed, Owned, Orderly, Counted, NEW w \in Workers, AsideFrom(w), Aside(w) \/ Asks(w) \/ Builds(w)
  PROVE  Counted'
<1>0. Held /\ Claimed /\ MetaKeeps /\ feed' = feed /\ \A v \in Workers \ {w} : work'[v] = work[v]
  BY DEF Orderly, AsideFrom, Aside, Asks, Builds
<1>1. Grows
  BY KindGrows DEF WorkerKind
<1>2. ASSUME NEW v \in Workers, Live(v)'
      PROVE  /\ Live(v) /\ Post(v)' = Post(v) /\ Post(v) \in Posts /\ work'[v].attempts = work[v].attempts
             /\ meta'[work'[v].container].state # "PUBLISHED" => meta[work[v].container].state # "PUBLISHED"
  <2>1. CASE v # w
    BY <1>0, <1>2, <2>1, StillLive
  <2>2. CASE v = w
    <3>1. Asks(w)
      BY <1>2, <2>2 DEF Aside, Builds, Idles, Onward, Live, Sending
    <3>2. Live(w) /\ Post(w)' = Post(w) /\ work'[w].attempts = work[w].attempts /\ work'[w].container = work[w].container
      BY <3>1 DEF Asks, Onward, Post, Live, At, Sending
    <3>3. work[w].container \in Containers \cap Referenced /\ Post(w) \in Posts
      BY <1>0, <3>2, WorkContainer DEF Live
    <3> QED
      BY <1>0, <2>2, <3>2, <3>3 DEF MetaKeeps
  <2> QED
    BY <2>1, <2>2
<1>3. ASSUME NEW p \in Posts,
             row'[p].status \in OpenStatus \/ (Waiting(p)' /\ meta'[row'[p].container].state # "PUBLISHED")
      PROVE  \/ row'[p].attempts = row[p].attempts /\ Unused(p, row[p].attempts)
             \/ row'[p].attempts = row[p].attempts + 1
  <2>1. CASE Aside(w) \/ Asks(w) \/ p # Post(w)
    <3>1. Steady(p)
      BY <2>1, SameRowsAside DEF Aside, Asks, Builds, Steady
    <3> QED
      BY <1>0, <1>3, <3>1, SteadyRow
  <2>2. CASE Builds(w) /\ p = Post(w)
    <3>1. row'[p].status = row[p].status /\ row'[p].attempts = row[p].attempts /\ At(w, "build")
      BY <2>2 DEF Builds, SameAttempts
    <3>2. row[p].status \notin InFlight \ {"PREPARING"}
      BY <1>0, <2>2, <3>1 DEF Claimed, At, Making
    <3>3. row[p].status \in OpenStatus
      BY <1>3, <3>1, <3>2 DEF Waiting, InFlight
    <3> QED
      BY <3>1, <3>3 DEF Counted
  <2> QED
    BY <2>1, <2>2
<1> HIDE DEF Typed
<1> QED
  BY <1>0, <1>1, <1>2, <1>3, SameFeedCounted

LEMMA TurnCounted ==
  ASSUME Typed, Owned, Orderly, Counted, NEW w \in Workers, AsideFrom(w),
         Claims(w) \/ Readies(w) \/ Returns(w) \/ Starts(w) \/ Retries(w) \/ Redoes(w)
  PROVE  Counted'
<1>0. /\ Held /\ Claimed /\ feed' = feed /\ meta' = meta /\ MetaKeeps /\ Post(w) \in Posts
      /\ \A v \in Workers \ {w} : work'[v] = work[v]
      /\ \A q \in Posts \ {Post(w)} : row'[q] = row[q]
  BY SameMetaQuiet DEF Orderly, AsideFrom, Claims, Readies, Returns, Starts, Retries, Redoes, Turns
<1>1. Grows
  BY KindGrows DEF WorkerKind
<1>2. ASSUME NEW v \in Workers, Live(v)'
      PROVE  /\ Post(v)' \in Posts
             /\ \/ Live(v) /\ Post(v)' = Post(v) /\ work'[v].attempts = work[v].attempts
                   /\ (meta'[work'[v].container].state # "PUBLISHED" => meta[work[v].container].state # "PUBLISHED")
                \/ /\ work'[v].attempts = row[Post(v)'].attempts
                   /\ meta'[work'[v].container].state # "PUBLISHED" => Unused(Post(v)', row[Post(v)'].attempts)
  <2>1. CASE v # w
    BY <1>0, <1>2, <2>1, StillLive
  <2>2. CASE v = w
    <3>1. Starts(w)
      BY <1>2, <2>2 DEF Claims, Readies, Returns, Retries, Redoes, Idles, Onward, Live, Sending
    <3>2. /\ Post(w)' = Post(w) /\ work'[w].attempts = row[Post(w)].attempts
          /\ work'[w].container = row[Post(w)].container /\ row[Post(w)].status = "READY_TO_PUBLISH"
      BY <3>1 DEF Starts, Turns, Onward, Post
    <3>3. meta[row[Post(w)].container].state # "PUBLISHED" => Unused(Post(w), row[Post(w)].attempts)
      BY <1>0, <3>2 DEF Counted
    <3> QED
      BY <1>0, <2>2, <3>2, <3>3
  <2> QED
    BY <2>1, <2>2
<1>3. ASSUME NEW p \in Posts,
             row'[p].status \in OpenStatus \/ (Waiting(p)' /\ meta'[row'[p].container].state # "PUBLISHED")
      PROVE  \/ row'[p].attempts = row[p].attempts /\ Unused(p, row[p].attempts)
             \/ row'[p].attempts = row[p].attempts + 1
  <2>1. CASE p # Post(w)
    <3>1. Steady(p)
      BY <1>0, <2>1 DEF Steady
    <3> QED
      BY <1>0, <1>3, <3>1, SteadyRow
  <2>2. CASE p = Post(w) /\ (Claims(w) \/ Readies(w) \/ Returns(w))
    <3>1. row[p].status \in OpenStatus /\ row'[p].attempts = row[p].attempts
      BY <2>2 DEF Claims, Readies, Returns, Turns, SameAttempts, OpenStatus
    <3> QED
      BY <3>1 DEF Counted
  <2>3. CASE p = Post(w) /\ (Starts(w) \/ Retries(w))
    <3>1. /\ row[p].status \in {"READY_TO_PUBLISH", "PUBLISHING"} /\ row'[p].attempts = row[p].attempts
          /\ row'[p].container = row[p].container /\ row'[p].status \notin OpenStatus
      BY <2>3 DEF Starts, Retries, Turns, SameAttempts, SameContainer, OpenStatus
    <3> QED
      BY <1>0, <1>3, <3>1 DEF Counted
  <2>4. CASE p = Post(w) /\ Redoes(w)
    <3>1. row[p].status = "PUBLISHING" /\ work[w].pc \in Sending
      BY <2>4 DEF Redoes, Turns, At, Sending
    <3>2. row[p].attempts = work[w].attempts
      BY <1>0, <2>4, <3>1 DEF Claimed
    <3>3. CASE SameAttempts(w) /\ meta[work[w].container].state # "PUBLISHED"
      BY <2>4, <3>1, <3>2, <3>3 DEF SameAttempts, Counted
    <3> QED
      BY <2>4, <3>3 DEF Redoes
  <2> QED
    BY <2>1, <2>2, <2>3, <2>4
<1> QED
  BY <1>0, <1>1, <1>2, <1>3, SameFeedCounted

\* Meta finishes the container of the worker that polls it: no other post refers to it.
LEMMA MakeCounted ==
  ASSUME Typed, Owned, Orderly, Counted, NEW w \in Workers, AsideFrom(w), Makes(w)
  PROVE  Counted'
<1> DEFINE c == work[w].container
<1>0. /\ Held /\ Alone /\ Claimed /\ feed' = feed /\ row' = row
      /\ \A v \in Workers \ {w} : work'[v] = work[v]
      /\ \A d \in Containers \ {c} : meta'[d] = meta[d]
      /\ work[w].pc \in Making /\ (~At(w, "poll") => meta' = meta)
  BY DEF Orderly, AsideFrom, Makes
<1>1. Grows
  BY KindGrows DEF WorkerKind
<1>2. At(w, "poll") => Post(w) \in Posts /\ meta[c].post = Post(w)
  BY <1>0, WorkContainer DEF At
<1>3. ASSUME NEW d \in Containers, At(w, "poll") => meta[d].post # Post(w) PROVE meta'[d] = meta[d]
  BY <1>0, <1>2, <1>3
<1>4. ASSUME NEW v \in Workers, Live(v)'
      PROVE  /\ Live(v) /\ Post(v)' = Post(v) /\ Post(v) \in Posts /\ work'[v].attempts = work[v].attempts
             /\ meta'[work'[v].container] = meta[work[v].container]
  <2>1. v # w
    BY <1>4 DEF Makes, Live, Making, Sending
  <2>2. Live(v) /\ work'[v] = work[v] /\ Post(v)' = Post(v)
    BY <1>0, <1>4, <2>1 DEF Live, Post
  <2>3. work[v].container \in Containers /\ Post(v) \in Posts /\ meta[work[v].container].post = Post(v)
    BY <1>0, <2>2, WorkContainer DEF Live
  <2>4. Post(v) # Post(w)
    BY <1>0, <2>1, <2>2 DEF Alone, Engaged, Live
  <2> QED
    BY <1>3, <2>2, <2>3, <2>4
<1>5. ASSUME NEW p \in Posts, Waiting(p) PROVE meta'[row[p].container] = meta[row[p].container]
  <2>1. row[p].container \in Containers /\ meta[row[p].container].post = p
    BY <1>0, <1>5, RowContainer DEF Waiting
  <2>2. p # Post(w)
    BY <1>0, <1>5 DEF Claimed, Waiting, InFlight
  <2> QED
    BY <1>3, <2>1, <2>2
<1>6. ASSUME NEW p \in Posts,
             row'[p].status \in OpenStatus \/ (Waiting(p)' /\ meta'[row'[p].container].state # "PUBLISHED")
      PROVE  row'[p].attempts = row[p].attempts /\ Unused(p, row[p].attempts)
  BY <1>0, <1>5, <1>6 DEF Counted, Waiting
<1> QED
  BY <1>0, <1>1, <1>4, <1>6, SameFeedCounted

LEMMA RestCounted ==
  ASSUME Typed, Owned, Orderly, Counted, (\E p \in Posts : SweepKind(p)) \/ Calm
  PROVE  Counted'
<1>0. Held /\ work' = work /\ feed' = feed
  BY DEF Orderly, SweepKind, Calm
<1>1. MetaKeeps
  BY SameMetaQuiet DEF SweepKind, Settled, Recovers, SendsBack, Calm
<1>2. Grows
  BY KindGrows
<1>3. ASSUME NEW v \in Workers, Live(v)'
      PROVE  /\ Live(v) /\ Post(v)' = Post(v) /\ Post(v) \in Posts /\ work'[v].attempts = work[v].attempts
             /\ meta'[work'[v].container].state # "PUBLISHED" => meta[work[v].container].state # "PUBLISHED"
  BY <1>0, <1>1, <1>3, StillLive
<1>4. ASSUME NEW p \in Posts,
             row'[p].status \in OpenStatus \/ (Waiting(p)' /\ meta'[row'[p].container].state # "PUBLISHED")
      PROVE  \/ row'[p].attempts = row[p].attempts /\ Unused(p, row[p].attempts)
             \/ row'[p].attempts = row[p].attempts + 1
  <2>1. CASE Steady(p)
    BY <1>0, <1>1, <1>4, <2>1, SteadyRow
  <2>2. CASE ~Steady(p)
    <3>1. PICK q \in Posts : SweepKind(q) /\ SendsBack(q)
      BY <2>2, SameRowsAside DEF Calm, SweepKind, Settled, Recovers
    <3>2. p = q
      BY <2>2, <3>1 DEF SendsBack, Steady
    <3>3. /\ Waiting(p) /\ row'[p].status \notin OpenStatus /\ row'[p].attempts = row[p].attempts
          /\ meta'[row'[p].container] = meta[row[p].container]
      BY <3>1, <3>2 DEF SendsBack, Waiting, OpenStatus
    <3> QED
      BY <1>4, <3>3 DEF Counted, Waiting
  <2> QED
    BY <2>1, <2>2
<1> QED
  BY <1>0, <1>2, <1>3, <1>4, SameFeedCounted

\* A media of the post and attempt in hand is the first, and its container is then spent.
LEMMA CallCounted ==
  ASSUME Typed, Owned, Orderly, Counted, OncePerAttempt, NEW w \in Workers, AsideFrom(w), Calls(w)
  PROVE  Counted' /\ OncePerAttempt'
<1> DEFINE c == work[w].container
           p == Post(w)
           StillUnused(q, a) == \A i \in DOMAIN feed' : feed'[i].post = q => feed'[i].attempt # a
<1>0. /\ Held /\ Alone /\ Claimed /\ row' = row /\ At(w, "call") /\ Live(w)
      /\ \A v \in Workers \ {w} : work'[v] = work[v]
      /\ \A d \in Containers \ {c} : meta'[d] = meta[d]
      /\ Onward(w, work'[w].pc) /\ work'[w].container = c /\ work'[w].attempts = work[w].attempts
      /\ c \in Containers /\ meta'[c].state # "PUBLISHED" => meta[c].state # "PUBLISHED"
  BY DEF Orderly, AsideFrom, Calls, Live, At, Sending
<1>1. c \in Containers /\ p \in Posts /\ meta[c].post = p
  BY <1>0, WorkContainer DEF Live
<1>2. Grows
  BY KindGrows DEF WorkerKind
<1>3. \A v \in Workers : Post(v)' = Post(v) \/ ~Live(v)'
  BY <1>0 DEF Onward, Post
<1>4. ASSUME NEW v \in Workers \ {w}, Live(v)'
      PROVE  /\ Live(v) /\ Post(v)' = Post(v) /\ Post(v) \in Posts \ {p} /\ work'[v] = work[v]
             /\ meta'[work[v].container] = meta[work[v].container]
  <2>1. Live(v) /\ work'[v] = work[v] /\ Post(v)' = Post(v)
    BY <1>0, <1>4 DEF Live, Post
  <2>2. work[v].container \in Containers /\ Post(v) \in Posts /\ meta[work[v].container].post = Post(v)
    BY <1>0, <2>1, WorkContainer DEF Live
  <2>3. Post(v) # p
    BY <1>0, <2>1 DEF Alone, Engaged, Live
  <2> QED
    BY <1>0, <1>1, <2>1, <2>2, <2>3
<1>5. ASSUME NEW q \in Posts \ {p}, Waiting(q) PROVE meta'[row[q].container] = meta[row[q].container]
  <2>1. row[q].container \in Containers /\ meta[row[q].container].post = q
    BY <1>0, <1>5, RowContainer DEF Waiting
  <2> QED
    BY <1>0, <1>1, <2>1
<1>6. row[p].status \notin OpenStatus /\ (Waiting(p) => row[p].container = c /\ row[p].attempts = work[w].attempts)
  BY <1>0 DEF Claimed, Live, Waiting, OpenStatus, InFlight
<1>7. CASE feed' = feed
  <2>1. ASSUME NEW v \in Workers, Live(v)'
        PROVE  /\ Live(v) /\ Post(v)' = Post(v) /\ Post(v) \in Posts /\ work'[v].attempts = work[v].attempts
               /\ meta'[work'[v].container].state # "PUBLISHED" => meta[work[v].container].state # "PUBLISHED"
    BY <1>0, <1>1, <1>3, <1>4, <2>1
  <2>2. ASSUME NEW q \in Posts,
               row'[q].status \in OpenStatus \/ (Waiting(q)' /\ meta'[row'[q].container].state # "PUBLISHED")
        PROVE  row'[q].attempts = row[q].attempts /\ Unused(q, row[q].attempts)
    BY <1>0, <1>1, <1>5, <1>6, <2>2 DEF Counted, Waiting
  <2> QED
    BY <1>2, <1>7, <2>1, <2>2, SameFeedCounted DEF OncePerAttempt
<1>8. ASSUME meta[c].state # "PUBLISHED", meta'[c].state = "PUBLISHED",
             NEW e, feed' = Append(feed, e), e.post = meta[c].post, e.attempt = work[w].attempts
      PROVE  Counted' /\ OncePerAttempt'
  <2> DEFINE n == Len(feed)
  <2>1. /\ n \in Nat /\ DOMAIN feed = 1..n /\ DOMAIN feed' = 1..(n + 1)
        /\ feed'[n + 1] = e /\ \A i \in 1..n : feed'[i] = feed[i]
    BY <1>8 DEF Typed, TypeOK
  <2> HIDE DEF n
  <2>2. e.post = p /\ Unused(p, e.attempt) /\ e.attempt <= row[p].attempts
    BY <1>0, <1>1, <1>8 DEF Counted, Live
  <2>3. \A q \in Posts \ {p} : \A a : Unused(q, a) => StillUnused(q, a)
    BY <2>1, <2>2 DEF Unused
  <2>4. \A i \in DOMAIN feed' : feed'[i].attempt <= row'[feed'[i].post].attempts
    BY <1>0, <2>1, <2>2 DEF Counted
  <2>5. ASSUME NEW v \in Workers, Live(v)'
        PROVE  /\ work'[v].attempts <= row'[Post(v)'].attempts
               /\ meta'[work'[v].container].state # "PUBLISHED" => StillUnused(Post(v)', work'[v].attempts)
    <3>1. CASE v = w
      BY <1>0, <1>3, <1>8, <2>5, <3>1 DEF Counted, Live
    <3>2. CASE v # w
      <4>1. /\ Live(v) /\ Post(v)' = Post(v) /\ Post(v) \in Posts \ {p} /\ work'[v] = work[v]
            /\ meta'[work[v].container] = meta[work[v].container]
        BY <1>4, <2>5, <3>2
      <4>2. work[v].attempts <= row[Post(v)].attempts
        BY <4>1 DEF Counted, Live
      <4>3. meta[work[v].container].state # "PUBLISHED" => Unused(Post(v), work[v].attempts)
        BY <4>1 DEF Counted, Live
      <4>4. meta[work[v].container].state # "PUBLISHED" => StillUnused(Post(v), work[v].attempts)
        BY <2>3, <4>1, <4>3
      <4> QED
        BY <1>0, <4>1, <4>2, <4>4
    <3> QED
      BY <3>1, <3>2
  <2>6. ASSUME NEW q \in Posts,
               row[q].status \in OpenStatus \/ (Waiting(q) /\ meta'[row[q].container].state # "PUBLISHED")
        PROVE  StillUnused(q, row[q].attempts)
    <3>1. q # p
      BY <1>6, <1>8, <2>6
    <3>2. Unused(q, row[q].attempts)
      BY <1>5, <2>6, <3>1 DEF Counted, Waiting
    <3> QED
      BY <1>0, <2>3, <3>1, <3>2
  <2>7. OncePerAttempt'
    BY <2>1, <2>2 DEF OncePerAttempt, Unused
  <2> QED
    BY <1>0, <2>4, <2>5, <2>6, <2>7 DEF Counted, Live, Waiting, Unused
<1> QED
  BY <1>1, <1>7, <1>8 DEF Calls

LEMMA StepCounted ==
  ASSUME Typed, Users = {}, Owned, Orderly, Counted, OncePerAttempt, [Next]_vars
  PROVE  Counted' /\ OncePerAttempt'
<1>1. ASSUME feed' = feed PROVE OncePerAttempt'
  BY <1>1 DEF OncePerAttempt
<1>2. ASSUME NEW w \in Workers, WorkerKind(w), AsideFrom(w) PROVE Counted' /\ OncePerAttempt'
  <2>1. CASE Aside(w) \/ Asks(w) \/ Builds(w)
    BY <1>1, <1>2, <2>1, QuietKindCounted DEF Aside, Asks, Builds
  <2>2. CASE Claims(w) \/ Readies(w) \/ Returns(w) \/ Starts(w) \/ Retries(w) \/ Redoes(w)
    BY <1>1, <1>2, <2>2, TurnCounted DEF Claims, Readies, Returns, Starts, Retries, Redoes, Turns
  <2>3. CASE Makes(w)
    BY <1>1, <1>2, <2>3, MakeCounted DEF Makes
  <2>4. CASE Calls(w)
    BY <1>2, <2>4, CallCounted
  <2> QED
    BY <1>2, <2>1, <2>2, <2>3, <2>4 DEF WorkerKind
<1>3. CASE (\E p \in Posts : SweepKind(p)) \/ Calm
  BY <1>1, <1>3, RestCounted DEF SweepKind, Calm
<1> QED
  BY <1>2, <1>3, StepKinds

LEMMA InitCounted == Init => Counted /\ OncePerAttempt
<1> SUFFICES ASSUME Init PROVE Counted /\ OncePerAttempt
  OBVIOUS
<1>1. feed = <<>> /\ \A w \in Workers : work[w].pc = "idle"
  BY DEF Init, IdleWork
<1>2. DOMAIN feed = {}
  BY <1>1
<1> QED
  BY <1>1, <1>2 DEF Counted, OncePerAttempt, Unused, Sending

\* One scheduling attempt puts at most one media on Instagram, through crashes, lost
\* answers, stalled jobs, overlapping workers and the sweeper's recovery, while nobody
\* reschedules the post (AC-8, AC-9): a spent container stays with its attempt until
\* the attempt is over, and a new container means that none of the attempt is out.
THEOREM OneMediaEachAttempt ==
  ASSUME Users = {} PROVE Spec => []OncePerAttempt
<1> DEFINE Inv == Typed /\ Owned /\ Orderly /\ Counted /\ OncePerAttempt
<1>1. Init => Inv
  BY InitTyped, InitShown, InitOrderly, InitCounted
<1>2. Inv /\ [Next]_vars => Inv'
  BY StepTyped, StepOwned, StepOrderly, StepCounted
<1>3. Inv => OncePerAttempt
  OBVIOUS
<1> QED
  BY <1>1, <1>2, <1>3, PTL DEF Spec

LEMMA OnceMaps == OncePerAttempt => Promise!Once
<1> SUFFICES ASSUME OncePerAttempt, NEW i \in DOMAIN Out, NEW j \in DOMAIN Out, Out[i] = Out[j] PROVE i = j
  BY DEF Promise!Once, Out
<1>1. feed[i].post = feed[j].post /\ feed[i].attempt = feed[j].attempt
  BY DEF Out
<1> QED
  BY <1>1 DEF OncePerAttempt, Out

\* Without users the pipeline implements PublishOnce with at most one media of each
\* scheduling attempt (worker.ts, publish.ts, sweep.ts; AC-8, AC-9).
THEOREM PipelinePublishesOnce ==
  ASSUME Users = {} PROVE Spec => PublishesOnce
<1>1. Spec => KeepsPromise
  BY PipelineKeepsPromise
<1>2. Spec => []OncePerAttempt
  BY OneMediaEachAttempt
<1> QED
  BY <1>1, <1>2, OnceMaps, PTL DEF PublishesOnce, KeepsPromise, Promise!OnceSpec

-----------------------------------------------------------------------------
(* A published post is linked                                              *)

\* A post that is PUBLISHED after the step was before, with the same media and link.
RowsLink ==
  \A q \in Posts : row'[q].status = "PUBLISHED" =>
    /\ row[q].status = "PUBLISHED" /\ row'[q].igMedia = row[q].igMedia /\ row'[q].linkFailed = row[q].linkFailed

LEMMA LinkKept ==
  ASSUME PublishedIsLinked, RowsLink, campaign' = campaign PROVE PublishedIsLinked'
  BY DEF PublishedIsLinked, RowsLink

LEMMA MoveLinks ==
  ASSUME Typed, NEW p, NEW from, NEW r, r.status # "PUBLISHED", Move(p, from, r) PROVE RowsLink
  BY DEF Typed, TypeOK, RowsLink, Move

LEMMA OneRowLinks ==
  ASSUME Typed, NEW p \in Posts, NEW r, row' = [row EXCEPT ![p] = r],
         \/ r.status # "PUBLISHED"
         \/ r.status = row[p].status /\ r.igMedia = row[p].igMedia /\ r.linkFailed = row[p].linkFailed
  PROVE  RowsLink
  BY DEF Typed, TypeOK, RowsLink

LEMMA FailPostLinks ==
  ASSUME Typed, NEW p \in Posts, NEW toManual, FailPost(p, toManual) PROVE RowsLink
<1> DEFINE r == [row[p] EXCEPT !.status = IF toManual THEN "NEEDS_MANUAL" ELSE "FAILED",
                               !.manual = @ \/ toManual]
<1>1. r.status # "PUBLISHED"
  BY DEF Typed, TypeOK, Row
<1>2. Move(p, FailFrom, r)
  BY DEF FailPost
<1> HIDE DEF r
<1> QED
  BY <1>1, <1>2, MoveLinks

\* finishPublished links the post it publishes, or records that it did not.
LEMMA FinishLinks ==
  ASSUME Typed, PublishedIsLinked, NEW p \in Posts, NEW m, Finish(p, m) PROVE PublishedIsLinked'
<1>0. row \in [Posts -> Row] /\ campaign \in [Posts -> [active : BOOLEAN, media : Nat]]
  BY DEF Typed, TypeOK
<1>1. CASE UNCHANGED <<row, campaign>>
  BY <1>1 DEF PublishedIsLinked
<1>2. ASSUME NEW b \in BOOLEAN,
             row' = [row EXCEPT ![p].status = "PUBLISHED", ![p].igMedia = m, ![p].linkFailed = b],
             \/ b /\ campaign' = campaign
             \/ campaign' = [campaign EXCEPT ![p] = [active |-> TRUE, media |-> m]]
      PROVE  PublishedIsLinked'
  <2>1. /\ row'[p].igMedia = m /\ row'[p].linkFailed = b
        /\ \A q \in Posts \ {p} : row'[q] = row[q] /\ campaign'[q] = campaign[q]
    BY <1>0, <1>2 DEF Row
  <2>2. b \/ campaign'[p] = [active |-> TRUE, media |-> m]
    BY <1>0, <1>2
  <2> QED
    BY <2>1, <2>2 DEF PublishedIsLinked
<1> QED
  BY <1>1, <1>2 DEF Finish

LEMMA WorkerLinks ==
  ASSUME Typed, NEW w \in Workers, WorkerStep(w), ~PublishFinish(w)
  PROVE  RowsLink /\ campaign' = campaign
<1> DEFINE p == Post(w)
<1>0. campaign' = campaign
  BY DEF WorkerStep, Take, PrepareLoad, PrepareClaim, Build, Poll, PrepareReady, PrepareError, Fail,
         PublishLoad, Reload, AcquireLock, PublishClaim, PublishCall, Ask, PublishError, PublishBackoff
<1>1. CASE row' = row
  BY <1>0, <1>1 DEF RowsLink
<1>2. ASSUME ~At(w, "idle") PROVE p \in Posts /\ row[p] \in Row
  BY <1>2, PostTyped
<1>3. CASE Fail(w)
  BY <1>0, <1>2, <1>3, FailPostLinks DEF Fail, At
<1>4. CASE Build(w)
  <2>1. p \in Posts /\ row[p] \in Row
    BY <1>2, <1>4 DEF Build, At
  <2>2. row' = row \/ \E c : row' = [row EXCEPT ![p].container = c]
    BY <1>4 DEF Build
  <2>3. \A c : /\ [row[p] EXCEPT !.container = c].status = row[p].status
               /\ [row[p] EXCEPT !.container = c].igMedia = row[p].igMedia
               /\ [row[p] EXCEPT !.container = c].linkFailed = row[p].linkFailed
    BY <2>1 DEF Row
  <2> QED
    BY <1>0, <1>1, <2>1, <2>2, <2>3, OneRowLinks
<1>5. CASE PrepareClaim(w) \/ PrepareReady(w) \/ PrepareError(w)
  <2>1. p \in Posts /\ row[p] \in Row
    BY <1>2, <1>5 DEF PrepareClaim, PrepareReady, PrepareError, At
  <2>2. \/ row' = row
        \/ \E from : \/ Move(p, from, [row[p] EXCEPT !.status = "PREPARING"])
                     \/ Move(p, from, [row[p] EXCEPT !.status = "READY_TO_PUBLISH", !.container = work[w].container])
                     \/ Move(p, from, [row[p] EXCEPT !.status = "SCHEDULED"])
                     \/ Move(p, from, [row[p] EXCEPT !.status = "SCHEDULED", !.container = NoContainer])
    BY <1>5 DEF PrepareClaim, PrepareReady, PrepareError
  <2>3. \A s \in {"PREPARING", "READY_TO_PUBLISH", "SCHEDULED"} :
          /\ [row[p] EXCEPT !.status = s].status # "PUBLISHED"
          /\ \A c : [row[p] EXCEPT !.status = s, !.container = c].status # "PUBLISHED"
    BY <2>1, StatusOf
  <2> QED
    BY <1>0, <1>1, <2>2, <2>3, MoveLinks
<1>6. CASE PublishClaim(w) \/ PublishError(w) \/ PublishBackoff(w)
  <2>1. p \in Posts /\ row[p] \in Row
    BY <1>2, <1>6 DEF PublishClaim, PublishError, PublishBackoff, At
  <2>2. \/ row' = row
        \/ \E from : \/ Move(p, from, [row[p] EXCEPT !.status = "PUBLISHING"])
                     \/ Move(p, from, [row[p] EXCEPT !.status = "READY_TO_PUBLISH"])
                     \/ Move(p, from, [row[p] EXCEPT !.status = "SCHEDULED", !.container = NoContainer])
                     \/ \E slot : Move(p, from, [row[p] EXCEPT !.status = "SCHEDULED", !.slot = slot,
                                                 !.attempts = row[p].attempts + 1, !.container = NoContainer])
    BY <1>6 DEF PublishClaim, PublishError, PublishBackoff, Backoff, QuotaMove
  <2>3. /\ \A s \in {"PUBLISHING", "READY_TO_PUBLISH", "SCHEDULED"} :
             /\ [row[p] EXCEPT !.status = s].status # "PUBLISHED"
             /\ \A c : [row[p] EXCEPT !.status = s, !.container = c].status # "PUBLISHED"
        /\ \A slot : [row[p] EXCEPT !.status = "SCHEDULED", !.slot = slot, !.attempts = row[p].attempts + 1,
                                    !.container = NoContainer].status # "PUBLISHED"
    BY <2>1, StatusOf
  <2> QED
    BY <1>0, <1>1, <2>2, <2>3, MoveLinks
<1> QED
  BY <1>0, <1>1, <1>3, <1>4, <1>5, <1>6
     DEF WorkerStep, Take, PrepareLoad, Poll, PublishLoad, Reload, AcquireLock, PublishCall, Ask

\* The sweeper links what it finds published and what it owes a link; its other writes
\* take no post to PUBLISHED.
LEMMA SweepLinks ==
  ASSUME Typed, PublishedIsLinked, NEW p \in Posts, SweepStep(p) PROVE PublishedIsLinked'
<1>0. /\ row \in [Posts -> Row] /\ row[p] \in Row
      /\ campaign \in [Posts -> [active : BOOLEAN, media : Nat]]
  BY DEF Typed, TypeOK
<1>1. CASE UNCHANGED <<row, campaign>>
  BY <1>1 DEF PublishedIsLinked
<1>2. CASE SweepFail(p)
  BY <1>2, FailPostLinks, LinkKept DEF SweepFail
<1>3. CASE SweepManual(p)
  <2> DEFINE r == [row[p] EXCEPT !.status = "NEEDS_MANUAL", !.manual = TRUE]
  <2>1. r.status # "PUBLISHED"
    BY <1>0 DEF Row
  <2>2. (row' = row \/ row' = [row EXCEPT ![p] = r]) /\ campaign' = campaign
    BY <1>3 DEF SweepManual
  <2> HIDE DEF r
  <2> QED
    BY <1>1, <2>1, <2>2, OneRowLinks, LinkKept
<1>4. CASE SweepFinished(p)
  <2> DEFINE r == [row[p] EXCEPT !.status = "READY_TO_PUBLISH"]
  <2>1. r.status # "PUBLISHED"
    BY <1>0, StatusOf
  <2>2. Move(p, {"PUBLISHING"}, r) /\ campaign' = campaign
    BY <1>4 DEF SweepFinished
  <2> HIDE DEF r
  <2> QED
    BY <2>1, <2>2, MoveLinks, LinkKept
<1>5. CASE SweepFound(p)
  BY <1>5, FinishLinks DEF SweepFound
<1>6. CASE SweepRelink(p)
  <2>1. /\ row'[p].igMedia = row[p].igMedia /\ campaign'[p] = [active |-> TRUE, media |-> row[p].igMedia]
        /\ \A q \in Posts \ {p} : row'[q] = row[q] /\ campaign'[q] = campaign[q]
    BY <1>0, <1>6 DEF SweepRelink, Row
  <2> QED
    BY <2>1 DEF PublishedIsLinked
<1> QED
  BY <1>1, <1>2, <1>3, <1>4, <1>5, <1>6
     DEF SweepStep, SweepRead, SweepRequeue, SweepStuck, SweepRecover

\* A post that leaves the pipeline by hand was not published, and an edit finds none.
LEMMA UserLinks ==
  ASSUME Typed, Users = {}, UserStep PROVE RowsLink /\ campaign' = campaign
<1>0. row \in [Posts -> Row]
  BY DEF Typed, TypeOK
<1>1. (\E p \in Posts : Leave(p) \/ Edit(p)) \/ Reconnect
  BY DEF UserStep
<1>2. campaign' = campaign
  BY <1>1 DEF Leave, Edit, Reconnect
<1>3. ASSUME NEW p \in Posts, Leave(p) PROVE RowsLink
  <2>1. PICK from \in {MayPause, MayDraft, {"NEEDS_MANUAL"}},
             to \in {"PAUSED", "DRAFT", "PUBLISHED_MANUAL"} : UserMove(p, from, to)
    BY <1>3 DEF Leave
  <2>2. row'[p].status = to /\ \A q \in Posts \ {p} : row'[q] = row[q]
    BY <1>0, <2>1 DEF UserMove, Row
  <2> QED
    BY <2>2 DEF RowsLink
<1>4. ASSUME NEW p \in Posts, Edit(p) PROVE RowsLink
  <2>1. PICK manual, rearm \in BOOLEAN :
          row' = [row EXCEPT ![p] = [row[p] EXCEPT !.content = @ + 1, !.manual = manual,
                                     !.attempts = IF rearm THEN @ + 1 ELSE @]]
    BY <1>4 DEF Edit
  <2> DEFINE r == [row[p] EXCEPT !.content = @ + 1, !.manual = manual, !.attempts = IF rearm THEN @ + 1 ELSE @]
  <2>2. r.status = row[p].status /\ r.igMedia = row[p].igMedia /\ r.linkFailed = row[p].linkFailed
    BY <1>0 DEF Row
  <2>3. row' = [row EXCEPT ![p] = r]
    BY <2>1
  <2> HIDE DEF r
  <2> QED
    BY <2>2, <2>3, OneRowLinks
<1> QED
  BY <1>1, <1>2, <1>3, <1>4 DEF Reconnect, RowsLink

LEMMA StepLinked == Typed /\ Users = {} /\ PublishedIsLinked /\ [Next]_vars => PublishedIsLinked'
<1> SUFFICES ASSUME Typed, Users = {}, PublishedIsLinked, [Next]_vars PROVE PublishedIsLinked'
  OBVIOUS
<1>1. CASE UNCHANGED <<row, campaign>>
  BY <1>1 DEF PublishedIsLinked
<1>2. ASSUME NEW w \in Workers, PublishFinish(w) PROVE PublishedIsLinked'
  <2>1. Finish(Post(w), work[w].media) /\ At(w, "finish")
    BY <1>2 DEF PublishFinish
  <2>2. Post(w) \in Posts
    BY <2>1, PostTyped DEF At
  <2> QED
    BY <2>1, <2>2, FinishLinks
<1>3. ASSUME NEW w \in Workers, WorkerStep(w) PROVE PublishedIsLinked'
  BY <1>2, <1>3, WorkerLinks, LinkKept
<1>4. CASE UserStep
  BY <1>4, UserLinks, LinkKept
<1>5. Tick \/ FaultStep \/ UNCHANGED vars => UNCHANGED <<row, campaign>>
  BY DEF Tick, FaultStep, LoseQueue, LockExpire, Crash, vars
<1> QED
  BY <1>1, <1>3, <1>4, <1>5, SweepLinks DEF Next

LEMMA InitLinked == Init => PublishedIsLinked
<1> SUFFICES ASSUME Init, NEW p \in Posts PROVE row[p].status = "SCHEDULED"
  BY DEF PublishedIsLinked
<1>1. PICK slot \in [Posts -> 1..MaxSlot] :
        row = [q \in Posts |-> [status |-> "SCHEDULED", attempts |-> 1, slot |-> slot[q],
                  container |-> NoContainer, content |-> 0, manual |-> FALSE, deleted |-> FALSE,
                  igMedia |-> 0, linkFailed |-> FALSE]]
  BY DEF Init
<1> QED
  BY <1>1

\* A published post's campaign answers on that post, or the failed link is on record and
\* the sweeper still owes it (FR-L3), whoever publishes the post: the worker that called
\* Meta, a worker whose job was run again, or the sweeper's recovery.  With overlapping
\* user requests it fails by design: deletePost switches the campaign off.
THEOREM PublishedGetsLinked ==
  ASSUME Users = {} PROVE Spec => []PublishedIsLinked
<1> DEFINE Inv == Typed /\ PublishedIsLinked
<1>1. Init => Inv
  BY InitTyped, InitLinked
<1>2. Inv /\ [Next]_vars => Inv'
  BY StepTyped, StepLinked
<1>3. Inv => PublishedIsLinked
  OBVIOUS
<1> QED
  BY <1>1, <1>2, <1>3, PTL DEF Spec

-----------------------------------------------------------------------------
(* Nothing goes out before its slot                                        *)

\* What may bring a post to Meta in its first attempt was due, or waits until the slot:
\* a publish job, a worker past the prepare or holding such a job, a row in PUBLISHING
\* and what the sweeper is about to queue.  A worker that prepares holds the slot of
\* its load, which has not become earlier.
PublishSteps == {"publish", "reload", "lock"} \cup LockedSteps
FirstTry(p) == row[p].attempts = 1
Due(p) == row[p].slot <= now
TimelyJob(j) == j.kind = "publish" /\ FirstTry(j.post) => Due(j.post) \/ row[j.post].slot <= j.at
TimelyWork(x) ==
  x.pc # "idle" /\ FirstTry(x.job.post) =>
    /\ x.pc \in PublishSteps \/ x.inline \/ x.job.kind = "publish" => Due(x.job.post)
    /\ x.pc \in {"claim", "build", "poll", "ready"} => row[x.job.post].slot <= x.slot
TimelyPost(p) ==
  FirstTry(p) /\ (row[p].status = "PUBLISHING" \/ sweep[p].step \in {"requeue", "finished"}) => Due(p)

Timely ==
  /\ \A p \in Posts : row[p].attempts >= 1 /\ TimelyPost(p)
  /\ \A u \in Users : req[u].op = "schedule" => req[u].attempts >= 1
  /\ \A j \in queue : TimelyJob(j)
  /\ \A w \in Workers : TimelyWork(work[w])

\* A row in its first attempt after the step was in it before, no earlier due, and
\* is in PUBLISHING only if the post is due.
RowsTimely ==
  \A p \in Posts :
    /\ row'[p].attempts >= 1
    /\ row'[p].attempts = 1 =>
         /\ row[p].attempts = 1 /\ row'[p].slot <= row[p].slot
         /\ row'[p].status = "PUBLISHING" => Due(p)
JobsTimely == \A j \in queue' : TimelyJob(j) \/ row'[j.post].attempts # 1

LEMMA TimelyKept ==
  ASSUME Typed, Typed', Timely, now' = now, RowsTimely, JobsTimely,
         \A w \in Workers : TimelyWork(work'[w]),
         \A p \in Posts : row'[p].attempts = 1 /\ sweep'[p].step \in {"requeue", "finished"} => Due(p),
         \A u \in Users : req'[u].op = "schedule" => req'[u].attempts >= 1
  PROVE  Timely'
<1>0. /\ now \in Int /\ queue' \subseteq Job
      /\ \A p \in Posts : row[p].slot \in Int /\ row'[p].slot \in Int /\ row'[p].attempts \in Int
  BY DEF Typed, TypeOK, Row
<1>1. \A j \in queue' : j.post \in Posts /\ j.at \in Int
  BY <1>0 DEF Job
<1>2. \A p \in Posts : row'[p].attempts >= 1 /\ TimelyPost(p)'
  BY <1>0 DEF RowsTimely, TimelyPost, FirstTry, Due
<1>3. ASSUME NEW j \in queue' PROVE TimelyJob(j)'
  BY <1>0, <1>1, <1>3 DEF JobsTimely, RowsTimely, TimelyJob, FirstTry, Due
<1>4. ASSUME NEW x \in Work, x.pc # "idle" => x.job \in Job, TimelyWork(x) PROVE TimelyWork(x)'
  <2>1. x.slot \in Int /\ (x.pc # "idle" => x.job.post \in Posts)
    BY <1>4 DEF Work, Job
  <2> QED
    BY <1>0, <1>4, <2>1 DEF RowsTimely, TimelyWork, FirstTry, Due
<1>5. ASSUME NEW w \in Workers PROVE TimelyWork(work[w])'
  <2>1. work'[w] \in Work /\ (work'[w].pc # "idle" => work'[w].job \in Job)
    BY DEF Typed, TypeOK, Busy
  <2> QED
    BY <1>0, <1>4, <2>1 DEF TimelyWork, FirstTry, Due
<1> QED
  BY <1>2, <1>3, <1>5 DEF Timely

\* One row written: what it takes for the rows to stay timely.
LEMMA OneRowTimely ==
  ASSUME Typed, Timely, NEW p \in Posts, NEW r, row' = row \/ row' = [row EXCEPT ![p] = r],
         r.attempts >= 1,
         r.attempts = 1 => /\ FirstTry(p) /\ r.slot <= row[p].slot
                           /\ r.status = "PUBLISHING" => row[p].status = "PUBLISHING" \/ Due(p)
  PROVE  RowsTimely
<1>1. row \in [Posts -> Row] /\ \A q \in Posts : row[q].slot \in Nat
  BY DEF Typed, TypeOK, Row
<1>2. \A q \in Posts : row[q].attempts >= 1 /\ (FirstTry(q) /\ row[q].status = "PUBLISHING" => Due(q))
  BY DEF Timely, TimelyPost
<1>3. \A q \in Posts : row'[q] = row[q] \/ (q = p /\ row'[q] = r)
  BY <1>1
<1> QED
  BY <1>1, <1>2, <1>3 DEF RowsTimely, FirstTry

LEMMA SameRowsTimely == ASSUME Typed, Timely, row' = row PROVE RowsTimely
<1>1. \A q \in Posts : row[q].slot \in Nat
  BY DEF Typed, TypeOK, Row
<1> QED
  BY <1>1 DEF RowsTimely, Timely, TimelyPost, FirstTry

\* A new record with the attempt and the slot of the old one.
LEMMA SameTryTimely ==
  ASSUME Typed, Timely, NEW p \in Posts, NEW r, row' = row \/ row' = [row EXCEPT ![p] = r],
         r.attempts = row[p].attempts, r.slot = row[p].slot,
         r.status = "PUBLISHING" => row[p].status = "PUBLISHING" \/ (FirstTry(p) => Due(p))
  PROVE  RowsTimely
<1>1. row[p].slot \in Nat /\ row[p].attempts >= 1
  BY DEF Typed, TypeOK, Row, Timely
<1> QED
  BY <1>1, OneRowTimely DEF FirstTry

LEMMA MoveTimely ==
  ASSUME Typed, Timely, NEW p \in Posts, NEW from, NEW r, Move(p, from, r),
         r.attempts = row[p].attempts, r.slot = row[p].slot, r.status # "PUBLISHING" \/ (FirstTry(p) => Due(p))
  PROVE  RowsTimely
  BY SameTryTimely DEF Move

\* The fields a write leaves alone.
LEMMA TryOf ==
  ASSUME NEW r \in Row
  PROVE  /\ \A x : LET s == [r EXCEPT !.status = x] IN
              s.status = x /\ s.attempts = r.attempts /\ s.slot = r.slot
         /\ \A x, c : LET s == [r EXCEPT !.status = x, !.container = c] IN
              s.status = x /\ s.attempts = r.attempts /\ s.slot = r.slot
         /\ \A c : LET s == [r EXCEPT !.container = c] IN
              s.status = r.status /\ s.attempts = r.attempts /\ s.slot = r.slot
         /\ \A x, y, z, c : LET s == [r EXCEPT !.status = x, !.slot = y, !.attempts = z, !.container = c] IN
              s.status = x /\ s.attempts = z /\ s.slot = y
         /\ \A x, b : LET s == [r EXCEPT !.status = x, !.manual = b] IN
              s.status = x /\ s.attempts = r.attempts /\ s.slot = r.slot
         /\ \A x, m, b : LET s == [r EXCEPT !.status = x, !.igMedia = m, !.linkFailed = b] IN
              s.status = x /\ s.attempts = r.attempts /\ s.slot = r.slot
         /\ \A b : LET s == [r EXCEPT !.linkFailed = b] IN
              s.status = r.status /\ s.attempts = r.attempts /\ s.slot = r.slot
  BY DEF Row

LEMMA FailPostTimely ==
  ASSUME Typed, Timely, NEW p \in Posts, NEW toManual, FailPost(p, toManual) PROVE RowsTimely
<1> DEFINE r == [row[p] EXCEPT !.status = IF toManual THEN "NEEDS_MANUAL" ELSE "FAILED",
                               !.manual = @ \/ toManual]
<1>1. r.status # "PUBLISHING" /\ r.attempts = row[p].attempts /\ r.slot = row[p].slot
  BY DEF Typed, TypeOK, Row
<1>2. Move(p, FailFrom, r)
  BY DEF FailPost
<1> HIDE DEF r
<1> QED
  BY <1>1, <1>2, MoveTimely

LEMMA FinishTimely ==
  ASSUME Typed, Timely, NEW p \in Posts, NEW m, Finish(p, m) PROVE RowsTimely
<1>1. row[p] \in Row
  BY DEF Typed, TypeOK
<1>2. PICK b \in BOOLEAN :
        \/ row' = row
        \/ row' = [row EXCEPT ![p] = [row[p] EXCEPT !.status = "PUBLISHED", !.igMedia = m, !.linkFailed = b]]
  BY DEF Finish
<1> DEFINE r == [row[p] EXCEPT !.status = "PUBLISHED", !.igMedia = m, !.linkFailed = b]
<1>3. r.status = "PUBLISHED" /\ r.attempts = row[p].attempts /\ r.slot = row[p].slot
  BY <1>1 DEF Row
<1> HIDE DEF r
<1>4. row' = row \/ row' = [row EXCEPT ![p] = r]
  BY <1>2 DEF r
<1> QED
  BY <1>3, <1>4, SameTryTimely

\* A worker past the prepare works on a post that is due.
LEMMA DueAt ==
  ASSUME Typed, Timely, NEW w \in Workers, ~At(w, "idle"), FirstTry(Post(w))
  PROVE  /\ work[w].pc \in PublishSteps \/ work[w].inline \/ work[w].job.kind = "publish" => Due(Post(w))
         /\ work[w].pc \in {"claim", "build", "poll", "ready"} => row[Post(w)].slot <= work[w].slot
  BY DEF Timely, TimelyWork, At, Post

LEMMA WorkerRowsTimely == ASSUME Typed, Timely, NEW w \in Workers, WorkerStep(w) PROVE RowsTimely
<1> DEFINE p == Post(w)
<1>1. CASE row' = row
  BY <1>1, SameRowsTimely
<1>2. ASSUME ~At(w, "idle") PROVE p \in Posts /\ row[p] \in Row
  BY <1>2, PostTyped
<1>3. CASE Fail(w)
  BY <1>2, <1>3, FailPostTimely DEF Fail, At
<1>4. CASE PublishFinish(w)
  <2>1. p \in Posts /\ Finish(p, work[w].media)
    BY <1>2, <1>4 DEF PublishFinish, At
  <2> QED
    BY <2>1, FinishTimely
<1>5. CASE Build(w)
  <2>1. p \in Posts /\ row[p] \in Row
    BY <1>2, <1>5 DEF Build, At
  <2>2. row' = row \/ \E c : row' = [row EXCEPT ![p].container = c]
    BY <1>5 DEF Build
  <2> QED
    BY <1>1, <2>1, <2>2, TryOf, SameTryTimely
<1>6. CASE PrepareClaim(w) \/ PrepareReady(w) \/ PrepareError(w)
  <2>1. p \in Posts /\ row[p] \in Row
    BY <1>2, <1>6 DEF PrepareClaim, PrepareReady, PrepareError, At
  <2>2. \/ row' = row
        \/ \E from : \/ Move(p, from, [row[p] EXCEPT !.status = "PREPARING"])
                     \/ Move(p, from, [row[p] EXCEPT !.status = "READY_TO_PUBLISH", !.container = work[w].container])
                     \/ Move(p, from, [row[p] EXCEPT !.status = "SCHEDULED"])
                     \/ Move(p, from, [row[p] EXCEPT !.status = "SCHEDULED", !.container = NoContainer])
    BY <1>6 DEF PrepareClaim, PrepareReady, PrepareError
  <2>3. ASSUME NEW r, NEW s \in {"PREPARING", "READY_TO_PUBLISH", "SCHEDULED"}, NEW c,
               r = [row[p] EXCEPT !.status = s] \/ r = [row[p] EXCEPT !.status = s, !.container = c]
        PROVE  r.status # "PUBLISHING" /\ r.attempts = row[p].attempts /\ r.slot = row[p].slot
    BY <2>1, <2>3 DEF Row
  <2> QED
    BY <1>1, <2>1, <2>2, <2>3, MoveTimely
<1>7. CASE PublishClaim(w)
  <2>1. p \in Posts /\ row[p] \in Row /\ (FirstTry(p) => Due(p))
    BY <1>2, <1>7, DueAt DEF PublishClaim, At, PublishSteps, LockedSteps
  <2>2. Move(p, {"READY_TO_PUBLISH"}, [row[p] EXCEPT !.status = "PUBLISHING"])
    BY <1>7 DEF PublishClaim
  <2> QED
    BY <2>1, <2>2, TryOf, MoveTimely
<1>8. CASE PublishError(w) \/ PublishBackoff(w)
  <2>1. p \in Posts /\ row[p] \in Row
    BY <1>2, <1>8 DEF PublishError, PublishBackoff, At
  <2>2. \/ row' = row
        \/ Move(p, {"PUBLISHING"}, [row[p] EXCEPT !.status = "READY_TO_PUBLISH"])
        \/ Move(p, {"PUBLISHING"}, [row[p] EXCEPT !.status = "SCHEDULED", !.container = NoContainer])
        \/ \E slot : Move(p, {"PUBLISHING"}, [row[p] EXCEPT !.status = "SCHEDULED", !.slot = slot,
                                                 !.attempts = row[p].attempts + 1, !.container = NoContainer])
    BY <1>8 DEF PublishError, PublishBackoff, Backoff, QuotaMove
  <2>3. CASE Move(p, {"PUBLISHING"}, [row[p] EXCEPT !.status = "READY_TO_PUBLISH"])
    <3> DEFINE r == [row[p] EXCEPT !.status = "READY_TO_PUBLISH"]
    <3>1. r.status # "PUBLISHING" /\ r.attempts = row[p].attempts /\ r.slot = row[p].slot
      BY <2>1 DEF Row
    <3> HIDE DEF r
    <3>2. Move(p, {"PUBLISHING"}, r)
      BY <2>3 DEF r
    <3> QED
      BY <2>1, <3>1, <3>2, MoveTimely
  <2>4. CASE Move(p, {"PUBLISHING"}, [row[p] EXCEPT !.status = "SCHEDULED", !.container = NoContainer])
    <3> DEFINE r == [row[p] EXCEPT !.status = "SCHEDULED", !.container = NoContainer]
    <3>1. r.status # "PUBLISHING" /\ r.attempts = row[p].attempts /\ r.slot = row[p].slot
      BY <2>1 DEF Row
    <3> HIDE DEF r
    <3>2. Move(p, {"PUBLISHING"}, r)
      BY <2>4 DEF r
    <3> QED
      BY <2>1, <3>1, <3>2, MoveTimely
  <2>5. ASSUME NEW slot, NEW r, r = [row[p] EXCEPT !.status = "SCHEDULED", !.slot = slot,
                                        !.attempts = row[p].attempts + 1, !.container = NoContainer],
               Move(p, {"PUBLISHING"}, r)
        PROVE  RowsTimely
    <3>1. r.attempts = row[p].attempts + 1
      BY <2>1, <2>5, TryOf
    <3>2. row[p].attempts \in Nat /\ row[p].attempts >= 1
      BY <2>1 DEF Row, Timely
    <3>3. r.attempts >= 1 /\ r.attempts # 1
      BY <3>1, <3>2
    <3>4. row' = row \/ row' = [row EXCEPT ![p] = r]
      BY <2>5 DEF Move
    <3> QED
      BY <2>1, <3>3, <3>4, OneRowTimely
  <2> QED
    BY <1>1, <2>2, <2>3, <2>4, <2>5
<1> QED
  BY <1>1, <1>3, <1>4, <1>5, <1>6, <1>7, <1>8
     DEF WorkerStep, Take, PrepareLoad, Poll, PublishLoad, Reload, AcquireLock, PublishCall, Ask

LEMMA AddTimely ==
  ASSUME Timely, NEW j, NEW active, TimelyJob(j), queue' = Add(queue, active, j) PROVE JobsTimely
  BY DEF Add, JobsTimely, Timely

LEMMA FewerTimely == ASSUME Timely, queue' \subseteq queue PROVE JobsTimely
  BY DEF JobsTimely, Timely

LEMMA PrepareJobTimely == \A p, a, r : TimelyJob(RetryJob(p, "prepare", a, r))
  BY DEF TimelyJob, RetryJob

LEMMA DueJobTimely ==
  \A p : (FirstTry(p) => Due(p)) =>
    /\ \A kind, a, at : TimelyJob(PlainJob(p, kind, a, at))
    /\ \A kind, a, r : TimelyJob(RetryJob(p, kind, a, r))
    /\ \A j \in Job : j.post = p => TimelyJob(j)
  BY DEF TimelyJob, PlainJob, RetryJob

LEMMA WorkerJobsTimely == ASSUME Typed, Timely, NEW w \in Workers, WorkerStep(w) PROVE JobsTimely
<1> DEFINE p == Post(w)
<1>1. CASE queue' \subseteq queue
  BY <1>1, FewerTimely
<1>2. ASSUME work[w].pc \in PublishSteps \ {"idle"} PROVE FirstTry(p) => Due(p)
  BY <1>2, DueAt DEF At
<1>3. CASE PrepareReady(w)
  <2>1. ASSUME Passed(work[w].slot) PROVE FirstTry(p) => Due(p)
    <3>1. FirstTry(p) => row[p].slot <= work[w].slot
      BY <1>3, DueAt DEF PrepareReady, At
    <3>2. ~At(w, "idle")
      BY <1>3 DEF PrepareReady, At
    <3>3. row[p].slot \in Nat /\ work[w].slot \in Nat /\ now \in Nat
      BY <3>2, PostTyped DEF Typed, TypeOK, Row, Work
    <3> QED
      BY <2>1, <3>1, <3>3 DEF Passed, Due
  <2> QED
    BY <1>1, <1>3, <2>1, DueJobTimely, AddTimely DEF PrepareReady
<1>4. CASE PrepareError(w)
  BY <1>1, <1>4, PrepareJobTimely, AddTimely DEF PrepareError
<1>5. CASE AcquireLock(w)
  <2> DEFINE j == [work[w].job EXCEPT !.kind = "publish", !.tag = "lock", !.at = 0]
  <2>1. At(w, "lock") /\ (FirstTry(p) => Due(p))
    BY <1>2, <1>5 DEF AcquireLock, At, PublishSteps
  <2>2. j \in Job /\ j.post = p
    BY <2>1, PostTyped DEF At, Job, Post
  <2>3. queue' = queue \/ queue' = Add(queue, Active, j)
    BY <1>5 DEF AcquireLock
  <2> HIDE DEF j
  <2> QED
    BY <1>1, <2>1, <2>2, <2>3, DueJobTimely, AddTimely
<1>6. CASE PublishError(w) \/ PublishBackoff(w)
  <2>1. FirstTry(p) => Due(p)
    BY <1>2, <1>6 DEF PublishError, PublishBackoff, At, PublishSteps, LockedSteps
  <2>2. \/ queue' = queue
        \/ \E j, active : TimelyJob(j) /\ queue' = Add(queue, active, j)
    BY <1>6, <2>1, DueJobTimely, PrepareJobTimely DEF PublishError, PublishBackoff, Backoff, QuotaMove
  <2> QED
    BY <1>1, <2>2, AddTimely
<1> QED
  BY <1>1, <1>3, <1>4, <1>5, <1>6
     DEF WorkerStep, Take, PrepareLoad, PrepareClaim, Build, Poll, Fail, PublishLoad, Reload, PublishClaim,
         PublishCall, Ask, PublishFinish, Env, Others

\* A record of the same job, in a step its worker may reach from where it is.
LEMMA SameJobTimely ==
  ASSUME Typed, Timely, NEW w \in Workers, ~At(w, "idle"), NEW x, x.job = work[w].job,
         x.inline \/ x.pc \in PublishSteps =>
           \/ work[w].pc \in PublishSteps \/ work[w].inline \/ work[w].job.kind = "publish"
           \/ Due(Post(w)),
         x.pc \in {"claim", "build", "poll", "ready"} =>
           \/ work[w].pc \in {"claim", "build", "poll", "ready"} /\ x.slot = work[w].slot
           \/ x.slot = row[Post(w)].slot
  PROVE  TimelyWork(x)
<1>1. row[Post(w)].slot \in Nat
  BY PostTyped DEF Row
<1> QED
  BY <1>1, DueAt DEF TimelyWork, Post

LEMMA IdleTimely == TimelyWork(IdleWork)
  BY DEF TimelyWork, IdleWork

\* The shapes of what a worker's step leaves with it.
LEMMA OnlyTimely ==
  ASSUME Typed, Timely, NEW w \in Workers
  PROVE  /\ Done(w) => TimelyWork(work'[w])
         /\ \A s \in Steps \ {"claim", "build", "poll", "ready"} :
              ~At(w, "idle") /\ Only(w, s)
              /\ (s \in PublishSteps => work[w].pc \in PublishSteps \/ work[w].inline) => TimelyWork(work'[w])
         /\ \A s \in Steps :
              ~At(w, "idle") /\ Goto(w, s)
              /\ (s \in PublishSteps => work[w].pc \in PublishSteps \/ work[w].inline)
              /\ (s \in {"claim", "build", "poll", "ready"} => work[w].pc \in {"claim", "build", "poll", "ready"})
              => TimelyWork(work'[w])
<1>0. work \in [Workers -> Work]
  BY DEF Typed, TypeOK
<1>1. Done(w) => work'[w] = IdleWork
  BY <1>0 DEF Done
<1>2. ASSUME NEW s \in Steps \ {"claim", "build", "poll", "ready"}, ~At(w, "idle"), Only(w, s),
             s \in PublishSteps => work[w].pc \in PublishSteps \/ work[w].inline
      PROVE  TimelyWork(work'[w])
  <2>1. ASSUME NEW x, x = [IdleWork EXCEPT !.pc = s, !.job = work[w].job] PROVE TimelyWork(x)
    <3>1. x.pc = s /\ x.job = work[w].job /\ x.inline = FALSE
      BY <2>1 DEF IdleWork
    <3> QED
      BY <1>2, <3>1, SameJobTimely
  <2>2. work'[w] = [IdleWork EXCEPT !.pc = s, !.job = work[w].job]
    BY <1>0, <1>2 DEF Only
  <2> QED
    BY <2>1, <2>2
<1>3. ASSUME NEW s \in Steps, ~At(w, "idle"), Goto(w, s),
             s \in PublishSteps => work[w].pc \in PublishSteps \/ work[w].inline,
             s \in {"claim", "build", "poll", "ready"} => work[w].pc \in {"claim", "build", "poll", "ready"}
      PROVE  TimelyWork(work'[w])
  <2>1. ASSUME NEW x, x = [work[w] EXCEPT !.pc = s] PROVE TimelyWork(x)
    <3>1. x.pc = s /\ x.job = work[w].job /\ x.inline = work[w].inline /\ x.slot = work[w].slot
      BY <1>0, <2>1 DEF Work
    <3> QED
      BY <1>3, <3>1, SameJobTimely
  <2>2. work'[w] = [work[w] EXCEPT !.pc = s]
    BY <1>0, <1>3 DEF Goto
  <2> QED
    BY <2>1, <2>2
<1> QED
  BY <1>1, <1>2, <1>3, IdleTimely

LEMMA WorkerWorkTimely == ASSUME Typed, Timely, NEW w \in Workers, WorkerStep(w) PROVE TimelyWork(work'[w])
<1>0. work \in [Workers -> Work] /\ work[w] \in Work
  BY DEF Typed, TypeOK
<1>1. CASE Take(w)
  <2>1. PICK j \in queue : j.at = 0 /\ work' = [work EXCEPT ![w] = [IdleWork EXCEPT !.pc = j.kind, !.job = j]]
    BY <1>1 DEF Take
  <2>2. /\ j.post \in Posts /\ j.kind \in {"prepare", "publish"} /\ TimelyJob(j)
        /\ row[j.post].slot \in Nat /\ now \in Nat
    BY JobFields DEF Typed, TypeOK, Timely, Row
  <2>3. ASSUME NEW x, x = [IdleWork EXCEPT !.pc = j.kind, !.job = j] PROVE TimelyWork(x)
    <3>1. x.pc = j.kind /\ x.job = j /\ x.inline = FALSE
      BY <2>3 DEF IdleWork
    <3> QED
      BY <2>1, <2>2, <3>1 DEF TimelyWork, TimelyJob, Due, PublishSteps, LockedSteps
  <2>4. work'[w] = [IdleWork EXCEPT !.pc = j.kind, !.job = j]
    BY <1>0, <2>1
  <2> QED
    BY <2>3, <2>4
<1>2. CASE PrepareLoad(w)
  <2>1. \/ Done(w) \/ Only(w, "fail") \/ (work[w].inline /\ Only(w, "reload"))
        \/ work' = [work EXCEPT ![w].pc = "claim", ![w].content = row[Post(w)].content, ![w].slot = row[Post(w)].slot]
    BY <1>2 DEF PrepareLoad
  <2>2. ASSUME NEW x, NEW c, x = [work[w] EXCEPT !.pc = "claim", !.content = c, !.slot = row[Post(w)].slot]
        PROVE  TimelyWork(x)
    <3>1. x.pc = "claim" /\ x.job = work[w].job /\ x.inline = work[w].inline /\ x.slot = row[Post(w)].slot
      BY <1>0, <2>2 DEF Work
    <3> QED
      BY <1>2, <3>1, SameJobTimely DEF PrepareLoad, At, PublishSteps, LockedSteps
  <2>3. ~At(w, "idle") /\ "fail" \notin PublishSteps /\ {"fail", "reload"} \subseteq Steps
    BY <1>2 DEF PrepareLoad, At, PublishSteps, LockedSteps, Steps
  <2> QED
    BY <1>0, <2>1, <2>2, <2>3, OnlyTimely
<1>3. CASE PrepareClaim(w) \/ Poll(w) \/ PrepareReady(w) \/ PrepareError(w)
  <2>1. ~At(w, "idle") /\ {"build", "ready", "fail", "prepareError", "reload", "refuse"} \subseteq Steps
        /\ {"build", "ready", "fail", "prepareError", "refuse"} \cap PublishSteps = {}
    BY <1>3 DEF PrepareClaim, Poll, PrepareReady, PrepareError, At, PublishSteps, LockedSteps, Steps, PrepareSteps
  <2>2. \/ Done(w) \/ \E s \in {"fail", "prepareError", "refuse"} : Only(w, s)
        \/ work[w].pc \in {"claim", "build", "poll", "ready"} /\ \E s \in {"build", "ready"} : Goto(w, s)
        \/ work[w].inline /\ Only(w, "reload")
        \/ work[w].pc = "poll"
           /\ work' = [work EXCEPT ![w].pc = "build", ![w].rebuilt = TRUE, ![w].container = NoContainer]
    BY <1>3 DEF PrepareClaim, Poll, PrepareReady, PrepareError, At
  <2>3. ASSUME NEW x, x = [work[w] EXCEPT !.pc = "build", !.rebuilt = TRUE, !.container = NoContainer],
               work[w].pc = "poll"
        PROVE  TimelyWork(x)
    <3>1. x.pc = "build" /\ x.job = work[w].job /\ x.inline = work[w].inline /\ x.slot = work[w].slot
      BY <1>0, <2>3 DEF Work
    <3> QED
      BY <2>1, <2>3, <3>1, SameJobTimely DEF PublishSteps, LockedSteps
  <2> QED
    BY <1>0, <2>1, <2>2, <2>3, OnlyTimely
<1>4. CASE Build(w)
  <2>1. \/ Only(w, "prepareError")
        \/ \E c : work' = [work EXCEPT ![w].pc = "poll", ![w].container = c]
    BY <1>4 DEF Build
  <2>2. ASSUME NEW x, NEW c, x = [work[w] EXCEPT !.pc = "poll", !.container = c] PROVE TimelyWork(x)
    <3>1. x.pc = "poll" /\ x.job = work[w].job /\ x.inline = work[w].inline /\ x.slot = work[w].slot
      BY <1>0, <2>2 DEF Work
    <3> QED
      BY <1>4, <3>1, SameJobTimely DEF Build, At, PublishSteps, LockedSteps
  <2>3. ~At(w, "idle") /\ "prepareError" \in Steps /\ "prepareError" \notin PublishSteps
    BY <1>4 DEF Build, At, PublishSteps, LockedSteps, Steps, PrepareSteps
  <2> QED
    BY <1>0, <2>1, <2>2, <2>3, OnlyTimely
<1>5. CASE PublishLoad(w) \/ Reload(w) \/ AcquireLock(w) \/ Ask(w) \/ PublishError(w) \/ PublishBackoff(w)
           \/ PublishFinish(w) \/ Fail(w)
  <2>1. work[w].pc \in PublishSteps \cup {"fail", "refuse"} /\ (~Fail(w) => work[w].pc \in PublishSteps)
    BY <1>5 DEF PublishLoad, Reload, AcquireLock, Ask, PublishError, PublishBackoff, PublishFinish, Fail, At,
                PublishSteps, LockedSteps
  <2>2. \/ Done(w)
        \/ work[w].pc \in PublishSteps
           /\ \/ \E s \in {"fail", "lock", "failLocked", "refuseLocked"} : Only(w, s)
              \/ \E s \in {"cas", "backoff"} : Goto(w, s)
              \/ work' = [work EXCEPT ![w].pc = "prepare", ![w].inline = TRUE]
              \/ \E m : work' = [work EXCEPT ![w].pc = "finish", ![w].media = m]
    BY <1>5, <2>1 DEF PublishLoad, CheckReady, Reload, AcquireLock, Ask, PublishError, PublishBackoff, Backoff,
                      QuotaMove, PublishFinish, Fail
  <2>3. ASSUME work[w].pc \in PublishSteps, NEW x, NEW m,
               \/ x = [work[w] EXCEPT !.pc = "prepare", !.inline = TRUE]
               \/ x = [work[w] EXCEPT !.pc = "finish", !.media = m]
        PROVE  TimelyWork(x)
    <3>1. x.pc \in {"prepare", "finish"} /\ x.job = work[w].job
      BY <1>0, <2>3 DEF Work
    <3> QED
      BY <2>1, <2>3, <3>1, SameJobTimely DEF At, PublishSteps, LockedSteps
  <2>4. ~At(w, "idle") /\ {"fail", "lock", "failLocked", "refuseLocked", "cas", "backoff"} \subseteq Steps
    BY <2>1 DEF At, Steps, PublishSteps, LockedSteps
  <2> QED
    BY <1>0, <2>2, <2>3, <2>4, OnlyTimely
<1>6. CASE PublishClaim(w) \/ PublishCall(w)
  <2>1. work[w].pc \in PublishSteps /\ ~At(w, "idle") /\ {"ask", "publishError"} \subseteq Steps
    BY <1>6 DEF PublishClaim, PublishCall, At, PublishSteps, LockedSteps, Steps
  <2>2. \/ Done(w) \/ \E s \in {"ask", "publishError"} : Goto(w, s)
        \/ \E c, a : work' = [work EXCEPT ![w].pc = "call", ![w].container = c, ![w].attempts = a]
        \/ \E m : work' = [work EXCEPT ![w].pc = "finish", ![w].media = m]
    BY <1>6 DEF PublishClaim, PublishCall
  <2>3. ASSUME NEW x, NEW c, NEW a, NEW m,
               \/ x = [work[w] EXCEPT !.pc = "call", !.container = c, !.attempts = a]
               \/ x = [work[w] EXCEPT !.pc = "finish", !.media = m]
        PROVE  TimelyWork(x)
    <3>1. x.pc \in {"call", "finish"} /\ x.job = work[w].job
      BY <1>0, <2>3 DEF Work
    <3> QED
      BY <2>1, <3>1, SameJobTimely
  <2> QED
    BY <1>0, <2>1, <2>2, <2>3, OnlyTimely
<1> QED
  BY <1>1, <1>2, <1>3, <1>4, <1>5, <1>6 DEF WorkerStep

LEMMA WorkerTimely == ASSUME Typed, Typed', Timely, NEW w \in Workers, WorkerStep(w) PROVE Timely'
<1>1. UNCHANGED <<now, sweep, req>> /\ \A v \in Workers \ {w} : work'[v] = work[v]
  <2>1. UNCHANGED <<now, sweep, req>>
    BY DEF WorkerStep, Take, PrepareLoad, PrepareClaim, Build, Poll, PrepareReady, PrepareError, Fail,
           PublishLoad, Reload, AcquireLock, PublishClaim, PublishCall, Ask, PublishError, PublishBackoff,
           PublishFinish, Env, Others
  <2> QED
    BY <2>1, OneWorker
<1>2. RowsTimely /\ JobsTimely /\ TimelyWork(work'[w])
  BY WorkerRowsTimely, WorkerJobsTimely, WorkerWorkTimely
<1>3. \A v \in Workers : TimelyWork(work'[v])
  BY <1>1, <1>2 DEF Timely
<1>4. \A p \in Posts : row'[p].attempts = 1 /\ sweep'[p].step \in {"requeue", "finished"} => Due(p)
  BY <1>1, <1>2 DEF RowsTimely, Timely, TimelyPost, FirstTry
<1> QED
  BY <1>1, <1>2, <1>3, <1>4, TimelyKept DEF Timely

\* The sweeper queues what it read as due, or what it found in PUBLISHING.
LEMMA SweepTimely == ASSUME Typed, Typed', Timely, NEW p \in Posts, SweepStep(p) PROVE Timely'
<1>0. /\ row[p] \in Row /\ sweep \in [Posts -> Sweep] /\ UNCHANGED <<now, work, req>>
      /\ \A q \in Posts \ {p} : sweep'[q] = sweep[q]
  <2>1. row[p] \in Row /\ sweep \in [Posts -> Sweep]
    BY DEF Typed, TypeOK
  <2> QED
    BY <2>1 DEF SweepStep, SweepRead, SweepRequeue, SweepFail, SweepManual, SweepStuck, SweepRecover,
                SweepFound, SweepFinished, SweepRelink, SweepDone, Env, Others
<1>1. RowsTimely
  <2>1. CASE SweepFail(p)
    BY <2>1, FailPostTimely DEF SweepFail
  <2>2. CASE SweepFound(p)
    BY <2>2, FinishTimely DEF SweepFound
  <2>3. CASE SweepManual(p)
    <3> DEFINE r == [row[p] EXCEPT !.status = "NEEDS_MANUAL", !.manual = TRUE]
    <3>1. r.status = "NEEDS_MANUAL" /\ r.attempts = row[p].attempts /\ r.slot = row[p].slot
      BY <1>0 DEF Row
    <3>2. row' = row \/ row' = [row EXCEPT ![p] = r]
      BY <2>3 DEF SweepManual
    <3> HIDE DEF r
    <3> QED
      BY <3>1, <3>2, SameTryTimely
  <2>4. CASE SweepFinished(p)
    <3> DEFINE r == [row[p] EXCEPT !.status = "READY_TO_PUBLISH"]
    <3>1. r.status = "READY_TO_PUBLISH" /\ r.attempts = row[p].attempts /\ r.slot = row[p].slot
      BY <1>0 DEF Row
    <3>2. Move(p, {"PUBLISHING"}, r)
      BY <2>4 DEF SweepFinished
    <3> HIDE DEF r
    <3> QED
      BY <3>1, <3>2, MoveTimely
  <2>5. CASE SweepRelink(p)
    <3> DEFINE r == [row[p] EXCEPT !.linkFailed = FALSE]
    <3>1. r.status = row[p].status /\ r.attempts = row[p].attempts /\ r.slot = row[p].slot
      BY <1>0 DEF Row
    <3>2. row' = [row EXCEPT ![p] = r]
      BY <2>5 DEF SweepRelink
    <3> HIDE DEF r
    <3> QED
      BY <3>1, <3>2, SameTryTimely
  <2> QED
    BY <2>1, <2>2, <2>3, <2>4, <2>5, SameRowsTimely
       DEF SweepStep, SweepRead, SweepRequeue, SweepStuck, SweepRecover
<1>2. sweep[p].step \in {"requeue", "finished"} => (FirstTry(p) => Due(p))
  BY DEF Timely, TimelyPost
<1>3. JobsTimely
  <2>1. CASE SweepRequeue(p) \/ SweepFinished(p)
    BY <1>2, <2>1, DueJobTimely, AddTimely, FewerTimely DEF SweepRequeue, SweepFinished
  <2>2. CASE SweepManual(p)
    BY <2>2, FewerTimely DEF SweepManual, WithoutJobs
  <2> QED
    BY <2>1, <2>2, FewerTimely
       DEF SweepStep, SweepRead, SweepFail, SweepStuck, SweepRecover, SweepFound, SweepRelink, Others
<1>4. FirstTry(p) /\ sweep'[p].step \in {"requeue", "finished"} => Due(p)
  <2>1. CASE SweepRead(p) /\ sweep'[p].step = "requeue"
    BY <1>0, <2>1 DEF SweepRead, Passed, Due
  <2>2. CASE SweepRecover(p)
    BY <2>2 DEF SweepRecover, Timely, TimelyPost
  <2>3. CASE sweep'[p].step = sweep[p].step
    BY <1>2, <2>3
  <2>4. sweep'[p].step \in {"requeue", "finished"} =>
          \/ SweepRead(p) /\ sweep'[p].step = "requeue"
          \/ SweepRecover(p) \/ sweep'[p].step = sweep[p].step
    <3>1. SweepRequeue(p) \/ SweepFail(p) \/ SweepManual(p) \/ SweepFound(p) \/ SweepFinished(p)
          => sweep'[p].step = "idle"
      <4>1. SweepDone(p) => sweep'[p].step = "idle"
        BY <1>0 DEF SweepDone, IdleSweep
      <4> QED
        BY <4>1 DEF SweepRequeue, SweepFail, SweepManual, SweepFound, SweepFinished
    <3>2. SweepStuck(p) => sweep'[p].step = "fail"
      BY <1>0 DEF SweepStuck, Sweep
    <3>3. SweepRead(p) => sweep'[p].step \in {"manual", "late", "requeue"}
      <4>1. ASSUME NEW k, NEW a, sweep' = [sweep EXCEPT ![p] = [step |-> k, attempt |-> a, media |-> 0]]
            PROVE  sweep'[p].step = k
        BY <1>0, <4>1
      <4> QED
        BY <4>1 DEF SweepRead
    <3>4. SweepRelink(p) => sweep' = sweep
      BY DEF SweepRelink, Others
    <3> QED
      BY <3>1, <3>2, <3>3, <3>4 DEF SweepStep
  <2> QED
    BY <2>1, <2>2, <2>3, <2>4
<1>5. \A q \in Posts : row'[q].attempts = 1 /\ sweep'[q].step \in {"requeue", "finished"} => Due(q)
  BY <1>0, <1>1, <1>4 DEF RowsTimely, Timely, TimelyPost, FirstTry
<1>6. \A w \in Workers : TimelyWork(work'[w])
  BY <1>0 DEF Timely
<1> QED
  BY <1>0, <1>1, <1>3, <1>5, <1>6, TimelyKept DEF Timely

\* Arming adds jobs of the post only.
LEMMA ArmedJobs == \A q, p, a, slot : \A j \in Armed(q, p, a, slot) : j \in q \/ j.post = p
  BY DEF Armed, Add, PlainJob

\* A request for a post opens a new attempt, or leaves it no earlier due than it was.
LEMMA UserTimely == ASSUME Typed, Typed', Timely, UserStep PROVE Timely'
<1>0. /\ row \in [Posts -> Row] /\ req \in [Users -> Request]
      /\ \A q \in Posts : row[q].attempts \in Nat /\ row[q].slot \in Nat /\ row[q].attempts >= 1
  BY DEF Typed, TypeOK, Row, Timely
<1>1. UNCHANGED <<now, work, sweep>>
  BY DEF UserStep, ScheduleLoad, ScheduleWrite, Leave, CancelWrite, CancelCampaign, Edit, DeleteLoad,
         DeleteWrite, Reconnect, Env, Others
<1>2. ASSUME NEW p \in Posts, NEW r, row' = row \/ row' = [row EXCEPT ![p] = r],
             r.attempts \in Nat, r.attempts = row[p].attempts \/ r.attempts >= 2,
             r.attempts = row[p].attempts => r.slot <= row[p].slot,
             r.status # "PUBLISHING" \/ r.status = row[p].status
      PROVE  RowsTimely
  <2>1. r.attempts >= 1 /\ (r.attempts = 1 => FirstTry(p) /\ r.slot <= row[p].slot)
    BY <1>0, <1>2 DEF FirstTry
  <2> QED
    BY <1>2, <2>1, OneRowTimely
<1>3. ASSUME RowsTimely, JobsTimely, \A u \in Users : req'[u].op = "schedule" => req'[u].attempts >= 1
      PROVE  Timely'
  <2>1. \A p \in Posts : row'[p].attempts = 1 /\ sweep'[p].step \in {"requeue", "finished"} => Due(p)
    BY <1>1, <1>3 DEF RowsTimely, Timely, TimelyPost, FirstTry
  <2>2. \A w \in Workers : TimelyWork(work'[w])
    BY <1>1 DEF Timely
  <2> QED
    BY <1>1, <1>3, <2>1, <2>2, TimelyKept
<1>4. ASSUME req' = req \/ \E u \in Users, x \in Request :
               req' = [req EXCEPT ![u] = x] /\ (x.op = "schedule" => x.attempts >= 1)
      PROVE  \A u \in Users : req'[u].op = "schedule" => req'[u].attempts >= 1
  BY <1>0, <1>4 DEF Timely
<1>5. ASSUME NEW u \in Users, NEW p \in Posts, ScheduleLoad(u, p) \/ DeleteLoad(u, p) PROVE Timely'
  <2>1. row' = row /\ queue' = queue
    BY <1>5 DEF ScheduleLoad, DeleteLoad
  <2>2. \E op, s, slot :
          req' = [req EXCEPT ![u] = [op |-> op, post |-> p, status |-> s, attempts |-> row[p].attempts, slot |-> slot]]
    BY <1>5 DEF ScheduleLoad, DeleteLoad
  <2>3. \A v \in Users : req'[v].op = "schedule" => req'[v].attempts >= 1
    BY <1>0, <2>2 DEF Timely
  <2> QED
    BY <1>3, <2>1, <2>3, SameRowsTimely, FewerTimely
<1>6. ASSUME NEW u \in Users, ScheduleWrite(u) PROVE Timely'
  <2> DEFINE q == req[u]
             p == q.post
             r == [row[p] EXCEPT !.status = "SCHEDULED", !.slot = q.slot,
                                 !.attempts = q.attempts + 1, !.container = NoContainer]
             cleared == WithoutJobs(queue, p, q.attempts)
  <2>1. p \in Posts /\ q.attempts \in Nat /\ q.attempts >= 1 /\ row[p] \in Row
    BY <1>0, <1>6 DEF ScheduleWrite, Timely, Request
  <2>2. r.status = "SCHEDULED" /\ r.attempts = q.attempts + 1 /\ r.slot = q.slot
    BY <2>1, TryOf
  <2>3. \/ row' = row /\ queue' = cleared
        \/ row' = [row EXCEPT ![p] = r] /\ queue' = cleared
        \/ row' = [row EXCEPT ![p] = r] /\ queue' = Armed(cleared, p, q.attempts + 1, q.slot)
    BY <1>6 DEF ScheduleWrite
  <2>4. cleared \subseteq queue
    BY DEF WithoutJobs
  <2>5. NoRequest.op # "schedule" /\ req' = [req EXCEPT ![u] = NoRequest]
    BY <1>6 DEF ScheduleWrite, NoRequest
  <2>6. \A v \in Users : req'[v].op = "schedule" => req'[v].attempts >= 1
    BY <1>4, <2>5, NoRequestTyped
  <2> HIDE DEF r, cleared, q
  <2>7. RowsTimely
    <3>1. row' = row \/ row' = [row EXCEPT ![p] = r]
      BY <2>3
    <3>2. r.attempts >= 1 /\ r.attempts # 1
      BY <2>1, <2>2
    <3> QED
      BY <2>1, <3>1, <3>2, OneRowTimely
  <2>8. JobsTimely
    <3>1. CASE queue' = cleared
      BY <2>4, <3>1, FewerTimely
    <3>2. CASE row' = [row EXCEPT ![p] = r] /\ queue' = Armed(cleared, p, q.attempts + 1, q.slot)
      <4>1. row'[p].attempts # 1
        BY <1>0, <2>1, <2>2, <3>2
      <4> QED
        BY <2>4, <3>2, <4>1, ArmedJobs DEF JobsTimely, Timely
    <3> QED
      BY <2>3, <3>1, <3>2
  <2> QED
    BY <1>3, <2>6, <2>7, <2>8
<1>7. ASSUME NEW p \in Posts, NEW from, NEW to, to # "PUBLISHING", UserMove(p, from, to),
             \A u \in Users : req'[u].op = "schedule" => req'[u].attempts >= 1
      PROVE  Timely'
  <2> DEFINE r == [row[p] EXCEPT !.status = to, !.slot = IF to = "DRAFT" THEN 0 ELSE @,
                                 !.container = IF to = "DRAFT" THEN NoContainer ELSE @]
  <2>1. row[p] \in Row /\ row[p].attempts \in Nat /\ row[p].slot \in Nat
    BY <1>0
  <2>2. r.status = to /\ r.attempts = row[p].attempts /\ r.slot <= row[p].slot
    BY <2>1 DEF Row
  <2>3. row' = [row EXCEPT ![p] = r]
    BY <1>7 DEF UserMove
  <2>4. queue' \subseteq queue
    BY <1>7 DEF UserMove, WithoutJobs
  <2> HIDE DEF r
  <2>5. RowsTimely
    BY <1>2, <1>7, <2>1, <2>2, <2>3
  <2> QED
    BY <1>3, <1>7, <2>4, <2>5, FewerTimely
<1>8. ASSUME NEW p \in Posts, Leave(p) PROVE Timely'
  BY <1>4, <1>7, <1>8 DEF Leave, Others
<1>9. ASSUME NEW u \in Users, NEW p \in Posts, CancelWrite(u, p) PROVE Timely'
  <2>1. \A v \in Users : req'[v].op = "schedule" => req'[v].attempts >= 1
    BY <1>0, <1>9 DEF CancelWrite, NoRequest, Timely
  <2> QED
    BY <1>7, <1>9, <2>1 DEF CancelWrite
<1>10. ASSUME NEW u \in Users, CancelCampaign(u) PROVE Timely'
  <2>1. row' = row /\ queue' = queue /\ \A v \in Users : req'[v].op = "schedule" => req'[v].attempts >= 1
    BY <1>0, <1>10 DEF CancelCampaign, NoRequest, Timely
  <2> QED
    BY <1>3, <2>1, SameRowsTimely, FewerTimely
<1>11. ASSUME NEW u \in Users, DeleteWrite(u) PROVE Timely'
  <2> DEFINE p == req[u].post
             r == [row[p] EXCEPT !.deleted = TRUE]
  <2>1. p \in Posts /\ row[p] \in Row
    BY <1>0 DEF Request
  <2>2. r.status = row[p].status /\ r.attempts = row[p].attempts /\ r.slot = row[p].slot
    BY <2>1 DEF Row
  <2>3. row' = [row EXCEPT ![p] = r] /\ queue' \subseteq queue
    BY <1>11 DEF DeleteWrite, WithoutJobs
  <2>4. \A v \in Users : req'[v].op = "schedule" => req'[v].attempts >= 1
    BY <1>0, <1>11 DEF DeleteWrite, NoRequest, Timely
  <2> HIDE DEF r, p
  <2> QED
    BY <1>3, <2>1, <2>2, <2>3, <2>4, SameTryTimely, FewerTimely
<1>12. ASSUME NEW p \in Posts, Edit(p) PROVE Timely'
  <2>1. PICK manual, rearm \in BOOLEAN :
          /\ row' = [row EXCEPT ![p] = [row[p] EXCEPT !.content = @ + 1, !.manual = manual,
                                     !.attempts = IF rearm THEN @ + 1 ELSE @]]
          /\ queue' = CASE ~rearm -> queue
                      [] rearm /\ manual -> WithoutJobs(queue, p, row[p].attempts)
                      [] rearm /\ ~manual ->
                           Armed(WithoutJobs(queue, p, row[p].attempts), p, row[p].attempts + 1, row[p].slot)
    BY <1>12 DEF Edit
  <2> DEFINE r == [row[p] EXCEPT !.content = @ + 1, !.manual = manual, !.attempts = IF rearm THEN @ + 1 ELSE @]
             cleared == WithoutJobs(queue, p, row[p].attempts)
  <2>2. /\ r.status = row[p].status /\ r.slot = row[p].slot
        /\ r.attempts = IF rearm THEN row[p].attempts + 1 ELSE row[p].attempts
    BY <1>0 DEF Row
  <2>3. row' = [row EXCEPT ![p] = r] /\ row'[p].attempts = r.attempts
    BY <1>0, <2>1
  <2>4. \/ queue' = queue \/ queue' = cleared
        \/ rearm /\ queue' = Armed(cleared, p, row[p].attempts + 1, row[p].slot)
    BY <2>1
  <2>5. cleared \subseteq queue
    BY DEF WithoutJobs
  <2> HIDE DEF r, cleared
  <2>6. RowsTimely
    <3>1. r.attempts \in Nat /\ (r.attempts = row[p].attempts \/ r.attempts >= 2) /\ r.slot <= row[p].slot
      BY <1>0, <2>2
    <3> QED
      BY <1>2, <2>2, <2>3, <3>1
  <2>7. JobsTimely
    <3>1. CASE queue' \subseteq queue
      BY <3>1, FewerTimely
    <3>2. CASE rearm /\ queue' = Armed(cleared, p, row[p].attempts + 1, row[p].slot)
      <4>1. row'[p].attempts # 1
        BY <1>0, <2>2, <2>3, <3>2
      <4> QED
        BY <2>5, <3>2, <4>1, ArmedJobs DEF JobsTimely, Timely
    <3> QED
      BY <2>4, <2>5, <3>1, <3>2
  <2>8. req' = req
    BY <1>12 DEF Edit, Others
  <2> QED
    BY <1>3, <1>4, <2>6, <2>7, <2>8
<1>13. CASE Reconnect
  <2>1. row' = row /\ queue' = queue /\ req' = req
    BY <1>13 DEF Reconnect, Others
  <2> QED
    BY <1>3, <1>4, <2>1, SameRowsTimely, FewerTimely
<1> QED
  BY <1>5, <1>6, <1>8, <1>9, <1>10, <1>11, <1>12, <1>13 DEF UserStep

\* Time makes posts due; a job a dead worker leaves is one it held.
LEMMA StepTimely == Typed /\ Timely /\ [Next]_vars => Timely'
<1> SUFFICES ASSUME Typed, Timely, [Next]_vars PROVE Timely'
  OBVIOUS
<1>0. Typed'
  BY StepTyped
<1>1. CASE Tick
  <2>1. /\ now' = now + 1 /\ now \in Nat /\ queue \subseteq Job
        /\ queue' = {IF j.at > now + 1 THEN j ELSE [j EXCEPT !.at = 0] : j \in queue}
        /\ UNCHANGED <<row, work, sweep, req>>
        /\ \A p \in Posts : row[p].slot \in Nat
    BY <1>1 DEF Tick, Others, Typed, TypeOK, Row
  <2>2. ASSUME NEW p \in Posts PROVE Due(p) => Due(p)'
    BY <2>1 DEF Due
  <2>3. \A p \in Posts : row'[p].attempts >= 1 /\ TimelyPost(p)'
    BY <2>1, <2>2 DEF Timely, TimelyPost, FirstTry
  <2>4. ASSUME NEW j \in queue' PROVE TimelyJob(j)'
    <3>1. PICK i \in queue : j = IF i.at > now + 1 THEN i ELSE [i EXCEPT !.at = 0]
      BY <2>1
    <3>2. i \in Job /\ i.post \in Posts /\ i.at \in Nat /\ TimelyJob(i)
      BY <2>1 DEF Job, Timely
    <3>3. j.post = i.post /\ j.kind = i.kind /\ (j.at = i.at \/ i.at <= now + 1)
      BY <2>1, <3>1, <3>2 DEF Job
    <3> QED
      BY <2>1, <3>2, <3>3 DEF TimelyJob, FirstTry, Due
  <2>5. ASSUME NEW w \in Workers PROVE TimelyWork(work[w])'
    <3>1. work[w].pc # "idle" => work[w].job.post \in Posts
      BY DEF Typed, Busy, Job
    <3> QED
      BY <2>1, <2>2, <3>1 DEF Timely, TimelyWork, FirstTry
  <2> QED
    BY <2>1, <2>3, <2>4, <2>5 DEF Timely
<1>2. ASSUME UNCHANGED <<now, row, sweep, req>>, JobsTimely, \A w \in Workers : TimelyWork(work'[w])
      PROVE  Timely'
  <2>1. \A p \in Posts : row'[p].attempts = 1 /\ sweep'[p].step \in {"requeue", "finished"} => Due(p)
    BY <1>2 DEF Timely, TimelyPost, FirstTry
  <2> QED
    BY <1>0, <1>2, <2>1, SameRowsTimely, TimelyKept DEF Timely
<1>3. ASSUME NEW w \in Workers, Crash(w) PROVE Timely'
  <2>1. /\ ~At(w, "idle") /\ Done(w) /\ UNCHANGED <<now, row, sweep, req>>
        /\ queue' = queue \/ queue' = Add(queue, ActiveBut(w), [work[w].job EXCEPT !.at = 0])
    BY <1>3 DEF Crash, Others
  <2>2. ASSUME NEW j, j = [work[w].job EXCEPT !.at = 0] PROVE TimelyJob(j)
    <3>1. work[w].job \in Job
      BY <2>1, PostTyped
    <3>2. j.post = Post(w) /\ j.kind = work[w].job.kind
      BY <2>2, <3>1 DEF Post, Job
    <3> QED
      BY <2>1, <3>2, DueAt DEF TimelyJob
  <2>3. JobsTimely
    BY <2>1, <2>2, AddTimely, FewerTimely
  <2>4. \A v \in Workers : TimelyWork(work'[v])
    BY <2>1, WorkShapes, IdleTimely DEF Timely
  <2> QED
    BY <1>2, <2>1, <2>3, <2>4
<1>4. CASE LoseQueue \/ LockExpire \/ UNCHANGED vars
  <2>1. UNCHANGED <<now, row, sweep, req, work>> /\ queue' \subseteq queue
    BY <1>4 DEF LoseQueue, LockExpire, Env, Others, vars
  <2> QED
    BY <1>2, <2>1, FewerTimely DEF Timely
<1> QED
  BY <1>0, <1>1, <1>3, <1>4, WorkerTimely, SweepTimely, UserTimely DEF Next, FaultStep

LEMMA InitTimely == Init => Timely
<1> SUFFICES ASSUME Init PROVE Timely
  OBVIOUS
<1>1. PICK slot \in [Posts -> 1..MaxSlot] :
        /\ row = [p \in Posts |-> [status |-> "SCHEDULED", attempts |-> 1, slot |-> slot[p],
                  container |-> NoContainer, content |-> 0, manual |-> FALSE, deleted |-> FALSE,
                  igMedia |-> 0, linkFailed |-> FALSE]]
        /\ queue = UNION {{PlainJob(p, "prepare", 1, slot[p] - 1), PlainJob(p, "publish", 1, slot[p])} : p \in Posts}
  BY DEF Init
<1>2. \A p \in Posts : row[p].attempts = 1 /\ row[p].status = "SCHEDULED" /\ row[p].slot = slot[p] /\ slot[p] \in Int
  <2> SUFFICES ASSUME NEW p \in Posts
               PROVE  row[p].attempts = 1 /\ row[p].status = "SCHEDULED" /\ row[p].slot = slot[p] /\ slot[p] \in Int
    OBVIOUS
  <2>1. slot[p] \in 1..MaxSlot
    BY <1>1
  <2> QED
    BY <1>1, <2>1, ContentAssumption
<1>3. \A p \in Posts : sweep[p].step = "idle"
  BY DEF Init, IdleSweep
<1>4. \A u \in Users : req[u].op = "none"
  BY DEF Init, NoRequest
<1>5. \A w \in Workers : TimelyWork(work[w])
  BY IdleTimely DEF Init
<1>6. ASSUME NEW j \in queue PROVE TimelyJob(j)
  <2>1. PICK p \in Posts : j = PlainJob(p, "prepare", 1, slot[p] - 1) \/ j = PlainJob(p, "publish", 1, slot[p])
    BY <1>1
  <2> QED
    BY <1>2, <2>1 DEF TimelyJob, PlainJob
<1> QED
  BY <1>2, <1>3, <1>4, <1>5, <1>6 DEF Timely, TimelyPost

\* A media that goes out is the one of the caller's post.
LEMMA OutInTime ==
  ASSUME Typed, Owned, Timely, [Next]_vars, NEW p \in Posts,
         Len(feed') > Len(feed), feed'[Len(feed')].post = p, row[p].attempts = 1
  PROVE  row[p].slot <= now
<1>1. feed \in Seq([post : Posts, content : Nat, attempt : Nat])
  BY DEF Typed, TypeOK
<1>2. PICK w \in Workers : PublishCall(w) /\ feed' # feed
  <2>1. ASSUME NEW w \in Workers, WorkerStep(w), ~PublishCall(w) PROVE feed' = feed
    BY <2>1 DEF WorkerStep, Take, PrepareLoad, PrepareClaim, Build, Poll, PrepareReady, PrepareError, Fail,
                PublishLoad, Reload, AcquireLock, PublishClaim, Ask, PublishError, PublishBackoff, PublishFinish
  <2>2. ASSUME NEW q \in Posts, SweepStep(q) PROVE feed' = feed
    BY <2>2 DEF SweepStep, SweepRead, SweepRequeue, SweepFail, SweepManual, SweepStuck, SweepRecover,
                SweepFound, SweepFinished, SweepRelink
  <2>3. ASSUME UserStep PROVE feed' = feed
    BY <2>3 DEF UserStep, ScheduleWrite, DeleteWrite, CancelCampaign, ScheduleLoad, DeleteLoad, CancelWrite,
                Leave, Edit, Reconnect
  <2>4. ASSUME Tick \/ FaultStep \/ UNCHANGED vars PROVE feed' = feed
    BY <2>4 DEF Tick, FaultStep, LoseQueue, LockExpire, Crash, vars
  <2>5. feed' # feed
    BY <1>1
  <2> QED
    BY <2>1, <2>2, <2>3, <2>4, <2>5 DEF Next
<1> DEFINE c == work[w].container
<1>3. /\ At(w, "call") /\ c # NoContainer
      /\ feed' = Append(feed, [post |-> meta[c].post, content |-> meta[c].content, attempt |-> work[w].attempts])
  BY <1>2 DEF PublishCall
<1>4. feed'[Len(feed')].post = meta[c].post
  <2>1. ASSUME NEW e, feed' = Append(feed, e) PROVE feed'[Len(feed')] = e
    BY <1>1, <2>1
  <2> QED
    BY <1>3, <2>1
<1>5. meta[c].post = Post(w)
  BY <1>3 DEF Owned
<1> QED
  BY <1>3, <1>4, <1>5, DueAt DEF At, PublishSteps, LockedSteps, FirstTry, Due

\* In its first attempt a post never goes out before its slot, whatever the users, the
\* sweeper and the faults do.  Later attempts have no such guarantee: the claims look at
\* the status only, so a worker left over from an earlier attempt may claim the next one
\* as soon as it is prepared.
THEOREM FirstTryInTime == Spec => NeverEarly
<1> DEFINE Inv == Typed /\ Owned /\ Timely
<1>1. Init => Inv
  BY InitTyped, InitShown, InitTimely
<1>2. Inv /\ [Next]_vars => Inv'
  BY StepTyped, StepOwned, StepTimely
<1>3. Inv /\ [Next]_vars
      => [\A p \in Posts : (Len(feed') > Len(feed) /\ feed'[Len(feed')].post = p /\ row[p].attempts = 1)
                           => row[p].slot <= now]_vars
  BY OutInTime
<1> QED
  BY <1>1, <1>2, <1>3, PTL DEF Spec, NeverEarly
=============================================================================
