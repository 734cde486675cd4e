--------------------------- MODULE CrossPostProofs ---------------------------
(***************************************************************************)
(* Cross-posts for any number of targets, sweeps, attempts, requests and   *)
(* faults: the types, with the uploads the sweeps' copies point to, and    *)
(* that a target is on its channel once unless something was left unknown. *)
(***************************************************************************)
EXTENDS CrossPost, TLAPS

-----------------------------------------------------------------------------
(* Types *)

\* The uploads a sweep has in its copies and in its hands are there.
TokensOf(s) ==
  \A t \in Targets :
    \/ sweep[s].pc \in {"processing", "polled"} /\ t \in sweep[s].todo
    \/ At(s, "polled") /\ On(s, t)
    \/ At(s, "called") /\ On(s, t) /\ sweep[s].answer = "processing"
    => sweep[s].seen[t].token \in DOMAIN uploads[t]
Tokens == \A s \in Sweeps : TokensOf(s)

\* The status a sweep is about to give the post.
Settles == \A s \in Sweeps : At(s, "settle") => sweep[s].answer \in {"PUBLISHED", "FAILED"}

RowTyped(t) ==
  row[t].token # 0 => row[t].token \in DOMAIN uploads[t] /\ row[t].status \notin {"PUBLISHED", "FAILED"}
RowsTyped == row \in [Targets -> Row] /\ \A t \in Targets : RowTyped(t)
SweepsTyped == sweep \in [Sweeps -> Sweep] /\ Tokens /\ Settles
RestTyped ==
  /\ post \in Post
  /\ asked \in [retry : BOOLEAN, choose : SUBSET Targets]
  /\ uploads \in [Targets -> Seq({"running", "shown", "broken"})]
  /\ out \in [Targets -> 0..2] /\ lost \subseteq unsure /\ unsure \subseteq Targets /\ renewed \subseteq Targets
  /\ clicks \in 0..MaxClicks /\ fuel \in 0..MaxTrouble
Typed == RowsTyped /\ SweepsTyped /\ RestTyped

\* An upload stays, whatever the platform makes of it.
UploadsGrow == \A t \in Targets : DOMAIN uploads[t] \subseteq DOMAIN uploads'[t]

LEMMA TypedIsType == Typed => TypeOK
  BY DEF Typed, RowsTyped, RowTyped, SweepsTyped, RestTyped, TypeOK

LEMMA IdleTyped == Idle \in Sweep /\ Idle.pc = "idle" /\ Idle.todo = {} /\ Idle.on = {}
  BY DEF Idle, Sweep, Steps, Copy, NoCopy, Verdicts, Answers

\* What Called leaves with the sweep.
LEMMA CalledShape ==
  ASSUME SweepsTyped, NEW s \in Sweeps, NEW t \in Targets, NEW step \in Steps, NEW answer \in Answers,
         NEW token \in Nat, Called(s, t, step, answer, token)
  PROVE  /\ sweep' \in [Sweeps -> Sweep]
         /\ \A v \in Sweeps \ {s} : sweep'[v] = sweep[v]
         /\ sweep'[s].pc = step /\ sweep'[s].on = {t} /\ sweep'[s].answer = answer
         /\ sweep'[s].todo = sweep[s].todo
         /\ sweep'[s].seen[t].token = token
         /\ \A u \in Targets \ {t} : sweep'[s].seen[u] = sweep[s].seen[u]
<1>0. sweep \in [Sweeps -> Sweep] /\ sweep[s] \in Sweep /\ sweep[s].seen \in [Targets -> Copy]
  BY DEF SweepsTyped, Sweep
<1> DEFINE copy == [sweep[s].seen[t] EXCEPT !.token = token]
           seen == [sweep[s].seen EXCEPT ![t] = copy]
           x == [sweep[s] EXCEPT !.pc = step, !.on = {t}, !.answer = answer, !.seen = seen]
<1>1. sweep' = [sweep EXCEPT ![s] = x]
  BY <1>0 DEF Called, Sweep
<1>2. copy \in Copy /\ copy.token = token
  BY <1>0 DEF Copy
<1> HIDE DEF copy
<1>3. seen \in [Targets -> Copy] /\ seen[t] = copy /\ \A u \in Targets \ {t} : seen[u] = sweep[s].seen[u]
  BY <1>0, <1>2
<1> HIDE DEF seen
<1>4. /\ x \in Sweep /\ x.pc = step /\ x.on = {t} /\ x.answer = answer
      /\ x.todo = sweep[s].todo /\ x.seen = seen
  BY <1>0, <1>3 DEF Sweep
<1> HIDE DEF x
<1>5. sweep'[s] = x
  BY <1>0, <1>1
<1> QED
  BY <1>0, <1>1, <1>2, <1>3, <1>4, <1>5

\* What is left of a sweep that has handled t.
LEMMA HandledShape ==
  ASSUME SweepsTyped, NEW s \in Sweeps, NEW t \in Targets
  PROVE  /\ Handled(s, t) \in Sweep /\ Handled(s, t).pc = sweep[s].pc
         /\ Handled(s, t).todo = sweep[s].todo \ {t} /\ Handled(s, t).on = {}
         /\ \A u \in Targets \ {t} : Handled(s, t).seen[u] = sweep[s].seen[u]
<1>0. sweep[s] \in Sweep /\ sweep[s].seen \in [Targets -> Copy] /\ NoCopy \in Copy
  BY DEF SweepsTyped, Sweep, NoCopy, Copy
<1> DEFINE seen == [sweep[s].seen EXCEPT ![t] = NoCopy]
           x == [sweep[s] EXCEPT !.todo = @ \ {t}, !.seen = seen, !.on = {}, !.answer = "none",
                                 !.post = IF sweep[s].todo = {t} THEN "none" ELSE @]
<1>1. Handled(s, t) = x
  BY <1>0 DEF Handled, Sweep
<1>2. seen \in [Targets -> Copy] /\ \A u \in Targets \ {t} : seen[u] = sweep[s].seen[u]
  BY <1>0
<1> HIDE DEF seen
<1>3. x \in Sweep /\ x.pc = sweep[s].pc /\ x.todo = sweep[s].todo \ {t} /\ x.on = {} /\ x.seen = seen
  BY <1>0, <1>2 DEF Sweep, Answers, Verdicts
<1> QED
  BY <1>1, <1>2, <1>3

LEMMA Next1Shape ==
  ASSUME SweepsTyped, NEW s \in Sweeps, NEW t \in Targets, Next1(s, t)
  PROVE  sweep' \in [Sweeps -> Sweep] /\ sweep'[s] = Handled(s, t) /\ \A v \in Sweeps \ {s} : sweep'[v] = sweep[v]
  BY HandledShape DEF Next1, SweepsTyped

LEMMA BackShape ==
  ASSUME SweepsTyped, NEW s \in Sweeps, NEW t \in Targets, NEW step \in Steps, Back(s, t, step)
  PROVE  /\ sweep' \in [Sweeps -> Sweep] /\ \A v \in Sweeps \ {s} : sweep'[v] = sweep[v]
         /\ sweep'[s].pc = step /\ sweep'[s].todo = sweep[s].todo \ {t} /\ sweep'[s].on = {}
         /\ \A u \in Targets \ {t} : sweep'[s].seen[u] = sweep[s].seen[u]
<1> DEFINE h == Handled(s, t)
           x == [h EXCEPT !.pc = step]
<1>1. h \in Sweep /\ h.todo = sweep[s].todo \ {t} /\ h.on = {} /\ \A u \in Targets \ {t} : h.seen[u] = sweep[s].seen[u]
  BY HandledShape
<1>2. sweep \in [Sweeps -> Sweep] /\ sweep' = [sweep EXCEPT ![s] = x]
  BY DEF Back, SweepsTyped
<1> HIDE DEF h
<1>3. x \in Sweep /\ x.pc = step /\ x.todo = h.todo /\ x.on = h.on /\ x.seen = h.seen
  BY <1>1 DEF Sweep
<1> HIDE DEF x
<1>4. sweep'[s] = x
  BY <1>2
<1> QED
  BY <1>1, <1>2, <1>3, <1>4

LEMMA ReadShape ==
  ASSUME SweepsTyped, NEW s \in Sweeps, NEW step \in Steps, NEW found \in SUBSET Targets,
         NEW seen \in [Targets -> Copy], NEW verdict \in Verdicts, Read(s, step, found, seen, verdict)
  PROVE  /\ sweep' \in [Sweeps -> Sweep] /\ \A v \in Sweeps \ {s} : sweep'[v] = sweep[v]
         /\ sweep'[s].pc = step /\ sweep'[s].todo = found /\ sweep'[s].on = {} /\ sweep'[s].seen = seen
<1> DEFINE x == [Idle EXCEPT !.pc = step, !.todo = found, !.seen = seen, !.post = verdict]
<1>1. sweep \in [Sweeps -> Sweep] /\ sweep' = [sweep EXCEPT ![s] = x]
  BY DEF Read, SweepsTyped
<1>2. x \in Sweep /\ x.pc = step /\ x.todo = found /\ x.on = {} /\ x.seen = seen
  BY IdleTyped DEF Idle, Sweep
<1> HIDE DEF x
<1>3. sweep'[s] = x
  BY <1>1
<1> QED
  BY <1>1, <1>2, <1>3

LEMMA IdleShape ==
  ASSUME SweepsTyped, NEW s \in Sweeps, sweep' = [sweep EXCEPT ![s] = Idle]
  PROVE  sweep' \in [Sweeps -> Sweep] /\ sweep'[s] = Idle /\ \A v \in Sweeps \ {s} : sweep'[v] = sweep[v]
  BY IdleTyped DEF SweepsTyped

-----------------------------------------------------------------------------
(* The uploads, the post and the bounds *)

LEMMA ShowTyped ==
  ASSUME RestTyped, NEW t \in Targets, NEW posts \in {1, 2}, Show(t, posts)
  PROVE  /\ out' \in [Targets -> 0..2] /\ \A u \in Targets \ {t} : out'[u] = out[u]
         /\ out'[t] > 0 /\ (out[t] = 0 /\ posts = 1 => out'[t] = 1)
<1> DEFINE x == IF out[t] + posts < 2 THEN out[t] + posts ELSE 2
<1>1. out \in [Targets -> 0..2] /\ out' = [out EXCEPT ![t] = x]
  BY DEF RestTyped, Show
<1>2. x \in 0..2 /\ x > 0 /\ (out[t] = 0 /\ posts = 1 => x = 1)
  BY <1>1
<1> HIDE DEF x
<1> QED
  BY <1>1, <1>2

LEMMA UploadShape ==
  ASSUME RestTyped, NEW t \in Targets, Upload(t)
  PROVE  /\ uploads' \in [Targets -> Seq({"running", "shown", "broken"})] /\ UploadsGrow
         /\ \A u \in Targets \ {t} : uploads'[u] = uploads[u]
         /\ DOMAIN uploads'[t] = 1..Len(uploads[t]) + 1
         /\ \A n \in DOMAIN uploads[t] : uploads'[t][n] = uploads[t][n]
         /\ uploads'[t][Len(uploads[t]) + 1] = "running"
<1> DEFINE q == uploads[t]
           new == Append(q, "running")
<1>1. uploads \in [Targets -> Seq({"running", "shown", "broken"})] /\ q \in Seq({"running", "shown", "broken"})
      /\ Len(q) \in Nat
  BY DEF RestTyped
<1>2. new \in Seq({"running", "shown", "broken"}) /\ Len(new) = Len(q) + 1
      /\ new[Len(q) + 1] = "running" /\ \A n \in 1..Len(q) : new[n] = q[n]
  BY <1>1
<1>3. uploads' = [uploads EXCEPT ![t] = new]
  BY DEF Upload
<1>4. DOMAIN q = 1..Len(q) /\ DOMAIN new = 1..Len(new)
  BY <1>1, <1>2
<1> HIDE DEF new
<1>5. uploads'[t] = new /\ \A u \in Targets \ {t} : uploads'[u] = uploads[u]
  BY <1>1, <1>3
<1>6. UploadsGrow
  BY <1>1, <1>2, <1>4, <1>5 DEF UploadsGrow
<1> QED
  BY <1>1, <1>2, <1>3, <1>4, <1>5, <1>6

\* An upload comes to something.
Becomes(t, n, state) == uploads' = [uploads EXCEPT ![t][n] = state]

LEMMA BecomesShape ==
  ASSUME RestTyped, NEW t \in Targets, NEW n \in DOMAIN uploads[t],
         NEW state \in {"running", "shown", "broken"}, Becomes(t, n, state)
  PROVE  /\ uploads' \in [Targets -> Seq({"running", "shown", "broken"})] /\ UploadsGrow
         /\ \A u \in Targets \ {t} : uploads'[u] = uploads[u]
         /\ DOMAIN uploads'[t] = DOMAIN uploads[t]
         /\ \A m \in DOMAIN uploads[t] \ {n} : uploads'[t][m] = uploads[t][m]
         /\ uploads'[t][n] = state
<1> DEFINE q == uploads[t]
           new == [q EXCEPT ![n] = state]
<1>1. uploads \in [Targets -> Seq({"running", "shown", "broken"})] /\ q \in Seq({"running", "shown", "broken"})
      /\ Len(q) \in Nat
  BY DEF RestTyped
<1>2. new \in Seq({"running", "shown", "broken"}) /\ Len(new) = Len(q)
      /\ new[n] = state /\ \A m \in DOMAIN q \ {n} : new[m] = q[m]
  BY <1>1
<1>3. uploads' = [uploads EXCEPT ![t] = new]
  BY DEF Becomes
<1>4. DOMAIN q = 1..Len(q) /\ DOMAIN new = 1..Len(new)
  BY <1>1, <1>2
<1> HIDE DEF new
<1>5. uploads'[t] = new /\ \A u \in Targets \ {t} : uploads'[u] = uploads[u]
  BY <1>1, <1>3
<1>6. UploadsGrow
  BY <1>1, <1>2, <1>4, <1>5 DEF UploadsGrow
<1> QED
  BY <1>1, <1>2, <1>3, <1>4, <1>5, <1>6

LEMMA SameUploads ==
  ASSUME UNCHANGED uploads
  PROVE  UploadsGrow
  BY DEF UploadsGrow

LEMMA TroubleTyped ==
  ASSUME RestTyped, Trouble \/ UNCHANGED fuel
  PROVE  fuel' \in 0..MaxTrouble
  BY CrossPostAssumption DEF RestTyped, Trouble

\* What a step may do to the history.
Remembers ==
  \/ UNCHANGED history
  \/ \E t \in Targets, b \in BOOLEAN : Doubt(t, b) \/ Untold(t, b)
  \/ \E t \in Targets : unsure' \in {unsure, unsure \cup {t}} /\ UNCHANGED lost /\ renewed' = renewed \cup {t}
  \/ \E r \in SUBSET Targets : UNCHANGED <<unsure, lost>> /\ renewed' = renewed \cup r

LEMMA RemembersTyped ==
  ASSUME RestTyped, Remembers
  PROVE  lost' \subseteq unsure' /\ unsure' \subseteq Targets /\ renewed' \subseteq Targets
  BY DEF RestTyped, Remembers, Doubt, Untold, history

LEMMA RemembersKeeps ==
  ASSUME Remembers
  PROVE  unsure \subseteq unsure' /\ lost \subseteq lost' /\ renewed \subseteq renewed'
  BY DEF Remembers, Doubt, Untold, history

\* A write leaves rows, and no row points to an upload that is not there.
LEMMA WriteShape ==
  ASSUME RowsTyped, NEW t \in Targets, NEW new \in Row, Write(t, new)
  PROVE  /\ row' \in [Targets -> Row] /\ \A u \in Targets \ {t} : row'[u] = row[u]
         /\ row'[t].status = new.status /\ row'[t].token = new.token /\ row'[t].channel = new.channel
<1> DEFINE x == [new EXCEPT !.still = FALSE]
<1>1. x \in Row /\ x.status = new.status /\ x.token = new.token /\ x.channel = new.channel
  BY DEF Row
<1>2. row' = [row EXCEPT ![t] = x] /\ row \in [Targets -> Row]
  BY DEF Write, RowsTyped
<1> HIDE DEF x
<1> QED
  BY <1>1, <1>2

LEMMA WriteTyped ==
  ASSUME RowsTyped, UploadsGrow, NEW t \in Targets, NEW new \in Row, Write(t, new),
         new.token # 0 => new.token \in DOMAIN uploads[t] /\ new.status \notin {"PUBLISHED", "FAILED"}
  PROVE  RowsTyped'
<1>1. RowTyped(t)'
  BY WriteShape DEF RowTyped, UploadsGrow
<1>2. ASSUME NEW u \in Targets, u # t  PROVE RowTyped(u)'
  BY <1>2, WriteShape DEF RowTyped, UploadsGrow, RowsTyped
<1> QED
  BY <1>1, <1>2, WriteShape DEF RowsTyped

LEMMA RowsKept ==
  ASSUME RowsTyped, UploadsGrow, UNCHANGED row
  PROVE  RowsTyped'
  BY DEF RowsTyped, RowTyped, UploadsGrow

LEMMA Forms ==
  ASSUME NEW r \in Row
  PROVE  /\ Failed(r) \in Row /\ Failed(r).status = "FAILED" /\ Failed(r).token = 0
         /\ Again(r) \in Row /\ Again(r).status = "PENDING" /\ Again(r).token = r.token
         /\ Later(r) \in Row /\ Later(r).status = r.status /\ Later(r).token = r.token
  BY DEF Failed, Again, Later, Row, Status

LEMMA NewRowShape ==
  ASSUME NEW c \in Channels
  PROVE  NewRow(c) \in Row /\ NewRow(c).status = "PENDING" /\ NewRow(c).token = 0
  BY DEF NewRow, Row, Status

LEMMA SettledShape ==
  ASSUME RowsTyped, SweepsTyped, NEW s \in Sweeps, NEW t \in Targets
  PROVE  /\ Settled(s, t) \in Row
         /\ sweep[s].answer = "published" => Settled(s, t).status = "PUBLISHED" /\ Settled(s, t).token = 0
         /\ sweep[s].answer # "published" => /\ Settled(s, t).status = "PUBLISHING"
                                             /\ Settled(s, t).token = sweep[s].seen[t].token
<1> DEFINE seen == sweep[s].seen[t]
           r == row[t]
           since == IF seen.since = "null" THEN "young" ELSE seen.since
           x == [r EXCEPT !.status = "PUBLISHED", !.token = 0, !.wait = "null"]
           y == [r EXCEPT !.status = "PUBLISHING", !.token = seen.token, !.wait = "later", !.since = since]
<1>1. r \in Row /\ sweep[s] \in Sweep
  BY DEF RowsTyped, SweepsTyped
<1>2. seen \in Copy
  BY <1>1 DEF Sweep
<1>3. Settled(s, t) = IF sweep[s].answer = "published" THEN x ELSE y
  BY DEF Settled
<1>4. since \in {"null", "young", "old"} /\ seen.token \in Nat
  BY <1>2 DEF Copy
<1> HIDE DEF seen, r, since
<1>5. x \in Row /\ x.status = "PUBLISHED" /\ x.token = 0
  BY <1>1 DEF Row, Status
<1>6. y \in Row /\ y.status = "PUBLISHING" /\ y.token = seen.token
  BY <1>1, <1>4 DEF Row, Status
<1> HIDE DEF x, y
<1> QED
  BY <1>3, <1>5, <1>6 DEF seen

\* What a poll and the try write, by what the channel said.
LEMMA PolledShape ==
  ASSUME RowsTyped, SweepsTyped, NEW s \in Sweeps, NEW t \in Targets, Polled(s, t)
  PROVE  \E new \in Row :
           /\ Write(t, new)
           /\ sweep[s].answer = "published" => new.status = "PUBLISHED" /\ new.token = 0
           /\ sweep[s].answer = "processing" => new.status = "PUBLISHING" /\ new.token = sweep[s].seen[t].token
           /\ sweep[s].answer \in {"transient", "wait"} => new.status = row[t].status /\ new.token = row[t].token
           /\ sweep[s].answer \notin {"published", "processing", "transient", "wait"} => new.status = "FAILED" /\ new.token = 0
<1>0. row[t] \in Row
  BY DEF RowsTyped
<1>1. CASE sweep[s].answer \in {"published", "processing"}
  <2>1. Write(t, Settled(s, t))
    BY <1>1 DEF Polled
  <2> QED
    BY <1>1, <2>1, SettledShape
<1>2. CASE sweep[s].answer \in {"transient", "wait"}
  <2>1. Write(t, Later(row[t]))
    BY <1>2 DEF Polled
  <2> QED
    BY <1>0, <1>2, <2>1, Forms
<1>3. CASE sweep[s].answer \notin {"published", "processing", "transient", "wait"}
  <2>1. Write(t, Failed(row[t]))
    BY <1>3 DEF Polled
  <2> QED
    BY <1>0, <1>3, <2>1, Forms
<1> QED
  BY <1>1, <1>2, <1>3

LEMMA RecordShape ==
  ASSUME RowsTyped, SweepsTyped, NEW s \in Sweeps, NEW t \in Targets, Record(s, t)
  PROVE  \E new \in Row :
           /\ Write(t, new)
           /\ sweep[s].answer = "published" => new.status = "PUBLISHED" /\ new.token = 0
           /\ sweep[s].answer = "processing" => new.status = "PUBLISHING" /\ new.token = sweep[s].seen[t].token
           /\ sweep[s].answer \notin {"published", "processing"} =>
                \/ new.status = "PENDING" /\ new.token = row[t].token
                \/ new.status = "FAILED" /\ new.token = 0
           /\ new.status = "PENDING" => sweep[s].answer \in {"transient", "wait"}
<1>0. row[t] \in Row /\ sweep[s] \in Sweep
  BY DEF RowsTyped, SweepsTyped
<1>1. CASE sweep[s].answer \in {"published", "processing"}
  <2>1. Write(t, Settled(s, t))
    BY <1>1 DEF Record
  <2> QED
    BY <1>1, <2>1, SettledShape
<1>2. CASE sweep[s].answer = "wait"
  <2> DEFINE a == Again(row[t])
             n == sweep[s].seen[t].attempts
             x == [a EXCEPT !.attempts = n, !.wait = "later"]
  <2>1. Write(t, x)
    BY <1>2 DEF Record
  <2>2. a \in Row /\ a.status = "PENDING" /\ a.token = row[t].token
    BY <1>0, Forms
  <2>3. n \in Nat
    BY <1>0 DEF Sweep, Copy
  <2> HIDE DEF a, n
  <2>4. x \in Row /\ x.status = "PENDING" /\ x.token = row[t].token
    BY <2>2, <2>3 DEF Row
  <2> QED
    BY <1>2, <2>1, <2>4
<1>3. CASE sweep[s].answer = "transient" /\ ~LastTry(s, t)
  <2>1. Write(t, Again(row[t]))
    BY <1>3 DEF Record
  <2> QED
    BY <1>0, <1>3, <2>1, Forms
<1>4. CASE sweep[s].answer \notin {"published", "processing", "wait"} /\ ~(sweep[s].answer = "transient" /\ ~LastTry(s, t))
  <2>1. Write(t, Failed(row[t]))
    BY <1>4 DEF Record
  <2> QED
    BY <1>0, <1>4, <2>1, Forms
<1> QED
  BY <1>1, <1>2, <1>3, <1>4

\* A claim that wins.
LEMMA ClaimShape ==
  ASSUME RowsTyped, NEW s \in Sweeps, NEW t \in Targets, Claim(s, t), Claimable(t)
  PROVE  \E new \in Row : /\ Write(t, new) /\ new.status = "PUBLISHING" /\ new.token = row[t].token
                          /\ Called(s, t, "call", "none", 0)
<1> DEFINE r == row[t]
           n == r.attempts + 1
           x == [r EXCEPT !.status = "PUBLISHING", !.attempts = n, !.wait = "null"]
<1>1. r \in Row
  BY DEF RowsTyped
<1>2. Write(t, x) /\ Called(s, t, "call", "none", 0)
  BY DEF Claim
<1> HIDE DEF r
<1>3. n \in Nat
  BY <1>1 DEF Row
<1> HIDE DEF n
<1>4. x \in Row /\ x.status = "PUBLISHING" /\ x.token = r.token
  BY <1>1, <1>3 DEF Row, Status
<1> QED
  BY <1>2, <1>4 DEF r

LEMMA ChooseShape ==
  ASSUME RowsTyped, NEW t \in Targets, Choose(t)
  PROVE  \E new \in Row : /\ Write(t, new) /\ new.status = "PENDING" /\ new.token \in {0, row[t].token}
<1> DEFINE r == row[t]
           a == Again(r)
           x == [a EXCEPT !.attempts = 0]
<1>1. r \in Row /\ r.channel \in Channels
  BY DEF RowsTyped, Row
<1>2. a \in Row /\ a.status = "PENDING" /\ a.token = r.token
  BY <1>1, Forms
<1>3. Write(t, IF OnTelegram(t) THEN x ELSE NewRow(r.channel))
  BY DEF Choose
<1> HIDE DEF r, a
<1>4. x \in Row /\ x.status = "PENDING" /\ x.token = r.token
  BY <1>2 DEF Row
<1> HIDE DEF x
<1>5. NewRow(r.channel) \in Row /\ NewRow(r.channel).status = "PENDING" /\ NewRow(r.channel).token = 0
  BY <1>1, NewRowShape
<1> QED
  BY <1>3, <1>4, <1>5 DEF r

\* The owner's retry opens the failed rows and no other.
LEMMA RetryShape ==
  ASSUME RowsTyped, RetryFailed
  PROVE  /\ row' \in [Targets -> Row]
         /\ \A t \in Targets : /\ row'[t].token = row[t].token
                               /\ row[t].status # "FAILED" => row'[t] = row[t]
                               /\ row[t].status = "FAILED" => row'[t].status = "PENDING"
<1>1. ASSUME NEW t \in Targets
      PROVE  /\ row'[t] \in Row /\ row'[t].token = row[t].token
             /\ row[t].status # "FAILED" => row'[t] = row[t]
             /\ row[t].status = "FAILED" => row'[t].status = "PENDING"
  <2> DEFINE r == row[t]
             a == Again(r)
             x == [a EXCEPT !.attempts = 0, !.wait = "null", !.still = FALSE]
  <2>1. r \in Row
    BY DEF RowsTyped
  <2>2. a \in Row /\ a.status = "PENDING" /\ a.token = r.token
    BY <2>1, Forms
  <2>3. row'[t] = IF r.status = "FAILED" THEN x ELSE r
    BY DEF RetryFailed
  <2> HIDE DEF r, a
  <2>4. x \in Row /\ x.status = "PENDING" /\ x.token = r.token
    BY <2>2 DEF Row
  <2> HIDE DEF x
  <2> QED
    BY <2>1, <2>3, <2>4 DEF r
<1>2. row' = [t \in Targets |-> row'[t]]
  BY DEF RetryFailed
<1> QED
  BY <1>1, <1>2

\* The clock changes nothing a sweep decides by except the waits.
LEMMA ClockShape ==
  ASSUME RowsTyped, NEW t \in Targets, WaitOver(t) \/ Still(t) \/ ThreeHours(t)
  PROVE  /\ row' \in [Targets -> Row] /\ \A u \in Targets \ {t} : row'[u] = row[u]
         /\ row'[t].status = row[t].status /\ row'[t].token = row[t].token
<1>1. row[t] \in Row /\ row \in [Targets -> Row]
  BY DEF RowsTyped
<1>2. CASE WaitOver(t)
  <2> DEFINE w == IF row[t].status = "PENDING" THEN "due" ELSE "null"
             x == [row[t] EXCEPT !.wait = w]
  <2>1. row' = [row EXCEPT ![t] = x] /\ w \in {"null", "later", "due"}
    BY <1>2 DEF WaitOver
  <2> HIDE DEF w
  <2>2. x \in Row /\ x.status = row[t].status /\ x.token = row[t].token
    BY <1>1, <2>1 DEF Row
  <2> HIDE DEF x
  <2> QED
    BY <1>1, <2>1, <2>2
<1>3. CASE Still(t)
  <2> DEFINE x == [row[t] EXCEPT !.still = TRUE]
  <2>1. row' = [row EXCEPT ![t] = x]
    BY <1>3 DEF Still
  <2>2. x \in Row /\ x.status = row[t].status /\ x.token = row[t].token
    BY <1>1 DEF Row
  <2> HIDE DEF x
  <2> QED
    BY <1>1, <2>1, <2>2
<1>4. CASE ThreeHours(t)
  <2> DEFINE x == [row[t] EXCEPT !.since = "old"]
  <2>1. row' = [row EXCEPT ![t] = x]
    BY <1>4 DEF ThreeHours
  <2>2. x \in Row /\ x.status = row[t].status /\ x.token = row[t].token
    BY <1>1 DEF Row
  <2> HIDE DEF x
  <2> QED
    BY <1>1, <2>1, <2>2
<1> QED
  BY <1>2, <1>3, <1>4

-----------------------------------------------------------------------------
(* Every step keeps the types *)

Heard == {"published", "processing", "transient", "wait"}

\* What a poll hears, and what becomes of the upload it asks about.
LEMMA PollShape ==
  ASSUME Typed, NEW s \in Sweeps, NEW t \in Targets, Poll(s, t)
  PROVE  /\ sweep[s].seen[t].token \in DOMAIN uploads[t]
         /\ At(s, "processing") /\ t \in sweep[s].todo
         /\ \E answer \in Heard \cup {"refused"} :
              /\ Called(s, t, "polled", answer, sweep[s].seen[t].token)
              /\ \/ answer \in Heard /\ UNCHANGED platform
                 \/ /\ answer = "refused" /\ UNCHANGED platform
                    /\ t \in unsure' \/ uploads[t][sweep[s].seen[t].token] = "broken"
                 \/ /\ answer = "refused" /\ uploads[t][sweep[s].seen[t].token] # "shown"
                    /\ Becomes(t, sweep[s].seen[t].token, "broken") /\ UNCHANGED out
                 \/ /\ answer \in Heard \/ t \in unsure'
                    /\ uploads[t][sweep[s].seen[t].token] = "running"
                    /\ Becomes(t, sweep[s].seen[t].token, "shown") /\ Show(t, 1)
<1> DEFINE token == sweep[s].seen[t].token
           made == uploads[t][token]
           Says(answer) == Called(s, t, "polled", answer, token)
<1>1. At(s, "processing") /\ t \in sweep[s].todo
  BY DEF Poll
<1>2. token \in DOMAIN uploads[t]
  BY <1>1 DEF Typed, SweepsTyped, Tokens, TokensOf, At
<1>3. \/ made = "running" /\ Says("processing") /\ UNCHANGED platform
      \/ made # "shown" /\ Says("refused") /\ Becomes(t, token, "broken") /\ UNCHANGED out
      \/ made = "shown" /\ ~OnThreads(t) /\ Says("published") /\ UNCHANGED platform
      \/ made = "shown" /\ OnThreads(t) /\ Says("refused") /\ Doubt(t, TRUE) /\ UNCHANGED platform
      \/ /\ made = "running" /\ Becomes(t, token, "shown") /\ Show(t, 1)
         /\ Says("published") \/ Says("transient") \/ Says("wait") \/ (Says("refused") /\ Doubt(t, TRUE))
      \/ Says("refused") /\ Doubt(t, made # "broken") /\ UNCHANGED platform
      \/ (Says("transient") \/ Says("wait")) /\ UNCHANGED platform
  BY DEF Poll, Becomes, Doubt
<1>4. (Doubt(t, TRUE) => t \in unsure') /\ (Doubt(t, made # "broken") => t \in unsure' \/ made = "broken")
  BY DEF Doubt
<1> HIDE DEF token, made, Says
<1>5. \E answer \in Heard \cup {"refused"} :
        /\ Says(answer)
        /\ \/ answer \in Heard /\ UNCHANGED platform
           \/ answer = "refused" /\ UNCHANGED platform /\ (t \in unsure' \/ made = "broken")
           \/ answer = "refused" /\ made # "shown" /\ Becomes(t, token, "broken") /\ UNCHANGED out
           \/ (answer \in Heard \/ t \in unsure') /\ made = "running" /\ Becomes(t, token, "shown") /\ Show(t, 1)
  BY <1>3, <1>4, Zenon DEF Heard
<1> QED
  BY <1>1, <1>2, <1>5 DEF token, made, Says

LEMMA StepUploads ==
  ASSUME Typed, NEW s \in Sweeps, Step(s) \/ Crash(s)
  PROVE  uploads' \in [Targets -> Seq({"running", "shown", "broken"})] /\ out' \in [Targets -> 0..2] /\ UploadsGrow
<1>0. RestTyped
  BY DEF Typed
<1>1. ASSUME UNCHANGED platform
      PROVE  uploads' \in [Targets -> Seq({"running", "shown", "broken"})] /\ out' \in [Targets -> 0..2] /\ UploadsGrow
  BY <1>0, <1>1, SameUploads DEF platform, RestTyped
<1>2. ASSUME NEW t \in Targets, Poll(s, t)
      PROVE  uploads' \in [Targets -> Seq({"running", "shown", "broken"})] /\ out' \in [Targets -> 0..2] /\ UploadsGrow
  <2>1. CASE UNCHANGED platform
    BY <1>1, <2>1
  <2>2. CASE Becomes(t, sweep[s].seen[t].token, "broken") /\ UNCHANGED out
    BY <1>0, <1>2, <2>2, PollShape, BecomesShape DEF RestTyped
  <2>3. CASE Becomes(t, sweep[s].seen[t].token, "shown") /\ Show(t, 1)
    BY <1>0, <1>2, <2>3, PollShape, BecomesShape, ShowTyped
  <2> QED
    BY <1>2, <2>1, <2>2, <2>3, PollShape
<1>3. ASSUME NEW t \in Targets, Call(s, t)
      PROVE  uploads' \in [Targets -> Seq({"running", "shown", "broken"})] /\ out' \in [Targets -> 0..2] /\ UploadsGrow
  <2>1. CASE (\E posts \in {1, 2} : Show(t, posts)) /\ UNCHANGED uploads
    BY <1>0, <2>1, ShowTyped, SameUploads DEF RestTyped
  <2>2. CASE Upload(t)
    BY <1>0, <2>2, UploadShape DEF RestTyped, Upload
  <2>3. CASE UNCHANGED platform
    BY <1>1, <2>3
  <2> QED
    BY <1>3, <2>1, <2>2, <2>3 DEF Call
<1>4. CASE \E t \in Targets : Poll(s, t) \/ Call(s, t)
  BY <1>2, <1>3, <1>4
<1>5. CASE Crash(s) \/ ~\E t \in Targets : Poll(s, t) \/ Call(s, t)
  <2>1. UNCHANGED platform
    BY <1>5 DEF Step, Begin, ReadProcessing, ReadPending, ReadTargets, SettlePost, FailStuck, GiveUp, Polled,
                Withdraw, Early, Miss, Hinder, Claim, Record, Crash
  <2> QED
    BY <1>1, <2>1
<1> QED
  BY <1>4, <1>5

LEMMA StepRemembers ==
  ASSUME NEW s \in Sweeps, Step(s) \/ Crash(s)
  PROVE  Remembers
<1>1. CASE \E t \in Targets : Call(s, t)
  BY <1>1 DEF Call, Remembers
<1>2. CASE ~\E t \in Targets : Call(s, t)
  <2>1. UNCHANGED history \/ \E t \in Targets, b \in BOOLEAN : Doubt(t, b)
    BY <1>2 DEF Step, Begin, ReadProcessing, ReadPending, ReadTargets, SettlePost, FailStuck, GiveUp, Poll, Polled,
                Withdraw, Early, Miss, Hinder, Claim, Record, Crash, Overwrites, Unmoved, OnThreads
  <2> QED
    BY <2>1 DEF Remembers
<1> QED
  BY <1>1, <1>2

LEMMA StepRest ==
  ASSUME Typed, NEW s \in Sweeps, Step(s) \/ Crash(s)
  PROVE  RestTyped'
<1>0. RestTyped /\ sweep[s] \in Sweep
  BY DEF Typed, SweepsTyped
<1>1. uploads' \in [Targets -> Seq({"running", "shown", "broken"})] /\ out' \in [Targets -> 0..2]
  BY StepUploads
<1>2. fuel' \in 0..MaxTrouble
  BY <1>0, TroubleTyped DEF Step, Begin, ReadProcessing, ReadPending, ReadTargets, SettlePost, FailStuck, GiveUp, Poll, Polled,
                Withdraw, Early, Miss, Hinder, Claim, Call, Record, Crash
<1>3. lost' \subseteq unsure' /\ unsure' \subseteq Targets /\ renewed' \subseteq Targets
  BY <1>0, StepRemembers, RemembersTyped
<1>4. asked' \in [retry : BOOLEAN, choose : SUBSET Targets] /\ clicks' \in 0..MaxClicks
  <2>1. UNCHANGED <<asked, clicks>>
    BY DEF Step, Begin, ReadProcessing, ReadPending, ReadTargets, SettlePost, FailStuck, GiveUp, Poll, Polled,
                Withdraw, Early, Miss, Hinder, Claim, Call, Record, Crash, owner
  <2> QED
    BY <1>0, <2>1 DEF RestTyped
<1>5. post' \in Post
  <2>1. UNCHANGED post \/ SettlePost(s)
    BY DEF Step, Begin, ReadProcessing, ReadPending, ReadTargets, SettlePost, FailStuck, GiveUp, Poll, Polled,
                Withdraw, Early, Miss, Hinder, Claim, Call, Record, Crash
  <2>2. CASE SettlePost(s)
    <3>1. sweep[s].answer \in {"PUBLISHED", "FAILED"}
      BY <2>2 DEF SettlePost, Typed, SweepsTyped, Settles
    <3> DEFINE status == sweep[s].answer
               x == [post EXCEPT !.status = status]
    <3>2. post' = post \/ post' = x
      BY <2>2 DEF SettlePost
    <3> HIDE DEF status
    <3>3. status \in PostStatus
      BY <3>1 DEF PostStatus, status
    <3>4. x \in Post
      BY <1>0, <3>3 DEF RestTyped, Post
    <3> QED
      BY <1>0, <3>2, <3>4 DEF RestTyped
  <2> QED
    BY <1>0, <2>1, <2>2 DEF RestTyped
<1> QED
  BY <1>1, <1>2, <1>3, <1>4, <1>5 DEF RestTyped

\* The try of a channel: what it says, and what is on the platform after it.
LEMMA CallShape ==
  ASSUME Typed, NEW s \in Sweeps, NEW t \in Targets, Call(s, t)
  PROVE  /\ At(s, "call") /\ On(s, t)
         /\ \E answer \in Answers, token \in Nat :
              /\ Called(s, t, "called", answer, token)
              /\ \/ answer = "published" /\ Show(t, 1) /\ UNCHANGED uploads
                 \/ answer = "processing" /\ Upload(t) /\ token = Len(uploads[t]) + 1
                 \/ answer \notin {"published", "processing"} /\ UNCHANGED platform
                 \/ /\ answer \notin {"published", "processing"} /\ t \in unsure'
                    /\ answer \in {"transient", "wait"} => t \in lost'
                    /\ (Show(t, 1) /\ UNCHANGED uploads) \/ Upload(t)
                 \/ answer # "processing" /\ t \in unsure' /\ t \in lost' /\ Show(t, 2) /\ UNCHANGED uploads
<1> DEFINE Says(answer, token) == Called(s, t, "called", answer, token)
           next == Len(uploads[t]) + 1
<1>1. At(s, "call") /\ On(s, t)
  BY DEF Call
<1>2. next \in Nat
  BY DEF Typed, RestTyped
<1>3. \/ Says("published", 0) /\ Show(t, 1) /\ UNCHANGED uploads
      \/ Says("processing", next) /\ Upload(t)
      \/ \E answer \in {"transient", "refused", "wait"} :
           /\ Says(answer, 0)
           /\ \/ UNCHANGED platform
              \/ Show(t, 1) /\ UNCHANGED uploads /\ Untold(t, answer # "refused")
              \/ Upload(t) /\ Untold(t, answer # "refused")
      \/ \E answer \in {"transient", "refused", "wait", "published"} :
           Says(answer, 0) /\ Show(t, 2) /\ Untold(t, TRUE) /\ UNCHANGED uploads
  BY DEF Call, Errors
<1>4. ASSUME NEW b \in BOOLEAN, Untold(t, b)
      PROVE  t \in unsure' /\ (b => t \in lost')
  BY <1>4 DEF Untold
<1>5. {"published", "processing", "transient", "refused", "wait"} \subseteq Answers /\ 0 \in Nat
  BY DEF Answers
<1> HIDE DEF Says, next
<1>6. \E answer \in Answers, token \in Nat :
        /\ Says(answer, token)
        /\ \/ answer = "published" /\ Show(t, 1) /\ UNCHANGED uploads
           \/ answer = "processing" /\ Upload(t) /\ token = next
           \/ answer \notin {"published", "processing"} /\ UNCHANGED platform
           \/ /\ answer \notin {"published", "processing"} /\ t \in unsure'
              /\ answer \in {"transient", "wait"} => t \in lost'
              /\ (Show(t, 1) /\ UNCHANGED uploads) \/ Upload(t)
           \/ answer # "processing" /\ t \in unsure' /\ t \in lost' /\ Show(t, 2) /\ UNCHANGED uploads
  <2>1. CASE Says("published", 0) /\ Show(t, 1) /\ UNCHANGED uploads
    BY <1>5, <2>1
  <2>2. CASE Says("processing", next) /\ Upload(t)
    BY <1>2, <1>5, <2>2
  <2>3. ASSUME NEW answer \in {"transient", "refused", "wait"}, Says(answer, 0),
               \/ UNCHANGED platform
               \/ Show(t, 1) /\ UNCHANGED uploads /\ Untold(t, answer # "refused")
               \/ Upload(t) /\ Untold(t, answer # "refused")
        PROVE  \/ UNCHANGED platform
               \/ /\ t \in unsure' /\ (answer \in {"transient", "wait"} => t \in lost')
                  /\ (Show(t, 1) /\ UNCHANGED uploads) \/ Upload(t)
    <3>1. Untold(t, answer # "refused") => t \in unsure' /\ (answer # "refused" => t \in lost')
      BY <1>4
    <3> QED
      BY <2>3, <3>1
  <2>4. ASSUME NEW answer \in {"transient", "refused", "wait"}
        PROVE  answer \in Answers /\ answer \notin {"published", "processing"}
    BY <1>5
  <2>5. CASE \E answer \in {"transient", "refused", "wait"} :
               /\ Says(answer, 0)
               /\ \/ UNCHANGED platform
                  \/ Show(t, 1) /\ UNCHANGED uploads /\ Untold(t, answer # "refused")
                  \/ Upload(t) /\ Untold(t, answer # "refused")
    BY <1>5, <2>3, <2>4, <2>5
  <2>6. CASE \E answer \in {"transient", "refused", "wait", "published"} :
               Says(answer, 0) /\ Show(t, 2) /\ Untold(t, TRUE) /\ UNCHANGED uploads
    <3>1. t \in unsure' /\ t \in lost'
      BY <1>4, <2>6
    <3>2. \A answer \in {"transient", "refused", "wait", "published"} : answer \in Answers /\ answer # "processing"
      BY <1>5
    <3> QED
      BY <1>5, <2>6, <3>1, <3>2
  <2> QED
    BY <1>3, <2>1, <2>2, <2>5, <2>6
<1> QED
  BY <1>1, <1>6 DEF Says, next

\* The sweeps that do not move keep their uploads.
LEMMA OthersTyped ==
  ASSUME SweepsTyped, UploadsGrow, NEW s \in Sweeps, \A v \in Sweeps \ {s} : sweep'[v] = sweep[v],
         sweep' \in [Sweeps -> Sweep], TokensOf(s)', At(s, "settle")' => sweep'[s].answer \in {"PUBLISHED", "FAILED"}
  PROVE  SweepsTyped'
<1>1. ASSUME NEW v \in Sweeps \ {s}
      PROVE  TokensOf(v)' /\ (At(v, "settle")' => sweep'[v].answer \in {"PUBLISHED", "FAILED"})
  BY DEF SweepsTyped, Tokens, TokensOf, At, On, UploadsGrow, Settles
<1> QED
  BY <1>1 DEF SweepsTyped, Tokens, Settles

\* A sweep that holds no row and is to ask of none.
LEMMA AloneTyped ==
  ASSUME NEW s \in Sweeps, sweep'[s].pc \notin {"processing", "polled", "called"}
  PROVE  TokensOf(s)'
  BY DEF TokensOf, At

LEMMA Next1Typed ==
  ASSUME SweepsTyped, UploadsGrow, NEW s \in Sweeps, NEW t \in Targets, Next1(s, t), ~At(s, "settle")
  PROVE  SweepsTyped'
<1>1. /\ sweep'[s].pc = sweep[s].pc /\ sweep'[s].todo = sweep[s].todo \ {t} /\ sweep'[s].on = {}
      /\ \A u \in Targets \ {t} : sweep'[s].seen[u] = sweep[s].seen[u]
  BY Next1Shape, HandledShape
<1>2. TokensOf(s)'
  BY <1>1 DEF SweepsTyped, Tokens, TokensOf, At, On, UploadsGrow
<1> QED
  BY <1>1, <1>2, Next1Shape, OthersTyped DEF At

LEMMA BackTyped ==
  ASSUME SweepsTyped, UploadsGrow, NEW s \in Sweeps, NEW t \in Targets,
         (At(s, "polled") /\ Back(s, t, "processing")) \/ Back(s, t, "targets")
  PROVE  SweepsTyped'
<1>1. CASE At(s, "polled") /\ Back(s, t, "processing")
  <2>1. TokensOf(s)'
    BY <1>1, BackShape DEF SweepsTyped, Tokens, TokensOf, At, On, UploadsGrow, Steps
  <2> QED
    BY <1>1, <2>1, BackShape, OthersTyped DEF At, Steps
<1>2. CASE Back(s, t, "targets")
  BY <1>2, BackShape, AloneTyped, OthersTyped DEF At, Steps
<1> QED
  BY <1>1, <1>2

LEMMA IdleKept ==
  ASSUME SweepsTyped, UploadsGrow, NEW s \in Sweeps, sweep' = [sweep EXCEPT ![s] = Idle]
  PROVE  SweepsTyped'
  BY IdleShape, IdleTyped, AloneTyped, OthersTyped DEF At

LEMMA CopiesTyped ==
  ASSUME RowsTyped, NEW found \in SUBSET Targets
  PROVE  /\ NoCopies \in [Targets -> Copy]
         /\ TryCopies(found) \in [Targets -> Copy]
         /\ UploadCopies(found) \in [Targets -> Copy]
         /\ \A t \in found : UploadCopies(found)[t].token = row[t].token
<1>1. NoCopy \in Copy
  BY DEF NoCopy, Copy
<1>2. \A t \in Targets : row[t] \in Row
  BY DEF RowsTyped
<1>3. ASSUME NEW t \in Targets
      PROVE  /\ TryCopies(found)[t] \in Copy /\ UploadCopies(found)[t] \in Copy
             /\ t \in found => UploadCopies(found)[t].token = row[t].token
  <2> DEFINE r == row[t]
             w == r.attempts > 0 \/ r.wait # "null"
             x == [NoCopy EXCEPT !.attempts = r.attempts, !.since = r.since, !.waited = w]
             y == [NoCopy EXCEPT !.since = r.since, !.token = r.token]
  <2>1. TryCopies(found)[t] = (IF t \in found THEN x ELSE NoCopy)
        /\ UploadCopies(found)[t] = (IF t \in found THEN y ELSE NoCopy)
    BY DEF TryCopies, UploadCopies
  <2>2. r.attempts \in Nat /\ r.since \in {"null", "young", "old"} /\ r.token \in Nat
    BY <1>2 DEF Row
  <2>3. w \in BOOLEAN
    OBVIOUS
  <2> HIDE DEF w, r
  <2>4. x \in Copy /\ y \in Copy /\ y.token = r.token
    BY <2>2, <2>3 DEF NoCopy, Copy
  <2> HIDE DEF x, y
  <2> QED
    BY <1>1, <2>1, <2>4 DEF r
<1> QED
  BY <1>1, <1>3 DEF NoCopies, TryCopies, UploadCopies

LEMMA StepSweeps ==
  ASSUME Typed, NEW s \in Sweeps, Step(s) \/ Crash(s)
  PROVE  SweepsTyped'
<1>0. RowsTyped /\ SweepsTyped /\ RestTyped /\ UploadsGrow
  BY StepUploads DEF Typed
<1>1. \A t \in Targets : NoCopies \in [Targets -> Copy] /\ row[t] \in Row
  BY <1>0, CopiesTyped DEF RowsTyped
<1>2. CASE Begin(s)
  <2>1. Read(s, "stuck", Stuck, NoCopies, "none") /\ Stuck \in SUBSET Targets
    BY <1>2 DEF Begin, Stuck
  <2>2. sweep' \in [Sweeps -> Sweep] /\ (\A v \in Sweeps \ {s} : sweep'[v] = sweep[v]) /\ sweep'[s].pc = "stuck"
    BY <1>0, <2>1, CopiesTyped, ReadShape DEF Steps, Verdicts
  <2> QED
    BY <1>0, <2>2, AloneTyped, OthersTyped DEF At
<1>3. CASE ReadProcessing(s)
  <2>1. Read(s, "processing", Processing, UploadCopies(Processing), "none") /\ Processing \in SUBSET Targets
    BY <1>3 DEF ReadProcessing, Processing
  <2>2. /\ sweep' \in [Sweeps -> Sweep] /\ (\A v \in Sweeps \ {s} : sweep'[v] = sweep[v])
        /\ sweep'[s].pc = "processing" /\ sweep'[s].todo = Processing /\ sweep'[s].on = {}
        /\ sweep'[s].seen = UploadCopies(Processing)
    BY <1>0, <2>1, CopiesTyped, ReadShape DEF Steps, Verdicts
  <2>3. \A t \in Processing : UploadCopies(Processing)[t].token \in DOMAIN uploads[t]
    BY <1>0, <2>1, CopiesTyped DEF Processing, RowsTyped, RowTyped
  <2>4. TokensOf(s)'
    BY <1>0, <2>2, <2>3 DEF TokensOf, At, On, UploadsGrow
  <2> QED
    BY <1>0, <2>2, <2>4, OthersTyped DEF At
<1>4. CASE ReadPending(s)
  <2> DEFINE verdict == IF Pending = {} THEN "none" ELSE Verdict(post)
  <2>1. Read(s, "targets", Pending, TryCopies(Pending), verdict) /\ Pending \in SUBSET Targets
    BY <1>4 DEF ReadPending, Pending
  <2>2. verdict \in Verdicts
    BY DEF Verdict, Verdicts
  <2> HIDE DEF verdict
  <2>3. sweep' \in [Sweeps -> Sweep] /\ (\A v \in Sweeps \ {s} : sweep'[v] = sweep[v]) /\ sweep'[s].pc = "targets"
    BY <1>0, <2>1, <2>2, CopiesTyped, ReadShape DEF Steps
  <2> QED
    BY <1>0, <2>3, AloneTyped, OthersTyped DEF At
<1>5. CASE ReadTargets(s)
  <2> DEFINE answer == IF \E t \in Targets : row[t].status = "PUBLISHED" THEN "PUBLISHED" ELSE "FAILED"
             x == [Idle EXCEPT !.pc = "settle", !.answer = answer]
  <2>1. sweep' = [sweep EXCEPT ![s] = x] \/ sweep' = [sweep EXCEPT ![s] = Idle]
    BY <1>5 DEF ReadTargets
  <2>2. answer \in {"PUBLISHED", "FAILED"}
    OBVIOUS
  <2> HIDE DEF answer
  <2>3. x \in Sweep /\ x.pc = "settle" /\ x.answer = answer
    BY <2>2, IdleTyped DEF Sweep, Steps, Idle
  <2> HIDE DEF x
  <2>4. CASE sweep' = [sweep EXCEPT ![s] = x]
    <3>1. sweep'[s] = x /\ sweep' \in [Sweeps -> Sweep] /\ \A v \in Sweeps \ {s} : sweep'[v] = sweep[v]
      BY <1>0, <2>3, <2>4 DEF SweepsTyped
    <3> QED
      BY <1>0, <2>2, <2>3, <3>1, AloneTyped, OthersTyped
  <2> QED
    BY <1>0, <2>1, <2>4, IdleKept
<1>6. CASE SettlePost(s) \/ Crash(s)
  BY <1>0, <1>6, IdleKept DEF SettlePost, Crash
<1>7. ASSUME NEW t \in Targets,
             \/ FailStuck(s, t) \/ GiveUp(s, t) \/ Withdraw(s, t) \/ Early(s, t) \/ Miss(s, t) \/ Hinder(s, t)
             \/ Claim(s, t) /\ ~Claimable(t)
      PROVE  SweepsTyped'
  <2>1. Next1(s, t) /\ ~At(s, "settle")
    BY <1>7 DEF FailStuck, GiveUp, Withdraw, Early, Miss, Hinder, Claim, Due, Ready, At
  <2> QED
    BY <1>0, <2>1, Next1Typed
<1>8. ASSUME NEW t \in Targets, Polled(s, t) \/ Record(s, t)
      PROVE  SweepsTyped'
  BY <1>0, <1>8, BackTyped DEF Polled, Record
<1>9. ASSUME NEW t \in Targets, Poll(s, t)
      PROVE  SweepsTyped'
  <2>1. PICK answer \in Heard \cup {"refused"} : Called(s, t, "polled", answer, sweep[s].seen[t].token)
    BY <1>9, PollShape
  <2>2. sweep[s].seen[t].token \in DOMAIN uploads[t] /\ At(s, "processing")
    BY <1>9, PollShape
  <2>3. sweep[s].seen[t].token \in Nat /\ answer \in Answers
    BY <1>0 DEF SweepsTyped, Sweep, Copy, Heard, Answers
  <2>4. /\ sweep' \in [Sweeps -> Sweep] /\ (\A v \in Sweeps \ {s} : sweep'[v] = sweep[v])
        /\ sweep'[s].pc = "polled" /\ sweep'[s].on = {t} /\ sweep'[s].todo = sweep[s].todo
        /\ sweep'[s].seen[t].token = sweep[s].seen[t].token
        /\ \A u \in Targets \ {t} : sweep'[s].seen[u] = sweep[s].seen[u]
    BY <1>0, <2>1, <2>3, CalledShape DEF Steps
  <2>5. DOMAIN uploads[t] \subseteq DOMAIN uploads'[t] /\ TokensOf(s)
    BY <1>0 DEF UploadsGrow, SweepsTyped, Tokens
  <2>6. ASSUME NEW u \in Targets \ {t}, u \in sweep[s].todo
        PROVE  sweep'[s].seen[u].token \in DOMAIN uploads'[u]
    BY <1>0, <2>2, <2>4, <2>5, <2>6 DEF TokensOf, At, UploadsGrow
  <2>7. sweep'[s].seen[t].token \in DOMAIN uploads'[t]
    BY <2>2, <2>4, <2>5
  <2>8. TokensOf(s)'
    BY <2>4, <2>6, <2>7 DEF TokensOf, At, On
  <2> QED
    BY <1>0, <2>4, <2>8, OthersTyped DEF At
<1>10. ASSUME NEW t \in Targets, Claim(s, t), Claimable(t)
       PROVE  SweepsTyped'
  <2>1. Called(s, t, "call", "none", 0)
    BY <1>10 DEF Claim
  <2>2. /\ sweep' \in [Sweeps -> Sweep] /\ (\A v \in Sweeps \ {s} : sweep'[v] = sweep[v]) /\ sweep'[s].pc = "call"
    BY <1>0, <2>1, CalledShape DEF Steps, Answers
  <2> QED
    BY <1>0, <2>2, AloneTyped, OthersTyped DEF At
<1>11. ASSUME NEW t \in Targets, Call(s, t)
       PROVE  SweepsTyped'
  <2>1. PICK answer \in Answers, token \in Nat :
          /\ Called(s, t, "called", answer, token)
          /\ answer = "processing" => Upload(t) /\ token = Len(uploads[t]) + 1
    BY <1>11, CallShape
  <2>2. /\ sweep' \in [Sweeps -> Sweep] /\ (\A v \in Sweeps \ {s} : sweep'[v] = sweep[v])
        /\ sweep'[s].pc = "called" /\ sweep'[s].on = {t} /\ sweep'[s].answer = answer
        /\ sweep'[s].seen[t].token = token
    BY <1>0, <2>1, CalledShape DEF Steps
  <2>3. answer = "processing" => token \in DOMAIN uploads'[t]
    <3>1. Len(uploads[t]) \in Nat
      BY <1>0 DEF RestTyped
    <3> QED
      BY <1>0, <2>1, <3>1, UploadShape
  <2>4. TokensOf(s)'
    BY <2>2, <2>3 DEF TokensOf, At, On
  <2> QED
    BY <1>0, <2>2, <2>4, OthersTyped DEF At
<1> QED
  BY <1>2, <1>3, <1>4, <1>5, <1>6, <1>7, <1>8, <1>9, <1>10, <1>11 DEF Step

LEMMA StepRows ==
  ASSUME Typed, NEW s \in Sweeps, Step(s) \/ Crash(s)
  PROVE  RowsTyped'
<1>0. RowsTyped /\ SweepsTyped /\ RestTyped /\ UploadsGrow
  BY StepUploads DEF Typed
<1>1. CASE UNCHANGED row
  BY <1>0, <1>1, RowsKept
<1>2. ASSUME NEW t \in Targets, FailStuck(s, t) \/ GiveUp(s, t) \/ Miss(s, t) \/ Hinder(s, t)
      PROVE  RowsTyped'
  <2>1. row[t] \in Row /\ RowTyped(t)
    BY <1>0 DEF RowsTyped
  <2>2. Write(t, Failed(row[t])) \/ Write(t, Later(row[t])) \/ UNCHANGED row
    BY <1>2 DEF FailStuck, GiveUp, Miss, Hinder
  <2>3. CASE Write(t, Failed(row[t]))
    BY <1>0, <2>1, <2>3, Forms, WriteTyped
  <2>4. CASE Write(t, Later(row[t]))
    BY <1>0, <2>1, <2>4, Forms, WriteTyped DEF RowTyped
  <2> QED
    BY <1>1, <2>2, <2>3, <2>4
<1>3. ASSUME NEW t \in Targets, Withdraw(s, t)
      PROVE  RowsTyped'
  <2> DEFINE x == [row[t] EXCEPT !.status = "SKIPPED"]
  <2>1. row[t] \in Row /\ RowTyped(t)
    BY <1>0 DEF RowsTyped
  <2>2. Write(t, x)
    BY <1>3 DEF Withdraw
  <2>3. x \in Row /\ x.status = "SKIPPED" /\ x.token = row[t].token
    BY <2>1 DEF Row, Status
  <2> HIDE DEF x
  <2> QED
    BY <1>0, <2>1, <2>2, <2>3, WriteTyped DEF RowTyped
<1>4. ASSUME NEW t \in Targets, Claim(s, t), Claimable(t)
      PROVE  RowsTyped'
  <2>1. PICK new \in Row : Write(t, new) /\ new.status = "PUBLISHING" /\ new.token = row[t].token
    BY <1>0, <1>4, ClaimShape
  <2> QED
    BY <1>0, <2>1, WriteTyped DEF RowsTyped, RowTyped
<1>5. ASSUME NEW t \in Targets, Polled(s, t)
      PROVE  RowsTyped'
  <2>1. PICK new \in Row :
           /\ Write(t, new)
           /\ sweep[s].answer = "published" => new.status = "PUBLISHED" /\ new.token = 0
           /\ sweep[s].answer = "processing" => new.status = "PUBLISHING" /\ new.token = sweep[s].seen[t].token
           /\ sweep[s].answer \in {"transient", "wait"} => new.status = row[t].status /\ new.token = row[t].token
           /\ sweep[s].answer \notin {"published", "processing", "transient", "wait"} => new.status = "FAILED" /\ new.token = 0
    BY <1>0, <1>5, PolledShape
  <2>2. sweep[s].seen[t].token \in DOMAIN uploads[t]
    BY <1>0, <1>5 DEF Polled, SweepsTyped, Tokens, TokensOf
  <2> QED
    BY <1>0, <2>1, <2>2, WriteTyped DEF RowsTyped, RowTyped
<1>6. ASSUME NEW t \in Targets, Record(s, t)
      PROVE  RowsTyped'
  <2>1. PICK new \in Row :
           /\ Write(t, new)
           /\ sweep[s].answer = "published" => new.status = "PUBLISHED" /\ new.token = 0
           /\ sweep[s].answer = "processing" => new.status = "PUBLISHING" /\ new.token = sweep[s].seen[t].token
           /\ sweep[s].answer \notin {"published", "processing"} =>
                \/ new.status = "PENDING" /\ new.token = row[t].token
                \/ new.status = "FAILED" /\ new.token = 0
    BY <1>0, <1>6, RecordShape
  <2>2. sweep[s].answer = "processing" => sweep[s].seen[t].token \in DOMAIN uploads[t]
    BY <1>0, <1>6 DEF Record, SweepsTyped, Tokens, TokensOf
  <2> QED
    BY <1>0, <2>1, <2>2, WriteTyped DEF RowsTyped, RowTyped
<1>7. \/ UNCHANGED row
      \/ \E t \in Targets : \/ FailStuck(s, t) \/ GiveUp(s, t) \/ Miss(s, t) \/ Hinder(s, t)
                            \/ Withdraw(s, t) \/ Polled(s, t) \/ Record(s, t)
                            \/ Claim(s, t) /\ Claimable(t)
  BY DEF Step, Begin, ReadProcessing, ReadPending, ReadTargets, SettlePost, Poll, Early, Claim, Call, Crash
<1> QED
  BY <1>1, <1>2, <1>3, <1>4, <1>5, <1>6, <1>7

\* The owner and the clock.
Outside ==
  \/ Schedule \/ Leave \/ Request \/ \E t \in Targets : ChooseRead(t)
  \/ SlotComes \/ GrowsLate
  \/ \E t \in Targets : WaitOver(t) \/ Still(t) \/ ThreeHours(t) \/ Process(t)

LEMMA ProcessShape ==
  ASSUME NEW t \in Targets, Process(t)
  PROVE  /\ Show(t, 1)
         /\ \E n \in DOMAIN uploads[t] : uploads[t][n] = "running" /\ Becomes(t, n, "shown")
  BY DEF Process, Becomes

LEMMA OutsideUploads ==
  ASSUME RestTyped, Outside
  PROVE  uploads' \in [Targets -> Seq({"running", "shown", "broken"})] /\ out' \in [Targets -> 0..2] /\ UploadsGrow
<1>1. CASE UNCHANGED <<uploads, out>>
  BY <1>1, SameUploads DEF RestTyped
<1>2. ASSUME NEW t \in Targets, Process(t)
      PROVE  uploads' \in [Targets -> Seq({"running", "shown", "broken"})] /\ out' \in [Targets -> 0..2] /\ UploadsGrow
  BY <1>2, ProcessShape, BecomesShape, ShowTyped
<1>3. UNCHANGED <<uploads, out>> \/ \E t \in Targets : Process(t)
  BY DEF Outside, Schedule, Leave, Request, RetryFailed, Choose, ChooseRead, SlotComes, GrowsLate, WaitOver, Still,
         ThreeHours, platform
<1> QED
  BY <1>1, <1>2, <1>3

LEMMA PostEdits ==
  ASSUME NEW p \in Post, NEW status \in PostStatus
  PROVE  /\ [p EXCEPT !.status = status] \in Post
         /\ [p EXCEPT !.status = status, !.due = FALSE, !.late = FALSE] \in Post
         /\ [p EXCEPT !.deleted = TRUE] \in Post /\ [p EXCEPT !.due = TRUE] \in Post /\ [p EXCEPT !.late = TRUE] \in Post
  BY DEF Post

LEMMA OutsideRemembers ==
  ASSUME Outside
  PROVE  Remembers
<1>1. CASE RetryFailed
  BY <1>1 DEF RetryFailed, Remembers
<1>2. CASE \E t \in Targets : Choose(t)
  BY <1>2 DEF Choose, Remembers
<1>3. CASE ~RetryFailed /\ ~\E t \in Targets : Choose(t)
  <2>1. UNCHANGED history
    BY <1>3 DEF Outside, Schedule, Leave, Request, ChooseRead, SlotComes, GrowsLate, WaitOver, Still, ThreeHours, Process
  <2> QED
    BY <2>1 DEF Remembers
<1> QED
  BY <1>1, <1>2, <1>3

LEMMA OutsideRest ==
  ASSUME RestTyped, Outside
  PROVE  RestTyped'
<1>0. post \in Post /\ {"DRAFT", "SCHEDULED", "PAUSED", "CANCELED"} \subseteq PostStatus
  BY DEF RestTyped, PostStatus
<1>1. uploads' \in [Targets -> Seq({"running", "shown", "broken"})] /\ out' \in [Targets -> 0..2]
  BY OutsideUploads
<1>2. fuel' \in 0..MaxTrouble
  BY TroubleTyped DEF Outside, Schedule, Leave, Request, RetryFailed, Choose, ChooseRead, SlotComes, GrowsLate, WaitOver,
                      Still, ThreeHours, Process
<1>3. lost' \subseteq unsure' /\ unsure' \subseteq Targets /\ renewed' \subseteq Targets
  BY OutsideRemembers, RemembersTyped
<1>4. clicks' \in 0..MaxClicks
  <2>1. Click \/ UNCHANGED clicks
    BY DEF Outside, Schedule, Leave, Request, RetryFailed, Choose, ChooseRead, SlotComes, GrowsLate, WaitOver, Still,
           ThreeHours, Process, owner
  <2> QED
    BY <2>1, CrossPostAssumption DEF RestTyped, Click
<1>5. asked' \in [retry : BOOLEAN, choose : SUBSET Targets]
  <2>1. \/ UNCHANGED asked
        \/ \E b \in BOOLEAN : asked' = [asked EXCEPT !.retry = b]
        \/ \E t \in Targets : asked' = [asked EXCEPT !.choose = @ \cup {t}] \/ asked' = [asked EXCEPT !.choose = @ \ {t}]
    BY DEF Outside, Schedule, Leave, Request, RetryFailed, Choose, ChooseRead, SlotComes, GrowsLate, WaitOver, Still,
           ThreeHours, Process, owner
  <2> QED
    BY <2>1 DEF RestTyped
<1>6. post' \in Post
  <2>1. CASE Schedule
    BY <1>0, <2>1, PostEdits DEF Schedule
  <2>2. CASE Leave
    BY <1>0, <2>2, PostEdits DEF Leave
  <2>3. CASE SlotComes
    BY <1>0, <2>3, PostEdits DEF SlotComes
  <2>4. CASE GrowsLate
    BY <1>0, <2>4, PostEdits DEF GrowsLate
  <2>5. CASE UNCHANGED post
    BY <1>0, <2>5
  <2> QED
    BY <2>1, <2>2, <2>3, <2>4, <2>5
       DEF Outside, Request, RetryFailed, Choose, ChooseRead, WaitOver, Still, ThreeHours, Process
<1> QED
  BY <1>1, <1>2, <1>3, <1>4, <1>5, <1>6 DEF RestTyped

LEMMA OutsideRows ==
  ASSUME RowsTyped, RestTyped, Outside
  PROVE  RowsTyped'
<1>0. UploadsGrow
  BY OutsideUploads
<1>1. CASE UNCHANGED row
  BY <1>0, <1>1, RowsKept
<1>2. CASE RetryFailed
  <2>1. row' \in [Targets -> Row]
    BY <1>2, RetryShape
  <2>2. ASSUME NEW t \in Targets  PROVE RowTyped(t)'
    BY <1>0, <1>2, RetryShape DEF RowsTyped, RowTyped, UploadsGrow
  <2> QED
    BY <2>1, <2>2 DEF RowsTyped
<1>3. ASSUME NEW t \in Targets, Choose(t)
      PROVE  RowsTyped'
  <2>1. PICK new \in Row : Write(t, new) /\ new.status = "PENDING" /\ new.token \in {0, row[t].token}
    BY <1>3, ChooseShape
  <2> QED
    BY <1>0, <2>1, WriteTyped DEF RowsTyped, RowTyped
<1>4. ASSUME NEW t \in Targets, WaitOver(t) \/ Still(t) \/ ThreeHours(t)
      PROVE  RowsTyped'
  <2>1. row' \in [Targets -> Row]
    BY <1>4, ClockShape
  <2>2. ASSUME NEW u \in Targets  PROVE RowTyped(u)'
    BY <1>0, <1>4, ClockShape DEF RowsTyped, RowTyped, UploadsGrow
  <2> QED
    BY <2>1, <2>2 DEF RowsTyped
<1>5. UNCHANGED row \/ RetryFailed \/ \E t \in Targets : Choose(t) \/ WaitOver(t) \/ Still(t) \/ ThreeHours(t)
  BY DEF Outside, Schedule, Leave, Request, ChooseRead, SlotComes, GrowsLate, Process
<1> QED
  BY <1>1, <1>2, <1>3, <1>4, <1>5

LEMMA OutsideSweeps ==
  ASSUME SweepsTyped, RestTyped, Outside
  PROVE  SweepsTyped'
<1>1. UNCHANGED sweep
  BY DEF Outside, Schedule, Leave, Request, RetryFailed, Choose, ChooseRead, SlotComes, GrowsLate, WaitOver, Still,
         ThreeHours, Process
<1> QED
  BY <1>1, OutsideUploads DEF SweepsTyped, Tokens, TokensOf, Settles, At, On, UploadsGrow

LEMMA NextSplit ==
  ASSUME Next
  PROVE  (\E s \in Sweeps : Step(s) \/ Crash(s)) \/ Outside
  BY DEF Next, Outside

LEMMA TypedNext == Typed /\ [Next]_vars => Typed'
<1> SUFFICES ASSUME Typed, [Next]_vars
             PROVE  Typed'
  OBVIOUS
<1>1. CASE \E s \in Sweeps : Step(s) \/ Crash(s)
  BY <1>1, StepRows, StepSweeps, StepRest DEF Typed
<1>2. CASE Outside
  BY <1>2, OutsideRows, OutsideSweeps, OutsideRest DEF Typed
<1>3. CASE UNCHANGED vars
  BY <1>3 DEF vars, owner, platform, history, Typed, RowsTyped, RowTyped, SweepsTyped, Tokens, TokensOf, Settles, At, On, RestTyped
<1> QED
  BY <1>1, <1>2, <1>3, NextSplit

LEMMA TypedInit == Init => Typed
<1> SUFFICES ASSUME Init
             PROVE  Typed
  OBVIOUS
<1>1. PICK channel \in [Targets -> Channels] : row = [t \in Targets |-> NewRow(channel[t])]
  BY DEF Init
<1>2. RowsTyped
  BY <1>1, NewRowShape DEF RowsTyped, RowTyped
<1>3. sweep = [s \in Sweeps |-> Idle]
  BY DEF Init
<1>4. SweepsTyped
  BY <1>3, IdleTyped DEF SweepsTyped, Tokens, TokensOf, Settles, At
<1>5. RestTyped
  <2>1. post \in Post
    BY DEF Init, Post, PostStatus
  <2>2. asked \in [retry : BOOLEAN, choose : SUBSET Targets]
    BY DEF Init
  <2>3. uploads \in [Targets -> Seq({"running", "shown", "broken"})]
    BY DEF Init
  <2>4. out \in [Targets -> 0..2] /\ lost \subseteq unsure /\ unsure \subseteq Targets /\ renewed \subseteq Targets
        /\ clicks \in 0..MaxClicks /\ fuel \in 0..MaxTrouble
    BY CrossPostAssumption DEF Init
  <2> QED
    BY <2>1, <2>2, <2>3, <2>4 DEF RestTyped
<1> QED
  BY <1>2, <1>4, <1>5 DEF Typed

\* Every target, sweep, request and upload has the state the model gives it, and a row that
\* points to an upload points to one its platform took and is not at an end
\* (crosspost.ts: settle, pollProcessing, failTarget).
THEOREM CrossTypeCorrect == Spec => []TypeOK
<1>1. Spec => []Typed
  BY TypedInit, TypedNext, PTL DEF Spec
<1>2. Typed => TypeOK
  BY TypedIsType
<1> QED
  BY <1>1, <1>2, PTL

-----------------------------------------------------------------------------
(* On the channel once *)

Running(t, n) == n \in DOMAIN uploads[t] /\ uploads[t][n] = "running"
\* t is on its channel, or an upload may still put it there.
Spent(t) == out[t] > 0 \/ \E n \in DOMAIN uploads[t] : Running(t, n)
Holds(s, t) == On(s, t) /\ sweep[s].pc \in {"call", "called"}

\* One upload at most is under way, and none once the post is out.
Single(t) ==
  /\ out[t] <= 1
  /\ \A n \in DOMAIN uploads[t] : Running(t, n) => out[t] = 0 /\ \A m \in DOMAIN uploads[t] : Running(t, m) => m = n
\* What the row says of t.
RowKnows(t) ==
  /\ Spent(t) => row[t].status \in {"PUBLISHING", "PUBLISHED"}
  /\ row[t].status \in {"PENDING", "SKIPPED"} => row[t].token = 0
  /\ row[t].status = "PUBLISHING" /\ row[t].token # 0 /\ Spent(t) => uploads[t][row[t].token] # "broken"
\* What the sweep that has claimed t knows.
HandKnows(s, t) ==
  Holds(s, t) =>
    /\ row[t].status = "PUBLISHING" /\ row[t].token = 0
    /\ \A v \in Sweeps : Holds(v, t) => v = s
    /\ Spent(t) => /\ At(s, "called") /\ sweep[s].answer \in {"published", "processing"}
                   /\ sweep[s].answer = "processing" => uploads[t][sweep[s].seen[t].token] # "broken"
\* A poll hears a refusal of t only of an upload that broke.
PollKnows(s, t) ==
  At(s, "polled") /\ On(s, t) /\ sweep[s].answer \notin Heard => uploads[t][sweep[s].seen[t].token] = "broken"
Known(t) ==
  /\ Single(t) /\ RowKnows(t)
  /\ \A s \in Sweeps : HandKnows(s, t) /\ PollKnows(s, t)
OnceKnown == \A t \in Targets : t \notin unsure => Known(t)

\* A step that is about another target.
LEMMA KnownElsewhere ==
  ASSUME NEW t \in Targets, Known(t), uploads'[t] = uploads[t], out'[t] = out[t],
         row'[t].status = row[t].status, row'[t].token = row[t].token,
         \A v \in Sweeps : sweep'[v] = sweep[v] \/ sweep'[v].on # {t}
  PROVE  Known(t)'
<1>1. Single(t)'
  BY DEF Known, Single, Running
<1>2. Spent(t)' <=> Spent(t)
  BY DEF Spent, Running
<1>3. RowKnows(t)'
  BY <1>2 DEF Known, RowKnows
<1>4. \A v \in Sweeps : Holds(v, t)' => Holds(v, t) /\ sweep'[v] = sweep[v]
  BY DEF Holds, On
<1>5. ASSUME NEW v \in Sweeps  PROVE HandKnows(v, t)' /\ PollKnows(v, t)'
  <2>1. HandKnows(v, t)'
    BY <1>2, <1>4 DEF Known, HandKnows, At
  <2>2. PollKnows(v, t)'
    BY DEF Known, PollKnows, At, On
  <2> QED
    BY <2>1, <2>2
<1> QED
  BY <1>1, <1>3, <1>5 DEF Known

\* A write of the row of t that leaves it in nobody's hands.
LEMMA KnownWritten ==
  ASSUME NEW t \in Targets, Known(t), uploads'[t] = uploads[t], out'[t] = out[t],
         \A v \in Sweeps : sweep'[v] = sweep[v] \/ sweep'[v].on # {t},
         \A v \in Sweeps : ~Holds(v, t)',
         Spent(t) => row'[t].status \in {"PUBLISHING", "PUBLISHED"},
         row'[t].status \in {"PENDING", "SKIPPED"} => row'[t].token = 0,
         row'[t].status = "PUBLISHING" /\ row'[t].token # 0 /\ Spent(t) => uploads[t][row'[t].token] # "broken"
  PROVE  Known(t)'
<1>1. Single(t)'
  BY DEF Known, Single, Running
<1>2. Spent(t)' <=> Spent(t)
  BY DEF Spent, Running
<1>3. RowKnows(t)'
  BY <1>2 DEF RowKnows
<1>4. ASSUME NEW v \in Sweeps  PROVE HandKnows(v, t)' /\ PollKnows(v, t)'
  <2>1. HandKnows(v, t)'
    BY DEF HandKnows
  <2>2. PollKnows(v, t)'
    BY DEF Known, PollKnows, At, On
  <2> QED
    BY <2>1, <2>2
<1> QED
  BY <1>1, <1>3, <1>4 DEF Known

\* The upload under way goes out.
LEMMA KnownShown ==
  ASSUME Typed, NEW t \in Targets, Known(t), NEW n \in DOMAIN uploads[t], uploads[t][n] = "running",
         Becomes(t, n, "shown"), Show(t, 1), row'[t] = row[t],
         \A v \in Sweeps : sweep'[v] = sweep[v] \/ (~Holds(v, t)' /\ PollKnows(v, t)')
  PROVE  Known(t)'
<1>1. /\ DOMAIN uploads'[t] = DOMAIN uploads[t] /\ uploads'[t][n] = "shown"
      /\ \A m \in DOMAIN uploads[t] \ {n} : uploads'[t][m] = uploads[t][m]
  BY BecomesShape DEF Typed
<1>2. out[t] = 0 /\ \A m \in DOMAIN uploads[t] : Running(t, m) => m = n
  BY DEF Known, Single, Running
<1>3. out'[t] = 1
  BY <1>2, ShowTyped DEF Typed
<1>4. \A m \in DOMAIN uploads'[t] : ~Running(t, m)'
  BY <1>1, <1>2 DEF Running
<1>5. Single(t)'
  BY <1>3, <1>4 DEF Single
<1>6. Spent(t)
  BY DEF Spent, Running
<1>7. ASSUME NEW m \in DOMAIN uploads[t]
      PROVE  uploads'[t][m] = "broken" <=> uploads[t][m] = "broken"
  BY <1>1
<1>8. RowKnows(t)'
  BY <1>6, <1>7 DEF Known, RowKnows, Typed, RowsTyped, RowTyped
<1>9. \A v \in Sweeps : Holds(v, t)' => Holds(v, t) /\ sweep'[v] = sweep[v]
  BY DEF Holds, On
<1>10. ASSUME NEW v \in Sweeps  PROVE HandKnows(v, t)' /\ PollKnows(v, t)'
  <2>0. TokensOf(v) /\ HandKnows(v, t) /\ PollKnows(v, t)
    BY DEF Typed, SweepsTyped, Tokens, Known
  <2>1. HandKnows(v, t)'
    BY <1>6, <1>7, <1>9, <2>0 DEF HandKnows, At, TokensOf, Holds
  <2>2. CASE sweep'[v] = sweep[v]
    BY <1>7, <2>0, <2>1, <2>2 DEF PollKnows, At, On, TokensOf
  <2> QED
    BY <2>1, <2>2
<1> QED
  BY <1>5, <1>8, <1>10 DEF Known

\* An upload breaks: if it was the one under way, t is free again.
LEMMA KnownBroken ==
  ASSUME Typed, NEW t \in Targets, Known(t), NEW n \in DOMAIN uploads[t], uploads[t][n] # "shown",
         Becomes(t, n, "broken"), out'[t] = out[t], row'[t] = row[t],
         \A v \in Sweeps : sweep'[v] = sweep[v] \/ (~Holds(v, t)' /\ PollKnows(v, t)')
  PROVE  Known(t)'
<1>1. /\ DOMAIN uploads'[t] = DOMAIN uploads[t] /\ uploads'[t][n] = "broken"
      /\ \A m \in DOMAIN uploads[t] \ {n} : uploads'[t][m] = uploads[t][m]
  BY BecomesShape DEF Typed
<1>2. \A m \in DOMAIN uploads[t] : Running(t, m)' => Running(t, m)
  BY <1>1 DEF Running
<1>3. Single(t)'
  BY <1>1, <1>2 DEF Known, Single
<1>4. uploads[t][n] \in {"running", "broken"}
  BY DEF Typed, RestTyped
<1>5. CASE uploads[t][n] = "running"
  <2>1. ~Spent(t)'
    BY <1>1, <1>2, <1>5 DEF Known, Single, Spent, Running
  <2>2. ASSUME NEW m \in DOMAIN uploads[t], uploads[t][m] = "broken"
        PROVE  uploads'[t][m] = "broken"
    BY <1>1, <2>2
  <2>3. RowKnows(t)'
    BY <2>1 DEF Known, RowKnows
  <2>4. \A v \in Sweeps : Holds(v, t)' => Holds(v, t) /\ sweep'[v] = sweep[v]
    BY DEF Holds, On
  <2>5. ASSUME NEW v \in Sweeps  PROVE HandKnows(v, t)' /\ PollKnows(v, t)'
    <3>0. TokensOf(v) /\ HandKnows(v, t) /\ PollKnows(v, t)
      BY DEF Typed, SweepsTyped, Tokens, Known
    <3>1. HandKnows(v, t)'
      BY <2>1, <2>4, <3>0 DEF HandKnows
    <3>2. CASE sweep'[v] = sweep[v]
      BY <2>2, <3>0, <3>1, <3>2 DEF PollKnows, At, On, TokensOf
    <3> QED
      BY <3>1, <3>2
  <2> QED
    BY <1>3, <2>3, <2>5 DEF Known
<1>6. CASE uploads[t][n] = "broken"
  <2>1. \A m \in DOMAIN uploads[t] : uploads'[t][m] = uploads[t][m]
    BY <1>1, <1>6
  <2>2. Spent(t)' <=> Spent(t)
    BY <1>1, <2>1 DEF Spent, Running
  <2>3. RowKnows(t)'
    BY <2>1, <2>2 DEF Known, RowKnows, Typed, RowsTyped, RowTyped
  <2>4. \A v \in Sweeps : Holds(v, t)' => Holds(v, t) /\ sweep'[v] = sweep[v]
    BY DEF Holds, On
  <2>5. ASSUME NEW v \in Sweeps  PROVE HandKnows(v, t)' /\ PollKnows(v, t)'
    <3>0. TokensOf(v) /\ HandKnows(v, t) /\ PollKnows(v, t)
      BY DEF Typed, SweepsTyped, Tokens, Known
    <3>1. HandKnows(v, t)'
      BY <2>1, <2>2, <2>4, <3>0 DEF HandKnows, At, TokensOf, Holds
    <3>2. CASE sweep'[v] = sweep[v]
      BY <2>1, <3>0, <3>1, <3>2 DEF PollKnows, At, On, TokensOf
    <3> QED
      BY <3>1, <3>2
  <2> QED
    BY <1>3, <2>3, <2>5 DEF Known
<1> QED
  BY <1>4, <1>5, <1>6

-----------------------------------------------------------------------------
(* What each step does to a target whose outcomes are all known *)

\* What a step that writes one row, or asks one channel, leaves to the others.
Only(t, s) ==
  /\ \A u \in Targets \ {t} : row'[u] = row[u] /\ uploads'[u] = uploads[u] /\ out'[u] = out[u]
  /\ \A v \in Sweeps \ {s} : sweep'[v] = sweep[v]
  /\ sweep'[s].on \in {{t}, {}}

LEMMA OnlyOthers ==
  ASSUME NEW s \in Sweeps, NEW u \in Targets, Only(u, s), NEW t \in Targets \ {u}, Known(t)
  PROVE  Known(t)'
<1>1. \A v \in Sweeps : sweep'[v] = sweep[v] \/ sweep'[v].on # {t}
  BY DEF Only
<1> QED
  BY <1>1, KnownElsewhere DEF Only

LEMMA HistoryGrows ==
  ASSUME Next
  PROVE  unsure \subseteq unsure' /\ lost \subseteq lost' /\ renewed \subseteq renewed'
  BY NextSplit, StepRemembers, OutsideRemembers, RemembersKeeps

\* A sweep that drops t, writing its row or not.
LEMMA Dropped ==
  ASSUME Typed, NEW s \in Sweeps, NEW t \in Targets,
         Next1(s, t) \/ (\E step \in Steps : Back(s, t, step)),
         UNCHANGED platform, row' \in [Targets -> Row], \A u \in Targets \ {t} : row'[u] = row[u]
  PROVE  Only(t, s) /\ sweep'[s].on = {}
<1>1. sweep'[s].on = {} /\ \A v \in Sweeps \ {s} : sweep'[v] = sweep[v]
  <2>1. CASE Next1(s, t)
    BY <2>1, Next1Shape, HandledShape DEF Typed
  <2>2. CASE \E step \in Steps : Back(s, t, step)
    BY <2>2, BackShape DEF Typed
  <2> QED
    BY <2>1, <2>2
<1> QED
  BY <1>1 DEF Only, platform

\* Every action of a sweep on a target is about that target and leaves the other sweeps alone.
Acts(s, t) ==
  \/ FailStuck(s, t) \/ GiveUp(s, t) \/ Poll(s, t) \/ Polled(s, t) \/ Withdraw(s, t) \/ Early(s, t) \/ Miss(s, t)
  \/ Hinder(s, t) \/ Claim(s, t) \/ Call(s, t) \/ Record(s, t)

LEMMA ActsOnly ==
  ASSUME Typed, NEW s \in Sweeps, NEW t \in Targets, Acts(s, t)
  PROVE  Only(t, s)
<1>0. Typed' /\ row' \in [Targets -> Row]
  BY StepRows, StepSweeps, StepRest DEF Acts, Step, Typed, RowsTyped
<1>1. CASE \/ FailStuck(s, t) \/ GiveUp(s, t) \/ Polled(s, t) \/ Withdraw(s, t) \/ Early(s, t) \/ Miss(s, t)
           \/ Hinder(s, t) \/ Record(s, t) \/ (Claim(s, t) /\ ~Claimable(t))
  <2>1. \A u \in Targets \ {t} : row'[u] = row[u]
    BY <1>1 DEF FailStuck, GiveUp, Polled, Withdraw, Early, Miss, Hinder, Record, Claim, Write, Typed, RowsTyped
  <2>2. (Next1(s, t) \/ \E step \in Steps : Back(s, t, step)) /\ UNCHANGED platform
    BY <1>1 DEF FailStuck, GiveUp, Polled, Withdraw, Early, Miss, Hinder, Record, Claim, owner, Steps
  <2> QED
    BY <1>0, <2>1, <2>2, Dropped
<1>2. CASE Claim(s, t) /\ Claimable(t)
  <2>1. \A u \in Targets \ {t} : row'[u] = row[u]
    BY <1>2 DEF Claim, Write, Typed, RowsTyped
  <2>2. Called(s, t, "call", "none", 0) /\ UNCHANGED platform
    BY <1>2 DEF Claim
  <2>3. (\A v \in Sweeps \ {s} : sweep'[v] = sweep[v]) /\ sweep'[s].on = {t}
    BY <2>2, CalledShape DEF Typed, Steps, Answers
  <2> QED
    BY <2>1, <2>2, <2>3 DEF Only, platform
<1>3. CASE Poll(s, t)
  <2>1. sweep[s].seen[t].token \in DOMAIN uploads[t] /\ sweep[s].seen[t].token \in Nat
    BY <1>3, PollShape DEF Typed, SweepsTyped, Sweep, Copy
  <2>2. PICK answer \in Heard \cup {"refused"} :
          /\ Called(s, t, "polled", answer, sweep[s].seen[t].token)
          /\ \/ UNCHANGED platform
             \/ Becomes(t, sweep[s].seen[t].token, "broken") /\ UNCHANGED out
             \/ Becomes(t, sweep[s].seen[t].token, "shown") /\ Show(t, 1)
    BY <1>3, PollShape
  <2>3. answer \in Answers
    BY DEF Heard, Answers
  <2>4. (\A v \in Sweeps \ {s} : sweep'[v] = sweep[v]) /\ sweep'[s].on = {t}
    BY <2>1, <2>2, <2>3, CalledShape DEF Typed, Steps
  <2>5. \A u \in Targets \ {t} : uploads'[u] = uploads[u] /\ out'[u] = out[u]
    BY <2>1, <2>2, BecomesShape, ShowTyped DEF Typed, platform
  <2> QED
    BY <1>3, <2>4, <2>5 DEF Only, Poll
<1>4. CASE Call(s, t)
  <2>1. PICK answer \in Answers, token \in Nat :
          /\ Called(s, t, "called", answer, token)
          /\ \/ (Show(t, 1) \/ Show(t, 2)) /\ UNCHANGED uploads
             \/ Upload(t) \/ UNCHANGED platform
    BY <1>4, CallShape
  <2>2. (\A v \in Sweeps \ {s} : sweep'[v] = sweep[v]) /\ sweep'[s].on = {t}
    BY <2>1, CalledShape DEF Typed, Steps
  <2>3. \A u \in Targets \ {t} : uploads'[u] = uploads[u] /\ out'[u] = out[u]
    BY <2>1, UploadShape, ShowTyped DEF Typed, platform, Upload
  <2> QED
    BY <1>4, <2>2, <2>3 DEF Only, Call
<1> QED
  BY <1>1, <1>2, <1>3, <1>4 DEF Acts

\* A row that waits is in nobody's hands and its post is not out.
LEMMA WaitingIsFree ==
  ASSUME NEW t \in Targets, Known(t), row[t].status \notin {"PUBLISHING", "PUBLISHED"}
  PROVE  ~Spent(t) /\ \A v \in Sweeps : ~Holds(v, t)
  BY DEF Known, RowKnows, HandKnows

LEMMA KnownPolled ==
  ASSUME Typed, NEW s \in Sweeps, NEW t \in Targets, Polled(s, t), Known(t), t \notin unsure'
  PROVE  Known(t)'
<1>1. PICK new \in Row :
        /\ Write(t, new)
        /\ sweep[s].answer = "published" => new.status = "PUBLISHED" /\ new.token = 0
        /\ sweep[s].answer = "processing" => new.status = "PUBLISHING" /\ new.token = sweep[s].seen[t].token
        /\ sweep[s].answer \in {"transient", "wait"} => new.status = row[t].status /\ new.token = row[t].token
        /\ sweep[s].answer \notin {"published", "processing", "transient", "wait"} => new.status = "FAILED" /\ new.token = 0
  BY PolledShape DEF Typed
<1>2. /\ row' \in [Targets -> Row] /\ \A u \in Targets \ {t} : row'[u] = row[u]
      /\ row'[t].status = new.status /\ row'[t].token = new.token
  BY <1>1, WriteShape DEF Typed
<1>3. At(s, "polled") /\ On(s, t) /\ Back(s, t, "processing") /\ UNCHANGED platform
  BY DEF Polled
<1>4. Only(t, s) /\ sweep'[s].on = {}
  BY <1>2, <1>3, Dropped DEF Steps
<1>5. \A v \in Sweeps : sweep'[v] = sweep[v] \/ sweep'[v].on # {t}
  BY <1>4 DEF Only
<1>6. sweep[s].answer \in {"transient", "wait"} \/ Unmoved(s, t)
  BY DEF Polled, Doubt
<1>7. CASE sweep[s].answer \in {"transient", "wait"}
  BY <1>1, <1>2, <1>3, <1>4, <1>5, <1>7, KnownElsewhere DEF platform
<1>8. CASE sweep[s].answer \notin {"transient", "wait"}
  <2>1. row[t].status = "PUBLISHING" /\ row[t].token = sweep[s].seen[t].token
    BY <1>6, <1>8 DEF Unmoved
  <2>2. row[t].token # 0
    <3>1. sweep[s].seen[t].token \in DOMAIN uploads[t] /\ uploads[t] \in Seq({"running", "shown", "broken"})
      BY <1>3 DEF Typed, SweepsTyped, Tokens, TokensOf, RestTyped
    <3> QED
      BY <2>1, <3>1
  <2>3. \A v \in Sweeps : ~Holds(v, t)
    BY <2>2 DEF Known, HandKnows
  <2>4. \A v \in Sweeps : ~Holds(v, t)'
    BY <1>5, <2>3 DEF Holds, On
  <2>5. Spent(t) => row'[t].status \in {"PUBLISHING", "PUBLISHED"}
    <3>1. CASE sweep[s].answer \in {"published", "processing"}
      BY <1>1, <1>2, <3>1
    <3>2. CASE sweep[s].answer \notin {"published", "processing"}
      <4>1. uploads[t][sweep[s].seen[t].token] = "broken"
        BY <1>3, <1>8, <3>2 DEF Known, PollKnows, Heard
      <4> QED
        BY <2>1, <2>2, <4>1 DEF Known, RowKnows
    <3> QED
      BY <3>1, <3>2
  <2>6. row'[t].status \notin {"PENDING", "SKIPPED"}
    BY <1>1, <1>2, <1>8
  <2>7. row'[t].status = "PUBLISHING" => row'[t].token = row[t].token
    BY <1>1, <1>2, <1>8, <2>1
  <2>8. row'[t].status = "PUBLISHING" /\ row'[t].token # 0 /\ Spent(t) => uploads[t][row'[t].token] # "broken"
    BY <2>1, <2>7 DEF Known, RowKnows
  <2> QED
    BY <1>3, <1>4, <1>5, <2>4, <2>5, <2>6, <2>8, KnownWritten DEF platform
<1> QED
  BY <1>7, <1>8

\* A write that goes over a row that still waits, and a sweep that leaves it.
LEMMA KnownClosed ==
  ASSUME Typed, NEW s \in Sweeps, NEW t \in Targets, Known(t), UNCHANGED platform, Next1(s, t),
         NEW new \in Row, Write(t, new),
         \/ row[t].status = "PENDING" /\ new.status \in {"SKIPPED", "FAILED"} /\ new.token \in {0, row[t].token}
         \/ new.status = row[t].status /\ new.token = row[t].token
  PROVE  Known(t)'
<1>1. /\ row' \in [Targets -> Row] /\ \A u \in Targets \ {t} : row'[u] = row[u]
      /\ row'[t].status = new.status /\ row'[t].token = new.token
  BY WriteShape DEF Typed
<1>2. Only(t, s) /\ sweep'[s].on = {}
  BY <1>1, Dropped
<1>3. \A v \in Sweeps : sweep'[v] = sweep[v] \/ sweep'[v].on # {t}
  BY <1>2 DEF Only
<1>4. CASE new.status = row[t].status /\ new.token = row[t].token
  BY <1>1, <1>2, <1>3, <1>4, KnownElsewhere DEF platform
<1>5. CASE row[t].status = "PENDING" /\ new.status \in {"SKIPPED", "FAILED"} /\ new.token \in {0, row[t].token}
  <2>1. row[t].token = 0 /\ ~Spent(t) /\ \A v \in Sweeps : ~Holds(v, t)
    BY <1>5, WaitingIsFree DEF Known, RowKnows
  <2>2. \A v \in Sweeps : ~Holds(v, t)'
    BY <1>3, <2>1 DEF Holds, On
  <2> QED
    BY <1>1, <1>2, <1>3, <1>5, <2>1, <2>2, KnownWritten DEF platform
<1> QED
  BY <1>4, <1>5

LEMMA KnownClaimed ==
  ASSUME Typed, NEW s \in Sweeps, NEW t \in Targets, Claim(s, t), Claimable(t), Known(t)
  PROVE  Known(t)'
<1>1. PICK new \in Row : /\ Write(t, new) /\ new.status = "PUBLISHING" /\ new.token = row[t].token
                         /\ Called(s, t, "call", "none", 0)
  BY ClaimShape DEF Typed
<1>2. /\ row' \in [Targets -> Row] /\ \A u \in Targets \ {t} : row'[u] = row[u]
      /\ row'[t].status = "PUBLISHING" /\ row'[t].token = row[t].token
  BY <1>1, WriteShape DEF Typed
<1>3. (\A v \in Sweeps \ {s} : sweep'[v] = sweep[v]) /\ sweep'[s].pc = "call" /\ sweep'[s].on = {t}
  BY <1>1, CalledShape DEF Typed, Steps, Answers
<1>4. uploads' = uploads /\ out' = out
  BY DEF Claim, platform
<1>5. row[t].token = 0 /\ ~Spent(t) /\ \A v \in Sweeps : ~Holds(v, t)
  BY WaitingIsFree DEF Claimable, Known, RowKnows
<1>6. ~Spent(t)'
  BY <1>4, <1>5 DEF Spent, Running
<1>7. Single(t)'
  BY <1>4 DEF Known, Single, Running
<1>8. RowKnows(t)'
  BY <1>2, <1>5, <1>6 DEF RowKnows
<1>9. ASSUME NEW v \in Sweeps  PROVE HandKnows(v, t)' /\ PollKnows(v, t)'
  <2>1. CASE v = s
    <3>1. \A w \in Sweeps \ {s} : ~Holds(w, t)'
      BY <1>3, <1>5 DEF Holds, On
    <3>2. HandKnows(s, t)'
      BY <1>2, <1>5, <1>6, <3>1 DEF HandKnows
    <3>3. PollKnows(s, t)'
      BY <1>3 DEF PollKnows, At
    <3> QED
      BY <2>1, <3>2, <3>3
  <2>2. CASE v # s
    <3>1. sweep'[v] = sweep[v] /\ ~Holds(v, t)'
      BY <1>3, <1>5, <2>2 DEF Holds, On
    <3> QED
      BY <1>4, <3>1 DEF Known, HandKnows, PollKnows, At, On
  <2> QED
    BY <2>1, <2>2
<1> QED
  BY <1>7, <1>8, <1>9 DEF Known

\* A poll that finds the platform as it is.
LEMMA KnownAsked ==
  ASSUME NEW s \in Sweeps, NEW t \in Targets, Known(t), uploads' = uploads, out' = out, row' = row,
         \A v \in Sweeps \ {s} : sweep'[v] = sweep[v], sweep'[s].on = {t}, ~Holds(s, t)', PollKnows(s, t)'
  PROVE  Known(t)'
<1>1. Single(t)'
  BY DEF Known, Single, Running
<1>2. Spent(t)' <=> Spent(t)
  BY DEF Spent, Running
<1>3. RowKnows(t)'
  BY <1>2 DEF Known, RowKnows
<1>4. \A v \in Sweeps : Holds(v, t)' => Holds(v, t) /\ sweep'[v] = sweep[v]
  BY DEF Holds, On
<1>5. ASSUME NEW v \in Sweeps  PROVE HandKnows(v, t)' /\ PollKnows(v, t)'
  <2>1. HandKnows(v, t)'
    BY <1>2, <1>4 DEF Known, HandKnows, At
  <2>2. v # s => PollKnows(v, t)'
    BY DEF Known, PollKnows, At, On
  <2> QED
    BY <2>1, <2>2
<1> QED
  BY <1>1, <1>3, <1>5 DEF Known

LEMMA KnownPoll ==
  ASSUME Typed, NEW s \in Sweeps, NEW t \in Targets, Poll(s, t), Known(t), t \notin unsure'
  PROVE  Known(t)'
<1> DEFINE token == sweep[s].seen[t].token
<1>0. token \in DOMAIN uploads[t] /\ token \in Nat /\ UNCHANGED row
  <2>1. token \in Nat
    BY DEF Typed, SweepsTyped, Sweep, Copy
  <2> QED
    BY <2>1, PollShape DEF Poll
<1>1. PICK answer \in Heard \cup {"refused"} :
        /\ Called(s, t, "polled", answer, token)
        /\ \/ answer \in Heard /\ UNCHANGED platform
           \/ answer = "refused" /\ UNCHANGED platform /\ (t \in unsure' \/ uploads[t][token] = "broken")
           \/ answer = "refused" /\ uploads[t][token] # "shown" /\ Becomes(t, token, "broken") /\ UNCHANGED out
           \/ answer \in Heard /\ uploads[t][token] = "running" /\ Becomes(t, token, "shown") /\ Show(t, 1)
  BY PollShape
<1>2. answer \in Answers /\ "refused" \notin Heard
  BY DEF Heard, Answers
<1> HIDE DEF token
<1>3. /\ \A v \in Sweeps \ {s} : sweep'[v] = sweep[v]
      /\ sweep'[s].pc = "polled" /\ sweep'[s].on = {t} /\ sweep'[s].answer = answer
      /\ sweep'[s].seen[t].token = token
  BY <1>0, <1>1, <1>2, CalledShape DEF Typed, Steps
<1>4. ~Holds(s, t)'
  BY <1>3 DEF Holds
<1>5. CASE answer \in Heard /\ UNCHANGED platform
  <2>1. PollKnows(s, t)'
    BY <1>3, <1>5 DEF PollKnows
  <2>2. uploads' = uploads /\ out' = out
    BY <1>5 DEF platform
  <2> QED
    BY <1>0, <1>3, <1>4, <2>1, <2>2, KnownAsked
<1>6. CASE answer = "refused" /\ UNCHANGED platform /\ (t \in unsure' \/ uploads[t][token] = "broken")
  <2>1. uploads' = uploads /\ out' = out /\ uploads[t][token] = "broken"
    BY <1>6 DEF platform
  <2>2. PollKnows(s, t)'
    BY <1>3, <2>1 DEF PollKnows
  <2> QED
    BY <1>0, <1>3, <1>4, <2>1, <2>2, KnownAsked
<1>7. CASE answer = "refused" /\ uploads[t][token] # "shown" /\ Becomes(t, token, "broken") /\ UNCHANGED out
  <2>1. uploads'[t][token] = "broken"
    BY <1>0, <1>7, BecomesShape DEF Typed
  <2>2. PollKnows(s, t)'
    BY <1>3, <2>1 DEF PollKnows
  <2> QED
    BY <1>0, <1>3, <1>4, <1>7, <2>2, KnownBroken
<1>8. CASE answer \in Heard /\ uploads[t][token] = "running" /\ Becomes(t, token, "shown") /\ Show(t, 1)
  <2>1. PollKnows(s, t)'
    BY <1>3, <1>8 DEF PollKnows
  <2> QED
    BY <1>0, <1>3, <1>4, <1>8, <2>1, KnownShown
<1> QED
  BY <1>1, <1>5, <1>6, <1>7, <1>8

LEMMA KnownCalled ==
  ASSUME Typed, NEW s \in Sweeps, NEW t \in Targets, Call(s, t), Known(t), t \notin unsure'
  PROVE  Known(t)'
<1>0. At(s, "call") /\ On(s, t) /\ UNCHANGED row
  BY CallShape DEF Call
<1>1. PICK answer \in Answers, token \in Nat :
        /\ Called(s, t, "called", answer, token)
        /\ \/ answer = "published" /\ Show(t, 1) /\ UNCHANGED uploads
           \/ answer = "processing" /\ Upload(t) /\ token = Len(uploads[t]) + 1
           \/ answer \notin {"published", "processing"} /\ UNCHANGED platform
  BY CallShape
<1>2. /\ \A v \in Sweeps \ {s} : sweep'[v] = sweep[v]
      /\ sweep'[s].pc = "called" /\ sweep'[s].on = {t} /\ sweep'[s].answer = answer
      /\ sweep'[s].seen[t].token = token
  BY <1>1, CalledShape DEF Typed, Steps
<1>3. /\ row[t].status = "PUBLISHING" /\ row[t].token = 0 /\ ~Spent(t)
      /\ \A v \in Sweeps : Holds(v, t) => v = s
  BY <1>0 DEF Known, HandKnows, Holds, At
<1>4. out[t] = 0 /\ \A n \in DOMAIN uploads[t] : uploads[t][n] # "running"
  BY <1>3 DEF Spent, Running, Typed, RestTyped
<1>5. ASSUME NEW v \in Sweeps \ {s}  PROVE ~Holds(v, t)' /\ sweep'[v] = sweep[v] /\ PollKnows(v, t) /\ TokensOf(v)
  BY <1>2, <1>3 DEF Holds, On, Known, Typed, SweepsTyped, Tokens
<1>6. PollKnows(s, t)'
  BY <1>2 DEF PollKnows, At
<1>7. SUFFICES /\ Single(t)'
               /\ \A v \in Sweeps \ {s} : PollKnows(v, t)'
               /\ Spent(t)' => /\ answer \in {"published", "processing"}
                               /\ answer = "processing" => uploads'[t][token] # "broken"
  <2>1. RowKnows(t)'
    BY <1>0, <1>3 DEF RowKnows
  <2>2. HandKnows(s, t)'
    BY <1>0, <1>2, <1>3, <1>5, <1>7 DEF HandKnows, At
  <2>3. \A v \in Sweeps \ {s} : HandKnows(v, t)'
    BY <1>5 DEF HandKnows
  <2> QED
    BY <1>6, <1>7, <2>1, <2>2, <2>3 DEF Known
<1>8. CASE answer = "published" /\ Show(t, 1) /\ UNCHANGED uploads
  <2>1. out'[t] = 1
    BY <1>4, <1>8, ShowTyped DEF Typed
  <2>2. Single(t)'
    BY <1>4, <1>8, <2>1 DEF Single, Running
  <2>3. \A v \in Sweeps \ {s} : PollKnows(v, t)'
    BY <1>5, <1>8 DEF PollKnows, At, On
  <2> QED
    BY <1>8, <2>1, <2>2, <2>3
<1>9. CASE answer = "processing" /\ Upload(t) /\ token = Len(uploads[t]) + 1
  <2>0. Len(uploads[t]) \in Nat /\ DOMAIN uploads[t] = 1..Len(uploads[t])
    BY DEF Typed, RestTyped
  <2>1. /\ DOMAIN uploads'[t] = 1..Len(uploads[t]) + 1
        /\ \A n \in DOMAIN uploads[t] : uploads'[t][n] = uploads[t][n]
        /\ uploads'[t][token] = "running"
    BY <1>9, UploadShape DEF Typed
  <2>2. out' = out
    BY <1>9 DEF Upload
  <2>3. \A n \in DOMAIN uploads'[t] : Running(t, n)' => n = token
    BY <1>4, <1>9, <2>0, <2>1 DEF Running
  <2>4. Single(t)'
    BY <1>4, <2>2, <2>3 DEF Single
  <2>5. \A v \in Sweeps \ {s} : PollKnows(v, t)'
    BY <1>5, <2>1 DEF PollKnows, At, On, TokensOf
  <2> QED
    BY <1>9, <2>1, <2>2, <2>4, <2>5
<1>10. CASE answer \notin {"published", "processing"} /\ UNCHANGED platform
  <2>1. uploads' = uploads /\ out' = out
    BY <1>10 DEF platform
  <2>2. Single(t)' /\ ~Spent(t)'
    BY <1>3, <2>1 DEF Known, Single, Spent, Running
  <2>3. \A v \in Sweeps \ {s} : PollKnows(v, t)'
    BY <1>5, <2>1 DEF PollKnows, At, On
  <2> QED
    BY <2>1, <2>2, <2>3
<1> QED
  BY <1>1, <1>8, <1>9, <1>10

LEMMA KnownRecorded ==
  ASSUME Typed, NEW s \in Sweeps, NEW t \in Targets, Record(s, t), Known(t)
  PROVE  Known(t)'
<1>1. PICK new \in Row :
        /\ Write(t, new)
        /\ sweep[s].answer = "published" => new.status = "PUBLISHED" /\ new.token = 0
        /\ sweep[s].answer = "processing" => new.status = "PUBLISHING" /\ new.token = sweep[s].seen[t].token
        /\ sweep[s].answer \notin {"published", "processing"} =>
             \/ new.status = "PENDING" /\ new.token = row[t].token
             \/ new.status = "FAILED" /\ new.token = 0
  BY RecordShape DEF Typed
<1>2. /\ row' \in [Targets -> Row] /\ \A u \in Targets \ {t} : row'[u] = row[u]
      /\ row'[t].status = new.status /\ row'[t].token = new.token
  BY <1>1, WriteShape DEF Typed
<1>3. At(s, "called") /\ On(s, t) /\ Back(s, t, "targets") /\ UNCHANGED platform
  BY DEF Record
<1>4. Only(t, s) /\ sweep'[s].on = {}
  BY <1>2, <1>3, Dropped DEF Steps
<1>5. \A v \in Sweeps : sweep'[v] = sweep[v] \/ sweep'[v].on # {t}
  BY <1>4 DEF Only
<1>6. /\ row[t].status = "PUBLISHING" /\ row[t].token = 0
      /\ \A v \in Sweeps : Holds(v, t) => v = s
      /\ Spent(t) => /\ sweep[s].answer \in {"published", "processing"}
                     /\ sweep[s].answer = "processing" => uploads[t][sweep[s].seen[t].token] # "broken"
  BY <1>3 DEF Known, HandKnows, Holds, At
<1>7. \A v \in Sweeps : ~Holds(v, t)'
  BY <1>4, <1>6 DEF Only, Holds, On
<1>8. Spent(t) => row'[t].status \in {"PUBLISHING", "PUBLISHED"}
  BY <1>1, <1>2, <1>6
<1>9. row'[t].status \in {"PENDING", "SKIPPED"} => row'[t].token = 0
  BY <1>1, <1>2, <1>6
<1>10. row'[t].status = "PUBLISHING" /\ row'[t].token # 0 /\ Spent(t) => uploads[t][row'[t].token] # "broken"
  BY <1>1, <1>2, <1>6
<1> QED
  BY <1>3, <1>4, <1>5, <1>7, <1>8, <1>9, <1>10, KnownWritten DEF platform

\* A sweep that goes on and leaves the row as it is.
LEMMA KnownLeft ==
  ASSUME Typed, NEW s \in Sweeps, NEW t \in Targets, Known(t), UNCHANGED platform, UNCHANGED row,
         Next1(s, t)
  PROVE  Known(t)'
<1>1. Only(t, s) /\ sweep'[s].on = {}
  BY Dropped DEF Typed, RowsTyped
<1>2. \A v \in Sweeps : sweep'[v] = sweep[v] \/ sweep'[v].on # {t}
  BY <1>1 DEF Only
<1> QED
  BY <1>2, KnownElsewhere DEF platform

\* A sweep that says something about t, with nothing about t in doubt.
LEMMA ActsKnow ==
  ASSUME Typed, NEW s \in Sweeps, NEW t \in Targets, Acts(s, t), Known(t), t \notin unsure'
  PROVE  Known(t)'
<1>0. row[t] \in Row /\ RowTyped(t)
  BY DEF Typed, RowsTyped
<1>1. ~FailStuck(s, t) /\ ~GiveUp(s, t)
  BY DEF FailStuck, GiveUp, Doubt
<1>2. CASE Withdraw(s, t)
  <2> DEFINE x == [row[t] EXCEPT !.status = "SKIPPED"]
  <2>1. Write(t, x) /\ Next1(s, t) /\ UNCHANGED platform /\ row[t].status = "PENDING"
    BY <1>2 DEF Withdraw, Doubt, Overwrites
  <2>2. x \in Row /\ x.status = "SKIPPED" /\ x.token = row[t].token
    BY <1>0 DEF Row, Status
  <2> HIDE DEF x
  <2> QED
    BY <2>1, <2>2, KnownClosed
<1>3. CASE Miss(s, t)
  <2>1. Write(t, Failed(row[t])) /\ Next1(s, t) /\ UNCHANGED platform /\ row[t].status = "PENDING"
    BY <1>3 DEF Miss, Doubt, Overwrites
  <2> QED
    BY <1>0, <2>1, Forms, KnownClosed
<1>4. CASE Hinder(s, t)
  <2>1. Next1(s, t) /\ UNCHANGED platform
    BY <1>4 DEF Hinder
  <2>2. \/ Write(t, Failed(row[t])) /\ row[t].status = "PENDING"
        \/ Write(t, Later(row[t]))
        \/ UNCHANGED row
    BY <1>4 DEF Hinder, Doubt, Overwrites
  <2>3. CASE Write(t, Failed(row[t])) /\ row[t].status = "PENDING"
    BY <1>0, <2>1, <2>3, Forms, KnownClosed
  <2>4. CASE Write(t, Later(row[t]))
    BY <1>0, <2>1, <2>4, Forms, KnownClosed
  <2> QED
    BY <2>1, <2>2, <2>3, <2>4, KnownLeft
<1>5. CASE Early(s, t) \/ (Claim(s, t) /\ ~Claimable(t))
  BY <1>5, KnownLeft DEF Early, Claim
<1> QED
  BY <1>1, <1>2, <1>3, <1>4, <1>5, KnownPoll, KnownPolled, KnownClaimed, KnownCalled, KnownRecorded DEF Acts

\* Between two targets a sweep has none in its hands.
LEMMA PausesLetGo ==
  ASSUME Typed, NEW s \in Sweeps,
         Begin(s) \/ ReadProcessing(s) \/ ReadPending(s) \/ ReadTargets(s) \/ SettlePost(s) \/ Crash(s)
  PROVE  \A v \in Sweeps : sweep'[v] = sweep[v] \/ sweep'[v].on = {}
<1>0. SUFFICES \E x : sweep' = [sweep EXCEPT ![s] = x] /\ x.on = {}
  BY DEF Typed, SweepsTyped
<1>1. CASE \E step, found, seen, verdict : Read(s, step, found, seen, verdict)
  <2>1. PICK step, found, seen, verdict : Read(s, step, found, seen, verdict)
    BY <1>1
  <2> DEFINE x == [Idle EXCEPT !.pc = step, !.todo = found, !.seen = seen, !.post = verdict]
  <2>2. sweep' = [sweep EXCEPT ![s] = x]
    BY <2>1 DEF Read
  <2>3. x.on = {}
    BY DEF Idle
  <2> QED
    BY <2>2, <2>3
<1>2. CASE \E answer : sweep' = [sweep EXCEPT ![s] = [Idle EXCEPT !.pc = "settle", !.answer = answer]]
  <2>1. PICK answer : sweep' = [sweep EXCEPT ![s] = [Idle EXCEPT !.pc = "settle", !.answer = answer]]
    BY <1>2
  <2> DEFINE x == [Idle EXCEPT !.pc = "settle", !.answer = answer]
  <2>2. x.on = {}
    BY DEF Idle
  <2> QED
    BY <2>1, <2>2
<1>3. CASE sweep' = [sweep EXCEPT ![s] = Idle]
  BY <1>3, IdleTyped
<1>4. CASE Begin(s) \/ ReadProcessing(s) \/ ReadPending(s)
  BY <1>1, <1>4 DEF Begin, ReadProcessing, ReadPending
<1> QED
  BY <1>2, <1>3, <1>4 DEF ReadTargets, SettlePost, Crash

LEMMA StepKnown ==
  ASSUME Typed, OnceKnown, NEW s \in Sweeps, Step(s) \/ Crash(s)
  PROVE  OnceKnown'
<1> SUFFICES ASSUME NEW t \in Targets, t \notin unsure'
             PROVE  Known(t)'
  BY DEF OnceKnown
<1>1. t \notin unsure
  BY HistoryGrows DEF Next
<1>2. Known(t)
  BY <1>1 DEF OnceKnown
<1>3. ASSUME NEW u \in Targets, Acts(s, u)
      PROVE  Known(t)'
  <2>1. CASE u = t
    BY <1>2, <1>3, <2>1, ActsKnow
  <2>2. CASE u # t
    BY <1>2, <1>3, <2>2, ActsOnly, OnlyOthers
  <2> QED
    BY <2>1, <2>2
<1>4. CASE Begin(s) \/ ReadProcessing(s) \/ ReadPending(s) \/ ReadTargets(s) \/ SettlePost(s) \/ Crash(s)
  <2>1. UNCHANGED <<row, uploads, out>>
    BY <1>4 DEF Begin, ReadProcessing, ReadPending, ReadTargets, SettlePost, Crash, platform
  <2>2. \A v \in Sweeps : sweep'[v] = sweep[v] \/ sweep'[v].on = {}
    BY <1>4, PausesLetGo
  <2>3. \A v \in Sweeps : sweep'[v] = sweep[v] \/ sweep'[v].on # {t}
    BY <2>2
  <2> QED
    BY <1>2, <2>1, <2>3, KnownElsewhere
<1> QED
  BY <1>3, <1>4 DEF Step, Acts

LEMMA OutsideKnown ==
  ASSUME Typed, OnceKnown, Outside
  PROVE  OnceKnown'
<1> SUFFICES ASSUME NEW t \in Targets, t \notin unsure'
             PROVE  Known(t)'
  BY DEF OnceKnown
<1>0. Typed /\ RowsTyped /\ RestTyped
  BY DEF Typed
<1>1. t \notin unsure
  BY HistoryGrows DEF Next, Outside
<1>2. Known(t)
  BY <1>1 DEF OnceKnown
<1>3. UNCHANGED sweep
  BY DEF Outside, Schedule, Leave, Request, RetryFailed, Choose, ChooseRead, SlotComes, GrowsLate, WaitOver, Still,
         ThreeHours, Process
<1>4. ASSUME row[t].status \in {"FAILED", "SKIPPED"}, UNCHANGED platform,
             row'[t].status = "PENDING", row'[t].token \in {0, row[t].token}
      PROVE  Known(t)'
  <2>1. ~Spent(t) /\ \A v \in Sweeps : ~Holds(v, t)
    BY <1>2, <1>4, WaitingIsFree
  <2>2. row[t].token = 0
    BY <1>0, <1>2, <1>4 DEF Known, RowKnows, RowsTyped, RowTyped
  <2>3. \A v \in Sweeps : ~Holds(v, t)'
    BY <1>3, <2>1 DEF Holds, On
  <2> QED
    BY <1>2, <1>3, <1>4, <2>1, <2>2, <2>3, KnownWritten DEF platform
<1>5. CASE RetryFailed
  <2>1. UNCHANGED platform
    BY <1>5 DEF RetryFailed
  <2>2. row[t].status = "FAILED" \/ row'[t] = row[t]
    BY <1>0, <1>5, RetryShape
  <2>3. CASE row[t].status = "FAILED"
    BY <1>0, <1>4, <1>5, <2>1, <2>3, RetryShape
  <2> QED
    BY <1>2, <1>3, <2>1, <2>2, <2>3, KnownElsewhere DEF platform
<1>6. ASSUME NEW u \in Targets, Choose(u)
      PROVE  Known(t)'
  <2>1. PICK new \in Row : Write(u, new) /\ new.status = "PENDING" /\ new.token \in {0, row[u].token}
    BY <1>0, <1>6, ChooseShape
  <2>2. /\ \A w \in Targets \ {u} : row'[w] = row[w]
        /\ row'[u].status = "PENDING" /\ row'[u].token \in {0, row[u].token}
    BY <1>0, <2>1, WriteShape
  <2>3. UNCHANGED platform
    BY <1>6 DEF Choose
  <2>4. u = t => row[t].status \in {"FAILED", "SKIPPED"}
    BY <1>6 DEF Choose
  <2>5. CASE u = t
    BY <1>4, <2>2, <2>3, <2>4, <2>5
  <2> QED
    BY <1>2, <1>3, <2>2, <2>3, <2>5, KnownElsewhere DEF platform
<1>7. ASSUME NEW u \in Targets, WaitOver(u) \/ Still(u) \/ ThreeHours(u)
      PROVE  Known(t)'
  <2>1. row'[t].status = row[t].status /\ row'[t].token = row[t].token
    BY <1>0, <1>7, ClockShape
  <2>2. UNCHANGED platform
    BY <1>7 DEF WaitOver, Still, ThreeHours
  <2> QED
    BY <1>2, <1>3, <2>1, <2>2, KnownElsewhere DEF platform
<1>8. ASSUME NEW u \in Targets, Process(u)
      PROVE  Known(t)'
  <2>1. PICK n \in DOMAIN uploads[u] : uploads[u][n] = "running" /\ Becomes(u, n, "shown")
    BY <1>8, ProcessShape
  <2>2. Show(u, 1) /\ UNCHANGED row
    BY <1>8 DEF Process
  <2>3. CASE u = t
    BY <1>0, <1>2, <1>3, <2>1, <2>2, <2>3, KnownShown
  <2>4. CASE u # t
    <3>1. uploads'[t] = uploads[t] /\ out'[t] = out[t]
      BY <1>0, <2>1, <2>2, <2>4, BecomesShape, ShowTyped
    <3> QED
      BY <1>2, <1>3, <2>2, <3>1, KnownElsewhere
  <2> QED
    BY <2>3, <2>4
<1>9. CASE UNCHANGED <<row, platform>>
  BY <1>2, <1>3, <1>9, KnownElsewhere DEF platform
<1> QED
  BY <1>5, <1>6, <1>7, <1>8, <1>9 DEF Outside, Schedule, Leave, Request, ChooseRead, SlotComes, GrowsLate

LEMMA OnceKnownInit == Init => OnceKnown
<1> SUFFICES ASSUME Init, NEW t \in Targets
             PROVE  Known(t)
  BY DEF OnceKnown
<1>1. row[t].status = "PENDING" /\ row[t].token = 0
  BY DEF Init, NewRow
<1>2. out[t] = 0 /\ uploads[t] = << >>
  BY DEF Init
<1>3. ~Spent(t) /\ Single(t)
  BY <1>2 DEF Spent, Single
<1>4. \A v \in Sweeps : sweep[v].pc = "idle"
  BY IdleTyped DEF Init
<1>5. RowKnows(t)
  BY <1>1, <1>3 DEF RowKnows
<1> QED
  BY <1>3, <1>4, <1>5 DEF Known, HandKnows, PollKnows, Holds, At

LEMMA OnceKnownNext == Typed /\ OnceKnown /\ [Next]_vars => OnceKnown'
<1> SUFFICES ASSUME Typed, OnceKnown, [Next]_vars
             PROVE  OnceKnown'
  OBVIOUS
<1>1. CASE UNCHANGED vars
  <2>1. ASSUME NEW t \in Targets, Known(t)  PROVE Known(t)'
    BY <1>1, <2>1, KnownElsewhere DEF vars, platform
  <2> QED
    BY <1>1, <2>1 DEF OnceKnown, vars, history
<1> QED
  BY <1>1, NextSplit, StepKnown, OutsideKnown

-----------------------------------------------------------------------------
(* One try at a time, as long as no answer hides a post and the owner asks no more *)

\* The row opens again only after a try that sent nothing, whatever else was written.
Sole(t) ==
  /\ Single(t)
  /\ row[t].status = "PENDING" => ~Spent(t) /\ \A s \in Sweeps : ~Holds(s, t)
  /\ \A s \in Sweeps : Holds(s, t) =>
       /\ \A v \in Sweeps : Holds(v, t) => v = s
       /\ Spent(t) => At(s, "called") /\ sweep[s].answer \notin {"transient", "wait"}
OnceSole == \A t \in Targets : t \notin lost \cup renewed => Sole(t)

LEMMA SoleOnce == Typed /\ OnceKnown /\ OnceSole => OnceOut
  BY DEF OnceKnown, Known, OnceSole, Sole, Single, OnceOut, Typed, RestTyped

\* A step that sends nothing new for t, opens no row and puts t in no hands.
LEMMA SoleKept ==
  ASSUME NEW t \in Targets, Sole(t), Single(t)', Spent(t)' => Spent(t),
         row'[t].status = "PENDING" => row[t].status = "PENDING",
         \A v \in Sweeps : Holds(v, t)' => Holds(v, t) /\ sweep'[v] = sweep[v]
  PROVE  Sole(t)'
<1>1. row'[t].status = "PENDING" => ~Spent(t)' /\ \A v \in Sweeps : ~Holds(v, t)'
  BY DEF Sole
<1>2. ASSUME NEW v \in Sweeps, Holds(v, t)'
      PROVE  /\ \A w \in Sweeps : Holds(w, t)' => w = v
             /\ Spent(t)' => At(v, "called")' /\ sweep'[v].answer \notin {"transient", "wait"}
  BY <1>2 DEF Sole, At
<1> QED
  BY <1>1, <1>2 DEF Sole

LEMMA SoleSame ==
  ASSUME NEW t \in Targets, Sole(t), uploads'[t] = uploads[t], out'[t] = out[t],
         row'[t].status = "PENDING" => row[t].status = "PENDING",
         \A v \in Sweeps : sweep'[v] = sweep[v] \/ ~Holds(v, t)'
  PROVE  Sole(t)'
<1>1. Single(t)' /\ (Spent(t)' => Spent(t))
  BY DEF Sole, Single, Spent, Running
<1>2. \A v \in Sweeps : Holds(v, t)' => Holds(v, t) /\ sweep'[v] = sweep[v]
  BY DEF Holds, On
<1> QED
  BY <1>1, <1>2, SoleKept

\* An upload ends: it is out, or it broke.
LEMMA SoleMade ==
  ASSUME Typed, NEW t \in Targets, Sole(t), NEW n \in DOMAIN uploads[t], row'[t] = row[t],
         \/ uploads[t][n] = "running" /\ Becomes(t, n, "shown") /\ Show(t, 1)
         \/ Becomes(t, n, "broken") /\ out'[t] = out[t],
         \A v \in Sweeps : sweep'[v] = sweep[v] \/ ~Holds(v, t)'
  PROVE  Sole(t)'
<1>0. DOMAIN uploads'[t] = DOMAIN uploads[t] /\ \A m \in DOMAIN uploads[t] \ {n} : uploads'[t][m] = uploads[t][m]
  BY BecomesShape DEF Typed
<1>1. \A v \in Sweeps : Holds(v, t)' => Holds(v, t) /\ sweep'[v] = sweep[v]
  BY DEF Holds, On
<1>2. CASE uploads[t][n] = "running" /\ Becomes(t, n, "shown") /\ Show(t, 1)
  <2>1. uploads'[t][n] = "shown"
    BY <1>2, BecomesShape DEF Typed
  <2>2. out[t] = 0 /\ \A m \in DOMAIN uploads[t] : Running(t, m) => m = n
    BY <1>2 DEF Sole, Single, Running
  <2>3. out'[t] = 1
    BY <1>2, <2>2, ShowTyped DEF Typed
  <2>4. \A m \in DOMAIN uploads'[t] : ~Running(t, m)'
    BY <1>0, <2>1, <2>2 DEF Running
  <2>5. Single(t)' /\ Spent(t)
    BY <1>2, <2>3, <2>4 DEF Single, Spent, Running
  <2> QED
    BY <1>1, <2>5, SoleKept
<1>3. CASE Becomes(t, n, "broken") /\ out'[t] = out[t]
  <2>1. uploads'[t][n] = "broken"
    BY <1>3, BecomesShape DEF Typed
  <2>2. \A m \in DOMAIN uploads[t] : Running(t, m)' => Running(t, m)
    BY <1>0, <2>1 DEF Running
  <2>3. Single(t)' /\ (Spent(t)' => Spent(t))
    BY <1>0, <1>3, <2>2 DEF Sole, Single, Spent, Running
  <2> QED
    BY <1>1, <2>3, SoleKept
<1> QED
  BY <1>2, <1>3

LEMMA SolePoll ==
  ASSUME Typed, NEW s \in Sweeps, NEW t \in Targets, Poll(s, t), Sole(t)
  PROVE  Sole(t)'
<1> DEFINE token == sweep[s].seen[t].token
<1>0. token \in DOMAIN uploads[t] /\ token \in Nat /\ UNCHANGED row
  <2>1. token \in Nat
    BY DEF Typed, SweepsTyped, Sweep, Copy
  <2> QED
    BY <2>1, PollShape DEF Poll
<1>1. PICK answer \in Heard \cup {"refused"} :
        /\ Called(s, t, "polled", answer, token)
        /\ \/ UNCHANGED platform
           \/ Becomes(t, token, "broken") /\ UNCHANGED out
           \/ uploads[t][token] = "running" /\ Becomes(t, token, "shown") /\ Show(t, 1)
  BY PollShape
<1>2. answer \in Answers
  BY DEF Heard, Answers
<1> HIDE DEF token
<1>3. (\A v \in Sweeps \ {s} : sweep'[v] = sweep[v]) /\ sweep'[s].pc = "polled"
  BY <1>0, <1>1, <1>2, CalledShape DEF Typed, Steps
<1>4. \A v \in Sweeps : sweep'[v] = sweep[v] \/ ~Holds(v, t)'
  BY <1>3 DEF Holds
<1>5. CASE UNCHANGED platform
  BY <1>0, <1>4, <1>5, SoleSame DEF platform
<1>6. CASE \/ Becomes(t, token, "broken") /\ UNCHANGED out
           \/ uploads[t][token] = "running" /\ Becomes(t, token, "shown") /\ Show(t, 1)
  BY <1>0, <1>4, <1>6, SoleMade
<1> QED
  BY <1>1, <1>5, <1>6

LEMMA SoleClaimed ==
  ASSUME Typed, NEW s \in Sweeps, NEW t \in Targets, Claim(s, t), Claimable(t), Sole(t)
  PROVE  Sole(t)'
<1>1. PICK new \in Row : Write(t, new) /\ new.status = "PUBLISHING" /\ Called(s, t, "call", "none", 0)
  BY ClaimShape DEF Typed
<1>2. row'[t].status = "PUBLISHING"
  BY <1>1, WriteShape DEF Typed
<1>3. (\A v \in Sweeps \ {s} : sweep'[v] = sweep[v]) /\ sweep'[s].pc = "call"
  BY <1>1, CalledShape DEF Typed, Steps, Answers
<1>4. ~Spent(t) /\ \A v \in Sweeps : ~Holds(v, t)
  BY DEF Sole, Claimable
<1>5. Single(t)' /\ ~Spent(t)'
  BY <1>4 DEF Sole, Claim, platform, Single, Spent, Running
<1>6. \A v \in Sweeps : Holds(v, t)' => v = s
  BY <1>3, <1>4 DEF Holds, On
<1> QED
  BY <1>2, <1>5, <1>6 DEF Sole

LEMMA SoleCalled ==
  ASSUME Typed, NEW s \in Sweeps, NEW t \in Targets, Call(s, t), Sole(t), t \notin lost'
  PROVE  Sole(t)'
<1>0. At(s, "call") /\ On(s, t) /\ Holds(s, t) /\ UNCHANGED row
  BY CallShape DEF Call, Holds, At
<1>1. PICK answer \in Answers, token \in Nat :
        /\ Called(s, t, "called", answer, token)
        /\ \/ answer \notin {"transient", "wait"} /\ Show(t, 1) /\ UNCHANGED uploads
           \/ answer \notin {"transient", "wait"} /\ Upload(t)
           \/ UNCHANGED platform
  <2>1. PICK answer \in Answers, token \in Nat :
              /\ Called(s, t, "called", answer, token)
              /\ \/ answer = "published" /\ Show(t, 1) /\ UNCHANGED uploads
                 \/ answer = "processing" /\ Upload(t) /\ token = Len(uploads[t]) + 1
                 \/ answer \notin {"published", "processing"} /\ UNCHANGED platform
                 \/ /\ answer \notin {"published", "processing"} /\ t \in unsure'
                    /\ answer \in {"transient", "wait"} => t \in lost'
                    /\ (Show(t, 1) /\ UNCHANGED uploads) \/ Upload(t)
                 \/ answer # "processing" /\ t \in unsure' /\ t \in lost' /\ Show(t, 2) /\ UNCHANGED uploads
    BY CallShape
  <2> QED
    BY <2>1
<1>2. /\ \A v \in Sweeps \ {s} : sweep'[v] = sweep[v]
      /\ sweep'[s].pc = "called" /\ sweep'[s].on = {t} /\ sweep'[s].answer = answer
  BY <1>1, CalledShape DEF Typed, Steps
<1>3. ~Spent(t) /\ row[t].status # "PENDING" /\ \A v \in Sweeps : Holds(v, t) => v = s
  BY <1>0 DEF Sole, At
<1>4. out[t] = 0 /\ \A n \in DOMAIN uploads[t] : uploads[t][n] # "running"
  BY <1>3 DEF Spent, Running, Typed, RestTyped
<1>5. \A v \in Sweeps : Holds(v, t)' => v = s
  BY <1>2, <1>3 DEF Holds, On
<1>6. SUFFICES Single(t)' /\ (Spent(t)' => answer \notin {"transient", "wait"})
  BY <1>0, <1>2, <1>3, <1>5 DEF Sole, At
<1>7. CASE answer \notin {"transient", "wait"} /\ Show(t, 1) /\ UNCHANGED uploads
  <2>1. out'[t] = 1
    BY <1>4, <1>7, ShowTyped DEF Typed
  <2> QED
    BY <1>4, <1>7, <2>1 DEF Single, Running
<1>8. CASE answer \notin {"transient", "wait"} /\ Upload(t)
  <2>1. Len(uploads[t]) \in Nat /\ DOMAIN uploads[t] = 1..Len(uploads[t])
    BY DEF Typed, RestTyped
  <2>2. /\ DOMAIN uploads'[t] = 1..Len(uploads[t]) + 1
        /\ \A n \in DOMAIN uploads[t] : uploads'[t][n] = uploads[t][n]
    BY <1>8, UploadShape DEF Typed
  <2>3. \A n \in DOMAIN uploads'[t] : Running(t, n)' => n = Len(uploads[t]) + 1
    BY <1>4, <2>1, <2>2 DEF Running
  <2> QED
    BY <1>4, <1>8, <2>3 DEF Single, Upload
<1>9. CASE UNCHANGED platform
  BY <1>3, <1>9 DEF Sole, Single, Spent, Running, platform
<1> QED
  BY <1>1, <1>7, <1>8, <1>9

LEMMA SoleRecorded ==
  ASSUME Typed, NEW s \in Sweeps, NEW t \in Targets, Record(s, t), Sole(t)
  PROVE  Sole(t)'
<1>1. PICK new \in Row : Write(t, new) /\ (new.status = "PENDING" => sweep[s].answer \in {"transient", "wait"})
  BY RecordShape DEF Typed
<1>2. row' \in [Targets -> Row] /\ (\A u \in Targets \ {t} : row'[u] = row[u]) /\ row'[t].status = new.status
  BY <1>1, WriteShape DEF Typed
<1>3. At(s, "called") /\ On(s, t) /\ Back(s, t, "targets") /\ UNCHANGED platform
  BY DEF Record
<1>4. Only(t, s) /\ sweep'[s].on = {}
  BY <1>2, <1>3, Dropped DEF Steps
<1>5. /\ \A v \in Sweeps : Holds(v, t) => v = s
      /\ Spent(t) => sweep[s].answer \notin {"transient", "wait"}
  BY <1>3 DEF Sole, Holds, At
<1>6. \A v \in Sweeps : ~Holds(v, t)'
  BY <1>4, <1>5 DEF Only, Holds, On
<1>7. Single(t)' /\ (Spent(t)' => Spent(t))
  BY <1>3 DEF Sole, Single, Spent, Running, platform
<1>8. row'[t].status = "PENDING" => ~Spent(t)
  BY <1>1, <1>2, <1>5
<1> QED
  BY <1>6, <1>7, <1>8 DEF Sole

\* A sweep that writes an end to the row of t, a pause, or nothing.
LEMMA SoleDropped ==
  ASSUME Typed, NEW s \in Sweeps, NEW t \in Targets, Sole(t), Acts(s, t), ~Record(s, t), ~Poll(s, t),
         ~Call(s, t), ~(Claim(s, t) /\ Claimable(t))
  PROVE  Sole(t)'
<1>1. row' \in [Targets -> Row] /\ row[t] \in Row
  BY StepRows DEF Acts, Step, Typed, RowsTyped
<1>2. \A u \in Targets \ {t} : row'[u] = row[u]
  BY ActsOnly DEF Only
<1>3. (Next1(s, t) \/ \E step \in Steps : Back(s, t, step)) /\ UNCHANGED platform
  BY DEF Acts, FailStuck, GiveUp, Polled, Withdraw, Early, Miss, Hinder, Claim, Steps
<1>4. row'[t].status = "PENDING" => row[t].status = "PENDING"
  <2>1. CASE Polled(s, t)
    <3>1. PICK new \in Row : /\ Write(t, new)
                             /\ sweep[s].answer = "published" => new.status = "PUBLISHED"
                             /\ sweep[s].answer = "processing" => new.status = "PUBLISHING"
                             /\ sweep[s].answer \in {"transient", "wait"} => new.status = row[t].status
                             /\ sweep[s].answer \notin {"published", "processing", "transient", "wait"} => new.status = "FAILED"
      BY <2>1, PolledShape DEF Typed
    <3> QED
      BY <3>1, WriteShape DEF Typed
  <2>2. CASE Withdraw(s, t)
    <3> DEFINE x == [row[t] EXCEPT !.status = "SKIPPED"]
    <3>1. Write(t, x)
      BY <2>2 DEF Withdraw
    <3>2. x \in Row /\ x.status = "SKIPPED"
      BY <1>1 DEF Row, Status
    <3> HIDE DEF x
    <3> QED
      BY <3>1, <3>2, WriteShape DEF Typed
  <2>3. CASE Write(t, Failed(row[t])) \/ Write(t, Later(row[t])) \/ UNCHANGED row
    BY <1>1, <2>3, Forms, WriteShape DEF Typed
  <2> QED
    BY <2>1, <2>2, <2>3 DEF Acts, FailStuck, GiveUp, Early, Miss, Hinder, Claim
<1>5. Only(t, s) /\ sweep'[s].on = {}
  BY <1>1, <1>2, <1>3, Dropped
<1>6. \A v \in Sweeps : sweep'[v] = sweep[v] \/ ~Holds(v, t)'
  BY <1>5 DEF Only, Holds, On
<1> QED
  BY <1>3, <1>4, <1>6, SoleSame DEF platform

LEMMA StepSole ==
  ASSUME Typed, OnceSole, NEW s \in Sweeps, Step(s) \/ Crash(s)
  PROVE  OnceSole'
<1> SUFFICES ASSUME NEW t \in Targets, t \notin lost', t \notin renewed'
             PROVE  Sole(t)'
  BY DEF OnceSole
<1>1. Sole(t)
  BY HistoryGrows DEF Next, OnceSole
<1>2. ASSUME NEW u \in Targets, Acts(s, u)
      PROVE  Sole(t)'
  <2>1. CASE u = t
    BY <1>1, <1>2, <2>1, SolePoll, SoleClaimed, SoleCalled, SoleRecorded, SoleDropped
  <2>2. CASE u # t
    <3>1. Only(u, s)
      BY <1>2, ActsOnly
    <3>2. \A v \in Sweeps : sweep'[v] = sweep[v] \/ ~Holds(v, t)'
      BY <2>2, <3>1 DEF Only, Holds, On
    <3> QED
      BY <1>1, <2>2, <3>1, <3>2, SoleSame DEF Only
  <2> QED
    BY <2>1, <2>2
<1>3. CASE Begin(s) \/ ReadProcessing(s) \/ ReadPending(s) \/ ReadTargets(s) \/ SettlePost(s) \/ Crash(s)
  <2>1. UNCHANGED <<row, uploads, out>>
    BY <1>3 DEF Begin, ReadProcessing, ReadPending, ReadTargets, SettlePost, Crash, platform
  <2>2. \A v \in Sweeps : sweep'[v] = sweep[v] \/ sweep'[v].on = {}
    BY <1>3, PausesLetGo
  <2>3. \A v \in Sweeps : sweep'[v] = sweep[v] \/ ~Holds(v, t)'
    BY <2>2 DEF Holds, On
  <2> QED
    BY <1>1, <2>1, <2>3, SoleSame
<1> QED
  BY <1>2, <1>3 DEF Step, Acts

LEMMA OutsideSole ==
  ASSUME Typed, OnceSole, Outside
  PROVE  OnceSole'
<1> SUFFICES ASSUME NEW t \in Targets, t \notin lost', t \notin renewed'
             PROVE  Sole(t)'
  BY DEF OnceSole
<1>0. Typed /\ RowsTyped /\ RestTyped
  BY DEF Typed
<1>1. Sole(t)
  BY HistoryGrows DEF Next, Outside, OnceSole
<1>2. UNCHANGED sweep
  BY DEF Outside, Schedule, Leave, Request, RetryFailed, Choose, ChooseRead, SlotComes, GrowsLate, WaitOver, Still,
         ThreeHours, Process
<1>3. CASE RetryFailed
  <2>1. UNCHANGED platform /\ row[t].status # "FAILED"
    BY <1>3 DEF RetryFailed
  <2>2. row'[t] = row[t]
    BY <1>0, <1>3, <2>1, RetryShape
  <2> QED
    BY <1>1, <1>2, <2>1, <2>2, SoleSame DEF platform
<1>4. ASSUME NEW u \in Targets, Choose(u)
      PROVE  Sole(t)'
  <2>1. u # t /\ UNCHANGED platform
    BY <1>4 DEF Choose
  <2>2. row'[t] = row[t]
    BY <1>0, <1>4, <2>1 DEF Choose, Write, RowsTyped
  <2> QED
    BY <1>1, <1>2, <2>1, <2>2, SoleSame DEF platform
<1>5. ASSUME NEW u \in Targets, WaitOver(u) \/ Still(u) \/ ThreeHours(u)
      PROVE  Sole(t)'
  <2>1. row'[t].status = row[t].status
    BY <1>0, <1>5, ClockShape
  <2>2. UNCHANGED platform
    BY <1>5 DEF WaitOver, Still, ThreeHours
  <2> QED
    BY <1>1, <1>2, <2>1, <2>2, SoleSame DEF platform
<1>6. ASSUME NEW u \in Targets, Process(u)
      PROVE  Sole(t)'
  <2>1. PICK n \in DOMAIN uploads[u] : uploads[u][n] = "running" /\ Becomes(u, n, "shown")
    BY <1>6, ProcessShape
  <2>2. Show(u, 1) /\ UNCHANGED row
    BY <1>6 DEF Process
  <2>3. CASE u = t
    BY <1>0, <1>1, <1>2, <2>1, <2>2, <2>3, SoleMade
  <2>4. CASE u # t
    <3>1. uploads'[t] = uploads[t] /\ out'[t] = out[t]
      BY <1>0, <2>1, <2>2, <2>4, BecomesShape, ShowTyped
    <3> QED
      BY <1>1, <1>2, <2>2, <3>1, SoleSame
  <2> QED
    BY <2>3, <2>4
<1>7. CASE UNCHANGED <<row, platform>>
  BY <1>1, <1>2, <1>7, SoleSame DEF platform
<1> QED
  BY <1>3, <1>4, <1>5, <1>6, <1>7 DEF Outside, Schedule, Leave, Request, ChooseRead, SlotComes, GrowsLate

LEMMA OnceSoleInit == Init => OnceSole
<1> SUFFICES ASSUME Init, NEW t \in Targets
             PROVE  Sole(t)
  BY DEF OnceSole
<1>1. out[t] = 0 /\ uploads[t] = << >>
  BY DEF Init
<1>2. ~Spent(t) /\ Single(t)
  BY <1>1 DEF Spent, Single
<1>3. \A v \in Sweeps : sweep[v].pc = "idle"
  BY IdleTyped DEF Init
<1> QED
  BY <1>2, <1>3 DEF Sole, Holds

LEMMA OnceSoleNext == Typed /\ OnceSole /\ [Next]_vars => OnceSole'
<1> SUFFICES ASSUME Typed, OnceSole, [Next]_vars
             PROVE  OnceSole'
  OBVIOUS
<1>1. CASE UNCHANGED vars
  <2>1. ASSUME NEW t \in Targets, Sole(t)  PROVE Sole(t)'
    BY <1>1, <2>1, SoleSame DEF vars, platform
  <2> QED
    BY <1>1, <2>1 DEF OnceSole, vars, history
<1> QED
  BY <1>1, NextSplit, StepSole, OutsideSole

\* A row whose call died or took too long is failed and not sent again: however the sweeps,
\* slow calls, polls and crashes overlap, a target is put on its channel twice only by a call
\* whose answer hid that something went out, or when the owner asks again for one whose
\* outcome was not learned or was written over (crosspost.ts: the updateMany of the claim,
\* the sweep of stuck rows, onAdapterError, pollProcessing; http.ts: channelFetch; service.ts:
\* the writes of a retry and of a new choice).
THEOREM OnChannelOnce == Spec => []OnceOut
<1>1. Spec => [](Typed /\ OnceKnown)
  BY TypedInit, TypedNext, OnceKnownInit, OnceKnownNext, PTL DEF Spec
<1>2. Spec => [](Typed /\ OnceSole)
  BY TypedInit, TypedNext, OnceSoleInit, OnceSoleNext, PTL DEF Spec
<1>3. Typed /\ OnceKnown /\ OnceSole => OnceOut
  BY SoleOnce
<1> QED
  BY <1>1, <1>2, <1>3, PTL
=============================================================================
