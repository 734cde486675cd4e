------------------------- MODULE CrmBroadcastProofs -------------------------
(***************************************************************************)
(* What the CRM broadcast promises, for any audience, batch size, number   *)
(* of workers, clicks and faults: it is well typed, no message is sent     *)
(* twice, one delivery chain is left, COMPLETED means completed, and the   *)
(* counters are those of the rows when nothing went wrong.                 *)
(***************************************************************************)
EXTENDS CrmBroadcast, FiniteSetTheorems, TLAPS

-----------------------------------------------------------------------------
(* The effect of each step of a worker on its own record *)

Others(w) == \A v \in Workers \ {w} : work'[v] = work[v]
Halts == {"no", "rate", "stopped", "cancelled"}
Handling == {"handle", "send", "mark", "retry", "limited", "refused"}

LEMMA WorkOf ==
  ASSUME TypeOK, NEW w \in Workers
  PROVE  /\ work[w] \in Work /\ work \in [Workers -> Work]
         /\ work[w].pc \in Steps /\ work[w].key \in Nat /\ work[w].halt \in Halts
         /\ work[w].todo \subseteq Contacts /\ work[w].held \subseteq Contacts /\ work[w].on \subseteq Contacts
  BY DEF TypeOK, Work, Halts

LEMMA RowOf ==
  ASSUME TypeOK, NEW c \in Contacts
  PROVE  row \in [Contacts -> Row] /\ row[c] \in Row /\ row[c].status \in RecipientStatus /\ row[c].attempts \in 0..MaxAttempts
  BY DEF TypeOK, Row

LEMMA IdleTyped ==
  /\ IdleWork \in Work /\ IdleWork.pc = "idle" /\ IdleWork.key = 0
  /\ IdleWork.todo = {} /\ IdleWork.held = {} /\ IdleWork.on = {}
  BY DEF IdleWork, Work, Steps

LEMMA StopEffect ==
  ASSUME TypeOK, NEW w \in Workers, Stop(w)
  PROVE  work' \in [Workers -> Work] /\ Others(w) /\ work'[w] = IdleWork
  BY IdleTyped, WorkOf DEF Stop, Others

LEMMA GotoEffect ==
  ASSUME TypeOK, NEW w \in Workers, NEW s \in Steps, Goto(w, s)
  PROVE  /\ work' \in [Workers -> Work] /\ Others(w)
         /\ work'[w].pc = s /\ work'[w].key = work[w].key /\ work'[w].todo = work[w].todo
         /\ work'[w].held = work[w].held /\ work'[w].on = work[w].on
  BY WorkOf DEF Goto, Others, Work

LEMMA TakeEffect ==
  ASSUME TypeOK, NEW w \in Workers, NEW j \in jobs, Take(w, j)
  PROVE  /\ work' \in [Workers -> Work] /\ Others(w)
         /\ \/ work' = work
            \/ /\ work'[w].todo = {} /\ work'[w].held = {} /\ work'[w].on = {} /\ work'[w].key = j.key
               /\ \/ j.kind = "start" /\ work'[w].pc = "claim"
                  \/ j.kind # "start" /\ work'[w].pc = "stale" /\ j.key = bc.seq /\ bc.status = "RUNNING"
<1>1. j.key \in Nat
  BY DEF TypeOK, Job
<1> DEFINE x(s) == [IdleWork EXCEPT !.pc = s, !.key = j.key]
<1>2. ASSUME NEW s \in {"claim", "stale"}
      PROVE  x(s) \in Work /\ x(s).pc = s /\ x(s).key = j.key /\ x(s).todo = {} /\ x(s).held = {} /\ x(s).on = {}
  BY <1>1, <1>2 DEF IdleWork, Work, Steps, StartSteps, BatchSteps
<1>3. \/ work' = work
      \/ j.kind = "start" /\ work' = [work EXCEPT ![w] = x("claim")]
      \/ j.kind # "start" /\ j.key = bc.seq /\ bc.status = "RUNNING" /\ work' = [work EXCEPT ![w] = x("stale")]
  BY DEF Take
<1> HIDE DEF x
<1> QED
  BY <1>2, <1>3, WorkOf DEF Others

LEMMA ClaimEffect ==
  ASSUME TypeOK, NEW w \in Workers, work' = [work EXCEPT ![w].pc = "rows", ![w].todo = Contacts]
  PROVE  /\ work' \in [Workers -> Work] /\ Others(w)
         /\ work'[w].pc = "rows" /\ work'[w].key = work[w].key /\ work'[w].todo = Contacts
         /\ work'[w].held = work[w].held /\ work'[w].on = work[w].on
  BY WorkOf DEF Others, Work, Steps, StartSteps

LEMMA InsertEffect ==
  ASSUME TypeOK, NEW w \in Workers, NEW c \in Contacts, StartRows(w, c)
  PROVE  /\ work' \in [Workers -> Work] /\ Others(w)
         /\ work'[w].pc = (IF work[w].todo = {c} THEN "count" ELSE "rows")
         /\ work'[w].key = work[w].key /\ work'[w].todo = work[w].todo \ {c} /\ work'[w].on = work[w].on
         /\ \/ row' = [row EXCEPT ![c].status = "PENDING"] /\ work'[w].held = work[w].held \cup {c}
            \/ row' = [row EXCEPT ![c].status = "SKIPPED"] /\ work'[w].held = work[w].held
<1>0. PICK eligible \in BOOLEAN :
      /\ row' = [row EXCEPT ![c].status = IF eligible THEN "PENDING" ELSE "SKIPPED"]
      /\ work' = [work EXCEPT ![w].todo = @ \ {c}, ![w].held = IF eligible THEN @ \cup {c} ELSE @,
                              ![w].pc = IF work[w].todo = {c} THEN "count" ELSE "rows"]
  BY DEF StartRows
<1> DEFINE x == [work[w] EXCEPT !.todo = work[w].todo \ {c},
                                !.held = IF eligible THEN work[w].held \cup {c} ELSE work[w].held,
                                !.pc = IF work[w].todo = {c} THEN "count" ELSE "rows"]
<1>1. /\ x \in Work /\ x.pc = (IF work[w].todo = {c} THEN "count" ELSE "rows") /\ x.key = work[w].key
      /\ x.todo = work[w].todo \ {c} /\ x.on = work[w].on
      /\ x.held = IF eligible THEN work[w].held \cup {c} ELSE work[w].held
  BY WorkOf DEF Work, Steps, StartSteps
<1>2. work' = [work EXCEPT ![w] = x]
  BY <1>0, WorkOf
<1> HIDE DEF x
<1>3. work' \in [Workers -> Work] /\ Others(w) /\ work'[w] = x
  BY <1>1, <1>2, WorkOf DEF Others
<1>4. CASE eligible = TRUE
  <2>1. row' = [row EXCEPT ![c].status = "PENDING"] /\ x.held = work[w].held \cup {c}
    BY <1>0, <1>1, <1>4
  <2> QED
    BY <1>1, <1>3, <2>1
<1>5. CASE eligible = FALSE
  <2>1. row' = [row EXCEPT ![c].status = "SKIPPED"] /\ x.held = work[w].held
    BY <1>0, <1>1, <1>5
  <2> QED
    BY <1>1, <1>3, <2>1
<1> QED
  BY <1>4, <1>5

LEMMA StaleEffect ==
  ASSUME TypeOK, NEW w \in Workers, Stale(w)
  PROVE  /\ work' \in [Workers -> Work] /\ Others(w)
         /\ work'[w].pc \in {"remain", "lease"} /\ work'[w].key = work[w].key
         /\ work'[w].held = work[w].held /\ work'[w].on = work[w].on
<1>0. PICK batch \in SUBSET Is("PENDING") :
        work' = [work EXCEPT ![w].todo = batch, ![w].pc = IF batch = {} THEN "remain" ELSE "lease"]
  BY DEF Stale
<1> DEFINE x == [work[w] EXCEPT !.todo = batch, !.pc = IF batch = {} THEN "remain" ELSE "lease"]
<1>1. /\ x \in Work /\ x.pc \in {"remain", "lease"} /\ x.key = work[w].key
      /\ x.held = work[w].held /\ x.on = work[w].on
  BY <1>0, WorkOf DEF Work, Steps, BatchSteps, Is
<1>2. work' = [work EXCEPT ![w] = x]
  BY <1>0, WorkOf
<1> HIDE DEF x
<1> QED
  BY <1>1, <1>2, WorkOf DEF Others

LEMMA LeaseEffect ==
  ASSUME TypeOK, NEW w \in Workers, NEW c \in Contacts, Lease(w, c)
  PROVE  /\ work' \in [Workers -> Work] /\ Others(w)
         /\ work'[w].pc \in {"lease", "remain", "next"} /\ (work'[w].pc = "remain" => work'[w].held = {})
         /\ work'[w].key = work[w].key /\ work'[w].on = work[w].on
         /\ work'[w].held = IF Leasable(c) THEN work[w].held \cup {c} ELSE work[w].held
<1> DEFINE held == IF Leasable(c) THEN work[w].held \cup {c} ELSE work[w].held
           rest == work[w].todo \ {c}
           pc == IF rest # {} THEN "lease" ELSE IF held = {} THEN "remain" ELSE "next"
           x == [work[w] EXCEPT !.todo = rest, !.held = held, !.pc = pc]
<1>1. /\ x \in Work /\ x.pc = pc /\ x.key = work[w].key /\ x.on = work[w].on /\ x.held = held
      /\ pc \in {"lease", "remain", "next"} /\ (pc = "remain" => held = {})
  BY WorkOf DEF Work, Steps, BatchSteps
<1>2. work' = [work EXCEPT ![w] = x]
  BY WorkOf DEF Lease
<1> HIDE DEF x
<1> QED
  BY <1>1, <1>2, WorkOf DEF Others

LEMMA HandledEffect ==
  ASSUME TypeOK, NEW w \in Workers, NEW h \in Halts, Handled(w, h)
  PROVE  /\ work' \in [Workers -> Work] /\ Others(w)
         /\ work'[w].pc \in {"next", "idle", "remain"} /\ (work'[w].pc # "next" => work'[w].held = {})
         /\ work'[w].on = {} /\ work'[w].held = work[w].held
         /\ work'[w].pc # "idle" => work'[w].key = work[w].key
<1> DEFINE x(s) == [work[w] EXCEPT !.pc = s, !.on = {}, !.halt = h]
<1>1. ASSUME NEW s \in {"next", "remain"}
      PROVE  /\ x(s) \in Work /\ x(s).pc = s /\ x(s).on = {} /\ x(s).held = work[w].held /\ x(s).key = work[w].key
  BY <1>1, WorkOf DEF Work, Steps, BatchSteps, Halts
<1>2. \/ work[w].held # {} /\ work' = [work EXCEPT ![w] = x("next")]
      \/ work[w].held = {} /\ work' = [work EXCEPT ![w] = IdleWork]
      \/ work[w].held = {} /\ work' = [work EXCEPT ![w] = x("remain")]
  BY WorkOf DEF Handled
<1> HIDE DEF x
<1> QED
  BY <1>1, <1>2, WorkOf, IdleTyped DEF Others

LEMMA NextEffect ==
  ASSUME TypeOK, NEW w \in Workers, NEW c \in Contacts, Next1(w, c)
  PROVE  /\ work' \in [Workers -> Work] /\ Others(w)
         /\ work'[w].pc = "handle" /\ work'[w].key = work[w].key
         /\ work'[w].held = work[w].held \ {c} /\ work'[w].on = {c} /\ c \in work[w].held
<1> DEFINE x(h) == [work[w] EXCEPT !.pc = "handle", !.held = work[w].held \ {c}, !.on = {c}, !.halt = h]
<1>1. ASSUME NEW h \in Halts
      PROVE  /\ x(h) \in Work /\ x(h).pc = "handle" /\ x(h).on = {c} /\ x(h).held = work[w].held \ {c}
             /\ x(h).key = work[w].key
  BY WorkOf DEF Work, Steps, BatchSteps, Halts
<1> DEFINE halt == IF work[w].halt # "no" THEN work[w].halt
                  ELSE IF bc.status = "CANCELLED" THEN "cancelled"
                  ELSE IF bc.status # "RUNNING" \/ bc.seq # work[w].key THEN "stopped" ELSE "no"
<1>2. work' = [work EXCEPT ![w] = x(halt)] /\ c \in work[w].held
  BY WorkOf DEF Next1
<1>3. halt \in Halts
  BY WorkOf DEF Halts
<1> HIDE DEF x, halt
<1>4. work' = [work EXCEPT ![w] = x(halt)] /\ x(halt) \in Work /\ x(halt).pc = "handle" /\ x(halt).on = {c}
      /\ x(halt).held = work[w].held \ {c} /\ x(halt).key = work[w].key
  BY <1>1, <1>2, <1>3
<1> QED
  BY <1>2, <1>4, WorkOf DEF Others

-----------------------------------------------------------------------------
(* Types, and the order of things they rest on: nothing happens before the *)
(* start has claimed the broadcast, one start inserts the rows, a worker   *)
(* has in its hands what its step says, and no other worker has it.        *)

AttemptsOf(c) ==
  /\ row[c].status \in {"NONE", "PENDING"} => row[c].attempts < MaxAttempts
  /\ row[c].status = "SENDING" => row[c].attempts > 0
Attempts == \A c \in Contacts : AttemptsOf(c)

Inserting(w) == work[w].pc \in {"rows", "count", "first"}

Begun ==
  /\ bc.status \in {"DRAFT", "SCHEDULED"} => ~bc.started
  /\ bc.status = "RUNNING" => bc.started
  /\ ~bc.started => /\ \A c \in Contacts : row[c].status = "NONE"
                    /\ \A w \in Workers : work[w].pc \in {"idle", "claim"}
                    /\ \A j \in jobs : j.kind = "start"
                    /\ "tick" \notin asked

Inserts ==
  /\ \A v, w \in Workers : Inserting(v) /\ Inserting(w) => v = w
  /\ \A w \in Workers : At(w, "rows") => \A c \in work[w].todo : row[c].status = "NONE"

HandsOf(w) ==
  /\ work[w].pc \in {"idle", "claim", "stale", "remain", "complete", "tick"} => work[w].held = {}
  /\ work[w].pc \notin Handling => work[w].on = {}
  /\ work[w].pc \in Handling => \E c \in Contacts : work[w].on = {c} /\ c \notin work[w].held

Hands == \A w \in Workers : HandsOf(w)

\* A contact is in the hands of one worker, and its row is leased, or the lease ran out.
Holds(w, c) == ~IsStart(w) /\ c \in work[w].held \cup work[w].on
Gripped(c) ==
  /\ \A v, w \in Workers : Holds(v, c) /\ Holds(w, c) => v = w
  /\ \A w \in Workers : Holds(w, c) => row[c].status \in {"SENDING", "FAILED"}
Grip == \A c \in Contacts : Gripped(c)

Typed == TypeOK /\ Attempts /\ Begun /\ Inserts /\ Hands /\ Grip

LEMMA InitTyped == Init => Typed
<1> SUFFICES ASSUME Init PROVE Typed
  OBVIOUS
<1>1. NoRow \in Row /\ NoRow.attempts < MaxAttempts /\ NoRow.status = "NONE"
  BY BroadcastAssumption DEF NoRow, Row, RecipientStatus
<1>2. row \in [Contacts -> Row] /\ \A c \in Contacts : row[c] = NoRow
  BY <1>1 DEF Init
<1>3. work \in [Workers -> Work] /\ \A w \in Workers : work[w] = IdleWork
  BY IdleTyped DEF Init
<1>4. bc \in [status : Status, started : BOOLEAN, seq : Nat, at : Nat, due : BOOLEAN]
      /\ bc.status = "DRAFT" /\ bc.started = FALSE
  BY DEF Init, Status
<1>5. TypeOK
  <2>0. got \in [Contacts -> 0..2]
    BY DEF Init
  <2>1. count \in [{"SENT", "SKIPPED", "FAILED"} -> Nat]
    <3>1. count = [s \in {"SENT", "SKIPPED", "FAILED"} |-> 0]
      BY DEF Init
    <3> QED
      BY <3>1
  <2>2. fuel \in 0..MaxTrouble /\ clicks \in 0..MaxClicks
    BY BroadcastAssumption DEF Init
  <2>3. lost = {} /\ early = FALSE /\ jobs = {} /\ kept = {} /\ asked = {}
    BY DEF Init
  <2> QED
    BY <1>2, <1>3, <1>4, <2>0, <2>1, <2>2, <2>3 DEF TypeOK
<1>6. Attempts /\ Inserts /\ Hands
  BY <1>1, <1>2, <1>3, IdleTyped DEF Attempts, AttemptsOf, Inserts, Inserting, At, Hands, HandsOf, Handling
<1>7. Begun
  BY <1>1, <1>2, <1>3, <1>4, IdleTyped DEF Init, Begun
<1>8. Grip
  BY <1>3, IdleTyped DEF Grip, Gripped, Holds
<1> QED
  BY <1>5, <1>6, <1>7, <1>8 DEF Typed

LEMMA FuelTyped == ASSUME TypeOK, Trouble \/ UNCHANGED fuel PROVE fuel' \in 0..MaxTrouble
  BY BroadcastAssumption DEF TypeOK, Trouble

LEMMA ClickTyped == ASSUME TypeOK, Click \/ UNCHANGED clicks PROVE clicks' \in 0..MaxClicks
  BY BroadcastAssumption DEF TypeOK, Click

LEMMA JobTyped == \A n \in Nat : StartJob(n) \in Job /\ Tick(n) \in Job /\ StartJob(n).kind = "start" /\ Tick(n).kind = "batch"
                                 /\ StartJob(n).key = n /\ Tick(n).key = n
  BY DEF StartJob, Tick, Job

LEMMA QueuedTyped ==
  ASSUME TypeOK, NEW n \in Nat
  PROVE  StartQueued(n) \in SUBSET Job /\ \A j \in StartQueued(n) : j \in jobs \/ j.kind = "start"
  BY JobTyped DEF TypeOK, StartQueued

LEMMA CountTyped ==
  ASSUME TypeOK, NEW s \in {"SENT", "SKIPPED", "FAILED"}, NEW n \in Nat, Counted(s, n)
  PROVE  count' \in [{"SENT", "SKIPPED", "FAILED"} -> Nat]
  BY DEF TypeOK, Counted

LEMMA SizeTyped == ASSUME NEW S \in SUBSET Contacts PROVE Cardinality(S) \in Nat
  BY BroadcastAssumption, FS_Subset, FS_CardinalityType

LEMMA SetRow ==
  ASSUME TypeOK, NEW c \in Contacts, NEW r \in Row, row' = [row EXCEPT ![c] = r]
  PROVE  row' \in [Contacts -> Row] /\ row'[c] = r /\ \A e \in Contacts \ {c} : row'[e] = row[e]
  BY DEF TypeOK

LEMMA ToFields ==
  ASSUME TypeOK, NEW c \in Contacts, NEW s \in RecipientStatus
  PROVE  To(c, s) \in Row /\ To(c, s).status = s /\ To(c, s).attempts = row[c].attempts
  BY RowOf DEF To, Row

LEMMA BackFields ==
  ASSUME Typed, NEW c \in Contacts, row[c].status = "SENDING"
  PROVE  GivenBack(c) \in Row /\ GivenBack(c).status = "PENDING" /\ GivenBack(c).attempts < MaxAttempts
<1>1. row[c].attempts \in 1..MaxAttempts
  BY RowOf, BroadcastAssumption DEF Typed, Attempts, AttemptsOf
<1> QED
  BY <1>1, BroadcastAssumption DEF GivenBack, Row, RecipientStatus

-----------------------------------------------------------------------------
(* Types: the dashboard and the clock *)

LEMMA OutsideTyped ==
  ASSUME Typed,
         \/ Clock \/ MaintainStart \/ MaintainTick \/ Schedule \/ Pause \/ Remove \/ ResumeSchedule
         \/ ResumeRun \/ ResumeTick \/ Cancel \/ Flush \/ UNCHANGED vars
  PROVE  Typed'
<1>1. UNCHANGED <<row, count, work, got, lost, early>>
  BY DEF Clock, MaintainStart, MaintainTick, Schedule, Pause, Remove, ResumeSchedule, ResumeRun, ResumeTick,
         Cancel, Flush, vars, history
<1>2. fuel' \in 0..MaxTrouble /\ clicks' \in 0..MaxClicks
  BY FuelTyped, ClickTyped DEF Typed, Clock, MaintainStart, MaintainTick, Schedule, Pause, Remove, ResumeSchedule,
         ResumeRun, ResumeTick, Cancel, Flush, vars, Dashboard
<1>3. bc \in [status : Status, started : BOOLEAN, seq : Nat, at : Nat, due : BOOLEAN]
  BY DEF Typed, TypeOK
<1>4. bc' \in [status : Status, started : BOOLEAN, seq : Nat, at : Nat, due : BOOLEAN]
  <2>1. CASE UNCHANGED bc
    BY <1>3, <2>1
  <2>2. CASE Clock \/ MaintainTick \/ ResumeTick
    <3>1. bc' = [bc EXCEPT !.due = TRUE] \/ bc' = [bc EXCEPT !.seq = bc.seq + 1]
      BY <2>2 DEF Clock, MaintainTick, ResumeTick
    <3>2. CASE bc' = [bc EXCEPT !.due = TRUE]
      BY <1>3, <3>2
    <3>3. CASE bc' = [bc EXCEPT !.seq = bc.seq + 1]
      BY <1>3, <3>3
    <3> QED
      BY <3>1, <3>2, <3>3
  <2>3. CASE Schedule \/ Pause \/ ResumeRun \/ Cancel
    <3>1. \E s \in Status : bc' = [bc EXCEPT !.status = s]
      <4>1. CASE Schedule
        BY <4>1 DEF Schedule, Status
      <4>2. CASE Pause
        BY <4>2 DEF Pause, Status
      <4>3. CASE ResumeRun
        BY <4>3 DEF ResumeRun, Status
      <4>4. CASE Cancel
        BY <4>4 DEF Cancel, Status
      <4> QED
        BY <2>3, <4>1, <4>2, <4>3, <4>4
    <3> QED
      BY <1>3, <3>1
  <2>4. CASE ResumeSchedule
    <3> DEFINE n == IF bc.due THEN bc.at + 1 ELSE bc.at
    <3>1. bc' = [bc EXCEPT !.status = "SCHEDULED", !.at = n]
      BY <2>4 DEF ResumeSchedule
    <3>2. n \in Nat
      BY <1>3
    <3> HIDE DEF n
    <3> QED
      BY <1>3, <3>1, <3>2 DEF Status
  <2> QED
    BY <2>1, <2>2, <2>3, <2>4 DEF MaintainStart, Remove, Flush, vars
<1>5. jobs' \in SUBSET Job /\ \A j \in jobs' : j \in jobs \/ j.kind = "start" \/ bc.started
  <2>1. jobs \in SUBSET Job /\ bc.at \in Nat /\ bc.at + 1 \in Nat /\ bc.seq + 1 \in Nat
    BY <1>3 DEF Typed, TypeOK
  <2>2. CASE UNCHANGED jobs \/ jobs' = {}
    BY <2>1, <2>2
  <2>3. CASE MaintainStart \/ Schedule \/ ResumeSchedule
    BY <2>1, <2>3, JobTyped, QueuedTyped DEF Typed, MaintainStart, Schedule, ResumeSchedule
  <2>4. CASE MaintainTick \/ ResumeTick
    BY <2>1, <2>4, JobTyped DEF Typed, Begun, MaintainTick, ResumeTick
  <2> QED
    BY <2>2, <2>3, <2>4 DEF Clock, Pause, Remove, ResumeRun, Cancel, Flush, vars
<1>6. kept' \in SUBSET Nat /\ asked' \in SUBSET {"remove", "tick", "skip"} /\ (~bc.started => "tick" \notin asked')
  BY DEF Typed, TypeOK, Begun, Clock, MaintainStart, MaintainTick, Schedule, Pause, Remove, ResumeSchedule,
         ResumeRun, ResumeTick, Cancel, Flush, vars, Dashboard
<1>7. /\ bc'.started = bc.started
      /\ bc'.status \in {"DRAFT", "SCHEDULED"} => ~bc.started
      /\ bc'.status = "RUNNING" => bc.started
  BY <1>3 DEF Typed, Begun, Clock, MaintainStart, MaintainTick, Schedule, Pause, Remove, ResumeSchedule,
         ResumeRun, ResumeTick, Cancel, Flush, vars
<1>8. Begun'
  BY <1>1, <1>5, <1>6, <1>7 DEF Typed, Begun
<1>9. TypeOK'
  BY <1>1, <1>2, <1>4, <1>5, <1>6 DEF Typed, TypeOK
<1> QED
  BY <1>1, <1>8, <1>9 DEF Typed, Attempts, AttemptsOf, Inserts, Inserting, At, Hands, HandsOf, Grip, Gripped, Holds, IsStart

LEMMA RowsTyped ==
  ASSUME Typed, CancelRows \/ \E c \in Contacts : Age(c)
  PROVE  Typed'
<1>1. UNCHANGED <<bc, jobs, kept, work, got, lost, early, clicks>> /\ fuel' \in 0..MaxTrouble
  BY FuelTyped DEF Typed, CancelRows, Age, Dashboard, history
<1>2. asked' \in SUBSET {"remove", "tick", "skip"} /\ ("tick" \in asked' => "tick" \in asked)
  BY DEF Typed, TypeOK, CancelRows, Age, Dashboard
<1>3. count' \in [{"SENT", "SKIPPED", "FAILED"} -> Nat]
  <2>1. Cardinality(Left) \in Nat
    BY SizeTyped DEF Left, Is
  <2> QED
    BY <2>1, CountTyped DEF Typed, TypeOK, CancelRows, Age
<1>4. /\ row' \in [Contacts -> Row]
      /\ \A e \in Contacts : /\ row'[e].attempts = row[e].attempts
                             /\ row'[e].status = row[e].status \/ (row[e].status = "PENDING" /\ row'[e].status = "SKIPPED")
  <2>1. CASE CancelRows
    BY <2>1, ToFields, RowOf DEF CancelRows, Left, Is, Typed, TypeOK, RecipientStatus
  <2>2. ASSUME NEW c \in Contacts, Age(c) PROVE row' \in [Contacts -> Row]
               /\ \A e \in Contacts : row'[e].attempts = row[e].attempts /\ row'[e].status = row[e].status
    <3>1. row' = [row EXCEPT ![c].old = TRUE]
      BY <2>2 DEF Age
    <3> QED
      BY <3>1 DEF Typed, TypeOK, Row
  <2> QED
    BY <2>1, <2>2
<1>5. TypeOK'
  BY <1>1, <1>2, <1>3, <1>4 DEF Typed, TypeOK
<1>6. Attempts'
  BY <1>4 DEF Typed, Attempts, AttemptsOf
<1>7. Inserts'
  BY <1>1, <1>4 DEF Typed, TypeOK, Work, Inserts, Inserting, At
<1>8. Hands'
  BY <1>1 DEF Typed, Hands, HandsOf
<1>9. Begun'
  BY <1>1, <1>2, <1>4 DEF Typed, Begun
<1>10. Grip'
  BY <1>1, <1>4 DEF Typed, Grip, Gripped, Holds, IsStart
<1> QED
  BY <1>5, <1>6, <1>7, <1>8, <1>9, <1>10 DEF Typed

-----------------------------------------------------------------------------
(* Types: the steps of a worker *)

\* What a step of worker w does to the rows and to what is in its hands.
Kind(w) ==
  /\ row' \in [Contacts -> Row] /\ work' \in [Workers -> Work] /\ Others(w)
  /\ Attempts' /\ Grip' /\ HandsOf(w)'
  /\ \A c \in Contacts : row[c].status = "NONE" => row'[c].status = "NONE"

LEMMA Underway ==
  ASSUME Typed, NEW w \in Workers, work[w].pc \notin {"idle", "claim"}
  PROVE  bc.started /\ bc.status \notin {"DRAFT", "SCHEDULED"}
  BY DEF Typed, Begun

\* A step of a worker in a batch, or one that ends a job.
LEMMA BatchTyped ==
  ASSUME Typed, NEW w \in Workers, work[w].pc \notin {"idle", "claim"}, Kind(w),
         ~Inserting(w)', work'[w].pc # "claim",
         bc' \in [status : Status, started : BOOLEAN, seq : Nat, at : Nat, due : BOOLEAN],
         bc'.started, bc'.status \notin {"DRAFT", "SCHEDULED"},
         jobs' \in SUBSET Job, kept' \in SUBSET Nat, UNCHANGED Dashboard,
         count' \in [{"SENT", "SKIPPED", "FAILED"} -> Nat],
         got' \in [Contacts -> 0..2], lost' \in SUBSET Contacts, early' \in BOOLEAN, fuel' \in 0..MaxTrouble
  PROVE  Typed'
<1>1. TypeOK'
  BY DEF Typed, TypeOK, Kind, Dashboard
<1>2. Begun'
  BY DEF Begun
<1>3. Hands'
  BY DEF Typed, Hands, HandsOf, Kind, Others
<1>4. Inserts'
  <2>1. \A v \in Workers : Inserting(v)' => Inserting(v) /\ v # w /\ work'[v] = work[v]
    BY DEF Kind, Others, Inserting
  <2>2. \A v \in Workers : At(v, "rows")' => At(v, "rows") /\ work'[v] = work[v]
    BY DEF Kind, Others, Inserting, At
  <2>3. \A v \in Workers : work[v].todo \subseteq Contacts
    BY WorkOf DEF Typed
  <2> QED
    BY <2>1, <2>2, <2>3 DEF Typed, Inserts, Kind
<1> QED
  BY <1>1, <1>2, <1>3, <1>4 DEF Typed, Kind

\* A worker lets go of the contact it was handling.
LEMMA HandedOn ==
  ASSUME Typed, NEW w \in Workers, NEW c \in Contacts, work[w].on = {c}, work[w].pc \in Handling,
         work' \in [Workers -> Work], Others(w), work'[w].on = {}, work'[w].held = work[w].held,
         work'[w].pc \in {"next", "idle", "remain"}, work'[w].pc # "next" => work'[w].held = {},
         NEW r \in Row, row' = row \/ row' = [row EXCEPT ![c] = r],
         r.status \notin {"NONE", "SENDING"}, r.status = "PENDING" => r.attempts < MaxAttempts
  PROVE  Kind(w)
<1>1. row \in [Contacts -> Row] /\ TypeOK
  BY RowOf DEF Typed
<1>2. row' \in [Contacts -> Row] /\ \A e \in Contacts \ {c} : row'[e] = row[e]
  BY <1>1, SetRow
<1>3. row'[c] = row[c] \/ row'[c] = r
  BY <1>1, SetRow
<1>4. ~IsStart(w) /\ Holds(w, c) /\ c \notin work[w].held
  BY DEF Typed, Hands, HandsOf, Handling, IsStart, StartSteps, Holds
<1>5. row[c].status \in {"SENDING", "FAILED"} /\ \A v \in Workers : Holds(v, c) => v = w
  BY <1>4 DEF Typed, Grip, Gripped
<1>6. Attempts'
  BY <1>2, <1>3 DEF Typed, Attempts, AttemptsOf
<1>7. \A v \in Workers, e \in Contacts : Holds(v, e)' => Holds(v, e) /\ e # c
  BY <1>4, <1>5 DEF Holds, Others, IsStart, StartSteps
<1>8. Grip'
  BY <1>2, <1>7 DEF Typed, Grip, Gripped
<1>9. HandsOf(w)'
  BY DEF HandsOf, Handling
<1> QED
  BY <1>2, <1>3, <1>5, <1>6, <1>8, <1>9 DEF Kind

\* A worker whose hands do not grow, with the rows as they were.
LEMMA SameRows ==
  ASSUME Typed, NEW w \in Workers, UNCHANGED row, work' \in [Workers -> Work], Others(w), HandsOf(w)',
         \A e \in Contacts : Holds(w, e)' => Holds(w, e)
  PROVE  Kind(w)
<1>1. row' \in [Contacts -> Row] /\ Attempts'
  <2>1. row' \in [Contacts -> Row]
    BY DEF Typed, TypeOK
  <2> QED
    BY <2>1 DEF Typed, Attempts, AttemptsOf
<1>2. \A v \in Workers, e \in Contacts : Holds(v, e)' => Holds(v, e)
  BY DEF Holds, Others, IsStart
<1>3. Grip'
  BY <1>2 DEF Typed, Grip, Gripped
<1> QED
  BY <1>1, <1>3 DEF Kind

LEMMA LetGo ==
  ASSUME Typed, NEW w \in Workers, UNCHANGED row, Stop(w)
  PROVE  Kind(w)
<1>1. HandsOf(w)' /\ work' \in [Workers -> Work] /\ Others(w) /\ \A e \in Contacts : ~Holds(w, e)'
  BY StopEffect, IdleTyped DEF Typed, HandsOf, Handling, Holds
<1> QED
  BY <1>1, SameRows

LEMMA TakeTyped ==
  ASSUME Typed, NEW w \in Workers, NEW j \in jobs, Take(w, j)
  PROVE  Typed'
<1>1. TypeOK /\ UNCHANGED <<bc, row, count, kept, asked, got, lost, early, clicks, fuel>> /\ jobs' \in SUBSET Job
      /\ \A i \in jobs' : i \in jobs
  BY DEF Typed, TypeOK, Take, Dashboard, history
<1>2. /\ work' \in [Workers -> Work] /\ Others(w)
      /\ work' = work \/ (/\ work'[w].todo = {} /\ work'[w].held = {} /\ work'[w].on = {}
                         /\ work'[w].pc \in {"claim", "stale"} /\ (work'[w].pc = "stale" => bc.status = "RUNNING"))
  BY <1>1, TakeEffect
<1>3. TypeOK'
  BY <1>1, <1>2 DEF TypeOK
<1>4. CASE work' = work
  BY <1>1, <1>3, <1>4 DEF Typed, Attempts, AttemptsOf, Begun, Inserts, Inserting, At, Hands, HandsOf, Grip, Gripped,
                          Holds, IsStart
<1>5. CASE work' # work
  <2>1. HandsOf(w)' /\ (\A e \in Contacts : ~Holds(w, e)') /\ work'[w].pc \in {"claim", "stale"}
    BY <1>2, <1>5 DEF HandsOf, Handling, Holds
  <2>2. Kind(w)
    BY <1>1, <1>2, <2>1, SameRows
  <2>3. Begun'
    BY <1>1, <1>2, <2>1 DEF Typed, Begun, Others
  <2>4. Inserts'
    BY <1>1, <1>2, <2>1 DEF Typed, Inserts, Inserting, At, Others
  <2>5. Hands'
    BY <1>2, <2>1 DEF Typed, Hands, HandsOf, Others
  <2> QED
    BY <1>3, <2>2, <2>3, <2>4, <2>5 DEF Typed, Kind
<1> QED
  BY <1>4, <1>5

LEMMA CrashTyped ==
  ASSUME Typed, NEW w \in Workers, Crash(w) \/ StartError(w)
  PROVE  Typed'
<1>0. bc \in [status : Status, started : BOOLEAN, seq : Nat, at : Nat, due : BOOLEAN] /\ work[w].key \in Nat
  BY WorkOf DEF Typed, TypeOK
<1>1. /\ UNCHANGED <<row, count, asked, got, lost, early, clicks>> /\ Stop(w) /\ fuel' \in 0..MaxTrouble
      /\ kept' \in SUBSET Nat
  BY <1>0, FuelTyped DEF Typed, TypeOK, Crash, StartError, Keep, Dashboard, history
<1>2. /\ jobs' \in SUBSET Job
      /\ \A j \in jobs' : j \in jobs \/ j.kind = "start" \/ ~IsStart(w)
  <2>1. jobs \in SUBSET Job
    BY DEF Typed, TypeOK
  <2>2. UNCHANGED jobs \/ jobs' = jobs \cup {StartJob(work[w].key)} \/ (~IsStart(w) /\ jobs' = jobs \cup {Tick(work[w].key)})
    BY DEF Crash, StartError
  <2> QED
    BY <1>0, <2>1, <2>2, JobTyped
<1>3. /\ bc' \in [status : Status, started : BOOLEAN, seq : Nat, at : Nat, due : BOOLEAN]
      /\ bc'.started = bc.started
      /\ bc' = bc \/ (bc'.status = "FAILED" /\ work[w].pc \notin {"idle", "claim"})
  <2>1. bc' = bc \/ (bc' = [bc EXCEPT !.status = "FAILED"] /\ work[w].pc \notin {"idle", "claim"})
    BY DEF Crash, StartError, At, IsStart, StartSteps
  <2> QED
    BY <1>0, <2>1 DEF Status
<1>4. Kind(w)
  BY <1>1, LetGo
<1>5. work[w].pc # "idle"
  BY DEF Crash, StartError, IsStart, StartSteps, At
<1>6. TypeOK'
  BY <1>1, <1>2, <1>3, <1>4 DEF Typed, TypeOK, Kind
<1>7. work'[w].pc = "idle"
  BY <1>1, StopEffect, IdleTyped DEF Typed
<1>8. CASE work[w].pc = "claim"
  <2>1. bc' = bc /\ \A j \in jobs' : j \in jobs \/ j.kind = "start"
    BY <1>2, <1>3, <1>8 DEF IsStart, StartSteps
  <2>2. Begun'
    BY <1>1, <1>4, <1>7, <2>1 DEF Typed, Begun, Kind, Others
  <2>3. Inserts'
    BY <1>1, <1>4, <1>7 DEF Typed, Inserts, Inserting, At, Kind, Others
  <2>4. Hands'
    BY <1>4 DEF Typed, Hands, HandsOf, Kind, Others
  <2> QED
    BY <1>4, <1>6, <2>2, <2>3, <2>4 DEF Typed, Kind
<1>9. CASE work[w].pc # "claim"
  <2>1. bc'.started /\ bc'.status \notin {"DRAFT", "SCHEDULED"}
    BY <1>3, <1>5, <1>9, Underway
  <2> QED
    BY <1>1, <1>2, <1>3, <1>4, <1>5, <1>6, <1>7, <1>9, <2>1, BatchTyped DEF Inserting, TypeOK, Dashboard
<1> QED
  BY <1>8, <1>9

LEMMA StartClaimTyped ==
  ASSUME Typed, NEW w \in Workers, StartClaim(w)
  PROVE  Typed'
<1>0. bc \in [status : Status, started : BOOLEAN, seq : Nat, at : Nat, due : BOOLEAN] /\ work[w].key \in Nat /\ TypeOK
  BY WorkOf DEF Typed, TypeOK
<1>1. UNCHANGED <<row, count, jobs, asked, got, lost, early, clicks, fuel>> /\ At(w, "claim")
  BY DEF StartClaim, Dashboard, history
<1>2. CASE bc.status = "SCHEDULED"
  <2>1. /\ bc' = [bc EXCEPT !.status = "RUNNING", !.started = TRUE] /\ UNCHANGED kept
        /\ work' = [work EXCEPT ![w].pc = "rows", ![w].todo = Contacts]
    BY <1>2 DEF StartClaim
  <2>2. bc' \in [status : Status, started : BOOLEAN, seq : Nat, at : Nat, due : BOOLEAN] /\ bc'.status = "RUNNING" /\ bc'.started
    BY <1>0, <2>1 DEF Status
  <2>3. /\ work' \in [Workers -> Work] /\ Others(w) /\ work'[w].pc = "rows" /\ work'[w].todo = Contacts
        /\ work'[w].held = work[w].held /\ work'[w].on = work[w].on
    BY <1>0, <2>1, ClaimEffect
  <2>4. HandsOf(w)' /\ \A e \in Contacts : ~Holds(w, e)'
    BY <1>1, <2>3 DEF Typed, Hands, HandsOf, Handling, Holds, IsStart, StartSteps, At
  <2>5. Kind(w)
    BY <1>1, <2>3, <2>4, SameRows
  <2>6. (\A c \in Contacts : row[c].status = "NONE") /\ \A v \in Workers : work[v].pc \in {"idle", "claim"}
    BY <1>2 DEF Typed, Begun
  <2>7. Inserts'
    BY <1>1, <2>3, <2>6 DEF Inserts, Inserting, At, Others
  <2>8. Hands'
    BY <2>5 DEF Typed, Hands, HandsOf, Kind, Others
  <2>9. TypeOK' /\ Begun'
    BY <1>0, <1>1, <2>1, <2>2, <2>3 DEF TypeOK, Begun
  <2> QED
    BY <2>5, <2>7, <2>8, <2>9 DEF Typed, Kind
<1>3. CASE bc.status # "SCHEDULED"
  <2>1. Stop(w) /\ Keep(w) /\ UNCHANGED bc
    BY <1>3 DEF StartClaim
  <2>2. Kind(w) /\ work'[w].pc = "idle"
    BY <1>0, <1>1, <2>1, LetGo, StopEffect, IdleTyped
  <2>3. TypeOK'
    BY <1>0, <1>1, <2>1, <2>2 DEF TypeOK, Kind, Keep
  <2>4. Begun'
    BY <1>1, <2>1, <2>2 DEF Typed, Begun, Kind, Others
  <2>5. Inserts'
    BY <1>1, <2>2 DEF Typed, Inserts, Inserting, At, Kind, Others
  <2>6. Hands'
    BY <2>2 DEF Typed, Hands, HandsOf, Kind, Others
  <2> QED
    BY <2>2, <2>3, <2>4, <2>5, <2>6 DEF Typed, Kind
<1> QED
  BY <1>2, <1>3

LEMMA StartRowsTyped ==
  ASSUME Typed, NEW w \in Workers, NEW c \in Contacts, StartRows(w, c)
  PROVE  Typed'
<1>0. TypeOK /\ row \in [Contacts -> Row] /\ row[c] \in Row
  BY RowOf DEF Typed
<1>1. UNCHANGED <<bc, count, jobs, kept, asked, got, lost, early, clicks, fuel>> /\ At(w, "rows") /\ c \in work[w].todo
  BY DEF StartRows, Dashboard, history
<1>2. /\ work' \in [Workers -> Work] /\ Others(w) /\ work'[w].pc \in {"rows", "count"}
      /\ work'[w].todo = work[w].todo \ {c} /\ work'[w].on = work[w].on
  BY <1>0, InsertEffect
<1>3. \E s \in {"PENDING", "SKIPPED"} : row' = [row EXCEPT ![c].status = s]
  BY <1>0, InsertEffect
<1>4. /\ row' \in [Contacts -> Row] /\ row'[c].attempts = row[c].attempts /\ row'[c].status \in {"PENDING", "SKIPPED"}
      /\ \A e \in Contacts \ {c} : row'[e] = row[e]
  <2>1. PICK s \in {"PENDING", "SKIPPED"} : row' = [row EXCEPT ![c].status = s]
    BY <1>3
  <2> DEFINE r == [row[c] EXCEPT !.status = s]
  <2>2. r \in Row /\ r.status = s /\ r.attempts = row[c].attempts
    BY <1>0 DEF Row, RecipientStatus
  <2>3. row' = [row EXCEPT ![c] = r]
    BY <1>0, <2>1
  <2> HIDE DEF r
  <2> QED
    BY <1>0, <2>2, <2>3, SetRow
<1>5. row[c].status = "NONE"
  BY <1>1 DEF Typed, Inserts
<1>6. Attempts'
  BY <1>4, <1>5 DEF Typed, Attempts, AttemptsOf
<1>7. \A v \in Workers, e \in Contacts : Holds(v, e)' => Holds(v, e) /\ e # c
  <2>1. \A v \in Workers : ~Holds(v, c)
    BY <1>5 DEF Typed, Grip, Gripped
  <2>2. \A v \in Workers, e \in Contacts : Holds(v, e)' => Holds(v, e)
    BY <1>2 DEF Holds, Others, IsStart, StartSteps
  <2> QED
    BY <2>1, <2>2
<1>8. Grip'
  BY <1>4, <1>7 DEF Typed, Grip, Gripped
<1>9. Hands'
  BY <1>1, <1>2 DEF Typed, Hands, HandsOf, Others, At, Handling
<1>10. Inserts'
  <2>1. \A v \in Workers : Inserting(v)' => v = w
    BY <1>1, <1>2 DEF Typed, Inserts, Inserting, At, Others
  <2>2. \A e \in work[w].todo \ {c} : row'[e].status = "NONE"
    BY <1>0, <1>1, <1>4, WorkOf DEF Typed, Inserts
  <2> QED
    BY <1>2, <2>1, <2>2 DEF Inserts, Inserting, At
<1>11. TypeOK'
  BY <1>0, <1>1, <1>2, <1>4 DEF TypeOK
<1>12. Begun'
  <2>1. bc.started /\ bc.status \notin {"DRAFT", "SCHEDULED"}
    BY <1>1, Underway DEF At
  <2> QED
    BY <1>1, <2>1 DEF Begun
<1> QED
  BY <1>6, <1>8, <1>9, <1>10, <1>11, <1>12 DEF Typed

LEMMA StartCountTyped ==
  ASSUME Typed, NEW w \in Workers, StartCount(w)
  PROVE  Typed'
<1>0. TypeOK /\ bc \in [status : Status, started : BOOLEAN, seq : Nat, at : Nat, due : BOOLEAN] /\ work[w].key \in Nat
      /\ work[w].held \subseteq Contacts
  BY WorkOf DEF Typed, TypeOK
<1>1. UNCHANGED <<row, jobs, asked, got, lost, early, clicks, fuel>> /\ At(w, "count")
  BY DEF StartCount, Dashboard, history
<1>2. count' \in [{"SENT", "SKIPPED", "FAILED"} -> Nat]
  <2>1. Cardinality(Contacts \ work[w].held) \in Nat
    BY SizeTyped
  <2> QED
    BY <1>0, <2>1, CountTyped DEF StartCount
<1>3. bc.started /\ bc.status \notin {"DRAFT", "SCHEDULED"}
  BY <1>1, Underway DEF At
<1>4. CASE work[w].held = {}
  <2>1. bc' = [bc EXCEPT !.status = "COMPLETED"] /\ Stop(w) /\ Keep(w)
    BY <1>4 DEF StartCount
  <2>2. bc' \in [status : Status, started : BOOLEAN, seq : Nat, at : Nat, due : BOOLEAN] /\ bc'.started /\ bc'.status = "COMPLETED"
    BY <1>0, <1>3, <2>1 DEF Status
  <2>3. Kind(w) /\ work'[w].pc = "idle"
    BY <1>0, <1>1, <2>1, LetGo, StopEffect, IdleTyped
  <2>4. kept' \in SUBSET Nat
    BY <1>0, <2>1 DEF TypeOK, Keep
  <2> QED
    BY <1>0, <1>1, <1>2, <2>2, <2>3, <2>4, BatchTyped DEF Inserting, At, TypeOK, Dashboard
<1>5. CASE work[w].held # {}
  <2>1. Goto(w, "first") /\ UNCHANGED <<bc, kept>>
    BY <1>5 DEF StartCount
  <2>2. /\ work' \in [Workers -> Work] /\ Others(w) /\ work'[w].pc = "first"
        /\ work'[w].held = work[w].held /\ work'[w].on = work[w].on
    BY <1>0, <2>1, GotoEffect DEF Steps, StartSteps
  <2>3. HandsOf(w)' /\ \A e \in Contacts : ~Holds(w, e)'
    BY <1>1, <2>2 DEF Typed, Hands, HandsOf, Handling, Holds, IsStart, StartSteps, At
  <2>4. Kind(w)
    BY <1>1, <2>2, <2>3, SameRows
  <2>5. TypeOK' /\ Begun'
    BY <1>0, <1>1, <1>2, <1>3, <2>1, <2>2 DEF TypeOK, Begun
  <2>6. Inserts'
    BY <1>1, <2>2 DEF Typed, Inserts, Inserting, At, Others
  <2>7. Hands'
    BY <2>4 DEF Typed, Hands, HandsOf, Kind, Others
  <2> QED
    BY <2>4, <2>5, <2>6, <2>7 DEF Typed, Kind
<1> QED
  BY <1>4, <1>5

LEMMA EndTyped ==
  ASSUME Typed, NEW w \in Workers, StartTick(w) \/ Complete(w) \/ TickOn(w)
  PROVE  Typed'
<1>0. TypeOK /\ bc \in [status : Status, started : BOOLEAN, seq : Nat, at : Nat, due : BOOLEAN] /\ work[w].key \in Nat
  BY WorkOf DEF Typed, TypeOK
<1>1. UNCHANGED <<row, count, asked, got, lost, early, clicks>> /\ Stop(w) /\ work[w].pc \notin {"idle", "claim"}
  BY DEF StartTick, Complete, TickOn, Dashboard, history, At
<1>2. kept' \in SUBSET Nat /\ fuel' \in 0..MaxTrouble
  BY <1>0, FuelTyped DEF TypeOK, StartTick, Complete, TickOn, Keep, Dashboard, history, Successor
<1>3. bc.started /\ bc.status \notin {"DRAFT", "SCHEDULED"}
  BY <1>1, Underway
<1>4. /\ bc' \in [status : Status, started : BOOLEAN, seq : Nat, at : Nat, due : BOOLEAN]
      /\ bc'.started /\ bc'.status \notin {"DRAFT", "SCHEDULED"}
  <2>1. bc' = bc \/ bc' = [bc EXCEPT !.status = "COMPLETED"] \/ \E n \in Nat : bc' = [bc EXCEPT !.seq = n]
    <3>1. CASE StartTick(w)
      <4>1. bc' = [bc EXCEPT !.seq = bc.seq + 1]
        BY <3>1 DEF StartTick
      <4> QED
        BY <1>0, <4>1
    <3>2. CASE Complete(w)
      BY <3>2 DEF Complete
    <3>3. CASE TickOn(w)
      <4>1. bc' = bc \/ bc' = [bc EXCEPT !.seq = work[w].key + 1]
        BY <3>3 DEF TickOn, Successor
      <4> QED
        BY <1>0, <4>1
    <3> QED
      BY <3>1, <3>2, <3>3
  <2>2. CASE bc' = bc
    BY <1>0, <1>3, <2>2
  <2>3. CASE bc' = [bc EXCEPT !.status = "COMPLETED"]
    BY <1>0, <1>3, <2>3 DEF Status
  <2>4. ASSUME NEW n \in Nat, bc' = [bc EXCEPT !.seq = n]
        PROVE  bc' \in [status : Status, started : BOOLEAN, seq : Nat, at : Nat, due : BOOLEAN]
               /\ bc'.started = bc.started /\ bc'.status = bc.status
    BY <1>0, <2>4
  <2> QED
    BY <1>3, <2>1, <2>2, <2>3, <2>4
<1>5. jobs' \in SUBSET Job
  BY <1>0, JobTyped DEF TypeOK, StartTick, Complete, TickOn, Successor
<1>6. Kind(w) /\ work'[w].pc = "idle"
  BY <1>0, <1>1, LetGo, StopEffect, IdleTyped
<1> QED
  BY <1>0, <1>1, <1>2, <1>4, <1>5, <1>6, BatchTyped DEF Inserting, TypeOK, Dashboard

\* The steps of a tick that leave the broadcast and the queue alone.
LEMMA TickTyped ==
  ASSUME Typed, NEW w \in Workers, work[w].pc \notin {"idle", "claim"}, Kind(w),
         ~IsStart(w)', UNCHANGED <<bc, jobs, kept, asked, clicks>>,
         count' \in [{"SENT", "SKIPPED", "FAILED"} -> Nat],
         got' \in [Contacts -> 0..2], lost' \in SUBSET Contacts, early' \in BOOLEAN, fuel' \in 0..MaxTrouble
  PROVE  Typed'
<1>1. /\ bc' \in [status : Status, started : BOOLEAN, seq : Nat, at : Nat, due : BOOLEAN]
      /\ bc'.started /\ bc'.status \notin {"DRAFT", "SCHEDULED"}
  BY Underway DEF Typed, TypeOK
<1>2. jobs' \in SUBSET Job /\ kept' \in SUBSET Nat
  BY DEF Typed, TypeOK
<1>3. ~Inserting(w)' /\ work'[w].pc # "claim"
  BY DEF Inserting, IsStart, StartSteps
<1> QED
  BY <1>1, <1>2, <1>3, BatchTyped DEF Dashboard

LEMMA StaleTyped ==
  ASSUME Typed, NEW w \in Workers, Stale(w)
  PROVE  Typed'
<1>0. TypeOK /\ row \in [Contacts -> Row]
  BY DEF Typed, TypeOK
<1>1. UNCHANGED <<bc, jobs, kept, asked, got, lost, early, clicks, fuel>> /\ At(w, "stale")
  BY DEF Stale, Dashboard, history
<1>2. row' = [c \in Contacts |-> IF c \in Dead THEN To(c, "FAILED") ELSE row[c]]
  BY DEF Stale
<1>3. /\ work' \in [Workers -> Work] /\ Others(w) /\ work'[w].pc \in {"remain", "lease"}
      /\ work'[w].held = work[w].held /\ work'[w].on = work[w].on
  BY <1>0, StaleEffect
<1>4. /\ row' \in [Contacts -> Row]
      /\ \A c \in Contacts : row'[c] = row[c] \/ (row[c].status = "SENDING" /\ row'[c].status = "FAILED")
  BY <1>0, <1>2, ToFields DEF Dead, Is, RecipientStatus
<1>5. count' \in [{"SENT", "SKIPPED", "FAILED"} -> Nat]
  <2>1. Cardinality(Dead) \in Nat
    BY SizeTyped DEF Dead, Is
  <2> QED
    BY <1>0, <2>1, CountTyped DEF Stale
<1>6. HandsOf(w)' /\ \A e \in Contacts : ~Holds(w, e)'
  BY <1>1, <1>3 DEF Typed, Hands, HandsOf, Handling, Holds, At
<1>7. Attempts'
  BY <1>4 DEF Typed, Attempts, AttemptsOf
<1>8. Grip'
  <2>1. \A v \in Workers, e \in Contacts : Holds(v, e)' => Holds(v, e)
    BY <1>3, <1>6 DEF Holds, Others, IsStart
  <2> QED
    BY <1>4, <2>1 DEF Typed, Grip, Gripped
<1>9. Kind(w)
  BY <1>3, <1>4, <1>6, <1>7, <1>8 DEF Kind
<1> QED
  BY <1>0, <1>1, <1>3, <1>5, <1>9, TickTyped DEF IsStart, StartSteps, TypeOK, At

LEMMA LeaseTyped ==
  ASSUME Typed, NEW w \in Workers, NEW c \in Contacts, Lease(w, c)
  PROVE  Typed'
<1>0. TypeOK /\ row \in [Contacts -> Row] /\ row[c] \in Row /\ row[c].attempts \in 0..MaxAttempts
  BY RowOf DEF Typed
<1>1. UNCHANGED <<bc, count, jobs, kept, asked, got, lost, early, clicks, fuel>> /\ At(w, "lease")
  BY DEF Lease, Dashboard, history
<1>2. /\ work' \in [Workers -> Work] /\ Others(w) /\ work'[w].pc \in {"lease", "remain", "next"}
      /\ (work'[w].pc = "remain" => work'[w].held = {}) /\ work'[w].on = work[w].on
      /\ work'[w].held = IF Leasable(c) THEN work[w].held \cup {c} ELSE work[w].held
  BY <1>0, LeaseEffect
<1>3. HandsOf(w)' /\ work'[w].on = {} /\ ~IsStart(w) /\ ~IsStart(w)'
  BY <1>1, <1>2 DEF Typed, Hands, HandsOf, Handling, IsStart, StartSteps, At
<1>4. CASE Leasable(c)
  <2> DEFINE r == [status |-> "SENDING", attempts |-> row[c].attempts + 1, old |-> FALSE]
  <2>1. row[c].status = "PENDING" /\ row[c].attempts < MaxAttempts
    BY <1>4 DEF Leasable, Typed, Attempts, AttemptsOf
  <2>2. r \in Row /\ r.status = "SENDING" /\ r.attempts > 0
    BY <1>0, <2>1, BroadcastAssumption DEF Row, RecipientStatus
  <2>3. row' = [row EXCEPT ![c] = r]
    BY <1>4 DEF Lease
  <2> HIDE DEF r
  <2>4. row' \in [Contacts -> Row] /\ row'[c] = r /\ \A e \in Contacts \ {c} : row'[e] = row[e]
    BY <1>0, <2>2, <2>3, SetRow
  <2>5. \A v \in Workers : ~Holds(v, c)
    BY <2>1 DEF Typed, Grip, Gripped
  <2>6. \A v \in Workers, e \in Contacts : Holds(v, e)' => Holds(v, e) \/ (v = w /\ e = c)
    BY <1>2, <1>3 DEF Holds, Others, IsStart
  <2>7. Grip'
    BY <2>2, <2>4, <2>5, <2>6 DEF Typed, Grip, Gripped
  <2>8. Attempts'
    BY <2>2, <2>4 DEF Typed, Attempts, AttemptsOf
  <2>9. Kind(w)
    BY <1>2, <1>3, <2>1, <2>4, <2>7, <2>8 DEF Kind
  <2> QED
    BY <1>0, <1>1, <1>3, <2>9, TickTyped DEF TypeOK, At
<1>5. CASE ~Leasable(c)
  <2>1. UNCHANGED row /\ \A e \in Contacts : Holds(w, e)' => Holds(w, e)
    BY <1>2, <1>3, <1>5 DEF Lease, Holds
  <2>2. Kind(w)
    BY <1>2, <1>3, <2>1, SameRows
  <2> QED
    BY <1>0, <1>1, <1>3, <2>2, TickTyped DEF TypeOK, At
<1> QED
  BY <1>4, <1>5

LEMMA NextTyped ==
  ASSUME Typed, NEW w \in Workers, NEW c \in Contacts, Next1(w, c)
  PROVE  Typed'
<1>1. UNCHANGED <<bc, row, count, jobs, kept, asked, got, lost, early, clicks, fuel>> /\ At(w, "next") /\ TypeOK
  BY DEF Next1, Dashboard, history, Typed
<1>2. /\ work' \in [Workers -> Work] /\ Others(w) /\ work'[w].pc = "handle"
      /\ work'[w].held = work[w].held \ {c} /\ work'[w].on = {c} /\ c \in work[w].held
  BY <1>1, NextEffect
<1>3. HandsOf(w)' /\ ~IsStart(w)' /\ \A e \in Contacts : Holds(w, e)' => Holds(w, e)
  BY <1>1, <1>2 DEF HandsOf, Handling, IsStart, StartSteps, At, Holds
<1>4. Kind(w)
  BY <1>1, <1>2, <1>3, SameRows
<1> QED
  BY <1>1, <1>3, <1>4, TickTyped DEF TypeOK, At

\* A worker goes on with the same hands.
LEMMA GoOn ==
  ASSUME Typed, NEW w \in Workers, NEW s \in BatchSteps, Goto(w, s), UNCHANGED row, ~IsStart(w),
         \/ work[w].pc \in Handling /\ s \in Handling
         \/ work[w].held = {} /\ work[w].on = {} /\ s \notin Handling
  PROVE  Kind(w) /\ ~IsStart(w)'
<1>1. /\ work' \in [Workers -> Work] /\ Others(w) /\ work'[w].pc = s
      /\ work'[w].held = work[w].held /\ work'[w].on = work[w].on
  BY GotoEffect DEF Typed, Steps
<1>2. HandsOf(w)' /\ ~IsStart(w)' /\ \A e \in Contacts : Holds(w, e)' => Holds(w, e)
  BY <1>1 DEF Typed, Hands, HandsOf, Handling, IsStart, StartSteps, BatchSteps, Holds
<1> QED
  BY <1>1, <1>2, SameRows

LEMMA SendTyped ==
  ASSUME Typed, NEW w \in Workers, NEW c \in Contacts, Send(w, c)
  PROVE  Typed'
<1>1. UNCHANGED <<bc, row, count, jobs, kept, asked, early, clicks>> /\ At(w, "send") /\ TypeOK
  BY DEF Send, Dashboard, Typed
<1>2. fuel' \in 0..MaxTrouble /\ lost' \in SUBSET Contacts
  BY <1>1, FuelTyped DEF TypeOK, Send
<1>3. got' \in [Contacts -> 0..2]
  <2>1. got \in [Contacts -> 0..2]
    BY <1>1 DEF TypeOK
  <2>2. UNCHANGED got \/ got' = [got EXCEPT ![c] = IF got[c] < 2 THEN got[c] + 1 ELSE got[c]]
    BY DEF Send
  <2> QED
    BY <2>1, <2>2
<1>4. \E s \in {"mark", "retry", "limited", "refused"} : Goto(w, s)
  BY DEF Send
<1>5. Kind(w) /\ ~IsStart(w)'
  BY <1>1, <1>4, GoOn DEF IsStart, StartSteps, BatchSteps, Handling, At
<1> QED
  BY <1>1, <1>2, <1>3, <1>5, TickTyped DEF TypeOK, At

LEMMA RemainTyped ==
  ASSUME Typed, NEW w \in Workers, Remain(w)
  PROVE  Typed'
<1>1. UNCHANGED <<bc, row, count, jobs, kept, asked, got, lost, clicks, fuel>> /\ At(w, "remain") /\ TypeOK
  BY DEF Remain, Dashboard, Typed
<1>2. early' \in BOOLEAN
  BY DEF Remain
<1>3. \E s \in {"complete", "tick"} : Goto(w, s)
  BY DEF Remain
<1>4. work[w].held = {} /\ work[w].on = {} /\ ~IsStart(w)
  BY <1>1 DEF Typed, Hands, HandsOf, Handling, At, IsStart, StartSteps
<1>5. Kind(w) /\ ~IsStart(w)'
  BY <1>1, <1>3, <1>4, GoOn DEF BatchSteps, Handling
<1> QED
  BY <1>1, <1>2, <1>5, TickTyped DEF TypeOK, At

\* What Handle and Outcome write to the row of the contact, if they write it.
Written(c, r) ==
  /\ r \in Row /\ r.status \notin {"NONE", "SENDING"} /\ (r.status = "PENDING" => r.attempts < MaxAttempts)
  /\ row' = row \/ row' = [row EXCEPT ![c] = r]

LEMMA ToWritten ==
  ASSUME Typed, NEW c \in Contacts, NEW s \in {"SENT", "SKIPPED", "FAILED"},
         UNCHANGED row \/ row' = [row EXCEPT ![c] = To(c, s)] \/ Leased(c, To(c, s))
  PROVE  Written(c, To(c, s))
<1>1. TypeOK /\ To(c, s) \in Row /\ To(c, s).status = s
  BY ToFields DEF Typed, RecipientStatus
<1>2. row' = row \/ row' = [row EXCEPT ![c] = To(c, s)]
  BY DEF Leased
<1> QED
  BY <1>1, <1>2 DEF Written

LEMMA BackWritten ==
  ASSUME Typed, NEW c \in Contacts, Leased(c, GivenBack(c))
  PROVE  \E r \in Row : Written(c, r)
<1>1. CASE row[c].status = "SENDING"
  <2>1. GivenBack(c) \in Row /\ GivenBack(c).status = "PENDING" /\ GivenBack(c).attempts < MaxAttempts
    BY <1>1, BackFields
  <2> QED
    BY <1>1, <2>1 DEF Leased, Written
<1>2. CASE row[c].status # "SENDING"
  <2>1. UNCHANGED row
    BY <1>2 DEF Leased
  <2>2. To(c, "SENT") \in Row
    BY ToFields DEF Typed, RecipientStatus
  <2> QED
    BY <2>1, <2>2, ToWritten
<1> QED
  BY <1>1, <1>2

LEMMA RetryWritten ==
  ASSUME Typed, NEW c \in Contacts, MayRetry(c), Leased(c, To(c, "PENDING"))
  PROVE  \E r \in Row : Written(c, r)
<1>1. To(c, "PENDING") \in Row /\ To(c, "PENDING").status = "PENDING" /\ To(c, "PENDING").attempts = row[c].attempts
  BY ToFields DEF Typed, RecipientStatus
<1>2. row' = row \/ row' = [row EXCEPT ![c] = To(c, "PENDING")]
  BY DEF Leased
<1> QED
  BY <1>1, <1>2 DEF Written, MayRetry

\* The one thing a handled contact ends with: a write of its row, and the loop goes on.
LEMMA HandledKind ==
  ASSUME Typed, NEW w \in Workers, NEW c \in Contacts, work[w].on = {c}, work[w].pc \in Handling,
         NEW h \in Halts, Handled(w, h), NEW r \in Row, Written(c, r)
  PROVE  Kind(w) /\ ~IsStart(w)'
<1>1. /\ work' \in [Workers -> Work] /\ Others(w) /\ work'[w].pc \in {"next", "idle", "remain"}
      /\ (work'[w].pc # "next" => work'[w].held = {}) /\ work'[w].on = {} /\ work'[w].held = work[w].held
  BY HandledEffect DEF Typed
<1>2. Kind(w)
  BY <1>1, HandedOn DEF Written
<1> QED
  BY <1>1, <1>2 DEF IsStart, StartSteps

LEMMA HandleTyped ==
  ASSUME Typed, NEW w \in Workers, NEW c \in Contacts, Handle(w, c)
  PROVE  Typed'
<1>1. UNCHANGED <<bc, jobs, kept, asked, got, lost, early, clicks, fuel>> /\ At(w, "handle") /\ work[w].on = {c} /\ TypeOK
  BY DEF Handle, Dashboard, history, Typed
<1>2. work[w].halt \in Halts /\ work[w].pc \in Handling /\ work[w].pc \notin {"idle", "claim"} /\ ~IsStart(w)
  BY <1>1, WorkOf DEF Handling, At, IsStart, StartSteps
<1>3. To(c, "SKIPPED") \in Row
  BY <1>1, ToFields DEF RecipientStatus
<1>4. Kind(w) /\ ~IsStart(w)' /\ count' \in [{"SENT", "SKIPPED", "FAILED"} -> Nat]
  <2>1. CASE Leased(c, To(c, "SKIPPED")) /\ Counted("SKIPPED", IF row[c].status = "SENDING" THEN 1 ELSE 0)
             /\ Handled(w, work[w].halt)
    <3>1. (IF row[c].status = "SENDING" THEN 1 ELSE 0) \in Nat
      OBVIOUS
    <3>2. count' \in [{"SENT", "SKIPPED", "FAILED"} -> Nat]
      BY <1>1, <2>1, <3>1, CountTyped
    <3>3. Written(c, To(c, "SKIPPED"))
      BY <2>1, ToWritten
    <3> QED
      BY <1>1, <1>2, <1>3, <2>1, <3>2, <3>3, HandledKind
  <2>2. CASE Leased(c, GivenBack(c)) /\ UNCHANGED count /\ Handled(w, work[w].halt)
    <3>1. count' \in [{"SENT", "SKIPPED", "FAILED"} -> Nat]
      BY <1>1, <2>2 DEF TypeOK
    <3>2. PICK r \in Row : Written(c, r)
      BY <2>2, BackWritten
    <3> QED
      BY <1>1, <1>2, <2>2, <3>1, <3>2, HandledKind
  <2>3. CASE row' = [row EXCEPT ![c] = To(c, "SKIPPED")] /\ Counted("SKIPPED", 1) /\ Handled(w, work[w].halt)
    <3>2. count' \in [{"SENT", "SKIPPED", "FAILED"} -> Nat]
      BY <1>1, <2>3, CountTyped
    <3>3. Written(c, To(c, "SKIPPED"))
      BY <2>3, ToWritten
    <3> QED
      BY <1>1, <1>2, <1>3, <2>3, <3>2, <3>3, HandledKind
  <2>4. CASE Goto(w, "send") /\ UNCHANGED <<row, count>>
    <3>1. count' \in [{"SENT", "SKIPPED", "FAILED"} -> Nat]
      BY <1>1, <2>4 DEF TypeOK
    <3>2. "send" \in BatchSteps /\ "send" \in Handling
      BY DEF BatchSteps, Handling
    <3> QED
      BY <1>2, <2>4, <3>1, <3>2, GoOn
  <2> QED
    BY <2>1, <2>2, <2>3, <2>4 DEF Handle
<1> QED
  BY <1>1, <1>2, <1>4, TickTyped DEF TypeOK

LEMMA OutcomeTyped ==
  ASSUME Typed, NEW w \in Workers, NEW c \in Contacts, Outcome(w, c)
  PROVE  Typed'
<1>1. UNCHANGED <<bc, jobs, kept, asked, got, lost, early, clicks, fuel>> /\ work[w].on = {c} /\ TypeOK
  BY DEF Outcome, Dashboard, history, Typed
<1>2. work[w].halt \in Halts /\ "rate" \in Halts /\ work[w].pc \in Handling /\ work[w].pc \notin {"idle", "claim"}
  BY <1>1, WorkOf DEF Handling, At, Outcome, Halts
<1>3. To(c, "SENT") \in Row /\ To(c, "FAILED") \in Row
  BY <1>1, ToFields DEF RecipientStatus
<1>4. Kind(w) /\ ~IsStart(w)' /\ count' \in [{"SENT", "SKIPPED", "FAILED"} -> Nat]
  <2>1. ASSUME NEW s \in {"SENT", "FAILED"}, Finish(w, c, s)
        PROVE  Kind(w) /\ ~IsStart(w)' /\ count' \in [{"SENT", "SKIPPED", "FAILED"} -> Nat]
    <3>1. row' = [row EXCEPT ![c] = To(c, s)] /\ Counted(s, 1) /\ Handled(w, work[w].halt)
      BY <2>1 DEF Finish
    <3>2. count' \in [{"SENT", "SKIPPED", "FAILED"} -> Nat]
      BY <1>1, <3>1, CountTyped
    <3>3. Written(c, To(c, s))
      BY <3>1, ToWritten
    <3> QED
      BY <1>1, <1>2, <1>3, <3>1, <3>2, <3>3, HandledKind
  <2>2. ASSUME NEW r \in Row, Written(c, r), NEW h \in Halts, Handled(w, h), UNCHANGED count
        PROVE  Kind(w) /\ ~IsStart(w)' /\ count' \in [{"SENT", "SKIPPED", "FAILED"} -> Nat]
    <3>1. count' \in [{"SENT", "SKIPPED", "FAILED"} -> Nat]
      BY <1>1, <2>2 DEF TypeOK
    <3> QED
      BY <1>1, <1>2, <2>2, <3>1, HandledKind
  <2>3. CASE Finish(w, c, "SENT") \/ Finish(w, c, "FAILED")
    BY <2>1, <2>3
  <2>4. CASE MayRetry(c) /\ Leased(c, To(c, "PENDING")) /\ Handled(w, work[w].halt) /\ UNCHANGED count
    BY <1>2, <2>2, <2>4, RetryWritten
  <2>5. CASE Leased(c, GivenBack(c)) /\ Handled(w, "rate") /\ UNCHANGED count
    BY <1>2, <2>2, <2>5, BackWritten
  <2> QED
    BY <2>3, <2>4, <2>5 DEF Outcome
<1> QED
  BY <1>1, <1>2, <1>4, TickTyped DEF TypeOK

LEMMA StepTyped == ASSUME Typed, [Next]_vars PROVE Typed'
<1>1. CASE UNCHANGED vars
  BY <1>1, OutsideTyped
<1>2. ASSUME NEW w \in Workers, TakeAny(w) PROVE Typed'
  BY <1>2, TakeTyped DEF TakeAny
<1>3. ASSUME NEW w \in Workers, Step(w) PROVE Typed'
  BY <1>3, StartClaimTyped, StartCountTyped, EndTyped, StaleTyped, RemainTyped, StartRowsTyped, LeaseTyped,
     NextTyped, HandleTyped, SendTyped, OutcomeTyped DEF Step
<1>4. CASE Next
  BY <1>2, <1>3, <1>4, CrashTyped, RowsTyped, OutsideTyped DEF Next, Request
<1> QED
  BY <1>1, <1>4

\* Every reachable state is well typed: an attempt that is given back was
\* taken, and no recipient is tried more than MAX_SEND_ATTEMPTS times
\* (releaseRecipient, leaseRecipients).
THEOREM CrmTypeCorrect == Spec => []TypeOK
<1>1. Spec => []Typed
  BY InitTyped, StepTyped, PTL DEF Spec
<1> QED
  BY <1>1, PTL DEF Typed

-----------------------------------------------------------------------------
(* Nothing is sent twice: a recipient that may still be sent to, because   *)
(* it waits or because a worker has it and has not had its answer, has not *)
(* got the message yet.                                                    *)

Unsent(w, c) == Holds(w, c) /\ (c \in work[w].held \/ ~At(w, "mark"))
Clean(c) == row[c].status \in {"NONE", "PENDING"} \/ \E w \in Workers : Unsent(w, c)
Once(c) == c \notin lost => got[c] <= 1 /\ (Clean(c) => got[c] = 0)

LEMMA QuietClean ==
  ASSUME NEW w \in Workers, Others(w), NEW c \in Contacts,
         Unsent(w, c)' => Clean(c), row'[c].status \in {"NONE", "PENDING"} => Clean(c)
  PROVE  Clean(c)' => Clean(c)
  BY DEF Clean, Unsent, Others, Holds, IsStart, At

LEMMA EmptyHanded ==
  ASSUME NEW w \in Workers, NEW c \in Contacts, (work'[w].held = {} /\ work'[w].on = {}) \/ IsStart(w)'
  PROVE  ~Unsent(w, c)'
  BY DEF Unsent, Holds

LEMMA CleanBegin ==
  ASSUME Typed, NEW w \in Workers, NEW c \in Contacts,
         (\E j \in jobs : Take(w, j)) \/ Crash(w) \/ StartError(w) \/ StartClaim(w) \/ StartCount(w)
           \/ StartTick(w) \/ Complete(w) \/ TickOn(w) \/ Remain(w)
  PROVE  (Clean(c)' => Clean(c)) /\ UNCHANGED <<got, lost>>
<1>1. TypeOK /\ UNCHANGED <<row, got, lost>>
  BY DEF Typed, Take, Crash, StartError, StartClaim, StartCount, StartTick, Complete, TickOn, Remain, history
<1>2. CASE Stop(w)
  <2>1. Others(w) /\ ~Unsent(w, c)'
    BY <1>1, <1>2, StopEffect, IdleTyped, EmptyHanded
  <2> QED
    BY <1>1, <2>1, QuietClean DEF Clean
<1>3. CASE \E j \in jobs : Take(w, j)
  <2>1. work' = work \/ (Others(w) /\ work'[w].held = {} /\ work'[w].on = {})
    BY <1>1, <1>3, TakeEffect
  <2>2. CASE work' = work
    BY <1>1, <2>2 DEF Clean, Unsent, Holds, IsStart, At
  <2>3. CASE Others(w) /\ work'[w].held = {} /\ work'[w].on = {}
    BY <1>1, <2>3, EmptyHanded, QuietClean DEF Clean
  <2> QED
    BY <2>1, <2>2, <2>3
<1>4. CASE StartClaim(w) /\ ~Stop(w)
  <2>1. Others(w) /\ work'[w].pc = "rows"
    BY <1>1, <1>4, ClaimEffect DEF StartClaim
  <2> QED
    BY <1>1, <2>1, EmptyHanded, QuietClean DEF Clean, IsStart, StartSteps
<1>5. CASE StartCount(w) /\ ~Stop(w)
  <2>1. Others(w) /\ work'[w].pc = "first"
    BY <1>1, <1>5, GotoEffect DEF StartCount, Steps, StartSteps
  <2> QED
    BY <1>1, <2>1, EmptyHanded, QuietClean DEF Clean, IsStart, StartSteps
<1>6. CASE Remain(w)
  <2>1. \E s \in Steps : Goto(w, s)
    BY <1>6 DEF Remain, Steps, BatchSteps
  <2>2. Others(w) /\ work'[w].held = {} /\ work'[w].on = {}
    BY <1>1, <1>6, <2>1, GotoEffect DEF Remain, At, Typed, Hands, HandsOf, Handling
  <2> QED
    BY <1>1, <2>2, EmptyHanded, QuietClean DEF Clean
<1> QED
  BY <1>1, <1>2, <1>3, <1>4, <1>5, <1>6 DEF Crash, StartError, StartTick, Complete, TickOn

LEMMA CleanRows ==
  ASSUME Typed, NEW w \in Workers, NEW c \in Contacts, NEW e \in Contacts,
         StartRows(w, e) \/ Stale(w) \/ Lease(w, e) \/ Next1(w, e)
  PROVE  (Clean(c)' => Clean(c)) /\ UNCHANGED <<got, lost>>
<1>1. TypeOK /\ row \in [Contacts -> Row] /\ UNCHANGED <<got, lost>>
  BY RowOf DEF Typed, StartRows, Stale, Lease, Next1, history
<1>2. CASE StartRows(w, e)
  <2>1. Others(w) /\ work'[w].pc \in {"rows", "count"}
    BY <1>1, <1>2, InsertEffect
  <2>2. row[e].status = "NONE" /\ (c # e => row'[c] = row[c])
    <3>1. row[e].status = "NONE"
      BY <1>2 DEF Typed, Inserts, StartRows
    <3>2. \E s \in {"PENDING", "SKIPPED"} : row' = [row EXCEPT ![e].status = s]
      BY <1>1, <1>2, InsertEffect
    <3> QED
      BY <1>1, <3>1, <3>2
  <2> QED
    BY <1>1, <2>1, <2>2, EmptyHanded, QuietClean DEF Clean, IsStart, StartSteps
<1>3. CASE Stale(w)
  <2>1. Others(w) /\ work'[w].held = {} /\ work'[w].on = {}
    BY <1>1, <1>3, StaleEffect DEF Stale, At, Typed, Hands, HandsOf, Handling
  <2>2. row'[c].status \in {"NONE", "PENDING"} => row[c].status \in {"NONE", "PENDING"}
    <3>1. row'[c] = row[c] \/ row'[c] = To(c, "FAILED")
      BY <1>3 DEF Stale
    <3> QED
      BY <1>1, <3>1, ToFields DEF RecipientStatus
  <2> QED
    BY <1>1, <2>1, <2>2, EmptyHanded, QuietClean DEF Clean
<1>4. CASE Lease(w, e)
  <2>1. Others(w) /\ work'[w].on = work[w].on /\ work'[w].pc # "mark" /\ ~At(w, "mark") /\ ~IsStart(w)
        /\ work'[w].held = IF Leasable(e) THEN work[w].held \cup {e} ELSE work[w].held
    BY <1>1, <1>4, LeaseEffect DEF Lease, At, IsStart, StartSteps
  <2>2. Unsent(w, c)' => Unsent(w, c) \/ (Leasable(e) /\ c = e)
    BY <2>1 DEF Unsent, Holds
  <2>3. row'[c].status \in {"NONE", "PENDING"} => row[c].status \in {"NONE", "PENDING"}
    <3>1. row' = row \/ row' = [row EXCEPT ![e] = [status |-> "SENDING", attempts |-> row[e].attempts + 1, old |-> FALSE]]
      BY <1>4 DEF Lease
    <3> QED
      BY <1>1, <3>1
  <2> QED
    BY <1>1, <2>1, <2>2, <2>3, QuietClean DEF Clean, Leasable
<1>5. CASE Next1(w, e)
  <2>1. Others(w) /\ work'[w].pc = "handle" /\ work'[w].held = work[w].held \ {e} /\ work'[w].on = {e} /\ e \in work[w].held
        /\ ~IsStart(w) /\ ~At(w, "mark") /\ UNCHANGED row
    BY <1>1, <1>5, NextEffect DEF Next1, At, IsStart, StartSteps
  <2>2. Unsent(w, c)' => Unsent(w, c)
    BY <2>1 DEF Unsent, Holds
  <2> QED
    BY <1>1, <2>1, <2>2, QuietClean DEF Clean
<1> QED
  BY <1>2, <1>3, <1>4, <1>5

LEMMA HandsKept ==
  ASSUME Typed, NEW w \in Workers, NEW c \in Contacts, NEW e \in Contacts,
         Handle(w, e) \/ Outcome(w, e)
  PROVE  /\ Others(w) /\ ~IsStart(w) /\ work[w].on = {e} /\ e \notin work[w].held /\ work'[w].held = work[w].held
         /\ c \in work'[w].on => c = e /\ At(w, "handle")
         /\ c # e => row'[c] = row[c]
         /\ At(w, "mark") => row'[e].status = "SENT"
         /\ UNCHANGED <<got, lost>>
<1>1. TypeOK /\ row \in [Contacts -> Row] /\ work[w].on = {e} /\ UNCHANGED <<got, lost>> /\ work[w].pc \in Handling
  BY RowOf DEF Typed, Handle, Outcome, Handling, At, history
<1>2. ~IsStart(w) /\ e \notin work[w].held
  BY <1>1 DEF IsStart, StartSteps, Handling, Typed, Hands, HandsOf
<1>3. Others(w) /\ work'[w].held = work[w].held /\ (work'[w].on = {} \/ (At(w, "handle") /\ work'[w].on = work[w].on))
  <2>1. (\E h \in Halts : Handled(w, h)) \/ (At(w, "handle") /\ Goto(w, "send"))
    BY <1>1, WorkOf DEF Handle, Outcome, Finish, Halts
  <2> QED
    BY <1>1, <2>1, HandledEffect, GotoEffect DEF Steps, BatchSteps
<1>4. row' = row \/ \E r : row' = [row EXCEPT ![e] = r]
  BY DEF Handle, Outcome, Leased, Finish
<1>5. ASSUME At(w, "mark") PROVE row'[e].status = "SENT"
  <2>1. row' = [row EXCEPT ![e] = To(e, "SENT")]
    BY <1>5 DEF Handle, Outcome, Finish, At
  <2> QED
    BY <1>1, <2>1, ToFields DEF RecipientStatus
<1> QED
  BY <1>1, <1>2, <1>3, <1>4, <1>5

LEMMA CleanHandled ==
  ASSUME Typed, NEW w \in Workers, NEW c \in Contacts, NEW e \in Contacts,
         Handle(w, e) \/ Outcome(w, e)
  PROVE  (Clean(c)' => Clean(c)) /\ UNCHANGED <<got, lost>>
<1>1. Unsent(w, c)' => Unsent(w, c)
  BY HandsKept DEF Unsent, Holds, At
<1>2. row'[c].status \in {"NONE", "PENDING"} => Clean(c)
  <2>1. CASE c # e
    BY <2>1, HandsKept DEF Clean
  <2>2. CASE c = e /\ At(w, "mark")
    BY <2>2, HandsKept
  <2>3. CASE c = e /\ ~At(w, "mark")
    BY <2>3, HandsKept DEF Clean, Unsent, Holds
  <2> QED
    BY <2>1, <2>2, <2>3
<1> QED
  BY <1>1, <1>2, HandsKept, QuietClean DEF Clean

LEMMA CleanOutside ==
  ASSUME Typed, NEW c \in Contacts,
         \/ Clock \/ MaintainStart \/ MaintainTick \/ Schedule \/ Pause \/ Remove \/ ResumeSchedule
         \/ ResumeRun \/ ResumeTick \/ Cancel \/ Flush \/ CancelRows \/ (\E e \in Contacts : Age(e)) \/ UNCHANGED vars
  PROVE  (Clean(c)' => Clean(c)) /\ UNCHANGED <<got, lost>>
<1>1. UNCHANGED <<work, got, lost>>
  BY DEF Clock, MaintainStart, MaintainTick, Schedule, Pause, Remove, ResumeSchedule, ResumeRun, ResumeTick,
         Cancel, Flush, CancelRows, Age, vars, history
<1>2. row'[c].status \in {"NONE", "PENDING"} => row[c].status \in {"NONE", "PENDING"}
  <2>1. CASE CancelRows
    BY <2>1, ToFields DEF Typed, CancelRows, Left, Is, RecipientStatus
  <2>2. CASE \E e \in Contacts : Age(e)
    BY <2>2, RowOf DEF Typed, Age, Row
  <2>3. CASE UNCHANGED row
    BY <2>3
  <2> QED
    BY <2>1, <2>2, <2>3 DEF Clock, MaintainStart, MaintainTick, Schedule, Pause, Remove, ResumeSchedule,
       ResumeRun, ResumeTick, Cancel, Flush, vars
<1> QED
  BY <1>1, <1>2 DEF Clean, Unsent, Holds, IsStart, At

LEMMA OnceSend ==
  ASSUME Typed, NEW w \in Workers, NEW c \in Contacts, NEW e \in Contacts, Send(w, e), Once(c)
  PROVE  Once(c)'
<1>1. TypeOK /\ UNCHANGED row /\ got \in [Contacts -> 0..2] /\ At(w, "send") /\ work[w].on = {e}
  BY DEF Typed, TypeOK, Send
<1>2. ~IsStart(w) /\ e \notin work[w].held /\ Unsent(w, e) /\ Holds(w, e)
  BY <1>1 DEF Typed, Hands, HandsOf, Handling, IsStart, StartSteps, Unsent, Holds, At
<1>3. PICK s \in {"mark", "retry", "limited", "refused"} : Goto(w, s)
  BY DEF Send
<1>4. Others(w) /\ work'[w].pc = s /\ work'[w].held = work[w].held /\ work'[w].on = work[w].on
  BY <1>1, <1>3, GotoEffect DEF Steps, BatchSteps
<1>5. Clean(c)' => Clean(c)
  <2>1. Unsent(w, c)' => Unsent(w, c)
    BY <1>1, <1>2, <1>4 DEF Unsent, Holds, At
  <2> QED
    BY <1>1, <1>4, <2>1, QuietClean DEF Clean
<1>6. CASE UNCHANGED <<got, lost>>
  BY <1>5, <1>6 DEF Once
<1>7. CASE c \in lost'
  BY <1>7 DEF Once
<1>8. CASE e # c /\ got'[c] = got[c] /\ (c \in lost <=> c \in lost')
  BY <1>5, <1>8 DEF Once
<1>9. CASE e = c /\ UNCHANGED lost /\ At(w, "mark")' /\ got'[c] = got[c] + 1
  <2>1. Clean(c)
    BY <1>2, <1>9 DEF Clean
  <2>2. \A v \in Workers : Holds(v, c) => v = w
    BY <1>2, <1>9 DEF Typed, Grip, Gripped
  <2>3. row[c].status \notin {"NONE", "PENDING"}
    BY <1>2, <1>9 DEF Typed, Grip, Gripped
  <2>4. ~Clean(c)'
    BY <1>1, <1>2, <1>4, <1>9, <2>2, <2>3 DEF Clean, Unsent, Holds, Others, IsStart
  <2> QED
    BY <1>9, <2>1, <2>4 DEF Once
<1>10. \/ UNCHANGED <<got, lost>>
       \/ lost' = lost \cup {e} /\ got' = [got EXCEPT ![e] = IF got[e] < 2 THEN got[e] + 1 ELSE got[e]]
       \/ UNCHANGED lost /\ Goto(w, "mark") /\ got' = [got EXCEPT ![e] = IF got[e] < 2 THEN got[e] + 1 ELSE got[e]]
  BY DEF Send
<1>11. got[c] \in 0..2 /\ (c \in lost \/ (e = c => got[c] = 0))
  BY <1>1, <1>2 DEF Once, Clean
<1>12. Goto(w, "mark") => At(w, "mark")'
  BY <1>1, GotoEffect DEF Steps, BatchSteps, At
<1>13. CASE UNCHANGED <<got, lost>>
  BY <1>6, <1>13
<1>14. ASSUME got' = [got EXCEPT ![e] = IF got[e] < 2 THEN got[e] + 1 ELSE got[e]]
       PROVE  (e # c => got'[c] = got[c]) /\ (e = c /\ got[c] = 0 => got'[c] = got[c] + 1)
  BY <1>1, <1>14
<1>15. CASE lost' = lost \cup {e} /\ got' = [got EXCEPT ![e] = IF got[e] < 2 THEN got[e] + 1 ELSE got[e]]
  BY <1>7, <1>8, <1>14, <1>15
<1>16. CASE UNCHANGED lost /\ Goto(w, "mark") /\ got' = [got EXCEPT ![e] = IF got[e] < 2 THEN got[e] + 1 ELSE got[e]]
  BY <1>7, <1>8, <1>9, <1>11, <1>12, <1>14, <1>16
<1> QED
  BY <1>10, <1>13, <1>15, <1>16

LEMMA OnceKept == ASSUME Typed, [Next]_vars, NEW c \in Contacts, Once(c) PROVE Once(c)'
<1>1. CASE (Clean(c)' => Clean(c)) /\ UNCHANGED <<got, lost>>
  BY <1>1 DEF Once
<1>2. ASSUME NEW w \in Workers, TakeAny(w) \/ Step(w) \/ Crash(w) \/ StartError(w) PROVE Once(c)'
  <2>1. CASE TakeAny(w) \/ Crash(w) \/ StartError(w) \/ StartClaim(w) \/ StartCount(w) \/ StartTick(w)
             \/ Complete(w) \/ TickOn(w) \/ Remain(w)
    BY <1>1, <2>1, CleanBegin DEF TakeAny
  <2>2. ASSUME NEW e \in Contacts, StartRows(w, e) \/ Stale(w) \/ Lease(w, e) \/ Next1(w, e) PROVE Once(c)'
    BY <1>1, <2>2, CleanRows
  <2>3. ASSUME NEW e \in Contacts, Handle(w, e) \/ Outcome(w, e) PROVE Once(c)'
    BY <1>1, <2>3, CleanHandled
  <2>4. ASSUME NEW e \in Contacts, Send(w, e) PROVE Once(c)'
    BY <2>4, OnceSend
  <2> QED
    BY <1>2, <2>1, <2>2, <2>3, <2>4 DEF Step
<1>3. CASE \/ Clock \/ MaintainStart \/ MaintainTick \/ Schedule \/ Pause \/ Remove \/ ResumeSchedule
           \/ ResumeRun \/ ResumeTick \/ Cancel \/ Flush \/ CancelRows \/ (\E e \in Contacts : Age(e)) \/ UNCHANGED vars
  BY <1>1, <1>3, CleanOutside
<1> QED
  BY <1>2, <1>3 DEF Next, Request

\* "Every recipient is leased, so nothing is sent twice" (broadcast-queue.ts:16):
\* whatever the number of workers, ticks, crashes, pauses and cancels, a contact
\* gets a second copy only after an answer of Instagram to the first was lost.
THEOREM NothingSentTwice == Spec => []SentOnce
<1> DEFINE Sure == Typed /\ \A c \in Contacts : Once(c)
<1>1. Init => Sure
  <2>1. ASSUME Init, NEW c \in Contacts PROVE Once(c)
    BY <2>1 DEF Init, Once
  <2> QED
    BY <2>1, InitTyped
<1>2. Sure /\ [Next]_vars => Sure'
  <2> SUFFICES ASSUME Sure, [Next]_vars PROVE Sure'
    OBVIOUS
  <2>1. ASSUME NEW c \in Contacts PROVE Once(c)'
    BY OnceKept
  <2> QED
    BY <2>1, StepTyped
<1>3. Sure => SentOnce
  BY DEF Typed, TypeOK, Once, SentOnce
<1> QED
  BY <1>1, <1>2, <1>3, PTL DEF Spec

-----------------------------------------------------------------------------
(* One chain: a tick that waits or runs has a number up to the row's, and  *)
(* the row's own number is that of one tick at most.                       *)

LEMMA WorkMoves ==
  ASSUME Typed, NEW w \in Workers, TakeAny(w) \/ Step(w) \/ Crash(w) \/ StartError(w)
  PROVE  /\ Others(w)
         /\ work'[w].pc \in {"rows", "count"} =>
              \/ StartClaim(w) /\ bc.status = "SCHEDULED"
              \/ \E e \in Contacts : StartRows(w, e)
         /\ work'[w].pc = "complete" => Remain(w) /\ Remaining = {}
         /\ work'[w].pc \in BatchSteps =>
              \/ Tick(bc.seq) \in jobs /\ Take(w, Tick(bc.seq)) /\ work'[w].key = bc.seq
              \/ work[w].pc \in BatchSteps /\ work'[w].key = work[w].key /\ UNCHANGED <<bc, jobs>>
<1>0. TypeOK /\ work \in [Workers -> Work]
  BY WorkOf DEF Typed
<1> DEFINE Goal ==
         /\ Others(w)
         /\ work'[w].pc \in {"rows", "count"} =>
              \/ StartClaim(w) /\ bc.status = "SCHEDULED"
              \/ \E e \in Contacts : StartRows(w, e)
         /\ work'[w].pc = "complete" => Remain(w) /\ Remaining = {}
         /\ work'[w].pc \in BatchSteps =>
              \/ Tick(bc.seq) \in jobs /\ Take(w, Tick(bc.seq)) /\ work'[w].key = bc.seq
              \/ work[w].pc \in BatchSteps /\ work'[w].key = work[w].key /\ UNCHANGED <<bc, jobs>>
<1>1. CASE Stop(w)
  BY <1>0, <1>1, StopEffect, IdleTyped DEF BatchSteps
<1>2. CASE TakeAny(w)
  <2>1. PICK j \in jobs : Take(w, j)
    BY <1>2 DEF TakeAny
  <2>2. j = Tick(j.key) \/ j.kind = "start"
    <3>1. PICK k \in {"start", "batch"}, n \in Nat : j = [kind |-> k, key |-> n]
      BY <1>0 DEF TypeOK, Job
    <3> QED
      BY <3>1 DEF Tick
  <2>3. At(w, "idle")
    BY <2>1 DEF Take
  <2>4. Others(w) /\ (work' = work \/ (/\ work'[w].key = j.key
               /\ \/ j.kind = "start" /\ work'[w].pc = "claim"
                  \/ j.kind # "start" /\ work'[w].pc = "stale" /\ j.key = bc.seq /\ bc.status = "RUNNING"))
    BY <1>0, <2>1, TakeEffect
  <2> QED
    BY <2>1, <2>2, <2>3, <2>4 DEF At, BatchSteps
<1>3. CASE StartClaim(w) /\ ~Stop(w)
  <2>1. Others(w) /\ work'[w].pc = "rows" /\ bc.status = "SCHEDULED"
    BY <1>0, <1>3, ClaimEffect DEF StartClaim
  <2> QED
    BY <1>3, <2>1 DEF BatchSteps
<1>4. CASE StartCount(w) /\ ~Stop(w)
  <2>1. Others(w) /\ work'[w].pc = "first"
    BY <1>0, <1>4, GotoEffect DEF StartCount, Steps, StartSteps
  <2> QED
    BY <2>1 DEF BatchSteps
<1>5. CASE \E e \in Contacts : StartRows(w, e)
  <2>1. Others(w) /\ work'[w].pc \in {"rows", "count"}
    BY <1>0, <1>5, InsertEffect
  <2> QED
    BY <1>5, <2>1 DEF BatchSteps
<1>6. CASE Remain(w)
  <2>1. PICK s \in {"complete", "tick"} : Goto(w, s) /\ (s = "complete" => Remaining = {})
    BY <1>6 DEF Remain
  <2>2. Others(w) /\ work'[w].pc = s /\ work'[w].key = work[w].key
    BY <1>0, <2>1, GotoEffect DEF Steps, BatchSteps
  <2> QED
    BY <1>6, <2>1, <2>2 DEF Remain, BatchSteps, At
<1>7. ASSUME UNCHANGED <<bc, jobs>>, work[w].pc \in BatchSteps, Others(w), work'[w].pc # "idle" => work'[w].key = work[w].key,
             work'[w].pc \notin {"rows", "count", "complete"}
      PROVE  Goal
  BY <1>7 DEF BatchSteps
<1>8. CASE Stale(w)
  BY <1>0, <1>7, <1>8, StaleEffect DEF Stale, At, BatchSteps
<1>9. ASSUME NEW e \in Contacts, Lease(w, e) \/ Next1(w, e) PROVE Goal
  BY <1>0, <1>7, <1>9, LeaseEffect, NextEffect DEF Lease, Next1, At, BatchSteps
<1>10. ASSUME NEW e \in Contacts, Handle(w, e) \/ Outcome(w, e) \/ Send(w, e) PROVE Goal
  <2>1. UNCHANGED <<bc, jobs>> /\ work[w].pc \in BatchSteps
    BY <1>10 DEF Handle, Outcome, Send, At, BatchSteps
  <2>2. (\E h \in Halts : Handled(w, h)) \/ \E s \in Handling : Goto(w, s)
    BY <1>0, <1>10, WorkOf DEF Handle, Outcome, Send, Finish, Halts, Handling
  <2>3. CASE \E h \in Halts : Handled(w, h)
    BY <1>0, <1>7, <2>1, <2>3, HandledEffect
  <2>4. CASE \E s \in Handling : Goto(w, s)
    BY <1>0, <1>7, <2>1, <2>4, GotoEffect DEF Handling, Steps, BatchSteps
  <2> QED
    BY <2>2, <2>3, <2>4
<1> QED
  BY <1>1, <1>2, <1>3, <1>4, <1>5, <1>6, <1>8, <1>9, <1>10 DEF Step, Crash, StartError, StartTick, Complete, TickOn

Running(w) == work[w].pc \in BatchSteps /\ work[w].key = bc.seq
Chain ==
  /\ \A w \in Workers : work[w].pc \in BatchSteps => work[w].key <= bc.seq
  /\ \A j \in jobs : j.kind = "batch" => j.key <= bc.seq
  /\ \A v, w \in Workers : Running(v) /\ Running(w) => v = w
  /\ \A w \in Workers : Running(w) => Tick(bc.seq) \notin jobs

\* A new number leaves every older tick behind.
LEMMA Renumbered ==
  ASSUME Typed, Chain, bc'.seq = bc.seq + 1, jobs' \subseteq jobs \cup {Tick(bc.seq + 1)},
         \A w \in Workers : work'[w].pc \in BatchSteps => work'[w] = work[w]
  PROVE  Chain'
<1>1. bc.seq \in Nat /\ (\A w \in Workers : work[w].key \in Nat) /\ (\A j \in jobs : j.key \in Nat)
  BY WorkOf DEF Typed, TypeOK, Job
<1>2. \A w \in Workers : work'[w].pc \in BatchSteps => work'[w].key <= bc.seq
  BY DEF Chain
<1>3. \A j \in jobs' : j.kind = "batch" => j.key <= bc.seq + 1
  BY <1>1, JobTyped DEF Chain
<1>4. \A w \in Workers : work'[w].pc \in BatchSteps => work'[w].key \in Nat
  BY <1>1
<1> QED
  BY <1>1, <1>2, <1>3, <1>4 DEF Chain, Running

\* The number stays, and no tick is new.
LEMMA Quiet ==
  ASSUME Typed, Chain, bc'.seq = bc.seq, \A j \in jobs' : j \in jobs \/ j.kind = "start",
         \A w \in Workers : work'[w].pc \in BatchSteps => work[w].pc \in BatchSteps /\ work'[w].key = work[w].key
  PROVE  Chain'
<1>1. bc.seq \in Nat
  BY DEF Typed, TypeOK
<1>2. Tick(bc.seq) \in jobs' => Tick(bc.seq) \in jobs
  BY <1>1, JobTyped
<1> QED
  BY <1>2 DEF Chain, Running

LEMMA ChainOutside ==
  ASSUME Typed, Chain,
         \/ Clock \/ MaintainStart \/ MaintainTick \/ Schedule \/ Pause \/ Remove \/ ResumeSchedule
         \/ ResumeRun \/ ResumeTick \/ Cancel \/ Flush \/ CancelRows \/ (\E e \in Contacts : Age(e)) \/ UNCHANGED vars
  PROVE  Chain'
<1>0. bc \in [status : Status, started : BOOLEAN, seq : Nat, at : Nat, due : BOOLEAN] /\ bc.at \in Nat /\ bc.at + 1 \in Nat
  BY DEF Typed, TypeOK
<1>1. UNCHANGED work
  BY DEF Clock, MaintainStart, MaintainTick, Schedule, Pause, Remove, ResumeSchedule, ResumeRun, ResumeTick,
         Cancel, Flush, CancelRows, Age, vars
<1>2. CASE MaintainTick \/ ResumeTick
  <2>1. bc' = [bc EXCEPT !.seq = bc.seq + 1] /\ jobs' = jobs \cup {Tick(bc.seq + 1)}
    BY <1>2 DEF MaintainTick, ResumeTick
  <2> QED
    BY <1>0, <1>1, <2>1, Renumbered
<1>3. CASE ~(MaintainTick \/ ResumeTick)
  <2>1. bc'.seq = bc.seq
    BY <1>0, <1>3 DEF Clock, MaintainStart, Schedule, Pause, Remove, ResumeSchedule, ResumeRun, Cancel, Flush,
       CancelRows, Age, vars
  <2>2. UNCHANGED jobs \/ jobs' = {} \/ jobs' = jobs \cup {StartJob(bc.at)} \/ \E n \in Nat : jobs' = StartQueued(n)
    BY <1>0, <1>3 DEF Clock, MaintainStart, Schedule, Pause, Remove, ResumeSchedule, ResumeRun, Cancel, Flush,
       CancelRows, Age, vars
  <2>3. \A j \in jobs' : j \in jobs \/ j.kind = "start"
    BY <1>0, <2>2, QueuedTyped, JobTyped DEF Typed
  <2> QED
    BY <1>1, <2>1, <2>3, Quiet
<1> QED
  BY <1>2, <1>3

LEMMA ChainWork ==
  ASSUME Typed, Chain, NEW w \in Workers, TakeAny(w) \/ Step(w) \/ Crash(w) \/ StartError(w)
  PROVE  Chain'
<1>0. bc \in [status : Status, started : BOOLEAN, seq : Nat, at : Nat, due : BOOLEAN] /\ work[w].key \in Nat /\ TypeOK
  BY WorkOf DEF Typed, TypeOK
<1>1. \A v \in Workers \ {w} : work'[v] = work[v]
  BY WorkMoves DEF Others
<1>2. CASE TakeAny(w)
  <2>1. PICK j \in jobs : Take(w, j)
    BY <1>2 DEF TakeAny
  <2>2. bc' = bc /\ jobs' = jobs \ {j} /\ At(w, "idle")
    BY <2>1 DEF Take
  <2>3. CASE work'[w].pc \notin BatchSteps
    BY <1>1, <2>2, <2>3, Quiet
  <2>4. CASE work'[w].pc \in BatchSteps
    <3>1. Tick(bc.seq) \in jobs /\ Take(w, Tick(bc.seq)) /\ work'[w].key = bc.seq
      BY <1>2, <2>2, <2>4, WorkMoves DEF At, BatchSteps
    <3>2. jobs' = jobs \ {Tick(bc.seq)}
      BY <3>1 DEF Take
    <3>3. \A v \in Workers : ~Running(v)
      BY <3>1 DEF Chain
    <3> QED
      BY <1>0, <1>1, <2>2, <2>4, <3>1, <3>2, <3>3 DEF Chain, Running
  <2> QED
    BY <2>3, <2>4
<1>3. CASE Crash(w)
  <2>1. UNCHANGED bc /\ work'[w].pc = "idle" /\ ~At(w, "idle")
    BY <1>0, <1>3, StopEffect, IdleTyped DEF Crash
  <2>2. \/ UNCHANGED jobs
        \/ IsStart(w) /\ jobs' = jobs \cup {StartJob(work[w].key)}
        \/ ~IsStart(w) /\ jobs' = jobs \cup {Tick(work[w].key)}
    BY <1>3 DEF Crash
  <2>3. CASE \A j \in jobs' : j \in jobs \/ j.kind = "start"
    BY <1>1, <2>1, <2>3, Quiet DEF BatchSteps
  <2>4. CASE ~IsStart(w) /\ jobs' = jobs \cup {Tick(work[w].key)}
    <3>1. work[w].pc \in BatchSteps
      BY <1>0, <2>1, <2>4, WorkOf DEF IsStart, Steps, At
    <3>2. work[w].key <= bc.seq
      BY <3>1 DEF Chain
    <3>3. work[w].key = bc.seq => \A v \in Workers : work'[v].pc \in BatchSteps => work'[v].key # bc.seq
      BY <1>1, <2>1, <3>1 DEF Chain, Running, BatchSteps
    <3>4. \A v \in Workers : work'[v].pc \in BatchSteps => work'[v] = work[v]
      BY <1>1, <2>1 DEF BatchSteps
    <3>5. Tick(bc.seq) \in jobs' => Tick(bc.seq) \in jobs \/ work[w].key = bc.seq
      BY <1>0, <2>4, JobTyped
    <3>6. \A j \in jobs' : j.kind = "batch" => j.key <= bc.seq
      BY <1>0, <2>4, <3>2, JobTyped DEF Chain
    <3> QED
      BY <2>1, <3>3, <3>4, <3>5, <3>6 DEF Chain, Running
  <2> QED
    BY <1>0, <2>2, <2>3, <2>4, JobTyped
<1>4. CASE Stop(w) /\ ~Crash(w)
  <2>1. \A v \in Workers : work'[v].pc \in BatchSteps => work'[v] = work[v] /\ v # w
    BY <1>0, <1>1, <1>4, StopEffect, IdleTyped DEF BatchSteps
  <2>2. CASE bc'.seq = bc.seq /\ UNCHANGED jobs
    BY <2>1, <2>2, Quiet
  <2>3. CASE StartTick(w)
    <3>1. bc' = [bc EXCEPT !.seq = bc.seq + 1] /\ jobs' = jobs \cup {Tick(bc.seq + 1)}
      BY <2>3 DEF StartTick
    <3> QED
      BY <1>0, <2>1, <3>1, Renumbered
  <2>4. CASE TickOn(w) /\ Owns(work[w].key)
    <3>1. bc' = [bc EXCEPT !.seq = bc.seq + 1] /\ (jobs' = jobs \/ jobs' = jobs \cup {Tick(bc.seq + 1)})
      BY <2>4 DEF TickOn, Successor, Owns
    <3> QED
      BY <1>0, <2>1, <3>1, Renumbered
  <2>5. CASE ~StartTick(w) /\ ~(TickOn(w) /\ Owns(work[w].key)) /\ ~TakeAny(w)
    <3>1. UNCHANGED jobs /\ (UNCHANGED bc \/ StartClaim(w)
                            \/ \E s \in Status : bc' = [bc EXCEPT !.status = s])
      <4>1. CASE StartError(w)
        <5>1. UNCHANGED jobs /\ (bc' = bc \/ bc' = [bc EXCEPT !.status = "FAILED"])
          BY <4>1 DEF StartError
        <5>2. "FAILED" \in Status
          BY DEF Status
        <5> QED
          BY <5>1, <5>2
      <4>2. CASE StartClaim(w)
        <5>1. UNCHANGED jobs
          BY <4>2 DEF StartClaim
        <5> QED
          BY <4>2, <5>1
      <4>3. CASE StartCount(w)
        BY <4>3 DEF StartCount, Status
      <4>4. CASE Complete(w)
        BY <4>4 DEF Complete, Status
      <4>5. CASE TickOn(w)
        BY <2>5, <4>5 DEF TickOn, Successor
      <4>6. CASE \/ Stale(w) \/ Remain(w)
                 \/ \E c \in Contacts : StartRows(w, c) \/ Lease(w, c) \/ Next1(w, c) \/ Handle(w, c) \/ Send(w, c) \/ Outcome(w, c)
        BY <4>6 DEF Stale, Remain, StartRows, Lease, Next1, Handle, Send, Outcome
      <4> QED
        BY <1>4, <2>5, <4>1, <4>2, <4>3, <4>4, <4>5, <4>6 DEF Step
    <3>2. bc'.seq = bc.seq
      BY <1>0, <3>1 DEF StartClaim
    <3> QED
      BY <2>1, <3>1, <3>2, Quiet
  <2> QED
    BY <1>2, <2>3, <2>4, <2>5
<1>5. CASE ~Stop(w) /\ ~TakeAny(w) /\ ~Crash(w)
  <2>1. CASE work'[w].pc \in BatchSteps
    <3>1. CASE work[w].pc \in BatchSteps /\ work'[w].key = work[w].key /\ UNCHANGED <<bc, jobs>>
      BY <1>1, <3>1, Quiet
    <3> QED
      BY <1>5, <2>1, <3>1, WorkMoves DEF TakeAny
  <2>2. CASE work'[w].pc \notin BatchSteps
    <3>1. UNCHANGED jobs /\ bc'.seq = bc.seq
      <4>1. CASE StartClaim(w) \/ StartCount(w)
        <5>1. UNCHANGED jobs /\ (UNCHANGED bc \/ bc' = [bc EXCEPT !.status = "RUNNING", !.started = TRUE]
                                \/ bc' = [bc EXCEPT !.status = "COMPLETED"])
          BY <4>1 DEF StartClaim, StartCount
        <5> QED
          BY <1>0, <5>1
      <4>2. CASE \/ Stale(w) \/ Remain(w)
                 \/ \E c \in Contacts : StartRows(w, c) \/ Lease(w, c) \/ Next1(w, c) \/ Handle(w, c) \/ Send(w, c) \/ Outcome(w, c)
        BY <4>2 DEF Stale, Remain, StartRows, Lease, Next1, Handle, Send, Outcome
      <4> QED
        BY <1>5, <4>1, <4>2 DEF Step, StartError, StartTick, Complete, TickOn
    <3> QED
      BY <1>1, <2>2, <3>1, Quiet
  <2> QED
    BY <2>1, <2>2
<1> QED
  BY <1>2, <1>3, <1>4, <1>5

\* "Can never leave two delivery chains" (broadcast-queue.ts:13): one tick, waiting
\* or running, has the number of the row, however the maintenance sweep, pauses,
\* resumes, stalled jobs and retired ticks overlap.
THEOREM OneChainLeft == Spec => []OneChain
<1>1. Init => Typed /\ Chain
  <2>1. ASSUME Init PROVE Chain
    BY <2>1, IdleTyped DEF Init, Chain, Running, BatchSteps
  <2> QED
    BY <2>1, InitTyped
<1>2. Typed /\ Chain /\ [Next]_vars => (Typed /\ Chain)'
  <2> SUFFICES ASSUME Typed, Chain, [Next]_vars PROVE Chain'
    BY StepTyped
  <2> QED
    BY ChainWork, ChainOutside DEF Next, Request
<1>3. Typed /\ Chain => OneChain
  <2> SUFFICES ASSUME Typed, Chain PROVE OneChain
    OBVIOUS
  <2> DEFINE running == {w \in Workers : work[w].pc \in BatchSteps /\ work[w].key = bc.seq}
  <2>1. CASE running = {}
    <3>1. Cardinality(running) = 0
      BY <2>1, FS_EmptySet
    <3> QED
      BY <3>1 DEF OneChain
  <2>2. CASE running # {}
    <3>1. PICK w \in running : TRUE
      BY <2>2
    <3>2. running = {w}
      BY <3>1 DEF Chain, Running
    <3>3. Cardinality(running) = 1
      BY <3>2, FS_Singleton
    <3>4. Tick(bc.seq) \notin jobs
      BY <3>1 DEF Chain, Running
    <3> HIDE DEF running
    <3>5. Cardinality(running) + (IF Tick(bc.seq) \in jobs THEN 1 ELSE 0) <= 1
      BY <3>3, <3>4
    <3> QED
      BY <3>5 DEF OneChain, running
  <2> QED
    BY <2>1, <2>2
<1> QED
  BY <1>1, <1>2, <1>3, PTL DEF Spec

-----------------------------------------------------------------------------
(* COMPLETED means completed: once it is said, or about to be, nothing     *)
(* waits, no lease is out and no start inserts.                            *)

Skipped == \A w \in Workers :
  /\ work[w].pc \in {"rows", "count"} =>
       \A c \in Contacts \ (work[w].todo \cup work[w].held) : row[c].status = "SKIPPED"
  /\ At(w, "count") => work[w].todo = {}

Settled == Remaining = {} /\ \A w \in Workers : ~At(w, "rows")
Final == ~early => (bc.status = "COMPLETED" \/ (\E w \in Workers : At(w, "complete")) => Settled)

\* A skipped recipient stays skipped; what remains remained, or is being inserted.
RowMoves(c) ==
  /\ row[c].status = "SKIPPED" => row'[c].status = "SKIPPED"
  /\ row'[c].status \in {"PENDING", "SENDING"} =>
       row[c].status \in {"PENDING", "SENDING"} \/ \E w \in Workers : At(w, "rows")

LEMMA RowsMove ==
  ASSUME Typed, [Next]_vars, NEW c \in Contacts
  PROVE  RowMoves(c)
<1>0. TypeOK /\ row \in [Contacts -> Row]
  BY RowOf DEF Typed
<1>1. CASE UNCHANGED row
  BY <1>1 DEF RowMoves
<1>2. CASE CancelRows
  BY <1>0, <1>2, ToFields DEF RowMoves, CancelRows, Left, Is, RecipientStatus
<1>3. CASE \E e \in Contacts : Age(e)
  BY <1>0, <1>3, RowOf DEF RowMoves, Age, Row
<1>4. ASSUME NEW w \in Workers, NEW e \in Contacts, StartRows(w, e) PROVE RowMoves(c)
  <2>1. row[e].status = "NONE" /\ At(w, "rows")
    BY <1>4 DEF Typed, Inserts, StartRows
  <2>2. \E s \in {"PENDING", "SKIPPED"} : row' = [row EXCEPT ![e].status = s]
    BY <1>0, <1>4, InsertEffect
  <2> QED
    BY <1>0, <2>1, <2>2 DEF RowMoves
<1>5. ASSUME NEW w \in Workers, Stale(w) PROVE RowMoves(c)
  <2>1. row'[c] = row[c] \/ (row[c].status = "SENDING" /\ row'[c] = To(c, "FAILED"))
    BY <1>5 DEF Stale, Dead, Is
  <2> QED
    BY <1>0, <2>1, ToFields DEF RecipientStatus, RowMoves
<1>6. ASSUME NEW w \in Workers, NEW e \in Contacts, Lease(w, e) PROVE RowMoves(c)
  <2>1. row' = row \/ (row[e].status = "PENDING"
          /\ row' = [row EXCEPT ![e] = [status |-> "SENDING", attempts |-> row[e].attempts + 1, old |-> FALSE]])
    BY <1>6 DEF Lease, Leasable
  <2> QED
    BY <1>0, <2>1 DEF RowMoves
<1>7. ASSUME NEW w \in Workers, NEW e \in Contacts, Handle(w, e) \/ Outcome(w, e) PROVE RowMoves(c)
  <2>1. row[e].status \in {"SENDING", "FAILED"} /\ (c # e => row'[c] = row[c])
    <3>1. Holds(w, e)
      BY <1>7, HandsKept DEF Holds
    <3> QED
      BY <1>7, <3>1, HandsKept DEF Typed, Grip, Gripped
  <2>2. row' = row \/ row[e].status = "SENDING" \/ \E s \in {"SENT", "SKIPPED", "FAILED"} : row' = [row EXCEPT ![e] = To(e, s)]
    BY <1>7 DEF Handle, Outcome, Leased, Finish
  <2>3. row'[e].status \in {"PENDING", "SENDING"} => row[e].status \in {"PENDING", "SENDING"}
    BY <1>0, <2>1, <2>2, ToFields DEF RecipientStatus
  <2> QED
    BY <2>1, <2>3 DEF RowMoves
<1>8. ASSUME NEW w \in Workers, TakeAny(w) \/ Step(w) \/ Crash(w) \/ StartError(w) PROVE RowMoves(c)
  <2>1. CASE \/ TakeAny(w) \/ Crash(w) \/ StartError(w) \/ StartClaim(w) \/ StartCount(w) \/ StartTick(w)
             \/ Remain(w) \/ Complete(w) \/ TickOn(w) \/ \E e \in Contacts : Next1(w, e) \/ Send(w, e)
    BY <1>1, <2>1 DEF TakeAny, Take, Crash, StartError, StartClaim, StartCount, StartTick, Remain, Complete, TickOn, Next1, Send
  <2> QED
    BY <1>4, <1>5, <1>6, <1>7, <1>8, <2>1 DEF Step
<1>9. CASE Flush \/ Clock \/ MaintainStart \/ MaintainTick \/ Schedule \/ Pause \/ Remove \/ ResumeSchedule \/ ResumeRun
           \/ ResumeTick \/ Cancel \/ UNCHANGED vars
  BY <1>1, <1>9 DEF Flush, Clock, MaintainStart, MaintainTick, Schedule,
     Pause, Remove, ResumeSchedule, ResumeRun, ResumeTick, Cancel, vars
<1> QED
  BY <1>2, <1>3, <1>8, <1>9 DEF Next, Request

LEMMA WorkStays ==
  ASSUME [Next]_vars
  PROVE  UNCHANGED <<work, early>> \/ \E w \in Workers : TakeAny(w) \/ Step(w) \/ Crash(w) \/ StartError(w)
  BY DEF Next, Request, Flush, Clock, MaintainStart, MaintainTick, Schedule, Age, CancelRows,
     Pause, Remove, ResumeSchedule, ResumeRun, ResumeTick, Cancel, vars, history

LEMMA SkippedKept ==
  ASSUME Typed, [Next]_vars, Skipped
  PROVE  Skipped'
<1>1. \A c \in Contacts : row[c].status = "SKIPPED" => row'[c].status = "SKIPPED"
  BY RowsMove DEF RowMoves
<1>2. CASE UNCHANGED work
  BY <1>1, <1>2 DEF Skipped, At
<1>3. ASSUME NEW w \in Workers, TakeAny(w) \/ Step(w) \/ Crash(w) \/ StartError(w) PROVE Skipped'
  <2>1. Others(w)
    BY <1>3, WorkMoves
  <2> DEFINE Fine == /\ work'[w].pc \in {"rows", "count"} =>
                          \A c \in Contacts \ (work'[w].todo \cup work'[w].held) : row'[c].status = "SKIPPED"
                     /\ work'[w].pc = "count" => work'[w].todo = {}
  <2>2. Fine => Skipped'
    BY <1>1, <2>1 DEF Skipped, At, Others
  <2>3. CASE work'[w].pc \notin {"rows", "count"}
    BY <2>2, <2>3
  <2>4. CASE StartClaim(w) /\ bc.status = "SCHEDULED"
    <3>1. work'[w].pc = "rows" /\ work'[w].todo = Contacts
      BY <2>4, ClaimEffect DEF StartClaim, Typed
    <3> QED
      BY <2>2, <3>1
  <2>5. ASSUME NEW e \in Contacts, StartRows(w, e) PROVE Fine
    <3>1. At(w, "rows") /\ TypeOK /\ row \in [Contacts -> Row]
      BY <2>5, RowOf DEF Typed, StartRows
    <3>2. /\ work'[w].pc = (IF work[w].todo = {e} THEN "count" ELSE "rows") /\ work'[w].todo = work[w].todo \ {e}
          /\ \/ row' = [row EXCEPT ![e].status = "PENDING"] /\ work'[w].held = work[w].held \cup {e}
             \/ row' = [row EXCEPT ![e].status = "SKIPPED"] /\ work'[w].held = work[w].held
      BY <2>5, <3>1, InsertEffect
    <3>3. work'[w].pc = "count" => work'[w].todo = {}
      BY <3>2
    <3>4. \A c \in Contacts \ (work[w].todo \cup work[w].held) : row'[c].status = "SKIPPED"
      BY <1>1, <3>1 DEF Skipped, At
    <3>5. e \in work'[w].held \/ row'[e].status = "SKIPPED"
      BY <3>1, <3>2, RowOf DEF Row
    <3>6. \A c \in Contacts \ (work'[w].todo \cup work'[w].held) : row'[c].status = "SKIPPED"
      BY <3>2, <3>4, <3>5
    <3> QED
      BY <3>3, <3>6
  <2> QED
    BY <1>3, <2>2, <2>3, <2>4, <2>5, WorkMoves
<1> QED
  BY <1>2, <1>3, WorkStays

\* Only Remain counts early, and only a start or a tick that saw nothing left completes.
LEMMA WorkerStatus ==
  ASSUME Typed, NEW w \in Workers, TakeAny(w) \/ Step(w) \/ Crash(w) \/ StartError(w)
  PROVE  /\ early => early'
         /\ bc'.status = "COMPLETED" => bc.status = "COMPLETED" \/ Complete(w) \/ (StartCount(w) /\ work[w].held = {})
         /\ Remain(w) => early' = (early \/ \E v \in Workers : IsStart(v))
<1>0. bc \in [status : Status, started : BOOLEAN, seq : Nat, at : Nat, due : BOOLEAN]
  BY DEF Typed, TypeOK
<1>1. CASE UNCHANGED <<bc, early>> /\ ~Remain(w)
  BY <1>1
<1>2. CASE Remain(w)
  BY <1>2 DEF Remain
<1>3. CASE StartError(w)
  <2>1. UNCHANGED early /\ (bc' = bc \/ bc' = [bc EXCEPT !.status = "FAILED"]) /\ ~Remain(w)
    BY <1>3 DEF StartError, history, Remain, IsStart, StartSteps, At
  <2> QED
    BY <1>0, <2>1
<1>4. CASE StartClaim(w)
  <2>1. UNCHANGED early /\ (bc' = bc \/ bc' = [bc EXCEPT !.status = "RUNNING", !.started = TRUE]) /\ ~Remain(w)
    BY <1>4 DEF StartClaim, history, Remain, At
  <2> QED
    BY <1>0, <2>1
<1>5. CASE StartCount(w)
  <2>1. UNCHANGED early /\ (bc' = bc \/ work[w].held = {}) /\ ~Remain(w)
    BY <1>5 DEF StartCount, history, Remain, At
  <2> QED
    BY <1>5, <2>1
<1>6. CASE StartTick(w) \/ TickOn(w)
  <2>1. UNCHANGED early /\ (bc' = bc \/ bc' = [bc EXCEPT !.seq = bc.seq + 1] \/ bc' = [bc EXCEPT !.seq = work[w].key + 1]) /\ ~Remain(w)
    BY <1>6 DEF StartTick, TickOn, Successor, history, Remain, At
  <2> QED
    BY <1>0, <2>1
<1>7. CASE Complete(w)
  BY <1>7 DEF Complete, history, Remain, At
<1>8. CASE TakeAny(w) \/ Crash(w) \/ Stale(w)
  <2>1. UNCHANGED <<bc, early>>
    BY <1>8 DEF TakeAny, Take, Crash, Stale, history
  <2> QED
    BY <1>2, <2>1
<1>9. CASE \E c \in Contacts : StartRows(w, c) \/ Lease(w, c) \/ Next1(w, c) \/ Handle(w, c) \/ Send(w, c) \/ Outcome(w, c)
  <2>1. UNCHANGED <<bc, early>>
    BY <1>9 DEF StartRows, Lease, Next1, Handle, Send, Outcome, history
  <2> QED
    BY <1>2, <2>1
<1> QED
  BY <1>2, <1>3, <1>4, <1>5, <1>6, <1>7, <1>8, <1>9 DEF Step

LEMMA OutsideStatus ==
  ASSUME Typed,
         \/ Clock \/ MaintainStart \/ MaintainTick \/ Schedule \/ Pause \/ Remove \/ ResumeSchedule
         \/ ResumeRun \/ ResumeTick \/ Cancel \/ Flush \/ CancelRows \/ (\E e \in Contacts : Age(e)) \/ UNCHANGED vars
  PROVE  UNCHANGED <<work, early>> /\ (bc'.status = "COMPLETED" => bc.status = "COMPLETED")
<1>0. bc \in [status : Status, started : BOOLEAN, seq : Nat, at : Nat, due : BOOLEAN]
  BY DEF Typed, TypeOK
<1>1. UNCHANGED <<work, early>>
  BY DEF Clock, MaintainStart, MaintainTick, Schedule, Age, CancelRows, Flush,
     Pause, Remove, ResumeSchedule, ResumeRun, ResumeTick, Cancel, vars, history
<1>2. bc'.status = "COMPLETED" => bc.status = "COMPLETED"
  BY <1>0 DEF Clock, MaintainStart, MaintainTick, Schedule, Age, CancelRows, Flush,
     Pause, Remove, ResumeSchedule, ResumeRun, ResumeTick, Cancel, vars
<1> QED
  BY <1>1, <1>2

\* What is settled stays, unless the step is the claim of a start.
LEMMA SettledKept ==
  ASSUME Typed, [Next]_vars, Settled, \A w \in Workers : At(w, "rows")' => At(w, "rows")
  PROVE  Settled'
  BY RowsMove DEF Settled, Remaining, Is, RowMoves

LEMMA FinalKept ==
  ASSUME Typed, [Next]_vars, Skipped, Final
  PROVE  Final'
<1>0. TypeOK
  BY DEF Typed
<1>1. CASE \/ Clock \/ MaintainStart \/ MaintainTick \/ Schedule \/ Pause \/ Remove \/ ResumeSchedule
           \/ ResumeRun \/ ResumeTick \/ Cancel \/ Flush \/ CancelRows \/ (\E e \in Contacts : Age(e)) \/ UNCHANGED vars
  <2>1. UNCHANGED <<work, early>> /\ (bc'.status = "COMPLETED" => bc.status = "COMPLETED")
    BY <1>1, OutsideStatus
  <2>2. Settled => Settled'
    BY <2>1, SettledKept DEF At
  <2> QED
    BY <2>1, <2>2 DEF Final, At
<1>2. ASSUME NEW w \in Workers, TakeAny(w) \/ Step(w) \/ Crash(w) \/ StartError(w) PROVE Final'
  <2>1. Others(w) /\ (work'[w].pc = "complete" => Remain(w) /\ Remaining = {})
        /\ (work'[w].pc = "rows" => (StartClaim(w) /\ bc.status = "SCHEDULED") \/ \E e \in Contacts : StartRows(w, e))
    BY <1>2, WorkMoves
  <2>2. /\ early => early'
        /\ bc'.status = "COMPLETED" => bc.status = "COMPLETED" \/ Complete(w) \/ (StartCount(w) /\ work[w].held = {})
        /\ Remain(w) => early' = (early \/ \E v \in Workers : IsStart(v))
    BY <1>2, WorkerStatus
  <2>3. CASE early'
    BY <2>3 DEF Final
  <2>4. CASE ~early' /\ StartClaim(w) /\ bc.status = "SCHEDULED"
    <3>1. \A v \in Workers : work[v].pc \in {"idle", "claim"}
      BY <2>4 DEF Typed, Begun
    <3>2. \A v \in Workers : ~At(v, "complete")'
      BY <2>1, <2>4, <3>1 DEF At, Others, Remain
    <3>3. bc'.status # "COMPLETED"
      BY <2>2, <2>4 DEF StartClaim, Complete, StartCount, At
    <3> QED
      BY <3>2, <3>3 DEF Final
  <2>5. CASE ~early' /\ ~(StartClaim(w) /\ bc.status = "SCHEDULED")
    <3>1. \A v \in Workers : At(v, "rows")' => At(v, "rows")
      BY <2>1, <2>5 DEF Others, At, StartRows
    <3>2. Settled => Settled'
      BY <3>1, SettledKept
    <3>3. bc.status = "COMPLETED" \/ (\E v \in Workers : At(v, "complete")) => Settled
      BY <2>2, <2>5 DEF Final
    <3>4. Complete(w) => At(w, "complete")
      BY DEF Complete
    <3>5. (StartCount(w) /\ work[w].held = {}) => Settled
      <4>1. SUFFICES ASSUME StartCount(w), work[w].held = {} PROVE Settled
        OBVIOUS
      <4>2. \A c \in Contacts : row[c].status = "SKIPPED"
        BY <4>1 DEF StartCount, Skipped, At
      <4>3. \A v \in Workers : ~At(v, "rows")
        BY <4>1 DEF Typed, Inserts, Inserting, At, StartCount
      <4> QED
        BY <4>2, <4>3 DEF Settled, Remaining, Is
    <3>6. Remain(w) /\ Remaining = {} => Settled
      BY <2>2, <2>5 DEF Settled, IsStart, StartSteps, At
    <3>7. \A v \in Workers : At(v, "complete")' => At(v, "complete") \/ (v = w /\ Remain(w) /\ Remaining = {})
      BY <2>1 DEF Others, At
    <3> QED
      BY <2>2, <3>2, <3>3, <3>4, <3>5, <3>6, <3>7 DEF Final
  <2> QED
    BY <2>3, <2>4, <2>5
<1> QED
  BY <1>1, <1>2 DEF Next, Request

\* A broadcast is COMPLETED only when every recipient is dealt with, leases of other
\* workers and of dead ones included (broadcast.ts:1079), unless a tick of the sweep
\* counted while a start was still inserting.
THEOREM CompletedMeansCompleted == Spec => []CompletedIsFinal
<1>1. Init => Typed /\ Skipped /\ Final
  <2>1. ASSUME Init PROVE Skipped /\ Final
    BY <2>1, IdleTyped DEF Init, Skipped, Final, At
  <2> QED
    BY <2>1, InitTyped
<1>2. Typed /\ Skipped /\ Final /\ [Next]_vars => (Typed /\ Skipped /\ Final)'
  BY StepTyped, SkippedKept, FinalKept
<1>3. Typed /\ Skipped /\ Final => CompletedIsFinal
  BY DEF Final, Settled, CompletedIsFinal
<1> QED
  BY <1>1, <1>2, <1>3, PTL DEF Spec

-----------------------------------------------------------------------------
(* The counters: as long as nothing goes wrong, every worker holds leases  *)
(* that are its own, and a counter is its rows, but for the skipped ones   *)
(* of a start that has not counted yet.                                    *)

Outcomes == {"SENT", "SKIPPED", "FAILED"}
Untroubled == fuel = MaxTrouble

\* The start inserts a contact once.
Apart == \A w \in Workers : At(w, "rows") => work[w].todo \cap work[w].held = {}

Fresh == \A w \in Workers, c \in Contacts : Holds(w, c) => row[c].status = "SENDING" /\ ~row[c].old

\* Who was inserted as not eligible by a start on its way to the totals.
Uncounted ==
  {c \in Contacts : \E w \in Workers : work[w].pc \in {"rows", "count"} /\ c \notin work[w].todo \cup work[w].held}
Owed(s) == IF s = "SKIPPED" THEN Uncounted ELSE {}
Tallied == \A s \in Outcomes : count[s] + Cardinality(Owed(s)) = Cardinality(Is(s))

Even == Apart /\ (Untroubled => Fresh /\ Tallied)

\* The steps of a worker that leave every row as it is give it nothing to hold.
LEMMA HoldsLess ==
  ASSUME Typed, NEW w \in Workers,
         TakeAny(w) \/ StartClaim(w) \/ StartCount(w) \/ StartTick(w) \/ Complete(w) \/ TickOn(w) \/ Remain(w)
           \/ \E e \in Contacts : Next1(w, e) \/ Send(w, e)
  PROVE  UNCHANGED row /\ Others(w) /\ \A c \in Contacts : Holds(w, c)' => Holds(w, c)
<1> DEFINE Goal == UNCHANGED row /\ Others(w) /\ \A c \in Contacts : Holds(w, c)' => Holds(w, c)
<1>1. TypeOK /\ UNCHANGED row
  BY DEF Typed, TakeAny, Take, StartClaim, StartCount, StartTick, Complete, TickOn, Remain, Next1, Send, history
<1>2. CASE Stop(w)
  BY <1>1, <1>2, StopEffect, IdleTyped DEF Holds
<1>3. CASE TakeAny(w)
  <2>1. work' = work \/ (Others(w) /\ work'[w].held = {} /\ work'[w].on = {})
    BY <1>1, <1>3, TakeEffect DEF TakeAny
  <2> QED
    BY <1>1, <2>1 DEF Holds, Others, IsStart
<1>4. CASE StartClaim(w) /\ ~Stop(w)
  BY <1>1, <1>4, ClaimEffect DEF StartClaim, Holds, IsStart, StartSteps
<1>5. CASE StartCount(w) /\ ~Stop(w)
  BY <1>1, <1>5, GotoEffect DEF StartCount, Steps, StartSteps, Holds, IsStart
<1>6. CASE Remain(w) \/ \E e \in Contacts : Send(w, e)
  <2>1. PICK s \in BatchSteps : Goto(w, s)
    BY <1>6 DEF Remain, Send, BatchSteps
  <2>2. Others(w) /\ work'[w].held = work[w].held /\ work'[w].on = work[w].on /\ ~IsStart(w)
    BY <1>1, <1>6, <2>1, GotoEffect DEF Steps, Remain, Send, At, IsStart, StartSteps
  <2> QED
    BY <1>1, <2>2 DEF Holds
<1>7. ASSUME NEW e \in Contacts, Next1(w, e) PROVE Goal
  <2>1. ~IsStart(w)
    BY <1>7 DEF Next1, At, IsStart, StartSteps
  <2>2. Others(w) /\ work'[w].held = work[w].held \ {e} /\ work'[w].on = {e} /\ e \in work[w].held
    BY <1>1, <1>7, NextEffect
  <2> QED
    BY <1>1, <2>1, <2>2 DEF Holds
<1> QED
  BY <1>1, <1>2, <1>3, <1>4, <1>5, <1>6, <1>7 DEF StartTick, Complete, TickOn

\* As long as nothing goes wrong no lease is taken over.
LEMMA FreshKept ==
  ASSUME Typed, [Next]_vars, fuel' = fuel, Fresh
  PROVE  Fresh'
<1>0. TypeOK /\ row \in [Contacts -> Row] /\ fuel \in Nat
  BY RowOf, BroadcastAssumption DEF Typed, TypeOK
<1>1. ASSUME NEW w \in Workers, UNCHANGED row, Others(w), \A c \in Contacts : Holds(w, c)' => Holds(w, c)
      PROVE  Fresh'
  BY <1>1 DEF Fresh, Holds, Others, IsStart
<1>2. ASSUME NEW w \in Workers, NEW e \in Contacts, StartRows(w, e) PROVE Fresh'
  <2>1. Others(w) /\ IsStart(w)' /\ row[e].status = "NONE"
    BY <1>0, <1>2, InsertEffect DEF IsStart, StartSteps, Typed, Inserts, StartRows
  <2>2. \A c \in Contacts \ {e} : row'[c] = row[c]
    BY <1>0, <1>2 DEF StartRows
  <2>3. \A v \in Workers : ~Holds(v, e)
    BY <2>1 DEF Fresh
  <2> QED
    BY <2>1, <2>2, <2>3 DEF Fresh, Holds, Others, IsStart
<1>3. ASSUME NEW w \in Workers, Stale(w) PROVE Fresh'
  <2>1. Others(w) /\ work'[w].held = {} /\ work'[w].on = {}
    BY <1>0, <1>3, StaleEffect DEF Stale, At, Typed, Hands, HandsOf, Handling
  <2>2. \A c \in Contacts : ~row[c].old => row'[c] = row[c]
    BY <1>3 DEF Stale, Dead, Is
  <2> QED
    BY <2>1, <2>2 DEF Fresh, Holds, Others, IsStart
<1>4. ASSUME NEW w \in Workers, NEW e \in Contacts, Lease(w, e) PROVE Fresh'
  <2>1. /\ Others(w) /\ work'[w].on = {} /\ ~IsStart(w)
        /\ work'[w].held = IF Leasable(e) THEN work[w].held \cup {e} ELSE work[w].held
    BY <1>0, <1>4, LeaseEffect DEF Lease, At, Typed, Hands, HandsOf, Handling, IsStart, StartSteps
  <2>2. CASE ~Leasable(e)
    <3>1. UNCHANGED row
      BY <1>4, <2>2 DEF Lease
    <3>2. \A c \in Contacts : Holds(w, c)' => Holds(w, c)
      BY <2>1, <2>2 DEF Holds
    <3> QED
      BY <1>1, <2>1, <3>1, <3>2
  <2>3. CASE Leasable(e)
    <3>1. row' = [row EXCEPT ![e] = [status |-> "SENDING", attempts |-> row[e].attempts + 1, old |-> FALSE]]
      BY <1>4, <2>3 DEF Lease
    <3>2. row'[e].status = "SENDING" /\ row'[e].old = FALSE /\ \A c \in Contacts \ {e} : row'[c] = row[c]
      BY <1>0, <3>1
    <3>3. \A v \in Workers, c \in Contacts : Holds(v, c)' => Holds(v, c) \/ c = e
      BY <2>1 DEF Holds, Others, IsStart
    <3> QED
      BY <3>2, <3>3 DEF Fresh
  <2> QED
    BY <2>2, <2>3
<1>5. ASSUME NEW w \in Workers, NEW e \in Contacts, Handle(w, e) \/ Outcome(w, e) PROVE Fresh'
  <2>1. CASE Handle(w, e) /\ Goto(w, "send")
    <3>1. UNCHANGED row \/ \E h \in Halts : Handled(w, h)
      BY <1>0, <2>1, WorkOf DEF Handle, Halts
    <3>2. Others(w) /\ work'[w].pc = "send"
      BY <1>0, <2>1, GotoEffect DEF Steps, BatchSteps
    <3>3. UNCHANGED row
      BY <1>0, <3>1, <3>2, HandledEffect
    <3>4. \A c \in Contacts : Holds(w, c)' => Holds(w, c)
      BY <1>0, <2>1, GotoEffect, HandsKept DEF Steps, BatchSteps, Holds
    <3> QED
      BY <1>1, <3>2, <3>3, <3>4
  <2>2. CASE \E h \in Halts : Handled(w, h)
    <3>1. Others(w) /\ work'[w].on = {} /\ work'[w].held = work[w].held /\ e \notin work[w].held /\ Holds(w, e)
          /\ \A c \in Contacts \ {e} : row'[c] = row[c]
      BY <1>0, <1>5, <2>2, HandledEffect, HandsKept DEF Holds
    <3>2. \A v \in Workers, c \in Contacts : Holds(v, c)' => Holds(v, c) /\ c # e
      BY <3>1 DEF Holds, Others, IsStart, Typed, Grip, Gripped
    <3> QED
      BY <3>1, <3>2 DEF Fresh
  <2> QED
    BY <1>0, <1>5, <2>1, <2>2, WorkOf DEF Handle, Outcome, Finish, Halts
<1>6. CASE CancelRows
  <2>1. \A c \in Contacts : row[c].status = "SENDING" => row'[c] = row[c]
    BY <1>0, <1>6 DEF CancelRows, Left, Is
  <2> QED
    BY <1>6, <2>1 DEF Fresh, Holds, IsStart, CancelRows
<1>7. ASSUME NEW e \in Contacts, Age(e) PROVE Fresh'
  <2>1. UNCHANGED work /\ \A c \in Contacts \ {e} : row'[c] = row[c]
    BY <1>0, <1>7 DEF Age
  <2>2. \A w \in Workers : ~Holds(w, e)
    BY <1>0, <1>7 DEF Age, Trouble, Holds
  <2> QED
    BY <2>1, <2>2 DEF Fresh, Holds, IsStart
<1>8. CASE UNCHANGED <<row, work>>
  BY <1>8 DEF Fresh, Holds, IsStart
<1>9. ~Flush /\ \A w \in Workers : ~Crash(w) /\ ~StartError(w)
  BY <1>0 DEF Flush, Crash, StartError, Trouble
<1>10. ASSUME NEW w \in Workers, TakeAny(w) \/ Step(w) PROVE Fresh'
  BY <1>1, <1>2, <1>3, <1>4, <1>5, <1>10, HoldsLess DEF Step
<1> QED
  BY <1>6, <1>7, <1>8, <1>9, <1>10 DEF Next, Request, Clock, MaintainStart, MaintainTick, Schedule,
     Pause, Remove, ResumeSchedule, ResumeRun, ResumeTick, Cancel, vars

LEMMA ApartKept ==
  ASSUME Typed, [Next]_vars, Apart
  PROVE  Apart'
<1>0. TypeOK
  BY DEF Typed
<1>1. CASE UNCHANGED work
  BY <1>1 DEF Apart, At
<1>2. ASSUME NEW w \in Workers, TakeAny(w) \/ Step(w) \/ Crash(w) \/ StartError(w) PROVE Apart'
  <2>1. Others(w) /\ (work'[w].pc = "rows" => StartClaim(w) \/ \E e \in Contacts : StartRows(w, e))
    BY <1>2, WorkMoves
  <2>2. CASE StartClaim(w) /\ work'[w].pc = "rows"
    <3>1. work[w].held = {}
      BY <2>2 DEF StartClaim, At, Typed, Hands, HandsOf
    <3>2. ~Stop(w)
      BY <1>0, <2>2, StopEffect, IdleTyped
    <3>3. work'[w].held = {}
      BY <1>0, <2>2, <3>1, <3>2, ClaimEffect DEF StartClaim
    <3> QED
      BY <2>1, <3>3 DEF Apart, At, Others
  <2>3. ASSUME NEW e \in Contacts, StartRows(w, e) PROVE Apart'
    <3>1. /\ At(w, "rows") /\ work'[w].todo = work[w].todo \ {e}
          /\ work'[w].held \in {work[w].held, work[w].held \cup {e}}
      BY <1>0, <2>3, InsertEffect DEF StartRows
    <3> QED
      BY <2>1, <3>1 DEF Apart, At, Others
  <2>4. CASE work'[w].pc # "rows"
    BY <2>1, <2>4 DEF Apart, At, Others
  <2> QED
    BY <2>1, <2>2, <2>3, <2>4
<1> QED
  BY <1>1, <1>2, WorkStays

\* Contacts that move to one status together.
Moved(S, b) ==
  /\ \A c \in S : row[c].status \notin Outcomes /\ row'[c].status = b
  /\ \A c \in Contacts \ S : row'[c].status = row[c].status

LEMMA Recounted ==
  ASSUME NEW S \in SUBSET Contacts, NEW b \in RecipientStatus, Moved(S, b), NEW s \in Outcomes
  PROVE  /\ Cardinality(Is(s)) \in Nat /\ Cardinality(S) \in Nat /\ Cardinality(Is(s)') \in Nat
         /\ Cardinality(Is(s)') = Cardinality(Is(s)) + (IF s = b THEN Cardinality(S) ELSE 0)
<1>1. Is(s) \subseteq Contacts /\ Is(s)' \subseteq Contacts
  BY DEF Is
<1>2. IsFiniteSet(Is(s)) /\ IsFiniteSet(S) /\ IsFiniteSet(Is(s)')
  BY <1>1, BroadcastAssumption, FS_Subset
<1>3. Cardinality(Is(s)) \in Nat /\ Cardinality(S) \in Nat /\ Cardinality(Is(s)') \in Nat
  BY <1>2, FS_CardinalityType
<1>4. Is(s) \cap S = {}
  BY DEF Is, Moved
<1>5. CASE s = b
  <2>1. Is(s)' = Is(s) \cup S
    BY <1>5 DEF Is, Moved
  <2>2. Cardinality(Is(s) \cap S) = 0
    BY <1>4, FS_EmptySet
  <2>3. Cardinality(Is(s) \cup S) = Cardinality(Is(s)) + Cardinality(S) - Cardinality(Is(s) \cap S)
    BY <1>2, FS_Union
  <2> QED
    BY <1>3, <1>5, <2>1, <2>2, <2>3
<1>6. CASE s # b
  <2>1. Is(s)' = Is(s)
    BY <1>6 DEF Is, Moved
  <2> QED
    BY <1>3, <1>6, <2>1
<1> QED
  BY <1>5, <1>6

\* What moves is counted at once, and the starts owe what they owed.
LEMMA TalliedKept ==
  ASSUME TypeOK, Tallied, Uncounted' = Uncounted,
         NEW S \in SUBSET Contacts, NEW b \in RecipientStatus, Moved(S, b),
         IF b \in Outcomes THEN Counted(b, Cardinality(S)) ELSE UNCHANGED count
  PROVE  Tallied'
<1> SUFFICES ASSUME NEW s \in Outcomes PROVE count'[s] + Cardinality(Owed(s)') = Cardinality(Is(s)')
  BY DEF Tallied
<1>1. Cardinality(Is(s)') = Cardinality(Is(s)) + (IF s = b THEN Cardinality(S) ELSE 0)
      /\ Cardinality(S) \in Nat /\ Cardinality(Is(s)) \in Nat
  BY Recounted
<1>2. count[s] \in Nat /\ count'[s] = count[s] + (IF s = b THEN Cardinality(S) ELSE 0)
  BY <1>1 DEF TypeOK, Counted, Outcomes
<1>3. Owed(s)' = Owed(s) /\ Owed(s) \subseteq Contacts
  BY DEF Owed, Uncounted
<1>4. Cardinality(Owed(s)) \in Nat
  BY <1>3, SizeTyped
<1>5. count[s] + Cardinality(Owed(s)) = Cardinality(Is(s))
  BY DEF Tallied
<1> HIDE DEF Tallied
<1> QED
  BY <1>1, <1>2, <1>3, <1>4, <1>5

LEMMA TalliedStill ==
  ASSUME TypeOK, Tallied, UNCHANGED count, Uncounted' = Uncounted,
         \A c \in Contacts : row'[c].status = row[c].status
  PROVE  Tallied'
<1>1. \A s \in Outcomes : Is(s)' = Is(s) /\ Owed(s)' = Owed(s)
  BY DEF Is, Owed
<1> QED
  BY <1>1 DEF Tallied

LEMMA UncountedKept ==
  ASSUME Typed, NEW w \in Workers, Others(w), work[w].pc \notin {"rows", "count"}, work'[w].pc \notin {"rows", "count"}
  PROVE  Uncounted' = Uncounted
  BY DEF Uncounted, Others

LEMMA ClaimTallied ==
  ASSUME Typed, Tallied, NEW w \in Workers, StartClaim(w)
  PROVE  Tallied'
<1>1. TypeOK /\ UNCHANGED <<row, count>> /\ At(w, "claim")
  BY DEF Typed, StartClaim
<1>2. Uncounted' = Uncounted
  <2>1. CASE bc.status = "SCHEDULED"
    <3>1. Others(w) /\ work'[w].todo = Contacts
      BY <1>1, <2>1, ClaimEffect DEF StartClaim
    <3>2. \A v \in Workers : work[v].pc \in {"idle", "claim"}
      BY <2>1 DEF Typed, Begun
    <3>3. Uncounted = {}
      BY <3>2 DEF Uncounted
    <3>4. Uncounted' = {}
      BY <3>1, <3>2 DEF Uncounted, Others
    <3> QED
      BY <3>3, <3>4
  <2>2. CASE bc.status # "SCHEDULED"
    <3>1. Others(w) /\ work'[w].pc = "idle"
      BY <1>1, <2>2, StopEffect, IdleTyped DEF StartClaim
    <3> QED
      BY <1>1, <3>1, UncountedKept DEF At
  <2> QED
    BY <2>1, <2>2
<1> QED
  BY <1>1, <1>2, TalliedStill

\* A contact inserted as not eligible is owed until the totals are written.
LEMMA InsertTallied ==
  ASSUME Typed, Apart, Tallied, NEW w \in Workers, NEW c \in Contacts, StartRows(w, c)
  PROVE  Tallied'
<1>1. /\ TypeOK /\ UNCHANGED count /\ At(w, "rows") /\ c \in work[w].todo /\ c \notin work[w].held
      /\ row \in [Contacts -> Row] /\ row[c].status = "NONE" /\ row[c] \in Row
  BY RowOf DEF Typed, StartRows, Apart, Inserts
<1>2. \A v \in Workers : work[v].pc \in {"rows", "count"} => v = w
  BY <1>1 DEF Typed, Inserts, Inserting, At
<1>3. /\ Others(w) /\ work'[w].pc \in {"rows", "count"} /\ work'[w].todo = work[w].todo \ {c}
      /\ \/ row' = [row EXCEPT ![c].status = "PENDING"] /\ work'[w].held = work[w].held \cup {c}
         \/ row' = [row EXCEPT ![c].status = "SKIPPED"] /\ work'[w].held = work[w].held
  BY <1>1, InsertEffect
<1>4. Uncounted = Contacts \ (work[w].todo \cup work[w].held)
  BY <1>1, <1>2 DEF Uncounted, At
<1>5. Uncounted' = Contacts \ (work'[w].todo \cup work'[w].held)
  BY <1>2, <1>3 DEF Uncounted, Others
<1>6. CASE row' = [row EXCEPT ![c].status = "PENDING"] /\ work'[w].held = work[w].held \cup {c}
  <2>1. Uncounted' = Uncounted
    BY <1>1, <1>3, <1>4, <1>5, <1>6
  <2>2. Moved({c}, "PENDING")
    BY <1>1, <1>6 DEF Moved, Outcomes, Row
  <2> QED
    BY <1>1, <2>1, <2>2, TalliedKept DEF Outcomes, RecipientStatus
<1>7. CASE row' = [row EXCEPT ![c].status = "SKIPPED"] /\ work'[w].held = work[w].held
  <2>1. Uncounted' = Uncounted \cup {c} /\ c \notin Uncounted /\ Uncounted \subseteq Contacts
    BY <1>1, <1>3, <1>4, <1>5, <1>7
  <2>2. Moved({c}, "SKIPPED")
    BY <1>1, <1>7 DEF Moved, Outcomes, Row
  <2>3. IsFiniteSet(Uncounted) /\ Cardinality(Uncounted) \in Nat
    BY <2>1, BroadcastAssumption, FS_Subset, FS_CardinalityType
  <2>4. Cardinality(Uncounted') = Cardinality(Uncounted) + 1
    BY <2>1, <2>3, FS_AddElement
  <2>5. Cardinality({c}) = 1
    BY FS_Singleton
  <2> SUFFICES ASSUME NEW s \in Outcomes PROVE count'[s] + Cardinality(Owed(s)') = Cardinality(Is(s)')
    BY DEF Tallied
  <2>6. /\ count[s] \in Nat /\ count'[s] = count[s]
        /\ count[s] + Cardinality(Owed(s)) = Cardinality(Is(s))
    BY <1>1 DEF TypeOK, Outcomes, Tallied
  <2>7. Cardinality(Is(s)) \in Nat /\ Cardinality(Is(s)') = Cardinality(Is(s)) + (IF s = "SKIPPED" THEN Cardinality({c}) ELSE 0)
    BY <2>2, Recounted DEF RecipientStatus
  <2>8. CASE s = "SKIPPED"
    <3>1. Owed(s) = Uncounted /\ Owed(s)' = Uncounted'
      BY <2>8 DEF Owed
    <3> QED
      BY <2>3, <2>4, <2>5, <2>6, <2>7, <2>8, <3>1
  <2>9. CASE s # "SKIPPED"
    <3>1. Owed(s) = {} /\ Owed(s)' = {}
      BY <2>9 DEF Owed
    <3> QED
      BY <2>6, <2>7, <2>9, <3>1, FS_EmptySet
  <2> QED
    BY <2>8, <2>9
<1> QED
  BY <1>3, <1>6, <1>7

\* The totals pay what is owed.
LEMMA TotalsTallied ==
  ASSUME Typed, Skipped, Tallied, NEW w \in Workers, StartCount(w)
  PROVE  Tallied'
<1>1. /\ TypeOK /\ UNCHANGED row /\ At(w, "count") /\ work[w].todo = {}
      /\ Counted("SKIPPED", Cardinality(Contacts \ work[w].held))
  BY DEF Typed, StartCount, Skipped
<1>2. \A v \in Workers : work[v].pc \in {"rows", "count"} => v = w
  BY <1>1 DEF Typed, Inserts, Inserting, At
<1>3. Others(w) /\ work'[w].pc \in {"idle", "first"}
  BY <1>1, StopEffect, GotoEffect, IdleTyped DEF StartCount, Steps, StartSteps
<1>4. Uncounted = Contacts \ work[w].held
  BY <1>1, <1>2 DEF Uncounted, At
<1>5. Uncounted' = {}
  BY <1>2, <1>3 DEF Uncounted, Others
<1>6. Cardinality(Uncounted) \in Nat
  BY <1>4, SizeTyped
<1> SUFFICES ASSUME NEW s \in Outcomes PROVE count'[s] + Cardinality(Owed(s)') = Cardinality(Is(s)')
  BY DEF Tallied
<1>7. Is(s)' = Is(s) /\ count[s] \in Nat /\ count[s] + Cardinality(Owed(s)) = Cardinality(Is(s))
  BY <1>1 DEF Is, TypeOK, Outcomes, Tallied
<1>8. Cardinality(Owed(s)') = 0
  BY <1>5, FS_EmptySet DEF Owed
<1>9. CASE s = "SKIPPED"
  <2>1. Owed(s) = Uncounted
    BY <1>9 DEF Owed
  <2>2. count'[s] = count[s] + Cardinality(Uncounted)
    BY <1>1, <1>4, <1>9 DEF TypeOK, Counted
  <2> QED
    BY <1>6, <1>7, <1>8, <2>1, <2>2
<1>10. CASE s # "SKIPPED"
  <2>1. Cardinality(Owed(s)) = 0
    BY <1>10, FS_EmptySet DEF Owed
  <2>2. count'[s] = count[s]
    BY <1>1, <1>10 DEF TypeOK, Counted, Outcomes
  <2> QED
    BY <1>7, <1>8, <2>1, <2>2
<1> QED
  BY <1>9, <1>10

LEMMA StaleTallied ==
  ASSUME Typed, Tallied, NEW w \in Workers, Stale(w)
  PROVE  Tallied'
<1>1. TypeOK /\ At(w, "stale") /\ Dead \subseteq Contacts
  BY DEF Typed, Stale, Dead, Is
<1>2. Moved(Dead, "FAILED")
  <2>1. \A c \in Dead : row[c].status = "SENDING" /\ row'[c] = To(c, "FAILED")
    BY DEF Stale, Dead, Is
  <2>2. \A c \in Contacts \ Dead : row'[c] = row[c]
    BY DEF Stale
  <2> QED
    BY <1>1, <2>1, <2>2, ToFields DEF Moved, Outcomes, RecipientStatus
<1>3. Counted("FAILED", Cardinality(Dead))
  BY DEF Stale
<1>4. Uncounted' = Uncounted
  BY <1>1, StaleEffect, UncountedKept DEF At
<1> QED
  BY <1>1, <1>2, <1>3, <1>4, TalliedKept DEF Outcomes, RecipientStatus

LEMMA LeaseTallied ==
  ASSUME Typed, Tallied, NEW w \in Workers, NEW c \in Contacts, Lease(w, c)
  PROVE  Tallied'
<1>1. TypeOK /\ At(w, "lease") /\ UNCHANGED count /\ row \in [Contacts -> Row]
  BY RowOf DEF Typed, Lease
<1>2. Uncounted' = Uncounted
  BY <1>1, LeaseEffect, UncountedKept DEF At
<1>3. CASE Leasable(c)
  <2>1. row' = [row EXCEPT ![c] = [status |-> "SENDING", attempts |-> row[c].attempts + 1, old |-> FALSE]]
    BY <1>3 DEF Lease
  <2>2. Moved({c}, "SENDING")
    BY <1>1, <1>3, <2>1 DEF Moved, Leasable, Outcomes
  <2> QED
    BY <1>1, <1>2, <2>2, TalliedKept DEF Outcomes, RecipientStatus
<1>4. CASE ~Leasable(c)
  BY <1>1, <1>2, <1>4, TalliedStill DEF Lease
<1> QED
  BY <1>3, <1>4

\* A worker that holds a lease of its own counts what it does with it.
LEMMA HandledTallied ==
  ASSUME Typed, Fresh, Tallied, NEW w \in Workers, NEW c \in Contacts, Handle(w, c) \/ Outcome(w, c)
  PROVE  Tallied'
<1>1. /\ TypeOK /\ row \in [Contacts -> Row] /\ work[w].pc \in Handling
      /\ row[c].status = "SENDING" /\ \A e \in Contacts \ {c} : row'[e] = row[e]
  <2>1. Holds(w, c)
    BY HandsKept DEF Holds
  <2> QED
    BY <2>1, RowOf, HandsKept DEF Typed, Fresh, Handle, Outcome, At, Handling
<1>2. Uncounted' = Uncounted
  <2>1. (\E h \in Halts : Handled(w, h)) \/ Goto(w, "send")
    BY <1>1, WorkOf DEF Handle, Outcome, Finish, Halts
  <2>2. Others(w) /\ work'[w].pc \notin {"rows", "count"}
    BY <1>1, <2>1, HandledEffect, GotoEffect DEF Steps, BatchSteps
  <2> QED
    BY <1>1, <2>2, UncountedKept DEF Handling
<1>3. Cardinality({c}) = 1
  BY FS_Singleton
<1>4. ASSUME NEW s \in {"SENT", "SKIPPED", "FAILED"}, row' = [row EXCEPT ![c] = To(c, s)], Counted(s, 1) PROVE Tallied'
  <2>1. Moved({c}, s)
    BY <1>1, <1>4, ToFields DEF Moved, Outcomes, RecipientStatus
  <2> QED
    BY <1>1, <1>2, <1>3, <1>4, <2>1, TalliedKept DEF Outcomes, RecipientStatus
<1>5. ASSUME NEW r \in {To(c, "PENDING"), GivenBack(c)}, row' = [row EXCEPT ![c] = r], UNCHANGED count PROVE Tallied'
  <2>1. r.status = "PENDING"
    BY <1>1, <1>5, ToFields DEF GivenBack, RecipientStatus
  <2>2. Moved({c}, "PENDING")
    BY <1>1, <1>5, <2>1 DEF Moved, Outcomes
  <2> QED
    BY <1>1, <1>2, <1>5, <2>2, TalliedKept DEF Outcomes, RecipientStatus
<1>6. CASE UNCHANGED <<row, count>>
  BY <1>1, <1>2, <1>6, TalliedStill
<1>7. CASE Handle(w, c)
  BY <1>1, <1>4, <1>5, <1>6, <1>7 DEF Handle, Leased
<1>8. CASE Outcome(w, c)
  BY <1>1, <1>4, <1>5, <1>8 DEF Outcome, Finish, Leased
<1> QED
  BY <1>7, <1>8

LEMMA CancelTallied ==
  ASSUME Typed, Tallied, CancelRows
  PROVE  Tallied'
<1>1. TypeOK /\ Left \subseteq Contacts /\ UNCHANGED work
  BY DEF Typed, CancelRows, Left, Is
<1>2. Moved(Left, "SKIPPED")
  <2>1. \A c \in Left : row[c].status = "PENDING" /\ row'[c] = To(c, "SKIPPED")
    BY DEF CancelRows, Left, Is
  <2>2. \A c \in Contacts \ Left : row'[c] = row[c]
    BY DEF CancelRows
  <2> QED
    BY <1>1, <2>1, <2>2, ToFields DEF Moved, Outcomes, RecipientStatus
<1>3. Uncounted' = Uncounted
  BY <1>1 DEF Uncounted
<1> QED
  BY <1>1, <1>2, <1>3, TalliedKept DEF CancelRows, Outcomes, RecipientStatus

LEMMA EvenKept ==
  ASSUME Typed, Skipped, Even, [Next]_vars
  PROVE  Even'
<1>0. TypeOK /\ fuel \in 0..MaxTrouble /\ MaxTrouble \in Nat /\ row \in [Contacts -> Row]
  BY RowOf, BroadcastAssumption DEF Typed, TypeOK
<1>1. Apart'
  BY ApartKept DEF Even
<1> SUFFICES ASSUME Untroubled' PROVE Fresh' /\ Tallied'
  BY <1>1 DEF Even
<1>2. fuel' = fuel \/ Trouble
  <2>1. ASSUME NEW w \in Workers, TakeAny(w) \/ Crash(w) \/ StartError(w) PROVE fuel' = fuel \/ Trouble
    BY <2>1 DEF TakeAny, Take, Crash, StartError
  <2>2. ASSUME NEW w \in Workers, Step(w) PROVE fuel' = fuel \/ Trouble
    BY <2>2 DEF Step, StartClaim, StartCount, StartTick, Stale, Remain, Complete, TickOn, Successor, StartRows, Lease,
       Next1, Handle, Send, Outcome
  <2>3. CASE Request \/ \E e \in Contacts : Age(e)
    BY <2>3 DEF Request, Remove, ResumeTick, CancelRows, Age
  <2>4. CASE Flush \/ Clock \/ MaintainStart \/ MaintainTick
    BY <2>4 DEF Flush, Clock, MaintainStart, MaintainTick
  <2>5. CASE Schedule \/ Pause \/ ResumeSchedule \/ ResumeRun \/ Cancel \/ UNCHANGED vars
    BY <2>5 DEF Schedule, Pause, ResumeSchedule, ResumeRun, Cancel, vars
  <2> QED
    BY <2>1, <2>2, <2>3, <2>4, <2>5 DEF Next
<1>3. fuel' = fuel /\ ~Trouble /\ Fresh /\ Tallied
  BY <1>0, <1>2 DEF Even, Untroubled, Trouble
<1>4. ~Flush /\ \A w \in Workers : ~Crash(w) /\ ~StartError(w)
  BY <1>3 DEF Flush, Crash, StartError
<1>5. Fresh'
  BY <1>3, FreshKept
<1>6. ASSUME NEW w \in Workers,
             TakeAny(w) \/ StartTick(w) \/ Complete(w) \/ TickOn(w) \/ Remain(w)
               \/ \E e \in Contacts : Next1(w, e) \/ Send(w, e)
      PROVE  Tallied'
  <2>1. UNCHANGED <<row, count>> /\ work[w].pc \notin {"rows", "count"} /\ Others(w)
    BY <1>6, HoldsLess DEF TakeAny, Take, StartTick, Complete, TickOn, Remain, Next1, Send, At, history
  <2>2. work'[w].pc \notin {"rows", "count"}
    BY <1>6, WorkMoves DEF Step, StartClaim, StartRows, TakeAny, Take, StartTick, Complete, TickOn, Remain, Next1, Send, At
  <2> QED
    BY <1>0, <1>3, <2>1, <2>2, UncountedKept, TalliedStill
<1>7. ASSUME NEW w \in Workers, TakeAny(w) \/ Step(w) PROVE Tallied'
  BY <1>3, <1>6, <1>7, ClaimTallied, InsertTallied, TotalsTallied, StaleTallied, LeaseTallied, HandledTallied DEF Step, Even
<1>8. ASSUME NEW e \in Contacts, Age(e) PROVE Tallied'
  <2>1. UNCHANGED <<count, work>> /\ row' = [row EXCEPT ![e].old = TRUE]
    BY <1>8 DEF Age
  <2>2. \A c \in Contacts : row'[c].status = row[c].status
    BY <1>0, <2>1 DEF Row
  <2> QED
    BY <1>0, <1>3, <2>1, <2>2, TalliedStill DEF Uncounted
<1>9. UNCHANGED <<row, count, work>> => Tallied'
  BY <1>0, <1>3, TalliedStill DEF Uncounted
<1>10. ASSUME Clock \/ MaintainStart \/ MaintainTick \/ Schedule \/ Pause \/ Remove \/ ResumeSchedule \/ ResumeRun
            \/ ResumeTick \/ Cancel \/ UNCHANGED vars
       PROVE  Tallied'
  <2>1. CASE Clock \/ MaintainStart \/ MaintainTick \/ Schedule
    BY <1>9, <2>1 DEF Clock, MaintainStart, MaintainTick, Schedule
  <2>2. CASE Pause \/ Remove \/ ResumeSchedule \/ ResumeRun
    BY <1>9, <2>2 DEF Pause, Remove, ResumeSchedule, ResumeRun
  <2>3. CASE ResumeTick \/ Cancel \/ UNCHANGED vars
    BY <1>9, <2>3 DEF ResumeTick, Cancel, vars
  <2> QED
    BY <1>10, <2>1, <2>2, <2>3
<1>11. CancelRows => Tallied'
  BY <1>3, CancelTallied
<1>12. Tallied'
  <2>1. \/ \E w \in Workers : TakeAny(w) \/ Step(w)
        \/ \E c \in Contacts : Age(c)
        \/ Clock \/ MaintainStart \/ MaintainTick \/ Schedule \/ Pause \/ Remove \/ ResumeSchedule \/ ResumeRun
            \/ ResumeTick \/ Cancel \/ UNCHANGED vars
        \/ CancelRows
    BY <1>4 DEF Next, Request
  <2> QED
    BY <1>7, <1>8, <1>10, <1>11, <2>1
<1> QED
  BY <1>5, <1>12

\* With nothing gone wrong, the counters of a broadcast at rest are those of its rows.
THEOREM CountersMatch == Spec => []CountsMatch
<1>1. Init => Typed /\ Skipped /\ Even
  <2> SUFFICES ASSUME Init PROVE Skipped /\ Even
    BY InitTyped
  <2>1. \A w \in Workers : work[w] = IdleWork
    BY DEF Init
  <2>2. Skipped /\ Apart /\ Fresh /\ Uncounted = {}
    BY <2>1, IdleTyped DEF Skipped, Apart, Fresh, Holds, Uncounted, At
  <2>3. \A s \in Outcomes : Is(s) = {} /\ Owed(s) = {} /\ count[s] = 0
    BY <2>2 DEF Init, Is, Owed, Outcomes, NoRow
  <2> QED
    BY <2>2, <2>3, FS_EmptySet DEF Even, Tallied
<1>2. Typed /\ Skipped /\ Even /\ [Next]_vars => (Typed /\ Skipped /\ Even)'
  BY StepTyped, SkippedKept, EvenKept
<1>3. Typed /\ Even => CountsMatch
  <2> SUFFICES ASSUME Typed, Even, fuel = MaxTrouble, \A w \in Workers : At(w, "idle"), NEW s \in DOMAIN count
               PROVE  count[s] = Cardinality(Is(s))
    BY DEF CountsMatch
  <2>1. Owed(s) = {} /\ s \in Outcomes /\ count[s] \in Nat
    BY DEF Owed, Uncounted, At, Typed, TypeOK, Outcomes
  <2>2. count[s] + Cardinality(Owed(s)) = Cardinality(Is(s))
    BY <2>1 DEF Even, Untroubled, Tallied
  <2> QED
    BY <2>1, <2>2, FS_EmptySet
<1> QED
  BY <1>1, <1>2, <1>3, PTL DEF Spec
=============================================================================
