------------------------- MODULE LeadDeliveryProofs -------------------------
(***************************************************************************)
(* Type correctness of the delivery outbox and what its rows promise, for  *)
(* any number of integrations, workers, attempts, jobs and faults.         *)
(***************************************************************************)
EXTENDS LeadDelivery, TLAPS

-----------------------------------------------------------------------------
(* Types: attempts stay in their range because a row that may be tried     *)
(* again has some left, and so has every worker that took one.             *)

Left ==
  /\ \A d \in Delivery : row[d].status \in {"NONE"} \cup Unsent => row[d].attempts < MaxAttempts
  /\ \A w \in Workers : work[w].attempts < MaxAttempts

Typed == TypeOK /\ Left

LEMMA DeliveryOf ==
  /\ \A i \in Integrations, k \in Kinds : <<i, k>> \in Delivery /\ Of(<<i, k>>) = i /\ Kind(<<i, k>>) = k
  /\ \A d \in Delivery : Of(d) \in Integrations /\ Kind(d) \in Kinds /\ d = <<Of(d), Kind(d)>>
  BY DEF Delivery, Of, Kind

LEMMA IdleTyped == IdleWork \in Work /\ IdleWork.attempts = 0 /\ IdleWork.pc = "idle" /\ IdleWork.on = {}
  BY LeadAssumption DEF IdleWork, Work, Steps, LeadStatus

LEMMA FuelTyped == ASSUME TypeOK, Trouble \/ UNCHANGED fuel PROVE fuel' \in 0..MaxTrouble
  BY LeadAssumption DEF TypeOK, Trouble

LEMMA QueuedTyped ==
  ASSUME TypeOK, NEW d \in Delivery, jobs' = Queued(d) \/ UNCHANGED jobs
  PROVE  jobs' \in [Delivery -> 0..MaxJobs]
  BY LeadAssumption DEF TypeOK, Queued

LEMMA ExcuseTyped ==
  ASSUME TypeOK, NEW d \in Delivery,
         \/ UNCHANGED excuse \/ excuse' = Reopens(d)
         \/ excuse' = Excused(d, "lost") \/ excuse' = Excused(d, "reopened")
  PROVE  excuse' \in [Delivery -> SUBSET {"lost", "reopened", "redelivered"}]
  BY DEF TypeOK, Reopens, Excused

LEMMA StopTyped ==
  ASSUME Typed, NEW w \in Workers, Stop(w)
  PROVE  work' \in [Workers -> Work] /\ \A v \in Workers : work'[v].attempts < MaxAttempts
  BY IdleTyped, LeadAssumption DEF Typed, TypeOK, Left, Stop

LEMMA GotoTyped ==
  ASSUME Typed, NEW w \in Workers, NEW s \in Steps, Goto(w, s)
  PROVE  work' \in [Workers -> Work] /\ \A v \in Workers : work'[v].attempts < MaxAttempts
  BY DEF Typed, TypeOK, Left, Goto, Work

\* A new date, at most: the rows keep their status and their attempts.
LEMMA DateTyped ==
  ASSUME Typed, NEW d \in Delivery, NEW x \in {"null", "due", "later"},
         row' = [row EXCEPT ![d].next = x]
  PROVE  /\ row' \in [Delivery -> Row]
         /\ \A e \in Delivery : row'[e].status = row[e].status /\ row'[e].attempts = row[e].attempts
  BY DEF Typed, TypeOK, Row

\* A row written whole.
LEMMA RowTyped ==
  ASSUME Typed, NEW d \in Delivery, NEW r \in Row, row' = [row EXCEPT ![d] = r],
         r.status \in {"NONE"} \cup Unsent => r.attempts < MaxAttempts
  PROVE  /\ row' \in [Delivery -> Row]
         /\ \A e \in Delivery : row'[e].status \in {"NONE"} \cup Unsent => row'[e].attempts < MaxAttempts
  BY DEF Typed, TypeOK, Left

LEMMA InitTyped == Init => Typed
<1> SUFFICES ASSUME Init PROVE Typed
  OBVIOUS
<1>1. NoRow \in Row /\ NoRow.attempts < MaxAttempts /\ 0 \in 0..ResumeAfter /\ 0 \in 0..MaxJobs
      /\ 0 \in 0..MaxAttempts /\ MaxTrouble \in 0..MaxTrouble
  BY LeadAssumption DEF NoRow, Row, DeliveryStatus
<1>2. [pc |-> "none", todo |-> {}, active |-> {}, cur |-> {}] \in Fan
  BY DEF Fan
<1>3. IdleCheck \in Check /\ [status |-> "ACTIVE", streak |-> 0] \in [status : IntegrationStatus, streak : 0..ResumeAfter]
  BY <1>1 DEF IdleCheck, Check, IntegrationStatus
<1>4. /\ integ \in [Integrations -> [status : IntegrationStatus, streak : 0..ResumeAfter]]
      /\ check \in [Integrations -> Check] /\ fan \in [Kinds -> Fan]
  BY <1>2, <1>3 DEF Init
<1>5. row \in [Delivery -> Row] /\ jobs \in [Delivery -> 0..MaxJobs] /\ work \in [Workers -> Work]
  BY <1>1, IdleTyped DEF Init
<1>6. /\ got \in [Delivery -> 0..2] /\ tries \in [Delivery -> 0..MaxAttempts]
      /\ excuse \in [Delivery -> SUBSET {"lost", "reopened", "redelivered"}]
      /\ lead \in LeadStatus /\ fuel \in 0..MaxTrouble
  BY <1>1 DEF Init, LeadStatus
<1>7. TypeOK
  BY <1>4, <1>5, <1>6 DEF Init, TypeOK
<1>8. Left
  BY <1>1, IdleTyped, LeadAssumption DEF Init, Left
<1> QED
  BY <1>7, <1>8 DEF Typed

-----------------------------------------------------------------------------
(* Types: fan-out, sweeps, checks and users *)

LEMMA FanTyped ==
  ASSUME Typed, NEW k \in Kinds, FanOut(k)
  PROVE  Typed'
<1> USE DEF Typed
<1>1. CASE FanStart(k)
  <2> DEFINE open == {i \in Integrations : integ[i].status # "DISABLED"}
             x == [pc |-> IF open = {} THEN "end" ELSE "run", todo |-> open,
                   active |-> {i \in open : Active(i)}, cur |-> {}]
  <2>1. x \in Fan
    BY DEF Fan
  <2>2. fan' = [fan EXCEPT ![k] = x]
    BY <1>1 DEF FanStart
  <2> HIDE DEF x
  <2>3. fan' \in [Kinds -> Fan]
    BY <2>1, <2>2 DEF TypeOK
  <2> QED
    BY <2>3, <1>1 DEF FanStart, TypeOK, Left, history
<1>2. ASSUME NEW i \in Integrations, FanUpsert(k, i) \/ FanQueue(k, i) PROVE fan' \in [Kinds -> Fan]
  <2>1. fan[k] \in Fan
    BY DEF TypeOK
  <2>2. Served(k, i) \in Fan
    BY <2>1 DEF Served, Fan
  <2>3. /\ [fan[k] EXCEPT !.pc = "queue", !.cur = {i}] \in Fan
        /\ [fan[k] EXCEPT !.pc = "end", !.todo = {}, !.cur = {}] \in Fan
    BY <2>1 DEF Fan
  <2>4. \E x \in Fan : fan' = [fan EXCEPT ![k] = x]
    BY <1>2, <2>2, <2>3 DEF FanUpsert, FanQueue
  <2> QED
    BY <2>4 DEF TypeOK
<1>3. ASSUME NEW i \in Integrations, FanUpsert(k, i) PROVE Typed'
  <2>1. <<i, k>> \in Delivery
    BY DeliveryOf
  <2> DEFINE r == [status |-> "PENDING", next |-> IF i \in fan[k].active THEN "due" ELSE "null", attempts |-> 0]
  <2>2. r \in Row /\ r.attempts < MaxAttempts
    BY LeadAssumption DEF Row, DeliveryStatus
  <2>3. row' = [row EXCEPT ![<<i, k>>] = r]
    BY <1>3 DEF FanUpsert
  <2> HIDE DEF r
  <2>4. row' \in [Delivery -> Row]
        /\ \A e \in Delivery : row'[e].status \in {"NONE"} \cup Unsent => row'[e].attempts < MaxAttempts
    BY <2>1, <2>2, <2>3, RowTyped
  <2> QED
    BY <1>2, <1>3, <2>4 DEF FanUpsert, TypeOK, Left, history
<1>4. ASSUME NEW i \in Integrations, FanQueue(k, i) PROVE Typed'
  <2>1. jobs' \in [Delivery -> 0..MaxJobs] /\ fuel' \in 0..MaxTrouble
    BY <1>4, DeliveryOf, QueuedTyped, FuelTyped DEF FanQueue
  <2> QED
    BY <1>2, <1>4, <2>1 DEF FanQueue, TypeOK, Left, history
<1> QED
  BY <1>1, <1>3, <1>4 DEF FanOut

LEMMA SweepTyped ==
  ASSUME Typed, Sweep \/ Flush
  PROVE  Typed'
<1> USE DEF Typed
<1>1. CASE SweepRead
  <2>1. \A d \in Delivery : Queued(d)[d] \in 0..MaxJobs
    BY LeadAssumption DEF TypeOK, Queued
  <2>2. jobs' \in [Delivery -> 0..MaxJobs]
    BY <1>1, <2>1 DEF SweepRead, TypeOK
  <2> QED
    BY <1>1, <2>2 DEF SweepRead, TypeOK, Left, history
<1>2. ASSUME NEW d \in Delivery, SweepOrphan(d) PROVE Typed'
  <2>1. /\ row' \in [Delivery -> Row]
        /\ \A e \in Delivery : row'[e].status = row[e].status /\ row'[e].attempts = row[e].attempts
    BY <1>2, DateTyped DEF SweepOrphan
  <2>2. jobs' \in [Delivery -> 0..MaxJobs] /\ excuse' \in [Delivery -> SUBSET {"lost", "reopened", "redelivered"}]
    BY <1>2, QueuedTyped, ExcuseTyped DEF SweepOrphan
  <2> QED
    BY <1>2, <2>1, <2>2 DEF SweepOrphan, TypeOK, Left
<1>3. CASE Flush
  <2>1. jobs' \in [Delivery -> 0..MaxJobs] /\ fuel' \in 0..MaxTrouble
    BY <1>3, FuelTyped, LeadAssumption DEF Flush
  <2> QED
    BY <1>3, <2>1 DEF Flush, TypeOK, Left, Outside, history
<1> QED
  BY <1>1, <1>2, <1>3 DEF Sweep

LEMMA CheckTyped ==
  ASSUME Typed, NEW i \in Integrations, CheckStep(i) \/ \E b \in BOOLEAN : CheckStart(i, b)
  PROVE  Typed'
<1> USE DEF Typed
<1>1. check[i] \in Check /\ IdleCheck \in Check /\ integ[i] \in [status : IntegrationStatus, streak : 0..ResumeAfter]
  BY LeadAssumption DEF TypeOK, IdleCheck, Check, IntegrationStatus
<1>2. CheckEnd(i) => check' \in [Integrations -> Check]
  BY <1>1 DEF CheckEnd, TypeOK
<1>3. Streak(i) \in 0..ResumeAfter
  BY <1>1, LeadAssumption DEF Streak
<1>4. ASSUME NEW b \in BOOLEAN, CheckStart(i, b) PROVE Typed'
  <2> DEFINE x == [pc |-> "call", status |-> integ[i].status, streak |-> integ[i].streak, manual |-> b, todo |-> {}]
  <2>1. x \in Check
    BY <1>1 DEF Check
  <2>2. check' = [check EXCEPT ![i] = x]
    BY <1>4 DEF CheckStart
  <2> HIDE DEF x
  <2>3. check' \in [Integrations -> Check]
    BY <2>1, <2>2 DEF TypeOK
  <2>4. fuel' \in 0..MaxTrouble
    BY <1>4, FuelTyped DEF CheckStart
  <2> QED
    BY <1>4, <2>3, <2>4 DEF CheckStart, TypeOK, Left, history
<1>5. CASE CheckPass(i)
  <2>1. integ' \in [Integrations -> [status : IntegrationStatus, streak : 0..ResumeAfter]]
    <3>1. CASE integ' = [integ EXCEPT ![i].streak = check[i].streak + 1] /\ check[i].streak + 1 < ResumeAfter
      <4>1. check[i].streak + 1 \in 0..ResumeAfter
        BY <1>1, <3>1, LeadAssumption DEF Check
      <4> QED
        BY <1>1, <3>1, <4>1 DEF TypeOK
    <3>2. CASE integ' = [integ EXCEPT ![i] = [streak |-> Streak(i),
                           status |-> IF check[i].status = "DISABLED" THEN "DISABLED" ELSE "ACTIVE"]]
      BY <1>3, <3>2 DEF TypeOK, IntegrationStatus
    <3> QED
      BY <1>5, <3>1, <3>2 DEF CheckPass
  <2>2. check' \in [Integrations -> Check]
    <3>1. CASE check' = [check EXCEPT ![i].pc = "held"]
      BY <1>1, <3>1 DEF TypeOK, Check
    <3> QED
      BY <1>2, <1>5, <3>1 DEF CheckPass
  <2> QED
    BY <1>5, <2>1, <2>2 DEF CheckPass, TypeOK, Left, history
<1>6. CASE CheckRefused(i)
  <2>1. integ' \in [Integrations -> [status : IntegrationStatus, streak : 0..ResumeAfter]]
    <3>1. check[i].status \in IntegrationStatus /\ 0 \in 0..ResumeAfter
      BY <1>1, LeadAssumption DEF Check
    <3>2. \E s \in IntegrationStatus, n \in 0..ResumeAfter : integ' = [integ EXCEPT ![i] = [status |-> s, streak |-> n]]
      BY <1>3, <1>6, <3>1 DEF CheckRefused, IntegrationStatus
    <3> QED
      BY <3>2 DEF TypeOK
  <2>2. fuel' \in 0..MaxTrouble
    BY <1>6, FuelTyped DEF CheckRefused
  <2> QED
    BY <1>2, <1>6, <2>1, <2>2 DEF CheckRefused, TypeOK, Left, history
<1>7. CASE CheckHeld(i)
  <2> DEFINE waiting == {d \in Delivery : Of(d) = i /\ row[d].status \in Unsent}
  <2>1. waiting \in SUBSET Delivery
    OBVIOUS
  <2>2. CheckEnd(i) \/ check' = [check EXCEPT ![i].pc = "resume", ![i].todo = waiting]
    BY <1>7 DEF CheckHeld
  <2> HIDE DEF waiting
  <2>3. [check[i] EXCEPT !.pc = "resume", !.todo = waiting] \in Check
    BY <1>1, <2>1 DEF Check
  <2>4. check' \in [Integrations -> Check]
    BY <1>1, <1>2, <2>2, <2>3 DEF TypeOK
  <2> QED
    BY <1>7, <2>4 DEF CheckHeld, TypeOK, Left, history
<1>8. ASSUME NEW d \in Delivery, Resume(i, d) PROVE Typed'
  <2>1. /\ row' \in [Delivery -> Row]
        /\ \A e \in Delivery : row'[e].status = row[e].status /\ row'[e].attempts = row[e].attempts
    BY <1>8, DateTyped DEF Resume
  <2>2. jobs' \in [Delivery -> 0..MaxJobs] /\ excuse' \in [Delivery -> SUBSET {"lost", "reopened", "redelivered"}]
        /\ fuel' \in 0..MaxTrouble
    BY <1>8, QueuedTyped, ExcuseTyped, FuelTyped DEF Resume
  <2>3. CheckEnd(i) \/ check' = [check EXCEPT ![i].todo = check[i].todo \ {d}]
    BY <1>8 DEF Resume
  <2>4. check' \in [Integrations -> Check]
    BY <1>1, <1>2, <2>3 DEF TypeOK, Check
  <2> QED
    BY <1>8, <2>1, <2>2, <2>4 DEF Resume, TypeOK, Left
<1> QED
  BY <1>4, <1>5, <1>6, <1>7, <1>8 DEF CheckStep

LEMMA UserTyped ==
  ASSUME Typed,
         \/ \E i \in Integrations, b \in BOOLEAN : SetDisabled(i, b)
         \/ \E k \in Kinds : RedeliverRead(k)
         \/ \E d \in Delivery : Redeliver(d) \/ Elapse(d)
  PROVE  Typed'
<1> USE DEF Typed
<1>1. ASSUME NEW i \in Integrations, NEW b \in BOOLEAN, SetDisabled(i, b) PROVE Typed'
  <2>1. integ' \in [Integrations -> [status : IntegrationStatus, streak : 0..ResumeAfter]]
    BY <1>1 DEF SetDisabled, TypeOK, IntegrationStatus
  <2> QED
    BY <1>1, <2>1, FuelTyped DEF SetDisabled, TypeOK, Left, Outside, history
<1>2. ASSUME NEW k \in Kinds, RedeliverRead(k) PROVE Typed'
  BY <1>2, FuelTyped DEF RedeliverRead, TypeOK, Left, history
<1>3. ASSUME NEW d \in Delivery, Redeliver(d) PROVE Typed'
  <2> DEFINE r == [status |-> "PENDING", next |-> "due", attempts |-> 0]
  <2>1. r \in Row /\ r.attempts < MaxAttempts
    BY LeadAssumption DEF Row, DeliveryStatus
  <2>2. row' = [row EXCEPT ![d] = r]
    BY <1>3 DEF Redeliver
  <2> HIDE DEF r
  <2>3. row' \in [Delivery -> Row]
        /\ \A e \in Delivery : row'[e].status \in {"NONE"} \cup Unsent => row'[e].attempts < MaxAttempts
    BY <2>1, <2>2, RowTyped
  <2>4. jobs' \in [Delivery -> 0..MaxJobs] /\ excuse' \in [Delivery -> SUBSET {"lost", "reopened", "redelivered"}]
    BY <1>3, QueuedTyped DEF Redeliver, TypeOK
  <2> QED
    BY <1>3, <2>3, <2>4 DEF Redeliver, TypeOK, Left
<1>4. ASSUME NEW d \in Delivery, Elapse(d) PROVE Typed'
  <2>1. /\ row' \in [Delivery -> Row]
        /\ \A e \in Delivery : row'[e].status = row[e].status /\ row'[e].attempts = row[e].attempts
    BY <1>4, DateTyped DEF Elapse
  <2>2. excuse' \in [Delivery -> SUBSET {"lost", "reopened", "redelivered"}] /\ fuel' \in 0..MaxTrouble
    BY <1>4, ExcuseTyped, FuelTyped DEF Elapse
  <2> QED
    BY <1>4, <2>1, <2>2 DEF Elapse, TypeOK, Left, Outside
<1> QED
  BY <1>1, <1>2, <1>3, <1>4

-----------------------------------------------------------------------------
(* Types: the steps of processDelivery *)

\* What a step of a worker that only moves it leaves alone.
LEMMA MoveTyped ==
  ASSUME Typed, work' \in [Workers -> Work], \A v \in Workers : work'[v].attempts < MaxAttempts,
         UNCHANGED <<integ, row, lead, jobs, Outside, history, fuel>>
  PROVE  Typed'
  BY DEF Typed, TypeOK, Left, Outside, history

\* A worker goes on with something it found out.
LEMMA NoteTyped ==
  ASSUME Typed, NEW w \in Workers, NEW s \in Steps, NEW b \in BOOLEAN, NEW l \in LeadStatus,
         \/ work' = [work EXCEPT ![w].pc = s, ![w].own = b]
         \/ work' = [work EXCEPT ![w].pc = s, ![w].sent = b]
         \/ work' = [work EXCEPT ![w].pc = s, ![w].lead = l]
  PROVE  work' \in [Workers -> Work] /\ \A v \in Workers : work'[v].attempts < MaxAttempts
<1> USE DEF Typed
<1>1. work[w] \in Work /\ work[w].attempts < MaxAttempts
  BY DEF TypeOK, Left
<1>2. \E x \in Work : x.attempts < MaxAttempts /\ work' = [work EXCEPT ![w] = x]
  <2>1. /\ [work[w] EXCEPT !.pc = s, !.own = b] \in Work
        /\ [work[w] EXCEPT !.pc = s, !.sent = b] \in Work
        /\ [work[w] EXCEPT !.pc = s, !.lead = l] \in Work
    BY <1>1 DEF Work
  <2>2. /\ [work[w] EXCEPT !.pc = s, !.own = b].attempts = work[w].attempts
        /\ [work[w] EXCEPT !.pc = s, !.sent = b].attempts = work[w].attempts
        /\ [work[w] EXCEPT !.pc = s, !.lead = l].attempts = work[w].attempts
    BY <1>1 DEF Work
  <2>3. \/ work' = [work EXCEPT ![w] = [work[w] EXCEPT !.pc = s, !.own = b]]
        \/ work' = [work EXCEPT ![w] = [work[w] EXCEPT !.pc = s, !.sent = b]]
        \/ work' = [work EXCEPT ![w] = [work[w] EXCEPT !.pc = s, !.lead = l]]
    BY DEF TypeOK
  <2> QED
    BY <1>1, <2>1, <2>2, <2>3
<1> QED
  BY <1>2 DEF TypeOK, Left

LEMMA LeadOfTyped == LeadOf(row) \in LeadStatus
  BY DEF LeadOf, LeadStatus

LEMMA TakeTyped ==
  ASSUME Typed, NEW w \in Workers, NEW d \in Delivery, Take(w, d)
  PROVE  Typed'
<1> USE DEF Typed
<1> DEFINE x == [IdleWork EXCEPT !.pc = IF Active(Of(d)) THEN "claim" ELSE "hold", !.on = {d},
                                !.attempts = row[d].attempts]
<1>1. row[d].status \in Unsent => x \in Work /\ x.attempts < MaxAttempts
  BY LeadAssumption DEF TypeOK, Left, IdleWork, Work, Steps, LeadStatus, Row
<1>2. work' = work \/ (row[d].status \in Unsent /\ work' = [work EXCEPT ![w] = x])
  BY DEF Take
<1> HIDE DEF x
<1>3. work' \in [Workers -> Work] /\ \A v \in Workers : work'[v].attempts < MaxAttempts
  BY <1>1, <1>2 DEF TypeOK, Left
<1>4. jobs' \in [Delivery -> 0..MaxJobs]
  BY LeadAssumption DEF Take, TypeOK
<1> QED
  BY <1>3, <1>4 DEF Take, TypeOK, Left, Outside, history

LEMMA ClaimTyped ==
  ASSUME Typed, NEW w \in Workers, NEW d \in Delivery,
         \/ Hold(w, d) \/ Claim(w, d) \/ Original(w, d)
  PROVE  Typed'
<1> USE DEF Typed
<1>1. CASE Hold(w, d)
  <2>1. /\ row' \in [Delivery -> Row]
        /\ \A e \in Delivery : row'[e].status = row[e].status /\ row'[e].attempts = row[e].attempts
    BY <1>1, DateTyped DEF Hold
  <2>2. work' \in [Workers -> Work] /\ \A v \in Workers : work'[v].attempts < MaxAttempts
    BY <1>1, StopTyped DEF Hold
  <2>3. excuse' \in [Delivery -> SUBSET {"lost", "reopened", "redelivered"}]
    BY <1>1, ExcuseTyped DEF Hold
  <2> QED
    BY <1>1, <2>1, <2>2, <2>3 DEF Hold, TypeOK, Left, Outside
<1>2. CASE Claim(w, d)
  <2>1. /\ row' \in [Delivery -> Row]
        /\ \A e \in Delivery : row'[e].status = row[e].status /\ row'[e].attempts = row[e].attempts
    BY <1>2, DateTyped DEF Claim, TypeOK
  <2>2. work' \in [Workers -> Work] /\ \A v \in Workers : work'[v].attempts < MaxAttempts
    BY <1>2, StopTyped, GotoTyped DEF Claim, Steps
  <2> QED
    BY <1>2, <2>1, <2>2 DEF Claim, TypeOK, Left, Outside, history
<1>3. CASE Original(w, d)
  <2>1. ASSUME NEW b \in BOOLEAN, work' = [work EXCEPT ![w].pc = "call", ![w].own = b]
        PROVE  work' \in [Workers -> Work] /\ \A v \in Workers : work'[v].attempts < MaxAttempts
    BY <2>1, NoteTyped DEF Steps, LeadStatus
  <2>2. work' \in [Workers -> Work] /\ \A v \in Workers : work'[v].attempts < MaxAttempts
    BY <1>3, <2>1, GotoTyped DEF Original, Steps
  <2> QED
    BY <1>3, <2>2, MoveTyped DEF Original
<1> QED
  BY <1>1, <1>2, <1>3

LEMMA CallTyped ==
  ASSUME Typed, NEW w \in Workers, NEW d \in Delivery, Call(w, d)
  PROVE  Typed'
<1> USE DEF Typed
<1>1. work' \in [Workers -> Work] /\ \A v \in Workers : work'[v].attempts < MaxAttempts
  BY GotoTyped DEF Call, Steps
<1>2. got' \in [Delivery -> 0..2] /\ own' \in SUBSET Delivery
  <2>1. CASE UNCHANGED <<got, own>>
    BY <2>1 DEF TypeOK
  <2>2. CASE /\ got' = [got EXCEPT ![d] = IF @ < 2 THEN @ + 1 ELSE @]
             /\ own' = IF work[w].own THEN own \cup {d} ELSE own
    BY <2>2 DEF TypeOK
  <2> QED
    BY <2>1, <2>2 DEF Call
<1>3. excuse' \in [Delivery -> SUBSET {"lost", "reopened", "redelivered"}] /\ fuel' \in 0..MaxTrouble
  BY ExcuseTyped, FuelTyped DEF Call
<1> QED
  BY <1>1, <1>2, <1>3 DEF Call, TypeOK, Left, Outside

LEMMA RecordTyped ==
  ASSUME Typed, NEW w \in Workers, NEW d \in Delivery,
         \/ Record(w, d) \/ RefreshRead(w, d) \/ RefreshWrite(w) \/ StoreError(w, d)
  PROVE  Typed'
<1> USE DEF Typed
<1>1. CASE Record(w, d)
  <2> DEFINE r == [status |-> "SENT", next |-> "null",
                   attempts |-> IF row[d].attempts < MaxAttempts THEN row[d].attempts + 1 ELSE MaxAttempts]
  <2>1. r \in Row /\ r.status \notin {"NONE"} \cup Unsent
    BY LeadAssumption DEF TypeOK, Row, DeliveryStatus, Unsent
  <2>2. row' = [row EXCEPT ![d] = r]
    BY <1>1 DEF Record, TypeOK
  <2> HIDE DEF r
  <2>3. row' \in [Delivery -> Row]
        /\ \A e \in Delivery : row'[e].status \in {"NONE"} \cup Unsent => row'[e].attempts < MaxAttempts
    BY <2>1, <2>2, RowTyped
  <2>4. work' \in [Workers -> Work] /\ \A v \in Workers : work'[v].attempts < MaxAttempts
    BY <1>1, NoteTyped DEF Record, Steps, LeadStatus
  <2> QED
    BY <1>1, <2>3, <2>4 DEF Record, TypeOK, Left, Outside, history
<1>2. CASE RefreshRead(w, d)
  <2>1. ASSUME work' = [work EXCEPT ![w].pc = "write", ![w].lead = LeadOf(row)]
        PROVE  work' \in [Workers -> Work] /\ \A v \in Workers : work'[v].attempts < MaxAttempts
    BY <2>1, LeadOfTyped, NoteTyped DEF Steps
  <2>2. work' \in [Workers -> Work] /\ \A v \in Workers : work'[v].attempts < MaxAttempts
    BY <1>2, <2>1, StopTyped DEF RefreshRead
  <2> QED
    BY <1>2, <2>2, MoveTyped DEF RefreshRead
<1>3. CASE RefreshWrite(w)
  <2>1. work' \in [Workers -> Work] /\ \A v \in Workers : work'[v].attempts < MaxAttempts
    BY <1>3, StopTyped DEF RefreshWrite
  <2>2. lead' \in LeadStatus
    BY <1>3 DEF RefreshWrite, TypeOK, Work
  <2> QED
    BY <1>3, <2>1, <2>2 DEF RefreshWrite, TypeOK, Left, Outside, history
<1>4. CASE StoreError(w, d)
  <2>1. work' \in [Workers -> Work] /\ \A v \in Workers : work'[v].attempts < MaxAttempts
    BY <1>4, GotoTyped DEF StoreError, Steps
  <2>2. excuse' \in [Delivery -> SUBSET {"lost", "reopened", "redelivered"}] /\ fuel' \in 0..MaxTrouble
    BY <1>4, ExcuseTyped, FuelTyped DEF StoreError
  <2> QED
    BY <1>4, <2>1, <2>2 DEF StoreError, TypeOK, Left, Outside
<1> QED
  BY <1>1, <1>2, <1>3, <1>4

LEMMA FailTyped ==
  ASSUME Typed, NEW w \in Workers, NEW d \in Delivery,
         \/ Auth(w, d) \/ Broken(w, d) \/ Fail(w, d) \/ Queue(w, d) \/ Crash(w, d)
  PROVE  Typed'
<1> USE DEF Typed
<1>1. CASE Auth(w, d)
  <2>1. /\ row' \in [Delivery -> Row]
        /\ \A e \in Delivery : row'[e].status = row[e].status /\ row'[e].attempts = row[e].attempts
    BY <1>1, DateTyped DEF Auth
  <2>2. work' \in [Workers -> Work] /\ \A v \in Workers : work'[v].attempts < MaxAttempts
    BY <1>1, GotoTyped DEF Auth, Steps
  <2>3. excuse' \in [Delivery -> SUBSET {"lost", "reopened", "redelivered"}]
    BY <1>1, ExcuseTyped DEF Auth
  <2> QED
    BY <1>1, <2>1, <2>2, <2>3 DEF Auth, TypeOK, Left, Outside
<1>2. CASE Broken(w, d)
  <2>1. work' \in [Workers -> Work] /\ \A v \in Workers : work'[v].attempts < MaxAttempts
    BY <1>2, StopTyped DEF Broken
  <2>2. integ' \in [Integrations -> [status : IntegrationStatus, streak : 0..ResumeAfter]]
    BY <1>2, DeliveryOf, LeadAssumption DEF Broken, TypeOK, IntegrationStatus
  <2> QED
    BY <1>2, <2>1, <2>2 DEF Broken, TypeOK, Left, Outside, history
<1>3. CASE Fail(w, d)
  <2> DEFINE n == work[w].attempts + 1
             r == [status |-> IF OutOfAttempts(n) THEN "DEAD" ELSE "FAILED", attempts |-> n,
                   next |-> IF OutOfAttempts(n) THEN "null" ELSE "later"]
  <2>1. n \in 0..MaxAttempts
    BY LeadAssumption DEF TypeOK, Left, Work
  <2>2. r \in Row /\ (r.status \in {"NONE"} \cup Unsent => r.attempts < MaxAttempts)
    BY <2>1, LeadAssumption DEF Row, DeliveryStatus, Unsent, OutOfAttempts
  <2>3. row' = [row EXCEPT ![d] = r]
    BY <1>3 DEF Fail
  <2> HIDE DEF r
  <2>4. row' \in [Delivery -> Row]
        /\ \A e \in Delivery : row'[e].status \in {"NONE"} \cup Unsent => row'[e].attempts < MaxAttempts
    BY <2>2, <2>3, RowTyped
  <2>5. work' \in [Workers -> Work] /\ \A v \in Workers : work'[v].attempts < MaxAttempts
    BY <1>3, NoteTyped DEF Fail, Steps, LeadStatus
  <2>6. tries' \in [Delivery -> 0..MaxAttempts]
    BY <1>3, LeadAssumption DEF Fail, TypeOK
  <2> QED
    BY <1>3, <2>4, <2>5, <2>6 DEF Fail, TypeOK, Left, Outside
<1>4. CASE Queue(w, d) \/ Crash(w, d)
  <2>1. work' \in [Workers -> Work] /\ \A v \in Workers : work'[v].attempts < MaxAttempts
    BY <1>4, StopTyped DEF Queue, Crash
  <2>2. jobs' \in [Delivery -> 0..MaxJobs] /\ fuel' \in 0..MaxTrouble
        /\ excuse' \in [Delivery -> SUBSET {"lost", "reopened", "redelivered"}]
    BY <1>4, QueuedTyped, FuelTyped, ExcuseTyped DEF Queue, Crash, history
  <2> QED
    BY <1>4, <2>1, <2>2 DEF Queue, Crash, TypeOK, Left, Outside, history
<1> QED
  BY <1>1, <1>2, <1>3, <1>4

LEMMA NextTyped == Typed /\ [Next]_vars => Typed'
<1> SUFFICES ASSUME Typed, [Next]_vars PROVE Typed'
  OBVIOUS
<1>1. ASSUME NEW w \in Workers, NEW d \in Delivery,
             Take(w, d) \/ Step(w, d) \/ StoreError(w, d) \/ Crash(w, d)
      PROVE  Typed'
  BY <1>1, TakeTyped, ClaimTyped, CallTyped, RecordTyped, FailTyped DEF Step
<1>2. CASE UNCHANGED vars
  BY <1>2 DEF Typed, TypeOK, Left, vars
<1> QED
  BY <1>1, <1>2, FanTyped, SweepTyped, CheckTyped, UserTyped DEF Next

LEMMA TypedAlways == Spec => []Typed
  BY InitTyped, NextTyped, PTL DEF Spec

\* Every row, job, worker and check of the outbox is well typed, for all constants; in
\* particular no row is tried more than MaxAttempts times.
THEOREM LeadTypeCorrect == Spec => []TypeOK
<1>1. Typed => TypeOK
  BY DEF Typed
<1> QED
  BY <1>1, TypedAlways, PTL

-----------------------------------------------------------------------------
(* What the rows say is true: SENT was carried out, DEAD was earned, and   *)
(* the lead's status rests on a provider that has it.                      *)

Somewhere == \E d \in Delivery : Kind(d) = "new" /\ got[d] > 0

Honest(d) ==
  /\ row[d].status \in Unsent \cup {"DEAD"} => row[d].attempts <= tries[d]
  /\ row[d].status = "DEAD" => tries[d] = MaxAttempts
  /\ row[d].status = "SENT" => got[d] > 0
  /\ \A w \in Workers : On(w, d) =>
       /\ row[d].status # "NONE" /\ work[w].attempts <= tries[d]
       /\ At(w, "record") => got[d] > 0

Told ==
  /\ lead \in {"SENT", "PARTIAL"} => Somewhere
  /\ \A w \in Workers : At(w, "write") /\ work[w].lead \in {"SENT", "PARTIAL"} => Somewhere

Truth == (\A d \in Delivery : Honest(d)) /\ Told

\* A step that moves the workers on, without a claim to record or to write.
Kept(v) ==
  /\ \/ work'[v].on = {}
     \/ work'[v].on = work[v].on /\ work'[v].attempts = work[v].attempts
  /\ work'[v].pc = "record" => work[v].pc = "record"
  /\ work'[v].pc = "write" => work[v].pc = "write" /\ work'[v].lead = work[v].lead

SameRows == \A e \in Delivery : row'[e].status = row[e].status /\ row'[e].attempts = row[e].attempts

LEMMA QuietTruth ==
  ASSUME Typed, Truth, SameRows, \A v \in Workers : Kept(v), UNCHANGED <<lead, got, tries>>
  PROVE  Truth'
<1>1. ASSUME NEW d \in Delivery PROVE Honest(d)'
  <2>1. Honest(d)
    BY DEF Truth
  <2>2. \A w \in Workers : On(w, d)' => On(w, d) /\ work'[w].attempts = work[w].attempts
    BY DEF Kept, On
  <2>3. \A w \in Workers : At(w, "record")' => At(w, "record")
    BY DEF Kept, At
  <2> QED
    BY <2>1, <2>2, <2>3 DEF Honest, SameRows
<1>2. Told'
  BY DEF Truth, Told, Kept, At, Somewhere
<1> QED
  BY <1>1, <1>2 DEF Truth

\* A row is started afresh.
LEMMA FreshTruth ==
  ASSUME Typed, Truth, NEW d \in Delivery, NEW r \in Row, r.status = "PENDING", r.attempts = 0,
         row' = [row EXCEPT ![d] = r], UNCHANGED <<work, lead, got, tries>>
  PROVE  Truth'
<1>1. ASSUME NEW e \in Delivery PROVE Honest(e)'
  <2>1. Honest(e) /\ tries[e] \in Nat
    BY DEF Truth, Typed, TypeOK
  <2>2. CASE e = d
    BY <2>1, <2>2, LeadAssumption DEF Honest, On, At, Typed, TypeOK
  <2>3. CASE e # d
    BY <2>1, <2>3 DEF Honest, On, At, Typed, TypeOK
  <2> QED
    BY <2>2, <2>3
<1>2. Told'
  BY DEF Truth, Told, At, Somewhere
<1> QED
  BY <1>1, <1>2 DEF Truth

\* How the helpers move a worker.
LEMMA StopKeeps ==
  ASSUME Typed, NEW w \in Workers, Stop(w)
  PROVE  \A v \in Workers : Kept(v)
  BY IdleTyped DEF Stop, Kept, Typed, TypeOK

LEMMA GotoKeeps ==
  ASSUME Typed, NEW w \in Workers, NEW s \in Steps \ {"record", "write"}, Goto(w, s)
  PROVE  \A v \in Workers : Kept(v)
  BY DEF Goto, Kept, Typed, TypeOK, Work

LEMMA DateSame ==
  ASSUME Typed, NEW d \in Delivery, NEW x \in {"null", "due", "later"},
         row' = [row EXCEPT ![d].next = x]
  PROVE  SameRows
  BY DateTyped DEF SameRows

LEMMA OtherTruth ==
  ASSUME Typed, Truth,
         \/ Sweep \/ Flush \/ UNCHANGED vars
         \/ \E k \in Kinds : FanOut(k) \/ RedeliverRead(k)
         \/ \E d \in Delivery : Elapse(d) \/ Redeliver(d)
         \/ \E i \in Integrations : CheckStep(i) \/ \E b \in BOOLEAN : CheckStart(i, b) \/ SetDisabled(i, b)
  PROVE  Truth'
<1>1. ASSUME UNCHANGED work PROVE \A v \in Workers : Kept(v)
  BY <1>1 DEF Kept
<1>2. ASSUME UNCHANGED <<row, work, lead, got, tries>> PROVE Truth'
  BY <1>1, <1>2, QuietTruth DEF SameRows
<1>3. ASSUME NEW d \in Delivery, SweepOrphan(d) \/ Elapse(d) \/ \E i \in Integrations : Resume(i, d) PROVE Truth'
  <2>1. UNCHANGED <<work, lead, got, tries>> /\ SameRows
    BY <1>3, DateSame DEF SweepOrphan, Elapse, Resume
  <2> QED
    BY <1>1, <2>1, QuietTruth
<1>4. ASSUME NEW d \in Delivery, Redeliver(d) PROVE Truth'
  <2> DEFINE r == [status |-> "PENDING", next |-> "due", attempts |-> 0]
  <2>1. r \in Row /\ r.status = "PENDING" /\ r.attempts = 0
    BY LeadAssumption DEF Row, DeliveryStatus
  <2>2. row' = [row EXCEPT ![d] = r] /\ UNCHANGED <<work, lead, got, tries>>
    BY <1>4 DEF Redeliver
  <2> HIDE DEF r
  <2> QED
    BY <2>1, <2>2, FreshTruth
<1>5. ASSUME NEW k \in Kinds, NEW i \in Integrations, FanUpsert(k, i) PROVE Truth'
  <2> DEFINE r == [status |-> "PENDING", next |-> IF i \in fan[k].active THEN "due" ELSE "null", attempts |-> 0]
  <2>1. r \in Row /\ r.status = "PENDING" /\ r.attempts = 0
    BY LeadAssumption DEF Row, DeliveryStatus
  <2>2. row' = [row EXCEPT ![<<i, k>>] = r] /\ UNCHANGED <<work, lead, got, tries>>
    BY <1>5 DEF FanUpsert, history
  <2> HIDE DEF r
  <2> QED
    BY <2>1, <2>2, FreshTruth, DeliveryOf
<1>6. ASSUME NEW k \in Kinds, FanStart(k) \/ RedeliverRead(k) \/ \E i \in Integrations : FanQueue(k, i) PROVE Truth'
  BY <1>2, <1>6 DEF FanStart, RedeliverRead, FanQueue, history
<1>7. ASSUME NEW i \in Integrations, CheckPass(i) \/ CheckRefused(i) \/ CheckHeld(i)
                \/ \E b \in BOOLEAN : CheckStart(i, b) \/ SetDisabled(i, b)
      PROVE  Truth'
  BY <1>2, <1>7 DEF CheckPass, CheckRefused, CheckHeld, CheckStart, SetDisabled, history
<1>8. CASE SweepRead \/ Flush \/ UNCHANGED vars
  BY <1>2, <1>8 DEF SweepRead, Flush, vars, history
<1> QED
  BY <1>3, <1>4, <1>5, <1>6, <1>7, <1>8 DEF Sweep, FanOut, CheckStep

\* The steps of a worker that write no outcome.
LEMMA MoveTruth ==
  ASSUME Typed, Truth, NEW w \in Workers, NEW d \in Delivery,
         \/ Hold(w, d) \/ Claim(w, d) \/ Original(w, d) \/ StoreError(w, d)
         \/ Auth(w, d) \/ Broken(w, d) \/ Queue(w, d) \/ Crash(w, d)
  PROVE  Truth'
<1>1. UNCHANGED <<lead, got, tries>>
  BY DEF Hold, Claim, Original, StoreError, Auth, Broken, Queue, Crash, history
<1>2. SameRows
  <2>1. row' = [row EXCEPT ![d].next = "null"] \/ row' = [row EXCEPT ![d].next = "later"] \/ UNCHANGED row
    BY DEF Hold, Claim, Original, StoreError, Auth, Broken, Queue, Crash
  <2> QED
    BY <2>1, DateSame DEF SameRows
<1>3. \A v \in Workers : Kept(v)
  <2>1. ASSUME NEW b \in BOOLEAN, work' = [work EXCEPT ![w].pc = "call", ![w].own = b] PROVE \A v \in Workers : Kept(v)
    BY <2>1 DEF Kept, Typed, TypeOK, Work
  <2> QED
    BY <2>1, StopKeeps, GotoKeeps DEF Hold, Claim, Original, StoreError, Auth, Broken, Queue, Crash, Steps
<1> QED
  BY <1>1, <1>2, <1>3, QuietTruth

LEMMA TakeTruth ==
  ASSUME Typed, Truth, NEW w \in Workers, NEW d \in Delivery, Take(w, d)
  PROVE  Truth'
<1>1. UNCHANGED <<row, lead, got, tries>>
  BY DEF Take, history
<1>2. \/ UNCHANGED work
      \/ /\ row[d].status \in Unsent
         /\ \A v \in Workers \ {w} : work'[v] = work[v]
         /\ work'[w].on = {d} /\ work'[w].attempts = row[d].attempts /\ work'[w].pc \in {"claim", "hold"}
  BY DEF Take, Typed, TypeOK, IdleWork
<1>3. ASSUME NEW e \in Delivery PROVE Honest(e)'
  <2>1. Honest(e) /\ (e = d => Honest(d))
    BY DEF Truth
  <2> QED
    BY <1>1, <1>2, <2>1 DEF Honest, On, At, Unsent
<1>4. Told'
  BY <1>1, <1>2 DEF Truth, Told, At, Somewhere
<1> QED
  BY <1>3, <1>4 DEF Truth

LEMMA CallTruth ==
  ASSUME Typed, Truth, NEW w \in Workers, NEW d \in Delivery, Call(w, d)
  PROVE  Truth'
<1>1. UNCHANGED <<row, lead, tries>> /\ SameRows
  BY DEF Call, SameRows
<1>2. CASE UNCHANGED got /\ (Goto(w, "fail") \/ Goto(w, "auth"))
  BY <1>1, <1>2, GotoKeeps, QuietTruth DEF Steps
<1>3. CASE /\ got' = [got EXCEPT ![d] = IF @ < 2 THEN @ + 1 ELSE @]
           /\ Goto(w, "record") \/ Goto(w, "fail")
  <2>1. \A e \in Delivery : got'[e] >= got[e] /\ got[e] \in Nat
    BY <1>3 DEF Typed, TypeOK
  <2>2. got'[d] > 0 /\ got' \in [Delivery -> 0..2]
    BY <1>3 DEF Typed, TypeOK
  <2>3. /\ \A v \in Workers \ {w} : work'[v] = work[v]
        /\ work'[w].on = {d} /\ work'[w].attempts = work[w].attempts /\ work'[w].pc \in {"record", "fail"}
        /\ On(w, d)
    BY <1>3 DEF Call, Goto, On, Typed, TypeOK, Work
  <2>4. ASSUME NEW e \in Delivery PROVE Honest(e)'
    <3>1. Honest(e) /\ got'[e] >= got[e] /\ got[e] \in Nat /\ got'[e] \in Nat
      BY <2>1, <2>2 DEF Truth
    <3>2. \A v \in Workers : On(v, e)' => On(v, e) /\ work'[v].attempts = work[v].attempts
      BY <2>3 DEF On
    <3>3. \A v \in Workers : On(v, e)' /\ At(v, "record")' => got'[e] > 0
      BY <2>2, <2>3, <3>1 DEF Honest, On, At
    <3> QED
      BY <1>1, <3>1, <3>2, <3>3 DEF Honest
  <2>5. Somewhere => Somewhere'
    BY <2>1, <2>2 DEF Somewhere
  <2>6. Told'
    BY <1>1, <2>3, <2>5 DEF Truth, Told, At
  <2> QED
    BY <2>4, <2>6 DEF Truth
<1> QED
  BY <1>2, <1>3 DEF Call

LEMMA RecordTruth ==
  ASSUME Typed, Truth, NEW w \in Workers, NEW d \in Delivery, Record(w, d)
  PROVE  Truth'
<1>1. UNCHANGED <<lead, got, tries>>
  BY DEF Record, history
<1>2. row'[d].status = "SENT" /\ \A e \in Delivery \ {d} : row'[e] = row[e]
  BY DEF Record, Typed, TypeOK
<1>3. \A v \in Workers : Kept(v)
  BY DEF Record, Kept, Typed, TypeOK, Work
<1>4. ASSUME NEW e \in Delivery PROVE Honest(e)'
  <2>1. Honest(e) /\ (e = d => got[d] > 0)
    BY DEF Truth, Honest, Record
  <2>2. \A v \in Workers : On(v, e)' => On(v, e) /\ work'[v].attempts = work[v].attempts
    BY <1>3 DEF Kept, On
  <2>3. \A v \in Workers : At(v, "record")' => At(v, "record")
    BY <1>3 DEF Kept, At
  <2> QED
    BY <1>1, <1>2, <2>1, <2>2, <2>3 DEF Honest, Unsent
<1>5. Told'
  BY <1>1, <1>3 DEF Truth, Told, Kept, At, Somewhere
<1> QED
  BY <1>4, <1>5 DEF Truth

\* A lead that has a row is not called SENT or PARTIAL unless one of its rows is.
LEMMA LeadOfSent ==
  ASSUME NEW d \in Delivery, Kind(d) = "new", row[d].status # "NONE", LeadOf(row) \in {"SENT", "PARTIAL"}
  PROVE  \E e \in Delivery : Kind(e) = "new" /\ row[e].status = "SENT"
  BY DEF LeadOf

LEMMA RefreshTruth ==
  ASSUME Typed, Truth, NEW w \in Workers, NEW d \in Delivery, RefreshRead(w, d) \/ RefreshWrite(w)
  PROVE  Truth'
<1>1. UNCHANGED <<row, got, tries>> /\ SameRows
  BY DEF RefreshRead, RefreshWrite, history, SameRows
<1>2. CASE RefreshRead(w, d) /\ Kind(d) = "repeat"
  BY <1>1, <1>2, StopKeeps, QuietTruth DEF RefreshRead
<1>3. CASE RefreshRead(w, d) /\ Kind(d) # "repeat"
  <2>1. Kind(d) = "new" /\ row[d].status # "NONE"
    BY <1>3, DeliveryOf, LeadAssumption DEF Truth, Honest, RefreshRead
  <2>2. LeadOf(row) \in {"SENT", "PARTIAL"} => Somewhere
    BY <2>1, LeadOfSent DEF Somewhere, Truth, Honest
  <2>3. UNCHANGED lead /\ work' = [work EXCEPT ![w].pc = "write", ![w].lead = LeadOf(row)]
    BY <1>3 DEF RefreshRead
  <2>4. /\ \A v \in Workers \ {w} : work'[v] = work[v]
        /\ work'[w].on = work[w].on /\ work'[w].attempts = work[w].attempts
        /\ work'[w].pc = "write" /\ work'[w].lead = LeadOf(row)
    BY <2>3 DEF Typed, TypeOK, Work
  <2>5. ASSUME NEW e \in Delivery PROVE Honest(e)'
    <3>1. Honest(e)
      BY DEF Truth
    <3> QED
      BY <1>1, <2>4, <3>1 DEF Honest, On, At
  <2>6. Told'
    BY <1>1, <2>2, <2>3, <2>4 DEF Truth, Told, At, Somewhere
  <2> QED
    BY <2>5, <2>6 DEF Truth
<1>4. CASE RefreshWrite(w)
  <2>1. \A v \in Workers : Kept(v)
    BY <1>4, StopKeeps DEF RefreshWrite
  <2>2. ASSUME NEW e \in Delivery PROVE Honest(e)'
    <3>1. Honest(e)
      BY DEF Truth
    <3>2. \A v \in Workers : On(v, e)' => On(v, e) /\ work'[v].attempts = work[v].attempts
      BY <2>1 DEF Kept, On
    <3>3. \A v \in Workers : At(v, "record")' => At(v, "record")
      BY <2>1 DEF Kept, At
    <3> QED
      BY <1>1, <3>1, <3>2, <3>3 DEF Honest
  <2>3. lead' \in {"SENT", "PARTIAL"} => Somewhere
    BY <1>4 DEF RefreshWrite, Truth, Told
  <2>4. Told'
    BY <1>1, <2>1, <2>3 DEF Truth, Told, Kept, At, Somewhere
  <2> QED
    BY <2>2, <2>4 DEF Truth
<1> QED
  BY <1>2, <1>3, <1>4

LEMMA FailTruth ==
  ASSUME Typed, Truth, NEW w \in Workers, NEW d \in Delivery, Fail(w, d)
  PROVE  Truth'
<1> DEFINE n == work[w].attempts + 1
<1>1. UNCHANGED <<lead, got>> /\ n \in 1..MaxAttempts /\ tries[d] \in 0..MaxAttempts /\ work[w].attempts <= tries[d]
      /\ work[w].attempts \in Nat
  BY LeadAssumption DEF Fail, Typed, TypeOK, Left, Work, Truth, Honest
<1>2. /\ tries'[d] = IF tries[d] < MaxAttempts THEN tries[d] + 1 ELSE tries[d]
      /\ \A e \in Delivery \ {d} : tries'[e] = tries[e]
  BY DEF Fail, Typed, TypeOK
<1>3. n <= tries'[d] /\ tries'[d] >= tries[d] /\ tries'[d] \in 0..MaxAttempts
  BY <1>1, <1>2, LeadAssumption
<1>4. /\ row'[d].attempts = n /\ row'[d].status = IF n >= MaxAttempts THEN "DEAD" ELSE "FAILED"
      /\ \A e \in Delivery \ {d} : row'[e] = row[e]
  BY DEF Fail, Typed, TypeOK, OutOfAttempts
<1>5. \A v \in Workers : Kept(v)
  BY DEF Fail, Kept, Typed, TypeOK, Work
<1>6. ASSUME NEW e \in Delivery PROVE Honest(e)'
  <2>1. Honest(e) /\ tries[e] \in Nat
    BY DEF Truth, Typed, TypeOK
  <2>2. \A v \in Workers : On(v, e)' => On(v, e) /\ work'[v].attempts = work[v].attempts
    BY <1>5 DEF Kept, On
  <2>3. \A v \in Workers : At(v, "record")' => At(v, "record")
    BY <1>5 DEF Kept, At
  <2>4. CASE e # d
    BY <1>1, <1>2, <1>4, <2>1, <2>2, <2>3, <2>4 DEF Honest
  <2>5. CASE e = d
    <3>1. /\ row'[d].status \in {"DEAD", "FAILED"} /\ row'[d].attempts <= tries'[d]
          /\ (row'[d].status = "DEAD" => tries'[d] = MaxAttempts)
      BY <1>1, <1>3, <1>4, LeadAssumption
    <3>2. \A v \in Workers : On(v, d) => work[v].attempts <= tries'[d]
      <4>1. ASSUME NEW v \in Workers, On(v, d) PROVE work[v].attempts <= tries'[d]
        <5>1. work[v].attempts <= tries[d] /\ work[v].attempts \in Nat
          BY <2>1, <2>5, <4>1 DEF Honest, Typed, TypeOK, Work
        <5> QED
          BY <1>1, <1>3, <5>1
      <4> QED
        BY <4>1
    <3> QED
      BY <1>1, <2>1, <2>2, <2>3, <2>5, <3>1, <3>2 DEF Honest
  <2> QED
    BY <2>4, <2>5
<1>7. Told'
  BY <1>1, <1>5 DEF Truth, Told, Kept, At, Somewhere
<1> QED
  BY <1>6, <1>7 DEF Truth

LEMMA InitTruth == Init => Truth
<1> SUFFICES ASSUME Init PROVE Truth
  OBVIOUS
<1>1. \A d \in Delivery : row[d].status = "NONE"
  BY DEF Init, NoRow
<1>2. \A w \in Workers : work[w].on = {} /\ work[w].pc = "idle"
  BY IdleTyped DEF Init
<1> QED
  BY <1>1, <1>2 DEF Init, Truth, Honest, Told, On, At, Unsent

LEMMA TruthAlways == Spec => []Truth
<1>1. Typed /\ Truth /\ [Next]_vars => Truth'
  BY OtherTruth, MoveTruth, TakeTruth, CallTruth, RecordTruth, RefreshTruth, FailTruth DEF Next, Step
<1> QED
  BY <1>1, InitTruth, TypedAlways, PTL DEF Spec

\* A row is SENT only if its provider carried a call for it out, whatever is refused,
\* lost, crashed or done twice.
THEOREM SentWasDelivered == Spec => []SentIsDelivered
<1>1. Truth => SentIsDelivered
  BY DEF Truth, Honest, SentIsDelivered
<1> QED
  BY <1>1, TruthAlways, PTL

\* A delivery is given up only after MaxAttempts errors of its own.
THEOREM DeadWasEarned == Spec => []DeadIsEarned
<1>1. Truth => DeadIsEarned
  BY DEF Truth, Honest, DeadIsEarned
<1> QED
  BY <1>1, TruthAlways, PTL

\* A lead is called SENT or PARTIAL only if a provider has it.
THEOREM LeadStatusIsTrue == Spec => []LeadIsTrue
<1>1. Truth => LeadIsTrue
  BY DEF Truth, Told, Somewhere, LeadIsTrue
<1> QED
  BY <1>1, TruthAlways, PTL

-----------------------------------------------------------------------------
(* One copy.  What has no row yet is known to nobody; a row that is being  *)
(* sent is leased to one worker, unless something is on record that        *)
(* reopened it or lost its answer.                                         *)

Carrying(w, d) == On(w, d) /\ work[w].pc \in Sending \cup {"auth", "fail"}
Clean(d) == excuse[d] \cap {"lost", "reopened"} = {}

Known(d) == row[d].status = "NONE" =>
  /\ got[d] = 0 /\ d \notin sweep \cup redeliver
  /\ \A w \in Workers : ~On(w, d)
  /\ \A i \in Integrations : d \notin check[i].todo

Fanned == \A k \in Kinds :
  /\ \A i \in Integrations : fan[k].pc = "none" \/ i \in fan[k].todo \ fan[k].cur => row[<<i, k>>].status = "NONE"
  /\ fan[k].pc = "run" => fan[k].cur = {}

Once(d) == Clean(d) =>
  /\ \A v, w \in Workers : Carrying(v, d) /\ Carrying(w, d) => v = w
  /\ \A w \in Workers : Carrying(w, d) => row[d].next = "later" /\ row[d].status \in Unsent
  /\ got[d] <= 1
  /\ got[d] > 0 => row[d].status = "SENT" \/ \E w \in Workers : On(w, d) /\ At(w, "record")

Order == (\A d \in Delivery : Known(d)) /\ Fanned
Single == \A d \in Delivery : Once(d)

\* A row once made is there for good, and nothing new hears of one that is not.
LEMMA KnownKept ==
  ASSUME NEW e \in Delivery, Known(e),
         row'[e].status = "NONE" => row[e].status = "NONE",
         row[e].status = "NONE" =>
           /\ got'[e] = got[e] /\ (e \in sweep' => e \in sweep) /\ (e \in redeliver' => e \in redeliver)
           /\ \A w \in Workers : On(w, e)' => On(w, e)
           /\ \A i \in Integrations : e \in check'[i].todo => e \in check[i].todo
  PROVE  Known(e)'
  BY DEF Known

LEMMA FannedKept ==
  ASSUME Fanned, UNCHANGED fan, \A e \in Delivery : row[e].status = "NONE" => row'[e].status = "NONE"
  PROVE  Fanned'
  BY DeliveryOf DEF Fanned

LEMMA OnceKept ==
  ASSUME NEW e \in Delivery, Once(e), excuse[e] \subseteq excuse'[e],
         Clean(e)' =>
           /\ row'[e].status = row[e].status /\ got'[e] = got[e]
           /\ row'[e].next = row[e].next \/ \A w \in Workers : ~Carrying(w, e)'
           /\ \A w \in Workers : Carrying(w, e)' => Carrying(w, e)
           /\ \A w \in Workers : On(w, e) /\ At(w, "record") => On(w, e)' /\ At(w, "record")'
  PROVE  Once(e)'
<1> SUFFICES ASSUME Clean(e)' PROVE Once(e)'
  BY DEF Once
<1>1. Clean(e)
  BY DEF Clean
<1> QED
  BY <1>1 DEF Once

LEMMA InitOrder == Init => Order /\ Single
<1> SUFFICES ASSUME Init PROVE Order /\ Single
  OBVIOUS
<1>1. \A d \in Delivery : row[d].status = "NONE" /\ got[d] = 0
  BY DEF Init, NoRow
<1>2. \A w \in Workers : work[w].on = {} /\ work[w].pc = "idle"
  BY IdleTyped DEF Init
<1>3. \A i \in Integrations : check[i].todo = {}
  BY DEF Init, IdleCheck
<1>4. Fanned
  BY <1>1, DeliveryOf DEF Init, Fanned
<1>5. sweep = {} /\ redeliver = {}
  BY DEF Init
<1>6. \A w \in Workers, d \in Delivery : ~On(w, d)
  BY <1>2 DEF On
<1>7. \A d \in Delivery : Known(d)
  BY <1>1, <1>3, <1>5, <1>6 DEF Known
<1>8. \A d \in Delivery : Once(d)
  BY <1>1, <1>6 DEF Once, Carrying
<1> QED
  BY <1>4, <1>7, <1>8 DEF Order, Single

LEMMA FanOrder ==
  ASSUME Typed, Order, NEW k \in Kinds, FanOut(k)
  PROVE  Order'
<1>1. \A i \in Integrations : fan[k].pc # "none" => Served(k, i).pc \in {"run", "end"}
         /\ Served(k, i).todo = fan[k].todo \ {i} /\ Served(k, i).cur = {}
  BY DEF Served, Typed, TypeOK, Fan
<1>2. CASE FanStart(k)
  <2>1. \A e \in Delivery : Known(e)'
    BY <1>2, KnownKept DEF FanStart, Order, On, history
  <2>2. /\ fan[k].pc = "none" /\ fan'[k].cur = {} /\ fan'[k].pc \in {"run", "end"}
        /\ \A j \in Kinds \ {k} : fan'[j] = fan[j]
    BY <1>2 DEF FanStart, Typed, TypeOK
  <2>3. Fanned'
    BY <1>2, <2>2 DEF FanStart, Order, Fanned
  <2> QED
    BY <2>1, <2>3 DEF Order
<1>3. ASSUME NEW i \in Integrations, FanUpsert(k, i) PROVE Order'
  <2>1. <<i, k>> \in Delivery
    BY DeliveryOf
  <2>2. /\ row'[<<i, k>>].status = "PENDING"
        /\ \A e \in Delivery \ {<<i, k>>} : row'[e] = row[e]
    BY <1>3, <2>1 DEF FanUpsert, Typed, TypeOK
  <2>3. /\ fan[k].pc = "run" /\ \A j \in Kinds \ {k} : fan'[j] = fan[j]
        /\ \/ fan'[k].pc = "queue" /\ fan'[k].cur = {i} /\ fan'[k].todo = fan[k].todo
           \/ fan'[k].pc \in {"run", "end"} /\ fan'[k].cur = {} /\ fan'[k].todo = fan[k].todo \ {i}
    BY <1>1, <1>3 DEF FanUpsert, Typed, TypeOK, Fan
  <2>4. \A e \in Delivery : Known(e)'
    BY <1>3, <2>2, KnownKept DEF FanUpsert, Order, On, history
  <2>5. ASSUME NEW j \in Kinds, NEW h \in Integrations, fan'[j].pc = "none" \/ h \in fan'[j].todo \ fan'[j].cur
        PROVE  row'[<<h, j>>].status = "NONE"
    <3>1. <<h, j>> \in Delivery /\ (<<h, j>> = <<i, k>> => h = i /\ j = k)
      BY DeliveryOf
    <3>2. <<h, j>> # <<i, k>>
      BY <2>3, <2>5, <3>1
    <3>3. fan[j].pc = "none" \/ h \in fan[j].todo \ fan[j].cur
      BY <2>3, <2>5 DEF Order, Fanned
    <3> QED
      BY <2>2, <3>1, <3>2, <3>3 DEF Order, Fanned
  <2>6. \A j \in Kinds : fan'[j].pc = "run" => fan'[j].cur = {}
    BY <2>3 DEF Order, Fanned
  <2> QED
    BY <2>4, <2>5, <2>6 DEF Order, Fanned
<1>4. ASSUME NEW i \in Integrations, FanQueue(k, i) PROVE Order'
  <2>1. \A e \in Delivery : Known(e)'
    BY <1>4, KnownKept DEF FanQueue, Order, On, history
  <2>2. /\ fan[k].cur = {i} /\ \A j \in Kinds \ {k} : fan'[j] = fan[j]
        /\ \/ fan'[k].pc \in {"run", "end"} /\ fan'[k].cur = {} /\ fan'[k].todo = fan[k].todo \ {i}
           \/ fan'[k].pc = "end" /\ fan'[k].todo = {}
    <3>1. fan[k].pc = "queue" /\ fan[k].cur = {i} /\ fan[k] \in Fan
      BY <1>4 DEF FanQueue, Typed, TypeOK
    <3>2. CASE fan' = [fan EXCEPT ![k] = Served(k, i)]
      BY <1>1, <3>1, <3>2 DEF Typed, TypeOK
    <3>3. CASE fan' = [fan EXCEPT ![k] = [fan[k] EXCEPT !.pc = "end", !.todo = {}, !.cur = {}]]
      BY <3>1, <3>3 DEF Typed, TypeOK, Fan
    <3> QED
      BY <1>4, <3>2, <3>3 DEF FanQueue
  <2>3. Fanned'
    BY <1>4, <2>2 DEF FanQueue, Order, Fanned
  <2> QED
    BY <2>1, <2>3 DEF Order
<1> QED
  BY <1>2, <1>3, <1>4 DEF FanOut

\* Everyone else touches rows that exist.
LEMMA OtherOrder ==
  ASSUME Typed, Order,
         \/ Sweep \/ Flush \/ UNCHANGED vars
         \/ \E k \in Kinds : RedeliverRead(k)
         \/ \E d \in Delivery : Elapse(d) \/ Redeliver(d)
         \/ \E i \in Integrations : CheckStep(i) \/ \E b \in BOOLEAN : CheckStart(i, b) \/ SetDisabled(i, b)
  PROVE  Order'
<1>1. UNCHANGED <<fan, got, work>>
  BY DEF Sweep, SweepRead, SweepOrphan, Flush, vars, RedeliverRead, Elapse, Redeliver, CheckStep, CheckStart,
         CheckPass, CheckRefused, CheckHeld, Resume, SetDisabled, history, Outside
<1>2. ASSUME NEW d \in Delivery, SweepOrphan(d) \/ Elapse(d) \/ \E i \in Integrations : Resume(i, d) PROVE SameRows
  BY <1>2, DateSame DEF SweepOrphan, Elapse, Resume
<1>3. ASSUME NEW d \in Delivery, Redeliver(d)
      PROVE  row'[d].status = "PENDING" /\ row[d].status # "NONE" /\ \A e \in Delivery \ {d} : row'[e] = row[e]
  BY <1>3 DEF Redeliver, Typed, TypeOK, Order, Known
<1>4. ASSUME ~\E d \in Delivery : SweepOrphan(d) \/ Elapse(d) \/ Redeliver(d) \/ \E i \in Integrations : Resume(i, d)
      PROVE  UNCHANGED row
  BY <1>4 DEF Sweep, SweepRead, Flush, vars, RedeliverRead, CheckStep, CheckStart,
         CheckPass, CheckRefused, CheckHeld, SetDisabled, history, Outside
<1>5. \A e \in Delivery : row'[e].status = "NONE" <=> row[e].status = "NONE"
  <2>1. CASE \E d \in Delivery : Redeliver(d)
    BY <1>3, <2>1
  <2>2. CASE ~\E d \in Delivery : Redeliver(d)
    BY <1>2, <1>4, <2>2 DEF SameRows
  <2> QED
    BY <2>1, <2>2
<1>6. ASSUME NEW e \in Delivery, row[e].status = "NONE"
      PROVE  (e \in sweep' => e \in sweep) /\ (e \in redeliver' => e \in redeliver)
  BY <1>6 DEF Sweep, SweepRead, SweepOrphan, Flush, vars, RedeliverRead, Elapse, Redeliver, CheckStep, CheckStart,
         CheckPass, CheckRefused, CheckHeld, Resume, SetDisabled, history, Outside, Orphaned, Unsent
<1>7. ASSUME NEW e \in Delivery, row[e].status = "NONE", NEW i \in Integrations, e \in check'[i].todo
      PROVE  e \in check[i].todo
  <2>1. \A j \in Integrations : CheckEnd(j) => check'[i] = check[i] \/ check'[i].todo = {}
    BY DEF CheckEnd, IdleCheck, Typed, TypeOK
  <2>2. CASE UNCHANGED check
    BY <1>7, <2>2
  <2>3. ASSUME NEW j \in Integrations, CheckStep(j) \/ \E b \in BOOLEAN : CheckStart(j, b)
        PROVE  check'[i] = check[i] \/ check'[i].todo \subseteq check[i].todo \cup {d \in Delivery : row[d].status \in Unsent}
    <3>1. ASSUME NEW b \in BOOLEAN, CheckStart(j, b) PROVE check'[i] = check[i] \/ check'[i].todo = {}
      BY <3>1 DEF CheckStart, Typed, TypeOK
    <3>2. CASE CheckPass(j) \/ CheckRefused(j)
      BY <2>1, <3>2 DEF CheckPass, CheckRefused, Typed, TypeOK, Check
    <3>3. CASE CheckHeld(j)
      BY <2>1, <3>3 DEF CheckHeld, Typed, TypeOK, Check
    <3>4. ASSUME NEW d \in Delivery, Resume(j, d) PROVE check'[i] = check[i] \/ check'[i].todo \subseteq check[i].todo
      BY <2>1, <3>4 DEF Resume, Typed, TypeOK, Check
    <3> QED
      BY <2>3, <3>1, <3>2, <3>3, <3>4 DEF CheckStep
  <2>4. UNCHANGED check \/ \E j \in Integrations : CheckStep(j) \/ \E b \in BOOLEAN : CheckStart(j, b)
    BY DEF Sweep, SweepRead, SweepOrphan, Flush, vars, RedeliverRead, Elapse, Redeliver, SetDisabled, Outside
  <2> QED
    BY <1>7, <2>2, <2>3, <2>4 DEF Unsent
<1>8. \A e \in Delivery : Known(e)'
  BY <1>1, <1>5, <1>6, <1>7, KnownKept DEF Order, On
<1>9. Fanned'
  BY <1>1, <1>5, FannedKept DEF Order
<1> QED
  BY <1>8, <1>9 DEF Order

\* Workers take rows that exist, and only they make the calls.
LEMMA WorkOrder ==
  ASSUME Typed, Order, NEW w \in Workers, NEW d \in Delivery,
         Take(w, d) \/ Step(w, d) \/ StoreError(w, d) \/ Crash(w, d)
  PROVE  Order'
<1>1. UNCHANGED <<fan, sweep, check, redeliver>>
  BY DEF Take, Step, StoreError, Crash, Hold, Claim, Original, Call, Record, RefreshRead, RefreshWrite, Auth,
         Broken, Fail, Queue, Outside
<1>2. \A e \in Delivery : row'[e].status = "NONE" <=> row[e].status = "NONE"
  <2>1. CASE row' = [row EXCEPT ![d].next = "null"] \/ row' = [row EXCEPT ![d].next = "later"] \/ UNCHANGED row
    BY <2>1, DateSame DEF SameRows
  <2>2. CASE Record(w, d) \/ Fail(w, d)
    <3>1. row[d].status # "NONE"
      BY <2>2 DEF Record, Fail, Order, Known
    <3>2. row'[d].status # "NONE" /\ \A e \in Delivery \ {d} : row'[e] = row[e]
      BY <2>2 DEF Record, Fail, Typed, TypeOK
    <3> QED
      BY <3>1, <3>2
  <2> QED
    BY <2>1, <2>2 DEF Take, Step, StoreError, Crash, Hold, Claim, Original, Call, RefreshRead, RefreshWrite, Auth,
         Broken, Queue
<1>3. ASSUME NEW e \in Delivery, row[e].status = "NONE" PROVE got'[e] = got[e]
  <2>1. CASE Call(w, d)
    <3>1. e # d
      BY <1>3, <2>1 DEF Call, Order, Known
    <3> QED
      BY <2>1, <3>1 DEF Call, Typed, TypeOK
  <2> QED
    BY <2>1 DEF Take, Step, StoreError, Crash, Hold, Claim, Original, Record, RefreshRead, RefreshWrite, Auth,
         Broken, Fail, Queue, history
<1>4. ASSUME NEW e \in Delivery, row[e].status = "NONE", NEW v \in Workers, On(v, e)' PROVE On(v, e)
  <2>1. CASE Take(w, d)
    BY <1>4, <2>1 DEF Take, On, Typed, TypeOK, IdleWork, Unsent
  <2>2. CASE Step(w, d) \/ StoreError(w, d) \/ Crash(w, d)
    <3>1. Stop(w) => On(v, e)
      BY <1>4, IdleTyped DEF Stop, On, Typed, TypeOK
    <3>2. \A s \in Steps : Goto(w, s) => On(v, e)
      BY <1>4 DEF Goto, On, Typed, TypeOK, Work
    <3>3. CASE Record(w, d) \/ Fail(w, d)
      <4>1. ASSUME NEW s \in Steps, NEW b \in BOOLEAN, work' = [work EXCEPT ![w].pc = s, ![w].sent = b]
            PROVE  work'[v].on = work[v].on
        BY <4>1 DEF Typed, TypeOK, Work
      <4>2. work'[v].on = work[v].on
        BY <3>3, <4>1 DEF Record, Fail, Steps
      <4> QED
        BY <1>4, <4>2 DEF On
    <3>4. CASE Original(w, d)
      BY <1>4, <3>2, <3>4 DEF Original, On, Typed, TypeOK, Work, Steps
    <3>5. CASE RefreshRead(w, d)
      BY <1>4, <3>1, <3>5 DEF RefreshRead, On, Typed, TypeOK, Work
    <3> QED
      BY <2>2, <3>1, <3>2, <3>3, <3>4, <3>5 DEF Step, StoreError, Crash, Hold, Claim, Call, RefreshWrite, Auth,
         Broken, Queue, Steps
  <2> QED
    BY <2>1, <2>2
<1>5. \A e \in Delivery : Known(e)'
  BY <1>1, <1>2, <1>3, <1>4, KnownKept DEF Order
<1>6. Fanned'
  BY <1>1, <1>2, FannedKept DEF Order
<1> QED
  BY <1>5, <1>6 DEF Order

LEMMA RedatedOnce ==
  ASSUME Typed, NEW d \in Delivery, NEW e \in Delivery, Once(e), NEW x \in {"null", "due", "later"},
         row' = [row EXCEPT ![d].next = x], excuse' = Reopens(d), got'[e] = got[e],
         \A w \in Workers : Carrying(w, e)' => Carrying(w, e),
         \A w \in Workers : On(w, e) /\ At(w, "record") => On(w, e)' /\ At(w, "record")'
  PROVE  Once(e)'
<1>1. row'[e].status = row[e].status /\ (e # d => row'[e].next = row[e].next)
  BY DateTyped DEF Typed, TypeOK
<1>2. excuse[e] \subseteq excuse'[e] /\ (e # d => excuse'[e] = excuse[e])
  BY DEF Reopens, Excused, Typed, TypeOK
<1>3. Clean(d)' => \A w \in Workers : ~Carrying(w, d)
  <2>1. InSending(d) => "reopened" \in excuse'[d]
    BY DEF Reopens, Excused, Typed, TypeOK
  <2> QED
    BY <2>1 DEF Clean, InSending, Carrying
<1> QED
  BY <1>1, <1>2, <1>3, OnceKept

LEMMA OtherSingle ==
  ASSUME Typed, Order, Single,
         \/ Sweep \/ Flush \/ UNCHANGED vars
         \/ \E k \in Kinds : FanOut(k) \/ RedeliverRead(k)
         \/ \E d \in Delivery : Elapse(d) \/ Redeliver(d)
         \/ \E i \in Integrations : CheckStep(i) \/ \E b \in BOOLEAN : CheckStart(i, b) \/ SetDisabled(i, b)
  PROVE  Single'
<1>1. UNCHANGED <<got, work>>
  BY DEF Sweep, SweepRead, SweepOrphan, Flush, vars, RedeliverRead, Elapse, Redeliver, CheckStep, CheckStart,
         CheckPass, CheckRefused, CheckHeld, Resume, SetDisabled, history, Outside,
         FanOut, FanStart, FanUpsert, FanQueue
<1> SUFFICES ASSUME NEW e \in Delivery PROVE Once(e)'
  BY DEF Single
<1>2. Once(e) /\ Known(e)
  BY DEF Single, Order
<1>3. \A w \in Workers : (Carrying(w, e)' <=> Carrying(w, e)) /\ (On(w, e)' <=> On(w, e))
                         /\ (At(w, "record")' <=> At(w, "record"))
  BY <1>1 DEF Carrying, On, At
<1>4. ASSUME NEW d \in Delivery, SweepOrphan(d) \/ Elapse(d) \/ \E i \in Integrations : Resume(i, d) PROVE Once(e)'
  <2>1. excuse' = Reopens(d) /\ \E x \in {"null", "due", "later"} : row' = [row EXCEPT ![d].next = x]
    BY <1>4 DEF SweepOrphan, Elapse, Resume
  <2> QED
    BY <1>1, <1>2, <1>3, <2>1, RedatedOnce
<1>5. ASSUME UNCHANGED <<row, excuse>> PROVE Once(e)'
  BY <1>1, <1>2, <1>3, <1>5, OnceKept
<1>6. ASSUME NEW d \in Delivery, Redeliver(d) PROVE Once(e)'
  <2>1. excuse[e] \subseteq excuse'[e]
    BY <1>6 DEF Redeliver, Typed, TypeOK
  <2>2. CASE e # d
    BY <1>1, <1>2, <1>3, <1>6, <2>1, <2>2, OnceKept DEF Redeliver, Typed, TypeOK
  <2>3. CASE e = d
    <3>1. SUFFICES ASSUME Clean(d)' PROVE Once(d)'
      BY <2>3 DEF Once
    <3>2. Clean(d) /\ ~InSending(d) /\ row[d].status # "SENT"
      BY <1>6, <2>1, <2>3, <3>1 DEF Clean, Redeliver, Typed, TypeOK
    <3>3. \A w \in Workers : ~Carrying(w, d) /\ ~(On(w, d) /\ At(w, "record"))
      BY <3>2 DEF InSending, Carrying, At, Sending
    <3>4. got[d] <= 1 /\ ~(got[d] > 0)
      BY <1>2, <2>3, <3>2, <3>3 DEF Once
    <3> QED
      BY <1>1, <1>3, <2>3, <3>3, <3>4 DEF Once
  <2> QED
    BY <2>2, <2>3
<1>7. ASSUME NEW k \in Kinds, NEW i \in Integrations, FanUpsert(k, i) PROVE Once(e)'
  <2> DEFINE d == <<i, k>>
  <2>1. d \in Delivery /\ UNCHANGED excuse /\ \A c \in Delivery \ {d} : row'[c] = row[c]
    BY <1>7, DeliveryOf DEF FanUpsert, Typed, TypeOK, history
  <2>2. row[d].status = "NONE"
    BY <1>7 DEF FanUpsert, Order, Fanned
  <2> HIDE DEF d
  <2>3. CASE e # d
    BY <1>1, <1>2, <1>3, <2>1, <2>3, OnceKept
  <2>4. CASE e = d
    <3>1. got[e] = 0 /\ \A w \in Workers : ~On(w, e) /\ ~Carrying(w, e)
      BY <1>2, <2>2, <2>4 DEF Known, Carrying
    <3> QED
      BY <1>1, <1>3, <3>1 DEF Once
  <2> QED
    BY <2>3, <2>4
<1>8. ASSUME ~\E d \in Delivery : SweepOrphan(d) \/ Elapse(d) \/ Redeliver(d) \/ \E i \in Integrations : Resume(i, d),
             ~\E k \in Kinds, i \in Integrations : FanUpsert(k, i)
      PROVE  UNCHANGED <<row, excuse>>
  BY <1>8 DEF Sweep, SweepRead, Flush, vars, RedeliverRead, CheckStep, CheckStart,
         CheckPass, CheckRefused, CheckHeld, SetDisabled, history, Outside, FanOut, FanStart, FanQueue
<1> QED
  BY <1>4, <1>5, <1>6, <1>7, <1>8

\* A worker moves on, or stops, with one delivery and nothing else.
LEMMA WorkLocal ==
  ASSUME Typed, NEW w \in Workers, NEW d \in Delivery,
         \/ Take(w, d) \/ StoreError(w, d) \/ Crash(w, d) \/ (Step(w, d) /\ ~RefreshWrite(w))
  PROVE  /\ \A v \in Workers \ {w} : work'[v] = work[v]
         /\ \A e \in Delivery \ {d} :
              /\ row'[e] = row[e] /\ got'[e] = got[e] /\ excuse'[e] = excuse[e]
              /\ ~Carrying(w, e) /\ ~Carrying(w, e)' /\ ~(On(w, e) /\ At(w, "record"))
<1>1. \A v \in Workers \ {w} : work'[v] = work[v]
  BY DEF Take, Step, StoreError, Crash, Hold, Claim, Original, Call, Record, RefreshRead, Auth,
         Broken, Fail, Queue, Stop, Goto, Typed, TypeOK
<1>2. \A e \in Delivery \ {d} : row'[e] = row[e]
  BY DEF Take, Step, StoreError, Crash, Hold, Claim, Original, Call, Record, RefreshRead, Auth,
         Broken, Fail, Queue, Typed, TypeOK
<1>3. \A e \in Delivery \ {d} : got'[e] = got[e] /\ excuse'[e] = excuse[e]
  BY DEF Take, Step, StoreError, Crash, Hold, Claim, Original, Call, Record, RefreshRead, Auth,
         Broken, Fail, Queue, Reopens, Excused, history, Typed, TypeOK
<1>4. CASE Take(w, d)
  BY <1>1, <1>2, <1>3, <1>4 DEF Take, On, At, Carrying, Sending, Typed, TypeOK, IdleWork
<1>5. CASE On(w, d) /\ work'[w].on \in {{}, {d}}
  BY <1>1, <1>2, <1>3, <1>5 DEF On, Carrying
<1>6. CASE ~Take(w, d)
  <2>1. On(w, d)
    BY <1>6 DEF Step, StoreError, Crash, Hold, Claim, Original, Call, Record, RefreshRead, Auth, Broken, Fail, Queue
  <2>2. work[w] \in Work /\ work[w].on = {d} /\ work \in [Workers -> Work]
    BY <2>1 DEF On, Typed, TypeOK
  <2>3. Stop(w) => work'[w].on = {}
    BY <2>2, IdleTyped DEF Stop
  <2>4. \A s \in Steps : Goto(w, s) => work'[w].on = {d}
    BY <2>2 DEF Goto, Work
  <2>5. work'[w].on \in {{}, {d}}
    <3>1. CASE Record(w, d)
      BY <2>2, <3>1 DEF Record, Work
    <3>2. CASE Fail(w, d)
      BY <2>2, <3>2 DEF Fail, Work
    <3>3. CASE RefreshRead(w, d)
      BY <2>2, <2>3, <3>3 DEF RefreshRead, Work
    <3>4. CASE Original(w, d)
      BY <2>2, <2>4, <3>4 DEF Original, Work, Steps
    <3>5. CASE StoreError(w, d) \/ Crash(w, d) \/ Hold(w, d) \/ Claim(w, d) \/ Call(w, d)
      BY <2>3, <2>4, <3>5 DEF StoreError, Crash, Hold, Claim, Call, Steps
    <3>6. CASE Auth(w, d) \/ Broken(w, d) \/ Queue(w, d)
      BY <2>3, <2>4, <3>6 DEF Auth, Broken, Queue, Steps
    <3> QED
      BY <1>6, <3>1, <3>2, <3>3, <3>4, <3>5, <3>6 DEF Step
  <2> QED
    BY <1>5, <2>1, <2>5
<1> QED
  BY <1>4, <1>6

\* How the helpers change who carries what.
LEMMA StopCarries ==
  ASSUME Typed, NEW w \in Workers, Stop(w), NEW d \in Delivery
  PROVE  /\ ~Carrying(w, d)'
         /\ \A v \in Workers \ {w} : (Carrying(v, d)' <=> Carrying(v, d)) /\ (On(v, d)' <=> On(v, d))
                                      /\ (At(v, "record")' <=> At(v, "record"))
  BY IdleTyped DEF Stop, Carrying, On, At, Typed, TypeOK

LEMMA GotoCarries ==
  ASSUME Typed, NEW w \in Workers, NEW s \in Steps, Goto(w, s), NEW d \in Delivery
  PROVE  /\ On(w, d)' <=> On(w, d)
         /\ At(w, "record")' <=> s = "record"
         /\ Carrying(w, d)' <=> On(w, d) /\ s \in Sending \cup {"auth", "fail"}
         /\ \A v \in Workers \ {w} : (Carrying(v, d)' <=> Carrying(v, d)) /\ (On(v, d)' <=> On(v, d))
                                      /\ (At(v, "record")' <=> At(v, "record"))
<1>1. work[w] \in Work /\ work \in [Workers -> Work]
  BY DEF Typed, TypeOK
<1>2. /\ work'[w].on = work[w].on /\ work'[w].pc = s
      /\ \A v \in Workers \ {w} : work'[v] = work[v]
  BY <1>1 DEF Goto, Work
<1> QED
  BY <1>2 DEF Carrying, On, At

\* The worker was not carrying, and is not.
LEMMA IdleOnce ==
  ASSUME Typed, Single, NEW w \in Workers, NEW d \in Delivery,
         \/ Take(w, d) \/ Hold(w, d) \/ RefreshRead(w, d) \/ Broken(w, d) \/ Queue(w, d)
         \/ Claim(w, d) /\ ~Claimable(d)
  PROVE  Once(d)'
<1>1. Once(d) /\ work[w].pc \notin Sending \cup {"auth", "fail"} /\ ~At(w, "record")
  BY DEF Single, Take, Hold, RefreshRead, Broken, Queue, Claim, At, Sending
<1>2. got' = got
  BY DEF Take, Hold, RefreshRead, Broken, Queue, Claim, history
<1>3. /\ ~Carrying(w, d)'
      /\ \A v \in Workers \ {w} : (Carrying(v, d)' <=> Carrying(v, d)) /\ (On(v, d)' <=> On(v, d))
                                   /\ (At(v, "record")' <=> At(v, "record"))
  <2>1. CASE Stop(w)
    BY <2>1, StopCarries
  <2>2. CASE work' = [work EXCEPT ![w].pc = "write", ![w].lead = LeadOf(row)]
    BY <2>2 DEF Carrying, On, At, Sending, Typed, TypeOK, Work
  <2>3. CASE UNCHANGED work
    BY <1>1, <2>3 DEF Carrying, On, At
  <2>4. CASE Take(w, d)
    <3>1. UNCHANGED work \/ (work'[w].pc \in {"claim", "hold"} /\ \A v \in Workers \ {w} : work'[v] = work[v])
      BY <2>4 DEF Take, Typed, TypeOK, IdleWork
    <3> QED
      BY <2>3, <3>1 DEF Carrying, On, At, Sending
  <2> QED
    BY <2>1, <2>2, <2>3, <2>4 DEF Hold, RefreshRead, Broken, Queue, Claim
<1>4. CASE Hold(w, d)
  BY <1>1, <1>2, <1>3, <1>4, RedatedOnce DEF Hold
<1>5. CASE UNCHANGED <<row, excuse>>
  BY <1>1, <1>2, <1>3, <1>5, OnceKept
<1> QED
  BY <1>4, <1>5 DEF Take, Hold, RefreshRead, Broken, Queue, Claim, history

\* The claim is won only when nobody carries the row.
LEMMA ClaimOnce ==
  ASSUME Typed, Single, NEW w \in Workers, NEW d \in Delivery, Claim(w, d), Claimable(d)
  PROVE  Once(d)'
<1>1. SUFFICES ASSUME Clean(d)' PROVE Once(d)'
  BY DEF Once
<1>2. Clean(d) /\ row[d].status \in Unsent /\ row[d].next # "later" /\ UNCHANGED got
  BY <1>1 DEF Claim, Claimable, Clean, history
<1>3. (\A v \in Workers : ~Carrying(v, d)) /\ (\A v \in Workers : ~(On(v, d) /\ At(v, "record"))) /\ ~(got[d] > 0)
  BY <1>2 DEF Single, Once, Carrying, At, Sending, Unsent
<1>4. row'[d].status = row[d].status /\ row'[d].next = "later"
  BY <1>2 DEF Claim, Claimable, Typed, TypeOK, Row
<1>5. \E s \in {"original", "call"} : Goto(w, s)
  BY <1>2 DEF Claim, Claimable
<1>6. \A v \in Workers : Carrying(v, d)' => v = w
  BY <1>3, <1>5, GotoCarries DEF Steps
<1>7. got'[d] <= 1 /\ ~(got'[d] > 0)
  BY <1>2, <1>3 DEF Single, Once
<1> QED
  BY <1>2, <1>4, <1>6, <1>7 DEF Once

\* The carrier goes on, and nothing reaches the provider.
LEMMA CarryOnce ==
  ASSUME Typed, Single, NEW w \in Workers, NEW d \in Delivery, Carrying(w, d), ~At(w, "record"),
         NEW s \in Sending \cup {"auth", "fail"},
         \/ Goto(w, s) \/ \E b \in BOOLEAN : work' = [work EXCEPT ![w].pc = s, ![w].own = b],
         UNCHANGED <<row, got>>, excuse[d] \subseteq excuse'[d]
  PROVE  Once(d)'
<1>1. /\ \A v \in Workers \ {w} : work'[v] = work[v]
      /\ work'[w].on = work[w].on
  BY DEF Goto, Typed, TypeOK, Work
<1> QED
  BY <1>1, OnceKept DEF Single, Carrying, On, At

\* The one call that is carried out.
LEMMA CarriedOnce ==
  ASSUME Typed, Single, NEW w \in Workers, NEW d \in Delivery, Carrying(w, d), ~At(w, "record"),
         Goto(w, "record"), UNCHANGED <<row, excuse>>,
         got' = [got EXCEPT ![d] = IF @ < 2 THEN @ + 1 ELSE @]
  PROVE  Once(d)'
<1>1. SUFFICES ASSUME Clean(d)' PROVE Once(d)'
  BY DEF Once
<1>2. Clean(d) /\ got[d] \in 0..2
  BY <1>1 DEF Clean, Typed, TypeOK
<1>3. \A v \in Workers : Carrying(v, d) => v = w
  BY <1>2 DEF Single, Once
<1>4. row[d].status \in Unsent /\ row[d].next = "later"
  BY <1>2 DEF Single, Once
<1>5. ~(got[d] > 0)
  BY <1>2, <1>3, <1>4 DEF Single, Once, Unsent, Carrying, At, Sending
<1>6. got'[d] = 1
  BY <1>2, <1>5 DEF Typed, TypeOK
<1>7. On(w, d)' /\ At(w, "record")' /\ \A v \in Workers : Carrying(v, d)' => v = w
  BY <1>3, GotoCarries DEF Steps, Carrying
<1> QED
  BY <1>4, <1>6, <1>7 DEF Once

\* The carrier writes the outcome: SENT when the provider has it, unsent when it cannot.
LEMMA WrittenOnce ==
  ASSUME Typed, Single, NEW w \in Workers, NEW d \in Delivery, Carrying(w, d),
         ~Carrying(w, d)', \A v \in Workers \ {w} : work'[v] = work[v],
         UNCHANGED got, Clean(d)' => Clean(d),
         At(w, "record") => row'[d].status = "SENT"
  PROVE  Once(d)'
<1>1. SUFFICES ASSUME Clean(d)' PROVE Once(d)'
  BY DEF Once
<1>2. Clean(d)
  BY <1>1
<1>3. \A v \in Workers : Carrying(v, d) => v = w
  BY <1>2 DEF Single, Once
<1>4. \A v \in Workers : ~Carrying(v, d)'
  BY <1>3 DEF Carrying, On
<1>5. got'[d] <= 1 /\ (got'[d] > 0 => row'[d].status = "SENT")
  <2>1. ASSUME got[d] > 0 PROVE At(w, "record")
    <3>1. row[d].status \in Unsent
      BY <1>2 DEF Single, Once
    <3>2. PICK v \in Workers : On(v, d) /\ At(v, "record")
      BY <1>2, <2>1, <3>1 DEF Single, Once, Unsent
    <3> QED
      BY <1>3, <3>2 DEF Carrying, At, Sending
  <2> QED
    BY <1>2, <2>1 DEF Single, Once
<1> QED
  BY <1>4, <1>5 DEF Once

\* An answer or an error lost after the call is on record.
LEMMA LostOnce ==
  ASSUME Typed, NEW d \in Delivery, excuse' = Excused(d, "lost")
  PROVE  Once(d)'
  BY DEF Once, Clean, Excused, Typed, TypeOK

LEMMA CallOnce ==
  ASSUME Typed, Single, NEW w \in Workers, NEW d \in Delivery, Call(w, d) \/ Original(w, d)
  PROVE  Once(d)'
<1>1. Carrying(w, d) /\ ~At(w, "record")
  BY DEF Call, Original, Carrying, At, Sending
<1>2. CASE Call(w, d)
  <2>1. CASE excuse' = Excused(d, "lost")
    BY <2>1, LostOnce
  <2>2. CASE Goto(w, "record") /\ UNCHANGED excuse /\ got' = [got EXCEPT ![d] = IF @ < 2 THEN @ + 1 ELSE @]
    BY <1>1, <1>2, <2>2, CarriedOnce DEF Call
  <2>3. CASE (Goto(w, "fail") \/ Goto(w, "auth")) /\ UNCHANGED <<got, excuse>>
    BY <1>1, <1>2, <2>3, CarryOnce DEF Call
  <2> QED
    BY <1>2, <2>1, <2>2, <2>3 DEF Call
<1>3. CASE Original(w, d)
  <2>1. Goto(w, "fail") \/ \E b \in BOOLEAN : work' = [work EXCEPT ![w].pc = "call", ![w].own = b]
    BY <1>3 DEF Original
  <2>2. UNCHANGED <<row, got, excuse>>
    BY <1>3 DEF Original, history
  <2> QED
    BY <1>1, <2>1, <2>2, CarryOnce DEF Sending
<1> QED
  BY <1>2, <1>3

LEMMA OutcomeOnce ==
  ASSUME Typed, Single, NEW w \in Workers, NEW d \in Delivery,
         Record(w, d) \/ Auth(w, d) \/ Fail(w, d) \/ Crash(w, d) \/ StoreError(w, d)
  PROVE  Once(d)'
<1>1. CASE StoreError(w, d)
  BY <1>1, LostOnce DEF StoreError
<1>2. CASE Record(w, d)
  <2>1. Carrying(w, d) /\ row'[d].status = "SENT" /\ UNCHANGED <<got, excuse>>
    BY <1>2 DEF Record, Carrying, At, Sending, Typed, TypeOK, history
  <2>2. ~Carrying(w, d)' /\ \A v \in Workers \ {w} : work'[v] = work[v]
    BY <1>2 DEF Record, Carrying, Sending, Typed, TypeOK, Work
  <2> QED
    BY <2>1, <2>2, WrittenOnce DEF Clean
<1>3. CASE Auth(w, d)
  <2>1. Carrying(w, d) /\ ~At(w, "record") /\ UNCHANGED got /\ excuse[d] \subseteq excuse'[d] /\ Goto(w, "broken")
    BY <1>3 DEF Auth, Carrying, At, Excused, Typed, TypeOK
  <2>2. ~Carrying(w, d)' /\ \A v \in Workers \ {w} : work'[v] = work[v]
    BY <2>1, GotoCarries DEF Steps, Sending, Goto, Typed, TypeOK
  <2> QED
    BY <2>1, <2>2, WrittenOnce DEF Clean
<1>4. CASE Fail(w, d)
  <2>1. Carrying(w, d) /\ ~At(w, "record") /\ UNCHANGED <<got, excuse>>
    BY <1>4 DEF Fail, Carrying, At
  <2>2. work'[w].pc \in {"read", "queue"} /\ \A v \in Workers \ {w} : work'[v] = work[v]
    BY <1>4 DEF Fail, Typed, TypeOK, Work
  <2>3. ~Carrying(w, d)'
    BY <2>2 DEF Carrying, Sending
  <2> QED
    BY <2>1, <2>2, <2>3, WrittenOnce DEF Clean
<1>5. CASE Crash(w, d)
  <2>1. CASE At(w, "record")
    BY <1>5, <2>1, LostOnce DEF Crash
  <2>2. CASE ~At(w, "record")
    <3>1. UNCHANGED <<row, got, excuse>> /\ Stop(w)
      BY <1>5, <2>2 DEF Crash
    <3>2. Once(d)
      BY DEF Single
    <3> QED
      BY <2>2, <3>1, <3>2, StopCarries, OnceKept
  <2> QED
    BY <2>1, <2>2
<1> QED
  BY <1>1, <1>2, <1>3, <1>4, <1>5

LEMMA WorkSingle ==
  ASSUME Typed, Single, NEW w \in Workers, NEW d \in Delivery,
         Take(w, d) \/ Step(w, d) \/ StoreError(w, d) \/ Crash(w, d)
  PROVE  Single'
<1>1. CASE RefreshWrite(w)
  <2>1. UNCHANGED <<row, got, excuse>> /\ Stop(w) /\ ~At(w, "record")
    BY <1>1 DEF RefreshWrite, At, history
  <2>2. ASSUME NEW e \in Delivery PROVE Once(e)'
    <3>1. Once(e)
      BY DEF Single
    <3> QED
      BY <2>1, <3>1, StopCarries, OnceKept
  <2> QED
    BY <2>2 DEF Single
<1>2. CASE ~RefreshWrite(w)
  <2>1. Once(d)'
    BY <1>2, IdleOnce, ClaimOnce, CallOnce, OutcomeOnce DEF Step
  <2>2. ASSUME NEW e \in Delivery \ {d} PROVE Once(e)'
    <3>1. Once(e)
      BY DEF Single
    <3>2. /\ \A v \in Workers \ {w} : work'[v] = work[v]
          /\ row'[e] = row[e] /\ got'[e] = got[e] /\ excuse'[e] = excuse[e]
          /\ ~Carrying(w, e) /\ ~Carrying(w, e)' /\ ~(On(w, e) /\ At(w, "record"))
      BY <1>2, WorkLocal
    <3> QED
      BY <3>1, <3>2, OnceKept DEF Carrying, On, At
  <2> QED
    BY <2>1, <2>2 DEF Single
<1> QED
  BY <1>1, <1>2

LEMMA SingleAlways == Spec => [](Order /\ Single)
<1>1. Typed /\ Order /\ Single /\ [Next]_vars => Order' /\ Single'
  BY FanOrder, OtherOrder, WorkOrder, OtherSingle, WorkSingle DEF Next
<1> QED
  BY <1>1, InitOrder, TypedAlways, PTL DEF Spec

\* A delivery reaches its provider once, whatever the workers, the sweeper, the checks
\* and the users do, unless an answer was lost or the row reopened while it was sent.
THEOREM DeliveredOnce == Spec => []OneCopy
<1>1. Single /\ Typed => OneCopy
  BY DEF Single, Once, Clean, OneCopy, Typed, TypeOK
<1> QED
  BY <1>1, SingleAlways, TypedAlways, PTL

-----------------------------------------------------------------------------
(* One card.  A repeat that makes a CRM lead of its own found an original  *)
(* that was given up, or that never was; nothing sends that one any more.  *)

First(d) == <<Of(d), "new">>
GaveUp(d) == First(d) \in Delivery =>
  excuse[First(d)] # {} \/ row[First(d)].status \in {"NONE", "DEAD"}

Turn == \A j, k \in Kinds : k = "repeat" /\ j # k /\ fan[k].pc # "none" => fan[j].pc = "end"

Cards ==
  /\ \A d \in own : Kind(d) = "repeat" /\ row[d].status # "NONE" /\ GaveUp(d)
  /\ \A w \in Workers, d \in Delivery : On(w, d) =>
       /\ work[w].own => Kind(d) = "repeat" /\ GaveUp(d)
       /\ At(w, "original") => Kind(d) = "repeat"

Firm == Order /\ Single /\ Turn

LEMMA ExcuseGrows == ASSUME Typed, [Next]_vars PROVE \A e \in Delivery : excuse[e] \subseteq excuse'[e]
<1>1. ASSUME NEW d \in Delivery, \/ UNCHANGED excuse \/ excuse' = Reopens(d)
         \/ excuse' = Excused(d, "lost") \/ excuse' = Excused(d, "reopened") \/ Redeliver(d)
      PROVE  \A e \in Delivery : excuse[e] \subseteq excuse'[e]
  BY <1>1 DEF Reopens, Excused, Redeliver, Typed, TypeOK
<1>2. ASSUME NEW w \in Workers, NEW d \in Delivery, Take(w, d) \/ Step(w, d) \/ StoreError(w, d) \/ Crash(w, d)
      PROVE  \/ UNCHANGED excuse \/ excuse' = Reopens(d)
             \/ excuse' = Excused(d, "lost") \/ excuse' = Excused(d, "reopened")
  BY <1>2 DEF Take, Step, StoreError, Crash, Hold, Claim, Original, Call, Record, RefreshRead, RefreshWrite, Auth,
         Broken, Fail, Queue, history
<1>3. ASSUME NEW d \in Delivery, SweepOrphan(d) \/ Elapse(d) \/ \E i \in Integrations : Resume(i, d)
      PROVE  excuse' = Reopens(d)
  BY <1>3 DEF SweepOrphan, Elapse, Resume
<1>4. ASSUME \/ SweepRead \/ Flush \/ UNCHANGED vars
             \/ \E k \in Kinds : FanOut(k) \/ RedeliverRead(k)
             \/ \E i \in Integrations : \/ CheckPass(i) \/ CheckRefused(i) \/ CheckHeld(i)
                                       \/ \E b \in BOOLEAN : CheckStart(i, b) \/ SetDisabled(i, b)
      PROVE  UNCHANGED excuse
  BY <1>4 DEF SweepRead, Flush, vars, RedeliverRead, CheckStart, CheckPass, CheckRefused, CheckHeld, SetDisabled,
         history, Outside, FanOut, FanStart, FanUpsert, FanQueue
<1> QED
  BY <1>1, <1>2, <1>3, <1>4 DEF Next, Sweep, CheckStep

LEMMA NextTurn == ASSUME Typed, Turn, [Next]_vars PROVE Turn'
<1>1. ASSUME NEW k \in Kinds, FanStart(k) PROVE Turn'
  <2>1. /\ fan[k].pc = "none" /\ \A j \in Kinds \ {k} : fan'[j] = fan[j]
        /\ \A j \in Kinds \ {k} : k = "repeat" => fan[j].pc = "end"
    BY <1>1 DEF FanStart, Typed, TypeOK
  <2> QED
    BY <2>1 DEF Turn
<1>2. ASSUME NEW k \in Kinds, NEW i \in Integrations, FanUpsert(k, i) \/ FanQueue(k, i) PROVE Turn'
  <2>1. fan[k].pc \in {"run", "queue"} /\ \A j \in Kinds \ {k} : fan'[j] = fan[j]
    BY <1>2 DEF FanUpsert, FanQueue, Typed, TypeOK
  <2> QED
    BY <2>1 DEF Turn
<1>3. ASSUME ~\E k \in Kinds : FanOut(k) PROVE UNCHANGED fan
  <2>1. ASSUME NEW w \in Workers, NEW d \in Delivery, Take(w, d) \/ Step(w, d) \/ StoreError(w, d) \/ Crash(w, d)
        PROVE  UNCHANGED fan
    BY <2>1 DEF Take, Step, StoreError, Crash, Hold, Claim, Original, Call, Record, RefreshRead, RefreshWrite, Auth,
         Broken, Fail, Queue, Outside
  <2> QED
    BY <1>3, <2>1 DEF Next, Sweep, SweepRead, SweepOrphan, Flush, vars, RedeliverRead, Elapse, Redeliver, CheckStep,
         CheckStart, CheckPass, CheckRefused, CheckHeld, Resume, SetDisabled, Outside
<1>4. UNCHANGED fan => Turn'
  BY DEF Turn
<1> QED
  BY <1>1, <1>2, <1>3, <1>4 DEF FanOut

\* Only a carrier, a redelivery or the fan-out gives a row another status.
LEMMA StatusMoves ==
  ASSUME Typed, [Next]_vars, NEW e \in Delivery, row'[e].status # row[e].status
  PROVE  \/ \E w \in Workers : Carrying(w, e)
         \/ "redelivered" \in excuse'[e]
         \/ fan[Kind(e)].pc = "run"
<1>1. ASSUME NEW d \in Delivery, SweepOrphan(d) \/ Elapse(d) \/ \E i \in Integrations : Resume(i, d) PROVE FALSE
  BY <1>1, DateSame DEF SweepOrphan, Elapse, Resume, SameRows
<1>2. ASSUME NEW d \in Delivery, Redeliver(d) PROVE "redelivered" \in excuse'[e]
  BY <1>2 DEF Redeliver, Typed, TypeOK
<1>3. ASSUME NEW k \in Kinds, FanOut(k) PROVE fan[Kind(e)].pc = "run"
  <2>1. PICK i \in Integrations : FanUpsert(k, i)
    BY <1>3 DEF FanOut, FanStart, FanQueue
  <2>2. e = <<i, k>>
    BY <2>1, DeliveryOf DEF FanUpsert, Typed, TypeOK
  <2> QED
    BY <2>1, <2>2, DeliveryOf DEF FanUpsert
<1>4. ASSUME NEW w \in Workers, NEW d \in Delivery, Take(w, d) \/ Step(w, d) \/ StoreError(w, d) \/ Crash(w, d)
      PROVE  \E v \in Workers : Carrying(v, e)
  <2>1. CASE row' = [row EXCEPT ![d].next = "null"] \/ row' = [row EXCEPT ![d].next = "later"] \/ UNCHANGED row
    BY <2>1, DateSame DEF SameRows
  <2>2. CASE Record(w, d) \/ Fail(w, d)
    <3>1. e = d
      BY <2>2 DEF Record, Fail, Typed, TypeOK
    <3> QED
      BY <2>2, <3>1 DEF Record, Fail, Carrying, At, Sending
  <2> QED
    BY <1>4, <2>1, <2>2 DEF Take, Step, StoreError, Crash, Hold, Claim, Original, Call, RefreshRead, RefreshWrite,
         Auth, Broken, Queue
<1>5. ASSUME \/ SweepRead \/ Flush \/ UNCHANGED vars \/ \E k \in Kinds : RedeliverRead(k)
             \/ \E i \in Integrations : \/ CheckPass(i) \/ CheckRefused(i) \/ CheckHeld(i)
                                       \/ \E b \in BOOLEAN : CheckStart(i, b) \/ SetDisabled(i, b)
      PROVE  FALSE
  BY <1>5 DEF SweepRead, Flush, vars, RedeliverRead, CheckStart, CheckPass, CheckRefused, CheckHeld, SetDisabled,
         history, Outside
<1> QED
  BY <1>1, <1>2, <1>3, <1>4, <1>5 DEF Next, Sweep, CheckStep

LEMMA GaveUpStays ==
  ASSUME Typed, Firm, [Next]_vars, NEW d \in Delivery, Kind(d) = "repeat", row[d].status # "NONE", GaveUp(d)
  PROVE  GaveUp(d)'
<1> DEFINE o == First(d)
<1>1. SUFFICES ASSUME o \in Delivery, excuse'[o] = {} PROVE row'[o].status \in {"NONE", "DEAD"}
  BY DEF GaveUp
<1>2. excuse[o] = {} /\ row[o].status \in {"NONE", "DEAD"}
  BY <1>1, ExcuseGrows DEF GaveUp
<1>3. \A w \in Workers : ~Carrying(w, o)
  BY <1>1, <1>2 DEF Firm, Single, Once, Clean, Unsent
<1>4. Kind(o) = "new" /\ "new" \in Kinds /\ "repeat" \in Kinds
  BY <1>1, DeliveryOf DEF First, Kind
<1>5. fan["repeat"].pc # "none"
  BY DeliveryOf DEF Firm, Order, Fanned
<1>6. fan[Kind(o)].pc # "run"
  BY <1>4, <1>5 DEF Firm, Turn
<1> QED
  BY <1>1, <1>2, <1>3, <1>6, StatusMoves

\* A worker has its own card, or asks for the original, only from its own call of Original.
LEMMA OwnMoves ==
  ASSUME Typed, [Next]_vars, NEW v \in Workers, NEW e \in Delivery, On(v, e)'
  PROVE  /\ work'[v].own => (On(v, e) /\ work[v].own) \/ Original(v, e)
         /\ At(v, "original")' => (On(v, e) /\ At(v, "original")) \/ (On(v, e) /\ Kind(e) = "repeat")
<1> DEFINE Same == On(v, e) /\ work'[v].own = work[v].own
                   /\ (At(v, "original")' => At(v, "original") \/ Kind(e) = "repeat")
<1> SUFFICES ASSUME ~Same, ~(On(v, e) /\ Original(v, e)) PROVE ~work'[v].own /\ ~At(v, "original")'
  BY DEF Original
<1>1. UNCHANGED work => Same
  BY DEF On, At
<1>2. ASSUME NEW w \in Workers, Stop(w) PROVE Same
  BY <1>2, IdleTyped DEF Stop, On, At, Typed, TypeOK
<1>3. ASSUME NEW w \in Workers, NEW s \in Steps \ {"original"}, Goto(w, s) PROVE Same
  <2>1. work'[v].on = work[v].on /\ work'[v].own = work[v].own /\ work'[v].pc \in {s, work[v].pc}
    BY <1>3 DEF Goto, Typed, TypeOK, Work
  <2> QED
    BY <2>1 DEF On, At
<1>4. ASSUME NEW w \in Workers, NEW d \in Delivery, Claim(w, d) PROVE Same
  <2>1. CASE Goto(w, "original") /\ Kind(d) = "repeat"
    <3>1. work'[v].on = work[v].on /\ work'[v].own = work[v].own /\ (v # w => work'[v].pc = work[v].pc)
      BY <2>1 DEF Goto, Typed, TypeOK, Work
    <3>2. v = w => e = d
      BY <1>4, <3>1 DEF Claim, On
    <3> QED
      BY <2>1, <3>1, <3>2 DEF On, At
  <2> QED
    BY <1>2, <1>3, <1>4, <2>1 DEF Claim, Steps
<1>5. ASSUME NEW w \in Workers, NEW d \in Delivery, Original(w, d) PROVE Same
  <2>1. CASE Goto(w, "fail")
    BY <1>3, <2>1 DEF Steps
  <2>2. CASE \E b \in BOOLEAN : work' = [work EXCEPT ![w].pc = "call", ![w].own = b]
    <3>1. work'[v].on = work[v].on /\ (v # w => work'[v] = work[v])
      BY <2>2 DEF Typed, TypeOK, Work
    <3>2. v # w
      BY <1>5, <3>1 DEF Original, On
    <3> QED
      BY <3>1, <3>2 DEF On, At
  <2> QED
    BY <1>5, <2>1, <2>2 DEF Original
<1>6. ASSUME NEW w \in Workers, NEW s \in Steps \ {"original"}, NEW b \in BOOLEAN, NEW l \in LeadStatus,
             \/ work' = [work EXCEPT ![w].pc = s, ![w].sent = b]
             \/ work' = [work EXCEPT ![w].pc = s, ![w].lead = l]
      PROVE  Same
  <2>1. work'[v].on = work[v].on /\ work'[v].own = work[v].own /\ work'[v].pc \in {s, work[v].pc}
    <3>1. CASE work' = [work EXCEPT ![w].pc = s, ![w].sent = b]
      BY <3>1 DEF Typed, TypeOK, Work
    <3>2. CASE work' = [work EXCEPT ![w].pc = s, ![w].lead = l]
      BY <3>2 DEF Typed, TypeOK, Work
    <3> QED
      BY <1>6, <3>1, <3>2
  <2> QED
    BY <2>1 DEF On, At
<1>7. ASSUME NEW w \in Workers, NEW d \in Delivery, Take(w, d) PROVE ~work'[v].own /\ ~At(v, "original")'
  <2>1. work'[w].own = FALSE /\ work'[w].pc \in {"claim", "hold"} /\ \A u \in Workers \ {w} : work'[u] = work[u]
    BY <1>1, <1>7 DEF Take, Typed, TypeOK, IdleWork
  <2> QED
    BY <2>1 DEF On, At
<1>8. ASSUME NEW w \in Workers, NEW d \in Delivery, Step(w, d) \/ StoreError(w, d) \/ Crash(w, d) PROVE Same
  <2>1. CASE Record(w, d)
    BY <1>6, <2>1 DEF Record, Steps, LeadStatus
  <2>2. CASE Fail(w, d)
    <3>1. work' = [work EXCEPT ![w].pc = "read", ![w].sent = FALSE]
          \/ work' = [work EXCEPT ![w].pc = "queue", ![w].sent = FALSE]
      BY <2>2 DEF Fail
    <3> QED
      BY <1>6, <3>1 DEF Steps, LeadStatus
  <2>3. CASE RefreshRead(w, d)
    BY <1>2, <1>6, <2>3, LeadOfTyped DEF RefreshRead, Steps
  <2> QED
    BY <1>2, <1>3, <1>4, <1>5, <1>8, <2>1, <2>2, <2>3 DEF Step, StoreError, Crash, Hold, Call, RefreshWrite, Auth,
       Broken, Queue, Steps
<1>9. ASSUME ~\E w \in Workers, d \in Delivery : Take(w, d) \/ Step(w, d) \/ StoreError(w, d) \/ Crash(w, d)
      PROVE  UNCHANGED work
  BY <1>9 DEF Next, Sweep, SweepRead, SweepOrphan, Flush, vars, RedeliverRead, Elapse, Redeliver, CheckStep,
         CheckStart, CheckPass, CheckRefused, CheckHeld, Resume, SetDisabled, Outside, FanOut, FanStart, FanUpsert,
         FanQueue
<1> QED
  BY <1>1, <1>7, <1>8, <1>9

\* The only way onto the list of own cards is a call of a worker that has one.
LEMMA OwnGrows ==
  ASSUME Typed, [Next]_vars, NEW d \in Delivery, d \in own'
  PROVE  d \in own \/ \E w \in Workers : On(w, d) /\ work[w].own
<1>1. ASSUME NEW w \in Workers, NEW c \in Delivery, Take(w, c) \/ Step(w, c) \/ StoreError(w, c) \/ Crash(w, c)
      PROVE  d \in own \/ (On(w, d) /\ work[w].own)
  <2>1. CASE Call(w, c)
    BY <2>1 DEF Call
  <2> QED
    BY <1>1, <2>1 DEF Take, Step, StoreError, Crash, Hold, Claim, Original, Record, RefreshRead, RefreshWrite,
         Auth, Broken, Fail, Queue, history
<1> QED
  BY <1>1 DEF Next, Sweep, SweepRead, SweepOrphan, Flush, vars, RedeliverRead, Elapse, Redeliver, CheckStep,
         CheckStart, CheckPass, CheckRefused, CheckHeld, Resume, SetDisabled, Outside, FanOut, FanStart, FanUpsert,
         FanQueue, history

LEMMA NextCards == ASSUME Typed, Firm, Cards, [Next]_vars PROVE Cards'
<1>1. ASSUME NEW d \in Delivery, row[d].status # "NONE" PROVE row'[d].status # "NONE"
  <2>1. CASE \E w \in Workers, c \in Delivery : Record(w, c) \/ Fail(w, c)
    BY <1>1, <2>1 DEF Record, Fail, Typed, TypeOK
  <2>2. CASE \E c \in Delivery : Redeliver(c)
    BY <1>1, <2>2 DEF Redeliver, Typed, TypeOK
  <2>3. CASE \E k \in Kinds, i \in Integrations : FanUpsert(k, i)
    BY <1>1, <2>3, DeliveryOf DEF FanUpsert, Typed, TypeOK
  <2>4. CASE \/ UNCHANGED row
             \/ \E c \in Delivery, x \in {"null", "due", "later"} : row' = [row EXCEPT ![c].next = x]
    BY <1>1, <2>4, DateSame DEF SameRows
  <2>5. ASSUME NEW w \in Workers, NEW c \in Delivery, Take(w, c) \/ Step(w, c) \/ StoreError(w, c) \/ Crash(w, c)
        PROVE  row'[d].status # "NONE"
    BY <2>1, <2>4, <2>5 DEF Take, Step, StoreError, Crash, Hold, Claim, Original, Call, RefreshRead, RefreshWrite,
         Auth, Broken, Queue
  <2> QED
    BY <2>2, <2>3, <2>4, <2>5 DEF Next, Sweep, SweepRead, SweepOrphan, Flush, vars, RedeliverRead, Elapse, CheckStep,
         CheckStart, CheckPass, CheckRefused, CheckHeld, Resume, SetDisabled, Outside, FanOut, FanStart,
         FanQueue, history
<1>2. \A w \in Workers, d \in Delivery : On(w, d) => row[d].status # "NONE"
  BY DEF Firm, Order, Known
<1>3. ASSUME NEW d \in own' PROVE Kind(d) = "repeat" /\ row'[d].status # "NONE" /\ GaveUp(d)'
  <2>1. d \in Delivery
    BY NextTyped DEF Typed, TypeOK
  <2>2. Kind(d) = "repeat" /\ row[d].status # "NONE" /\ GaveUp(d)
    BY <1>2, <2>1, OwnGrows DEF Cards
  <2> QED
    BY <1>1, <2>1, <2>2, GaveUpStays
<1>4. ASSUME NEW w \in Workers, NEW d \in Delivery, On(w, d)', work'[w].own PROVE Kind(d) = "repeat" /\ GaveUp(d)'
  <2>1. CASE On(w, d) /\ work[w].own
    BY <1>2, <2>1, GaveUpStays DEF Cards
  <2>2. CASE Original(w, d)
    <3>1. Kind(d) = "repeat" /\ row[d].status # "NONE"
      BY <1>2, <2>2 DEF Cards, Original
    <3>2. CASE Goto(w, "fail")
      <4>1. On(w, d) /\ work[w].own
        BY <1>4, <2>2, <3>2 DEF Original, Goto, Typed, TypeOK, Work
      <4> QED
        BY <2>1, <4>1
    <3>3. CASE work' = [work EXCEPT ![w].pc = "call",
                          ![w].own = ~(First(d) \in Delivery /\ row[First(d)].status = "SENT")]
               /\ ~(First(d) \in Delivery /\ OnItsWay(First(d)))
      <4>1. ~(First(d) \in Delivery /\ row[First(d)].status = "SENT")
        BY <1>4, <3>3 DEF Typed, TypeOK, Work
      <4>2. GaveUp(d)
        BY <3>3, <4>1 DEF GaveUp, OnItsWay, Unsent, Typed, TypeOK, Row, DeliveryStatus
      <4> QED
        BY <3>1, <4>2, GaveUpStays
    <3> QED
      BY <2>2, <3>2, <3>3 DEF Original, First
  <2> QED
    BY <1>4, <2>1, <2>2, OwnMoves
<1>5. ASSUME NEW w \in Workers, NEW d \in Delivery, On(w, d)', At(w, "original")' PROVE Kind(d) = "repeat"
  BY <1>5, OwnMoves DEF Cards
<1> QED
  BY <1>3, <1>4, <1>5 DEF Cards

LEMMA CardsAlways == Spec => [](Firm /\ Cards)
<1>1. ASSUME Init PROVE Turn /\ Cards
  <2>1. \A w \in Workers : work[w].on = {}
    BY <1>1, IdleTyped DEF Init
  <2>2. \A w \in Workers, d \in Delivery : ~On(w, d)
    BY <2>1 DEF On
  <2>3. own = {} /\ \A k \in Kinds : fan[k].pc = "none"
    BY <1>1 DEF Init
  <2> QED
    BY <2>2, <2>3 DEF Turn, Cards
<1>2. Init => Firm /\ Cards
  BY <1>1, InitOrder DEF Firm
<1>3. Typed /\ Order /\ Single /\ [Next]_vars => Order' /\ Single'
  BY FanOrder, OtherOrder, WorkOrder, OtherSingle, WorkSingle DEF Next
<1>4. Typed /\ Firm /\ Cards /\ [Next]_vars => Firm' /\ Cards'
  BY <1>3, NextTurn, NextCards DEF Firm
<1> QED
  BY <1>2, <1>4, TypedAlways, PTL DEF Spec

\* A repeat makes a CRM lead of its own only if the original is never delivered, answers
\* lost, reopened rows and redeliveries aside.
THEOREM OneCardEach == Spec => []OneCard
<1>1. Typed /\ Firm /\ Cards => OneCard
  <2> SUFFICES ASSUME Typed, Firm, Cards, NEW d \in own, First(d) \in Delivery, got[First(d)] > 0
               PROVE  excuse[First(d)] # {}
    BY DEF OneCard, First
  <2>1. SUFFICES ASSUME excuse[First(d)] = {} PROVE FALSE
    OBVIOUS
  <2>2. row[First(d)].status = "DEAD"
    BY <2>1 DEF Cards, GaveUp, Firm, Order, Known
  <2>3. PICK w \in Workers : On(w, First(d)) /\ At(w, "record")
    BY <2>1, <2>2 DEF Firm, Single, Once, Clean
  <2> QED
    BY <2>1, <2>2, <2>3 DEF Firm, Single, Once, Clean, Carrying, At, Sending, Unsent
<1> QED
  BY <1>1, CardsAlways, TypedAlways, PTL
=============================================================================
