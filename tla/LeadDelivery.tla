---------------------------- MODULE LeadDelivery ----------------------------
(***************************************************************************)
(* The lead delivery outbox (lib/leads/delivery.ts): one LeadDelivery row  *)
(* per lead and integration, the jobs that carry it, the workers that run  *)
(* processDelivery await by await, the minute sweeper, the connection      *)
(* checks that break and repair an integration (lib/integrations), and the *)
(* users who disable it or press "Qayta yuborish".  One customer leaves a  *)
(* number ("new") and may leave it again ("repeat"): two leads.            *)
(***************************************************************************)
EXTENDS Integers, FiniteSets

CONSTANTS
  Integrations,   \* the lead pipelines of the workspace that take this lead
  Crm,            \* those that are amoCRM or Bitrix24; the others are Telegram
  Kinds,          \* {"new"} or {"new", "repeat"}
  Workers,        \* job slots of the lead-assistant worker (concurrency)
  MaxAttempts,    \* MAX_DELIVERY_ATTEMPTS
  ResumeAfter,    \* RESUME_AFTER_PASSES
  MaxJobs,        \* bound: jobs of one delivery that wait at a time
  MaxTrouble      \* bound: crashes, lost answers, database and Redis errors, calls that
                  \* outlive their lease, refused credentials, failing checks and clicks

Delivery == Integrations \X Kinds
Of(d) == d[1]
Kind(d) == d[2]

ASSUME LeadAssumption ==
  /\ Crm \subseteq Integrations /\ Kinds \subseteq {"new", "repeat"}
  /\ MaxAttempts \in Nat \ {0} /\ ResumeAfter \in Nat \ {0} /\ MaxJobs \in Nat \ {0}
  /\ MaxTrouble \in Nat

VARIABLES
  integ,      \* Integration: status and healthOkStreak
  row,        \* LeadDelivery
  lead,       \* Lead.status of the "new" lead
  jobs,       \* how many jobs of a delivery BullMQ holds
  fan,        \* enqueueLeadDeliveries, one call per lead
  work,       \* what each worker is doing
  sweep,      \* the held rows the sweeper has read and not released yet
  check,      \* runConnectionCheck, at most one per integration
  redeliver,  \* the rows redeliverLead has read and not reset yet
  got,        \* history: calls for a delivery the provider has carried out, up to two
  own,        \* history: repeats that made a CRM lead of their own
  tries,      \* history: errors processDelivery caught for a delivery
  excuse,     \* history: why a delivery may have been sent twice
  fuel        \* what is left of the bounds on the environment

vars == <<integ, row, lead, jobs, fan, work, sweep, check, redeliver, got, own, tries, excuse, fuel>>
history == <<got, own, tries, excuse>>

\* A row that enqueueLeadDeliveries has not made is NONE.
DeliveryStatus == {"NONE", "PENDING", "FAILED", "SENT", "DEAD"}
Unsent == {"PENDING", "FAILED"}
\* nextAttemptAt: null, past, or in the future.
Row == [status : DeliveryStatus, next : {"null", "due", "later"}, attempts : 0..MaxAttempts]
NoRow == [status |-> "NONE", next |-> "null", attempts |-> 0]

IntegrationStatus == {"ACTIVE", "BROKEN", "DISABLED"}
LeadStatus == {"NEW", "PARTIAL", "SENT", "FAILED"}

\* todo: the integrations still to serve, active: those ACTIVE when they were read;
\* queue: the row of this integration is made and its job is not queued yet.
Fan == [pc : {"none", "run", "queue", "end"}, todo : SUBSET Integrations,
        active : SUBSET Integrations, cur : SUBSET Integrations]

\* attempts: as loaded; own: no original to attach to; sent: the row is recorded as SENT.
Steps == {"idle", "hold", "claim", "original", "call", "record", "auth", "broken",
          "fail", "queue", "read", "write"}
Sending == {"original", "call", "record"}
Work == [pc : Steps, on : SUBSET Delivery, attempts : 0..MaxAttempts, own : BOOLEAN,
         sent : BOOLEAN, lead : LeadStatus]
IdleWork == [pc |-> "idle", on |-> {}, attempts |-> 0, own |-> FALSE, sent |-> FALSE, lead |-> "NEW"]

Check == [pc : {"idle", "call", "held", "resume"}, status : IntegrationStatus,
          streak : 0..ResumeAfter, manual : BOOLEAN, todo : SUBSET Delivery]
IdleCheck == [pc |-> "idle", status |-> "ACTIVE", streak |-> 0, manual |-> FALSE, todo |-> {}]

-----------------------------------------------------------------------------
(* Helpers *)

At(w, step) == work[w].pc = step
On(w, d) == work[w].on = {d}
Goto(w, step) == work' = [work EXCEPT ![w].pc = step]
Stop(w) == work' = [work EXCEPT ![w] = IdleWork]

Active(i) == integ[i].status = "ACTIVE"

\* enqueueDelivery: the job id carries the time, so no job swallows another.
Queued(d) == [jobs EXCEPT ![d] = IF @ < MaxJobs THEN @ + 1 ELSE @]

Trouble == fuel > 0 /\ fuel' = fuel - 1

\* Some worker has claimed d and has not written the outcome.
InSending(d) == \E w \in Workers : On(w, d) /\ work[w].pc \in Sending \cup {"auth", "fail"}
Excused(d, why) == [excuse EXCEPT ![d] = @ \cup {why}]
\* A write that lets a second worker claim what a first is sending.
Reopens(d) == IF InSending(d) THEN Excused(d, "reopened") ELSE excuse

\* A lead that has rows and none still waiting taken for delivered.
LeadOfEnded(rows) ==
  LET mine == {d \in Delivery : Kind(d) = "new" /\ rows[d].status # "NONE"}
  IN IF \A d \in mine : rows[d].status \notin Unsent THEN "SENT" ELSE "NEW"

\* refreshLeadStatus, the part that computes.
LeadOf(rows) ==
  LET mine == {d \in Delivery : Kind(d) = "new" /\ rows[d].status # "NONE"}
      is(status) == {d \in mine : rows[d].status = status}
  IN IF is("SENT") = mine THEN "SENT"
     ELSE IF is("SENT") # {} THEN "PARTIAL"
     ELSE IF is("DEAD") = mine THEN "FAILED" ELSE "NEW"

Outside == <<fan, sweep, check, redeliver>>

-----------------------------------------------------------------------------
(* enqueueLeadDeliveries *)

\* A repeat comes at the end of another conversation: the first fan-out is over.
FanStart(k) ==
  /\ fan[k].pc = "none"
  /\ \A j \in Kinds \ {k} : k = "repeat" => fan[j].pc = "end"
  /\ LET open == {i \in Integrations : integ[i].status # "DISABLED"} IN
     fan' = [fan EXCEPT ![k] = [pc |-> IF open = {} THEN "end" ELSE "run", todo |-> open,
                                active |-> {i \in open : Active(i)}, cur |-> {}]]
  /\ UNCHANGED <<integ, row, lead, jobs, work, sweep, check, redeliver, history, fuel>>

Served(k, i) ==
  LET rest == fan[k].todo \ {i} IN
  [fan[k] EXCEPT !.pc = IF rest = {} THEN "end" ELSE "run", !.todo = rest, !.cur = {}]

\* A row of an integration that is BROKEN waits with no date and no job.
FanUpsert(k, i) ==
  LET d == <<i, k>>
      active == i \in fan[k].active
  IN
  /\ fan[k].pc = "run" /\ i \in fan[k].todo
  /\ row' = [row EXCEPT ![d] = [status |-> "PENDING", next |-> IF active THEN "due" ELSE "null",
                                attempts |-> 0]]
  /\ fan' = [fan EXCEPT ![k] = IF active THEN [fan[k] EXCEPT !.pc = "queue", !.cur = {i}]
                               ELSE Served(k, i)]
  /\ UNCHANGED <<integ, lead, jobs, work, sweep, check, redeliver, history, fuel>>

\* A Redis error, or a crash, ends the loop: nothing runs the rest of it again.
FanQueue(k, i) ==
  /\ fan[k].pc = "queue" /\ fan[k].cur = {i}
  /\ \/ /\ jobs' = Queued(<<i, k>>)
        /\ fan' = [fan EXCEPT ![k] = Served(k, i)]
        /\ UNCHANGED fuel
     \/ /\ Trouble
        /\ fan' = [fan EXCEPT ![k] = [fan[k] EXCEPT !.pc = "end", !.todo = {}, !.cur = {}]]
        /\ UNCHANGED jobs
  /\ UNCHANGED <<integ, row, lead, work, sweep, check, redeliver, history>>

-----------------------------------------------------------------------------
(* processDelivery *)

\* The row and its integration are loaded together; a job taken early is spent for nothing.
Take(w, d) ==
  /\ At(w, "idle") /\ jobs[d] > 0
  /\ jobs' = [jobs EXCEPT ![d] = @ - 1]
  /\ work' = IF row[d].status \notin Unsent THEN work
             ELSE [work EXCEPT ![w] = [IdleWork EXCEPT !.pc = IF Active(Of(d)) THEN "claim" ELSE "hold",
                                                       !.on = {d}, !.attempts = row[d].attempts]]
  /\ UNCHANGED <<integ, row, lead, Outside, history, fuel>>

Hold(w, d) ==
  /\ At(w, "hold") /\ On(w, d)
  /\ row' = [row EXCEPT ![d].next = "null"]
  /\ excuse' = Reopens(d)
  /\ Stop(w)
  /\ UNCHANGED <<integ, lead, jobs, Outside, got, own, tries, fuel>>

\* Any row that is not sent, leased or not.
ClaimableAlways(d) == row[d].status \in Unsent
Claimable(d) == row[d].status \in Unsent /\ row[d].next # "later"

\* The updateMany that only one worker wins.
Claim(w, d) ==
  /\ At(w, "claim") /\ On(w, d)
  /\ \/ /\ Claimable(d)
        /\ row' = [row EXCEPT ![d].next = "later"]
        /\ Goto(w, IF Kind(d) = "repeat" /\ Of(d) \in Crm THEN "original" ELSE "call")
     \/ /\ ~Claimable(d)
        /\ Stop(w)
        /\ UNCHANGED row
  /\ UNCHANGED <<integ, lead, jobs, Outside, history, fuel>>

OnItsWayUntried(d) == row[d].status = "PENDING"
OnItsWay(d) == row[d].status \in Unsent
\* sendToAmo, originalExternalId: a repeat is a note on the lead the original made;
\* it waits for an original on its way, and makes its own lead after one that gave up.
Original(w, d) ==
  LET original == <<Of(d), "new">> IN
  /\ At(w, "original") /\ On(w, d)
  /\ IF original \in Delivery /\ OnItsWay(original) THEN Goto(w, "fail")
     ELSE work' = [work EXCEPT ![w].pc = "call",
                               ![w].own = ~(original \in Delivery /\ row[original].status = "SENT")]
  /\ UNCHANGED <<integ, row, lead, jobs, Outside, history, fuel>>

\* A refused call that nobody noticed.
CallUnchecked(w, d) ==
  /\ At(w, "call") /\ On(w, d)
  /\ Goto(w, "record")
  /\ \/ got' = [got EXCEPT ![d] = IF @ < 2 THEN @ + 1 ELSE @]
     \/ UNCHANGED got
  /\ UNCHANGED <<integ, row, lead, jobs, Outside, own, tries, excuse, fuel>>

\* The provider carries the call out, or it does and the answer is lost, or refuses it.
Call(w, d) ==
  LET carriedOut == /\ got' = [got EXCEPT ![d] = IF @ < 2 THEN @ + 1 ELSE @]
                    /\ own' = IF work[w].own THEN own \cup {d} ELSE own
  IN
  /\ At(w, "call") /\ On(w, d)
  /\ \/ /\ carriedOut
        /\ Goto(w, "record")
        /\ UNCHANGED <<excuse, fuel>>
     \/ /\ carriedOut /\ Trouble
        /\ excuse' = Excused(d, "lost")
        /\ Goto(w, "fail")
     \/ /\ Goto(w, "fail")
        /\ UNCHANGED <<got, own, excuse, fuel>>
     \/ /\ Of(d) \in Crm /\ Trouble
        /\ Goto(w, "auth")
        /\ UNCHANGED <<got, own, excuse>>
  /\ UNCHANGED <<integ, row, lead, jobs, Outside, tries>>

Record(w, d) ==
  /\ At(w, "record") /\ On(w, d)
  /\ row' = [row EXCEPT ![d] = [status |-> "SENT", next |-> "null",
                                attempts |-> IF @.attempts < MaxAttempts THEN @.attempts + 1
                                             ELSE MaxAttempts]]
  /\ work' = [work EXCEPT ![w].pc = "read", ![w].sent = TRUE]
  /\ UNCHANGED <<integ, lead, jobs, Outside, history, fuel>>

\* refreshLeadStatus: two awaits; a repeat's lead has no "new" rows.
RefreshRead(w, d) ==
  /\ At(w, "read") /\ On(w, d)
  /\ IF Kind(d) = "repeat" THEN Stop(w)
     ELSE work' = [work EXCEPT ![w].pc = "write", ![w].lead = LeadOf(row)]
  /\ UNCHANGED <<integ, row, lead, jobs, Outside, history, fuel>>

RefreshWrite(w) ==
  /\ At(w, "write")
  /\ lead' = work[w].lead
  /\ Stop(w)
  /\ UNCHANGED <<integ, row, jobs, Outside, history, fuel>>

\* A database error after the call lands in the catch of the send, SENT or not.
StoreError(w, d) ==
  /\ On(w, d) /\ (At(w, "record") \/ (work[w].sent /\ work[w].pc \in {"read", "write"}))
  /\ Trouble
  /\ excuse' = Excused(d, "lost")
  /\ Goto(w, "fail")
  /\ UNCHANGED <<integ, row, lead, jobs, Outside, got, own, tries>>

Auth(w, d) ==
  /\ At(w, "auth") /\ On(w, d)
  /\ row' = [row EXCEPT ![d].next = "null"]
  /\ excuse' = IF \E v \in Workers \ {w} : On(v, d) /\ work[v].pc \in Sending
               THEN Excused(d, "reopened") ELSE excuse
  /\ Goto(w, "broken")
  /\ UNCHANGED <<integ, lead, jobs, Outside, got, own, tries, fuel>>

\* markIntegrationBroken, on the copy that was ACTIVE.
Broken(w, d) ==
  /\ At(w, "broken") /\ On(w, d)
  /\ integ' = [integ EXCEPT ![Of(d)] = [status |-> "BROKEN", streak |-> 0]]
  /\ Stop(w)
  /\ UNCHANGED <<row, lead, jobs, Outside, history, fuel>>

OutOfAttemptsEarly(n) == n + 1 >= MaxAttempts
OutOfAttemptsLate(n) == n > MaxAttempts
\* nextRetryDelayMs = null.
OutOfAttempts(n) == n >= MaxAttempts

\* attempts counts from what was loaded, not from what the row now says.
Fail(w, d) ==
  LET attempts == work[w].attempts + 1
      dead == OutOfAttempts(attempts)
  IN
  /\ At(w, "fail") /\ On(w, d)
  /\ tries' = [tries EXCEPT ![d] = IF @ < MaxAttempts THEN @ + 1 ELSE @]
  /\ row' = [row EXCEPT ![d] = [status |-> IF dead THEN "DEAD" ELSE "FAILED", attempts |-> attempts,
                                next |-> IF dead THEN "null" ELSE "later"]]
  /\ work' = [work EXCEPT ![w].pc = IF dead THEN "read" ELSE "queue", ![w].sent = FALSE]
  /\ UNCHANGED <<integ, lead, jobs, Outside, got, own, excuse, fuel>>

Queue(w, d) ==
  /\ At(w, "queue") /\ On(w, d)
  /\ \/ jobs' = Queued(d) /\ UNCHANGED fuel
     \/ Trouble /\ UNCHANGED jobs
  /\ Stop(w)
  /\ UNCHANGED <<integ, row, lead, Outside, history>>

\* A worker dies: the job goes back to the queue once, or is lost with it.
Crash(w, d) ==
  /\ On(w, d) /\ Trouble
  /\ Stop(w)
  /\ jobs' = Queued(d) \/ UNCHANGED jobs
  /\ excuse' = IF At(w, "record") THEN Excused(d, "lost") ELSE excuse
  /\ UNCHANGED <<integ, row, lead, Outside, got, own, tries>>

\* Redis loses every job.
Flush ==
  /\ Trouble /\ \E d \in Delivery : jobs[d] > 0
  /\ jobs' = [d \in Delivery |-> 0]
  /\ UNCHANGED <<integ, row, lead, work, Outside, history>>

\* A retry falls due, or a lease runs out; a call has no timeout and may still be open.
Elapse(d) ==
  /\ row[d].next = "later"
  /\ row' = [row EXCEPT ![d].next = "due"]
  /\ IF InSending(d) THEN Trouble ELSE UNCHANGED fuel
  /\ excuse' = Reopens(d)
  /\ UNCHANGED <<integ, lead, jobs, work, Outside, got, own, tries>>

-----------------------------------------------------------------------------
(* sweepDueDeliveries, every minute *)

\* A sweep that looks only for held rows.
DueNever(d) == FALSE
Due(d) == row[d].status \in Unsent /\ row[d].next = "due" /\ Active(Of(d))
\* Held rows of an integration that is ACTIVE again.
Orphaned(d) == row[d].status \in Unsent /\ row[d].next = "null" /\ Active(Of(d))

\* What is due is only queued again; the held rows are written one by one.
SweepRead ==
  LET orphaned == {d \in Delivery : Orphaned(d)} IN
  /\ sweep = {} /\ (orphaned # {} \/ \E d \in Delivery : Due(d) /\ jobs[d] < MaxJobs)
  /\ sweep' = orphaned
  /\ jobs' = [d \in Delivery |-> IF Due(d) THEN Queued(d)[d] ELSE jobs[d]]
  /\ UNCHANGED <<integ, row, lead, fan, work, check, redeliver, history, fuel>>

\* The date is overwritten whatever the row has become.
SweepOrphan(d) ==
  /\ d \in sweep
  /\ row' = [row EXCEPT ![d].next = "due"]
  /\ excuse' = Reopens(d)
  /\ jobs' = Queued(d)
  /\ sweep' = sweep \ {d}
  /\ UNCHANGED <<integ, lead, fan, work, check, redeliver, got, own, tries, fuel>>

-----------------------------------------------------------------------------
(* runConnectionCheck: every five minutes on an ACTIVE or BROKEN CRM, or on demand *)

CheckStart(i, manual) ==
  /\ check[i].pc = "idle"
  /\ IF manual THEN Trouble
     ELSE i \in Crm /\ integ[i].status # "DISABLED" /\ UNCHANGED fuel
  /\ check' = [check EXCEPT ![i] = [pc |-> "call", status |-> integ[i].status,
                                    streak |-> integ[i].streak, manual |-> manual, todo |-> {}]]
  /\ UNCHANGED <<integ, row, lead, jobs, fan, work, sweep, redeliver, history>>

CheckEnd(i) == check' = [check EXCEPT ![i] = IdleCheck]
\* healthOkStreak is written back only when the copy held one.
Streak(i) == IF check[i].streak # 0 THEN 0 ELSE integ[i].streak

\* One pass is not proof for a background check of a BROKEN integration.
CheckPass(i) ==
  LET c == check[i]
      early == c.status = "BROKEN" /\ ~c.manual /\ c.streak + 1 < ResumeAfter
  IN
  /\ c.pc = "call"
  /\ \/ /\ early
        /\ integ' = [integ EXCEPT ![i].streak = c.streak + 1]
        /\ CheckEnd(i)
     \/ /\ ~early
        /\ integ' = [integ EXCEPT ![i] = [streak |-> Streak(i),
                       status |-> IF c.status = "DISABLED" THEN "DISABLED" ELSE "ACTIVE"]]
        /\ check' = [check EXCEPT ![i].pc = "held"]
  /\ UNCHANGED <<row, lead, jobs, fan, work, sweep, redeliver, history, fuel>>

\* The status written back is that of the copy; a rejected one is BROKEN, disabled or not.
CheckRefused(i) ==
  LET c == check[i] IN
  /\ c.pc = "call" /\ Trouble
  /\ \/ /\ i \in Crm
        /\ integ' = [integ EXCEPT ![i] = [status |-> "BROKEN",
                       streak |-> IF c.status = "ACTIVE" THEN 0 ELSE Streak(i)]]
     \/ integ' = [integ EXCEPT ![i] = [status |-> c.status, streak |-> Streak(i)]]
  /\ CheckEnd(i)
  /\ UNCHANGED <<row, lead, jobs, fan, work, sweep, redeliver, history>>

\* resumeIntegration, when the integration was BROKEN or left a row behind.
CheckHeld(i) ==
  LET waiting == {d \in Delivery : Of(d) = i /\ row[d].status \in Unsent}
      resume == check[i].status = "BROKEN" \/ \E d \in waiting : row[d].next = "null"
  IN
  /\ check[i].pc = "held"
  /\ IF resume /\ waiting # {}
     THEN check' = [check EXCEPT ![i].pc = "resume", ![i].todo = waiting]
     ELSE CheckEnd(i)
  /\ UNCHANGED <<integ, row, lead, jobs, fan, work, sweep, redeliver, history, fuel>>

\* Every row of the list, the ones being sent included; a Redis error ends the loop.
Resume(i, d) ==
  LET rest == check[i].todo \ {d} IN
  /\ check[i].pc = "resume" /\ d \in check[i].todo
  /\ row' = [row EXCEPT ![d].next = "due"]
  /\ excuse' = Reopens(d)
  /\ \/ /\ jobs' = Queued(d)
        /\ IF rest = {} THEN CheckEnd(i) ELSE check' = [check EXCEPT ![i].todo = rest]
        /\ UNCHANGED fuel
     \/ /\ Trouble
        /\ CheckEnd(i)
        /\ UNCHANGED jobs
  /\ UNCHANGED <<integ, lead, fan, work, sweep, redeliver, got, own, tries>>

-----------------------------------------------------------------------------
(* Users *)

\* PATCH disabled: only a DISABLED integration becomes ACTIVE.
SetDisabled(i, disabled) ==
  /\ Trouble
  /\ integ' = [integ EXCEPT ![i].status = IF disabled THEN "DISABLED"
                                          ELSE IF @ = "DISABLED" THEN "ACTIVE" ELSE @]
  /\ UNCHANGED <<row, lead, jobs, work, Outside, history>>

\* redeliverLead of the lead of kind k.
RedeliverRead(k) ==
  LET rows == {d \in Delivery : Kind(d) = k /\ row[d].status \in Unsent \cup {"DEAD"} /\ Active(Of(d))} IN
  /\ redeliver = {} /\ rows # {} /\ Trouble
  /\ redeliver' = rows
  /\ UNCHANGED <<integ, row, lead, jobs, fan, work, sweep, check, history>>

\* PENDING with fresh attempts, whatever the row has become.
Redeliver(d) ==
  /\ d \in redeliver
  /\ row' = [row EXCEPT ![d] = [status |-> "PENDING", next |-> "due", attempts |-> 0]]
  /\ jobs' = Queued(d)
  /\ redeliver' = redeliver \ {d}
  /\ excuse' = [excuse EXCEPT ![d] = @ \cup {"redelivered"}
                  \cup (IF InSending(d) \/ row[d].status = "SENT" THEN {"reopened"} ELSE {})]
  /\ UNCHANGED <<integ, lead, fan, work, sweep, check, got, own, tries, fuel>>

-----------------------------------------------------------------------------
Init ==
  /\ integ = [i \in Integrations |-> [status |-> "ACTIVE", streak |-> 0]]
  /\ row = [d \in Delivery |-> NoRow]
  /\ lead = "NEW"
  /\ jobs = [d \in Delivery |-> 0]
  /\ fan = [k \in Kinds |-> [pc |-> "none", todo |-> {}, active |-> {}, cur |-> {}]]
  /\ work = [w \in Workers |-> IdleWork]
  /\ sweep = {}
  /\ check = [i \in Integrations |-> IdleCheck]
  /\ redeliver = {}
  /\ got = [d \in Delivery |-> 0]
  /\ own = {}
  /\ tries = [d \in Delivery |-> 0]
  /\ excuse = [d \in Delivery |-> {}]
  /\ fuel = MaxTrouble

Step(w, d) ==
  \/ Hold(w, d) \/ Claim(w, d) \/ Original(w, d) \/ Call(w, d) \/ Record(w, d)
  \/ RefreshRead(w, d) \/ RefreshWrite(w) \/ Auth(w, d) \/ Broken(w, d)
  \/ Fail(w, d) \/ Queue(w, d)

FanOut(k) == FanStart(k) \/ \E i \in Integrations : FanUpsert(k, i) \/ FanQueue(k, i)
Sweep == SweepRead \/ \E d \in Delivery : SweepOrphan(d)
CheckStep(i) ==
  \/ CheckPass(i) \/ CheckRefused(i) \/ CheckHeld(i)
  \/ \E d \in Delivery : Resume(i, d)

Next ==
  \/ \E w \in Workers, d \in Delivery : Take(w, d) \/ Step(w, d) \/ StoreError(w, d) \/ Crash(w, d)
  \/ \E d \in Delivery : Elapse(d) \/ Redeliver(d)
  \/ \E k \in Kinds : FanOut(k) \/ RedeliverRead(k)
  \/ \E i \in Integrations :
       \/ CheckStep(i)
       \/ \E b \in BOOLEAN : CheckStart(i, b) \/ SetDisabled(i, b)
  \/ Sweep \/ Flush

Spec == Init /\ [][Next]_vars

\* Workers, the sweeper and the health check run for ever; a lease and a retry delay end.
Fairness ==
  /\ \A w \in Workers, d \in Delivery : WF_vars(Step(w, d)) /\ WF_vars(Take(w, d))
  /\ \A d \in Delivery : WF_vars(Elapse(d)) /\ WF_vars(Redeliver(d))
  /\ \A k \in Kinds : WF_vars(FanOut(k))
  /\ \A i \in Integrations : WF_vars(CheckStep(i)) /\ WF_vars(CheckStart(i, FALSE))
  /\ WF_vars(Sweep)

FairSpec == Spec /\ Fairness

-----------------------------------------------------------------------------
(* Properties *)

TypeOK ==
  /\ integ \in [Integrations -> [status : IntegrationStatus, streak : 0..ResumeAfter]]
  /\ row \in [Delivery -> Row]
  /\ lead \in LeadStatus
  /\ jobs \in [Delivery -> 0..MaxJobs]
  /\ fan \in [Kinds -> Fan]
  /\ work \in [Workers -> Work]
  /\ sweep \in SUBSET Delivery
  /\ check \in [Integrations -> Check]
  /\ redeliver \in SUBSET Delivery
  /\ got \in [Delivery -> 0..2] /\ own \in SUBSET Delivery
  /\ tries \in [Delivery -> 0..MaxAttempts]
  /\ excuse \in [Delivery -> SUBSET {"lost", "reopened", "redelivered"}]
  /\ fuel \in 0..MaxTrouble

\* A row is SENT only if its provider carried a call for it out: no refused,
\* unanswered or repeated call, crash or race records a delivery that was not made.
SentIsDelivered == \A d \in Delivery : row[d].status = "SENT" => got[d] > 0

\* A delivery is given up only after MAX_DELIVERY_ATTEMPTS errors: an expired
\* token, a check or a second worker does not use attempts up (401 and 403 hold
\* the row instead).
DeadIsEarned == \A d \in Delivery : row[d].status = "DEAD" => tries[d] = MaxAttempts

\* The claim makes a delivery reach its provider once; a second time needs a lost
\* answer or error after the call, or a write that reopened the row while it was
\* being sent (a lease that ran out, a resume, the sweeper, a redelivery).
OneCopy == \A d \in Delivery : got[d] > 1 => excuse[d] \cap {"lost", "reopened"} # {}

\* A repeat makes a CRM lead of its own only if the original never gets one,
\* answers lost and redeliveries aside.
OneCard ==
  \A d \in own : LET original == <<Of(d), "new">> IN
    original \in Delivery /\ got[original] > 0 => excuse[original] # {}

\* Every delivery that was written down is sent or given up in the end, unless
\* its integration stays disabled: nothing waits for ever on a lost job, a dead
\* worker, a lease, or an integration that has been repaired.
DeliveryEnds ==
  \A d \in Delivery : <>[](row[d].status \notin Unsent \/ integ[Of(d)].status = "DISABLED")

\* The dashboard calls a lead SENT or PARTIAL only if a provider has it: the status
\* is computed from rows read before, that were reopened or given up since.
LeadIsTrue == lead \in {"SENT", "PARTIAL"} => \E d \in Delivery : Kind(d) = "new" /\ got[d] > 0
=============================================================================
