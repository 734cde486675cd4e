------------------------------- MODULE Billing -------------------------------
(***************************************************************************)
(* Tariff payments (lib/billing/payments.ts, payme.ts, click.ts): checkout *)
(* orders of one workspace, the callbacks of Payme and Click that move     *)
(* them, handled by the web process await by await, and the plan of the    *)
(* workspace that they extend or take back.                                *)
(***************************************************************************)
EXTENDS Integers, FiniteSets

CONSTANTS
  Payments,    \* the checkouts of the workspace, of one month each
  Payme,       \* those paid through Payme; the others through Click
  Plans,       \* the paid tariffs
  Attempts,    \* the provider's transactions of one payment
  Calls,       \* callbacks being handled at a time
  MaxTrouble   \* bound: crashes, and calls repeated before the earlier one is answered

ASSUME BillingAssumption ==
  /\ Payme \subseteq Payments /\ "start" \notin Plans /\ MaxTrouble \in Nat

VARIABLES
  order,    \* Payment: its row, with the plan it buys
  plan,     \* the workspace: planSlug, and planExpiresAt in months from now
  call,     \* what each callback being handled is doing
  applied,  \* history: how often the plan was extended for a payment
  revoked,  \* history: how often its month was taken back
  told,     \* history: the payments the provider was told are performed
  crossed,  \* history: the payments whose calls crossed or died
  clash,    \* history: the plan was written over a later write of another call
  elapsed,  \* history: a month has passed
  fuel

vars == <<order, plan, call, applied, revoked, told, crossed, clash, elapsed, fuel>>
history == <<applied, revoked, told, crossed, clash, elapsed>>

Status == {"NONE", "CREATED", "PENDING", "PAID", "CANCELED"}
State == {0, 1, 2, -1, -2}
\* trans: providerTransId; old: providerTime is more than twelve hours ago.
Order == [status : Status, state : State, trans : SUBSET Attempts, old : BOOLEAN, plan : Plans \cup {"start"}]
NoOrder == [status |-> "NONE", state |-> 0, trans |-> {}, old |-> FALSE, plan |-> "start"]
Plan == [slug : Plans \cup {"start"}, until : Nat]
Start == [slug |-> "start", until |-> 0]

Methods(p) == IF p \in Payme THEN {"create", "perform", "cancel"} ELSE {"prepare", "complete", "failed"}
Steps == {"idle", "create", "order", "claim", "perform", "pay", "apply", "applied", "answer",
          "cancel", "cancelled", "revoke", "revoked", "prepare", "prepared", "complete", "failed", "refused"}
\* state and plan: the copies a later write is computed from.
Call == [pc : Steps, on : SUBSET Payments, by : SUBSET Attempts, state : State, plan : Plan]
IdleCall == [pc |-> "idle", on |-> {}, by |-> {}, state |-> 0, plan |-> Start]

-----------------------------------------------------------------------------
At(c, p, step) == call[c].on = {p} /\ call[c].pc = step
Goto(c, step) == call' = [call EXCEPT ![c].pc = step]
End(c) == call' = [call EXCEPT ![c] = IdleCall]
Mine(c, p) == order[p].trans = call[c].by
Trouble == fuel > 0 /\ fuel' = fuel - 1

\* The calls a provider waits for before it sends another about <<p, a>>.
Open(p, a) == {d \in Calls : call[d].on = {p} /\ (p \in Payme => call[d].by = {a})}

Receive(c, p, a, method) ==
  /\ call[c].pc = "idle" /\ order[p].status # "NONE" /\ method \in Methods(p)
  /\ call' = [call EXCEPT ![c] = [IdleCall EXCEPT !.pc = method, !.on = {p}, !.by = {a}]]
  /\ IF Open(p, a) = {} THEN UNCHANGED <<crossed, fuel>>
     ELSE crossed' = crossed \cup {p} /\ Trouble
  /\ UNCHANGED <<order, plan, applied, revoked, told, clash, elapsed>>

\* createCheckout.
Checkout(p) ==
  /\ order[p].status = "NONE"
  /\ \E s \in Plans : order' = [order EXCEPT ![p].status = "CREATED", ![p].plan = s]
  /\ UNCHANGED <<plan, call, history, fuel>>

-----------------------------------------------------------------------------
(* Payme: CreateTransaction *)

CreateLook(c, p) ==
  /\ At(c, p, "create")
  /\ IF ~Mine(c, p) THEN Goto(c, "order")
     ELSE IF order[p].state = 1 /\ order[p].old
          THEN call' = [call EXCEPT ![c].pc = "cancelled", ![c].state = order[p].state]
          ELSE End(c)
  /\ UNCHANGED <<order, plan, history, fuel>>

\* orderFor, and the order is busy with another transaction.
CreateOrder(c, p) ==
  /\ At(c, p, "order")
  /\ IF order[p].status \in {"PAID", "CANCELED"} \/ (order[p].state = 1 /\ ~Mine(c, p))
     THEN End(c) ELSE Goto(c, "claim")
  /\ UNCHANGED <<order, plan, history, fuel>>

FreeAlways(p) == TRUE
Free(p) == order[p].state = 0 /\ order[p].status = "CREATED"

CreateClaim(c, p) ==
  /\ At(c, p, "claim")
  /\ order' = IF Free(p) THEN [order EXCEPT ![p] = [@ EXCEPT !.status = "PENDING", !.state = 1,
                                                            !.trans = call[c].by, !.old = FALSE]]
              ELSE order
  /\ End(c)
  /\ UNCHANGED <<plan, history, fuel>>

-----------------------------------------------------------------------------
(* Payme: PerformTransaction.  Click: Complete *)

PerformLoad(c, p) ==
  /\ At(c, p, "perform")
  /\ IF ~Mine(c, p) \/ order[p].state \notin {1, 2} THEN End(c) /\ UNCHANGED told
     ELSE IF order[p].state = 2 THEN End(c) /\ told' = told \cup {p}
     ELSE /\ IF order[p].old THEN call' = [call EXCEPT ![c].pc = "cancelled", ![c].state = order[p].state]
             ELSE Goto(c, "pay")
          /\ UNCHANGED told
  /\ UNCHANGED <<order, plan, applied, revoked, crossed, clash, elapsed, fuel>>

CompleteLoad(c, p) ==
  /\ \E step \in {"complete", "failed"} :
       /\ At(c, p, step)
       /\ IF order[p].status \in {"PAID", "CANCELED"} \/ ~Mine(c, p) THEN End(c)
          ELSE Goto(c, IF step = "complete" THEN "pay" ELSE "refused")
  /\ UNCHANGED <<order, plan, history, fuel>>

PayableOpen(p) == order[p].status \in {"PENDING", "PAID"}
Payable(p) == IF p \in Payme THEN order[p].state = 1 ELSE order[p].status = "PENDING"

\* The updateMany that only one call wins.  Click is answered Success either way.
Pay(c, p) ==
  /\ At(c, p, "pay")
  /\ IF Payable(p)
     THEN /\ order' = [order EXCEPT ![p].status = "PAID", ![p].state = 2]
          /\ Goto(c, "apply")
          /\ UNCHANGED told
     ELSE /\ UNCHANGED order
          /\ IF p \in Payme THEN Goto(c, "answer") /\ UNCHANGED told
             ELSE End(c) /\ told' = told \cup {p}
  /\ UNCHANGED <<plan, applied, revoked, crossed, clash, elapsed, fuel>>

\* applyPaidPlan reads the workspace ...
ApplyRead(c, p) ==
  /\ At(c, p, "apply")
  /\ call' = [call EXCEPT ![c].pc = "applied", ![c].plan = plan]
  /\ UNCHANGED <<order, plan, history, fuel>>

ExtendedNow(w, s) == [slug |-> s, until |-> 1]
\* The same plan continues from its end, another one starts now.
Extended(w, s) == [slug |-> s, until |-> IF w.slug = s THEN w.until + 1 ELSE 1]

\* ... and writes it.
ApplyWrite(c, p) ==
  /\ At(c, p, "applied")
  /\ plan' = Extended(call[c].plan, order[p].plan)
  /\ clash' = (clash \/ plan # call[c].plan)
  /\ applied' = [applied EXCEPT ![p] = @ + 1]
  /\ IF p \in Payme THEN Goto(c, "answer") /\ UNCHANGED told
     ELSE End(c) /\ told' = told \cup {p}
  /\ UNCHANGED <<order, revoked, crossed, elapsed, fuel>>

\* The row is read again for the answer.
Answer(c, p) ==
  /\ At(c, p, "answer")
  /\ told' = IF order[p].state = 2 THEN told \cup {p} ELSE told
  /\ End(c)
  /\ UNCHANGED <<order, plan, applied, revoked, crossed, clash, elapsed, fuel>>

-----------------------------------------------------------------------------
(* Payme: CancelTransaction, and the twelve hours of a created one *)

CancelLoad(c, p) ==
  /\ At(c, p, "cancel")
  /\ IF ~Mine(c, p) \/ order[p].state < 0 THEN End(c)
     ELSE call' = [call EXCEPT ![c].pc = "cancelled", ![c].state = order[p].state]
  /\ UNCHANGED <<order, plan, history, fuel>>

CancelledPlain(s) == -1
Cancelled(s) == IF s = 2 THEN -2 ELSE -1

\* cancel: by id, from the state that was read.
CancelWrite(c, p) ==
  LET state == Cancelled(call[c].state) IN
  /\ At(c, p, "cancelled")
  /\ order' = [order EXCEPT ![p].status = "CANCELED", ![p].state = state]
  /\ IF state = -2 THEN Goto(c, "revoke") ELSE End(c)
  /\ UNCHANGED <<plan, history, fuel>>

\* revokePaidPlan: a plan that is another one by now is left alone.
RevokeRead(c, p) ==
  /\ At(c, p, "revoke")
  /\ IF plan.slug # order[p].plan
     THEN End(c) /\ revoked' = [revoked EXCEPT ![p] = @ + 1]
     ELSE call' = [call EXCEPT ![c].pc = "revoked", ![c].plan = plan] /\ UNCHANGED revoked
  /\ UNCHANGED <<order, plan, applied, told, crossed, clash, elapsed, fuel>>

ShortenedAlways(w, n) == [w EXCEPT !.until = n]
\* What is over falls back to Start; otherwise only the date is written.
Shortened(w, n) == IF n > 0 THEN [w EXCEPT !.until = n] ELSE Start

RevokeWrite(c, p) ==
  /\ At(c, p, "revoked")
  /\ plan' = Shortened(plan, call[c].plan.until - 1)
  /\ clash' = (clash \/ plan # call[c].plan)
  /\ revoked' = [revoked EXCEPT ![p] = @ + 1]
  /\ End(c)
  /\ UNCHANGED <<order, applied, told, crossed, elapsed, fuel>>

-----------------------------------------------------------------------------
(* Click: Prepare, and Complete of a payment that failed *)

PrepareLoad(c, p) ==
  /\ At(c, p, "prepare")
  /\ IF order[p].status \in {"PAID", "CANCELED"} \/ (order[p].trans # {} /\ ~Mine(c, p))
     THEN End(c) ELSE Goto(c, "prepared")
  /\ UNCHANGED <<order, plan, history, fuel>>

\* By id, whatever the order has become.
PrepareWrite(c, p) ==
  /\ At(c, p, "prepared")
  /\ order' = [order EXCEPT ![p] = [@ EXCEPT !.status = "PENDING", !.state = 1, !.trans = call[c].by]]
  /\ End(c)
  /\ UNCHANGED <<plan, history, fuel>>

RefuseWrite(c, p) ==
  /\ At(c, p, "refused")
  /\ order' = [order EXCEPT ![p].status = "CANCELED", ![p].state = -1]
  /\ End(c)
  /\ UNCHANGED <<plan, history, fuel>>

-----------------------------------------------------------------------------
(* Time and faults *)

TwelveHours(p) ==
  /\ p \in Payme /\ order[p].state = 1 /\ ~order[p].old
  /\ order' = [order EXCEPT ![p].old = TRUE]
  /\ UNCHANGED <<plan, call, history, fuel>>

\* Not between the two queries of one call.
Month ==
  /\ plan.until > 0 /\ \A c \in Calls : call[c].pc \notin {"applied", "revoked"}
  /\ plan' = [plan EXCEPT !.until = @ - 1]
  /\ elapsed' = TRUE
  /\ UNCHANGED <<order, call, applied, revoked, told, crossed, clash, fuel>>

\* The web process, or its database, fails in the middle of a call.
Crash(c, p) ==
  /\ call[c].on = {p} /\ Trouble
  /\ crossed' = crossed \cup {p}
  /\ End(c)
  /\ UNCHANGED <<order, plan, applied, revoked, told, clash, elapsed>>

-----------------------------------------------------------------------------
Init ==
  /\ order = [p \in Payments |-> NoOrder]
  /\ plan = Start
  /\ call = [c \in Calls |-> IdleCall]
  /\ applied = [p \in Payments |-> 0] /\ revoked = [p \in Payments |-> 0]
  /\ told = {} /\ crossed = {} /\ clash = FALSE /\ elapsed = FALSE
  /\ fuel = MaxTrouble

Step(c, p) ==
  \/ CreateLook(c, p) \/ CreateOrder(c, p) \/ CreateClaim(c, p)
  \/ PerformLoad(c, p) \/ CompleteLoad(c, p) \/ Pay(c, p)
  \/ ApplyRead(c, p) \/ ApplyWrite(c, p) \/ Answer(c, p)
  \/ CancelLoad(c, p) \/ CancelWrite(c, p) \/ RevokeRead(c, p) \/ RevokeWrite(c, p)
  \/ PrepareLoad(c, p) \/ PrepareWrite(c, p) \/ RefuseWrite(c, p)

Next ==
  \/ \E p \in Payments : Checkout(p) \/ TwelveHours(p)
  \/ \E c \in Calls, p \in Payments :
       \/ Step(c, p) \/ Crash(c, p)
       \/ \E a \in Attempts, method \in Methods(p) : Receive(c, p, a, method)
  \/ Month

Spec == Init /\ [][Next]_vars

-----------------------------------------------------------------------------
(* Properties *)

TypeOK ==
  /\ order \in [Payments -> Order]
  /\ plan \in Plan
  /\ call \in [Calls -> Call]
  /\ applied \in [Payments -> Nat] /\ revoked \in [Payments -> Nat]
  /\ told \subseteq Payments /\ crossed \subseteq Payments
  /\ clash \in BOOLEAN /\ elapsed \in BOOLEAN
  /\ fuel \in 0..MaxTrouble

Quiet(p) == \A c \in Calls : call[c].on # {p}

\* A payment extends the plan once, however often and in whatever order its callbacks
\* come; on Click only as long as Click waits for its answers.
ExtendsOnce == \A p \in Payments : applied[p] > 1 => p \notin Payme /\ p \in crossed

\* "Moves it to PAID, and only then the plan is extended" (payments.ts:4): with no call
\* under way, a PAID payment has its month, and a cancelled or open one has none.
PaidIsServed ==
  \A p \in Payments \ crossed :
    Quiet(p) => applied[p] - revoked[p] = IF order[p].status = "PAID" THEN 1 ELSE 0

\* The months of one tariff add up: as many as there are PAID payments, refunds between
\* them taken off, unless two calls wrote the plan over one another.
MonthsAddUp ==
  /\ ~clash /\ ~elapsed /\ crossed = {} /\ (\A p \in Payments : Quiet(p))
  /\ \E s \in Plans : \A p \in Payments : order[p].plan \in {s, "start"}
  => plan.until = Cardinality({p \in Payments : order[p].status = "PAID"})

\* What a provider was told is performed stays paid, or is refunded, never merely undone.
ToldIsPaid == \A p \in told \ crossed : order[p].state \in {2, -2}

\* "One Payment holds one Payme transaction" (payme.ts:8): the second of two that race
\* for an order never takes it over.
OneTransaction ==
  [][\A p \in Payme : order[p].trans # {} => order'[p].trans = order[p].trans]_vars
=============================================================================
