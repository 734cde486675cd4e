--------------------------- MODULE BillingProofs ---------------------------
(***************************************************************************)
(* Type correctness of the payments and what a provider may rely on, for   *)
(* any number of payments, transactions, overlapping calls and faults.     *)
(* Every step is about one call and one payment, so the invariant is kept  *)
(* payment by payment: a lemma for the others, one per action for its own. *)
(***************************************************************************)
EXTENDS Billing, FiniteSetTheorems, TLAPS

-----------------------------------------------------------------------------
(* Types *)

LEMMA IdleTyped == IdleCall \in Call /\ Start \in Plan /\ IdleCall.pc = "idle" /\ IdleCall.on = {}
  BY DEF IdleCall, Call, Start, Plan, Steps, State

LEMMA EndTyped ==
  ASSUME TypeOK, NEW c \in Calls, End(c)
  PROVE  call' \in [Calls -> Call]
  BY IdleTyped DEF TypeOK, End

LEMMA GotoTyped ==
  ASSUME TypeOK, NEW c \in Calls, NEW s \in Steps, Goto(c, s)
  PROVE  call' \in [Calls -> Call]
  BY DEF TypeOK, Goto, Call

\* A copy is taken along to the next step.
LEMMA CopyTyped ==
  ASSUME TypeOK, NEW c \in Calls, NEW s \in Steps, NEW st \in State, NEW w \in Plan,
         \/ call' = [call EXCEPT ![c].pc = s, ![c].state = st]
         \/ call' = [call EXCEPT ![c].pc = s, ![c].plan = w]
  PROVE  call' \in [Calls -> Call]
  BY DEF TypeOK, Call

LEMMA FuelTyped == ASSUME TypeOK, Trouble \/ UNCHANGED fuel PROVE fuel' \in 0..MaxTrouble
  BY BillingAssumption DEF TypeOK, Trouble

LEMMA OrderOf == ASSUME TypeOK, NEW p \in Payments PROVE order[p] \in Order
  BY DEF TypeOK

LEMMA InitTyped == Init => TypeOK
<1> SUFFICES ASSUME Init PROVE TypeOK
  OBVIOUS
<1>1. NoOrder \in Order
  BY DEF NoOrder, Order, Status, State
<1>2. order \in [Payments -> Order] /\ plan \in Plan /\ call \in [Calls -> Call]
  BY <1>1, IdleTyped DEF Init
<1>3. applied \in [Payments -> Nat] /\ revoked \in [Payments -> Nat]
  BY DEF Init
<1>4. fuel \in 0..MaxTrouble
  BY BillingAssumption DEF Init
<1> QED
  BY <1>2, <1>3, <1>4 DEF Init, TypeOK

LEMMA ReceiveTyped ==
  ASSUME TypeOK, NEW c \in Calls, NEW p \in Payments, NEW a \in Attempts, NEW m \in Methods(p),
         Receive(c, p, a, m)
  PROVE  TypeOK'
<1> DEFINE x == [IdleCall EXCEPT !.pc = m, !.on = {p}, !.by = {a}]
<1>1. m \in Steps
  BY DEF Methods, Steps
<1>2. x \in Call
  BY <1>1, IdleTyped DEF IdleCall, Call, Start, Plan, State
<1>3. call' = [call EXCEPT ![c] = x]
  BY DEF Receive
<1> HIDE DEF x
<1>4. call' \in [Calls -> Call]
  BY <1>2, <1>3 DEF TypeOK
<1>5. fuel' \in 0..MaxTrouble /\ crossed' \subseteq Payments
  BY FuelTyped DEF Receive, TypeOK
<1> QED
  BY <1>4, <1>5 DEF Receive, TypeOK

LEMMA CheckoutTyped ==
  ASSUME TypeOK, NEW p \in Payments, Checkout(p)
  PROVE  TypeOK'
<1>1. PICK s \in Plans : order' = [order EXCEPT ![p].status = "CREATED", ![p].plan = s]
  BY DEF Checkout
<1>2. order' = [order EXCEPT ![p] = [order[p] EXCEPT !.status = "CREATED", !.plan = s]]
  BY <1>1 DEF TypeOK
<1>3. [order[p] EXCEPT !.status = "CREATED", !.plan = s] \in Order
  BY OrderOf DEF Order, Status
<1>4. order' \in [Payments -> Order]
  BY <1>2, <1>3 DEF TypeOK
<1> QED
  BY <1>4 DEF Checkout, TypeOK, history

\* What the steps that only move a call leave alone.
LEMMA CallTyped ==
  ASSUME TypeOK, NEW p \in Payments, UNCHANGED <<order, plan, applied, revoked, clash, elapsed, fuel>>,
         crossed' = crossed, told' \in {told, told \cup {p}}, call' \in [Calls -> Call]
  PROVE  TypeOK'
  BY DEF TypeOK

LEMMA LoadTyped ==
  ASSUME TypeOK, NEW c \in Calls, NEW p \in Payments,
         \/ CreateLook(c, p) \/ CreateOrder(c, p) \/ PerformLoad(c, p) \/ CompleteLoad(c, p)
         \/ ApplyRead(c, p) \/ Answer(c, p) \/ CancelLoad(c, p) \/ PrepareLoad(c, p)
  PROVE  TypeOK'
<1> USE OrderOf DEF history
<1>1. order[p].state \in State /\ plan \in Plan
  BY DEF Order, TypeOK
<1>2. /\ \A s \in {"order", "claim", "pay", "refused", "prepared", "cancelled", "applied"} : s \in Steps
      /\ Start \in Plan
  BY IdleTyped DEF Steps
<1>3. CASE CreateLook(c, p)
  BY <1>1, <1>2, <1>3, EndTyped, GotoTyped, CopyTyped, CallTyped DEF CreateLook
<1>4. CASE CreateOrder(c, p)
  BY <1>2, <1>4, EndTyped, GotoTyped, CallTyped DEF CreateOrder
<1>5. CASE PerformLoad(c, p)
  <2>1. call' \in [Calls -> Call]
    BY <1>1, <1>2, <1>5, EndTyped, GotoTyped, CopyTyped DEF PerformLoad
  <2> QED
    BY <2>1, <1>5, CallTyped DEF PerformLoad
<1>6. CASE CompleteLoad(c, p)
  BY <1>2, <1>6, EndTyped, GotoTyped, CallTyped DEF CompleteLoad
<1>7. CASE ApplyRead(c, p)
  BY <1>1, <1>2, <1>7, CopyTyped, CallTyped DEF ApplyRead
<1>8. CASE Answer(c, p)
  BY <1>8, EndTyped, CallTyped DEF Answer
<1>9. CASE CancelLoad(c, p)
  BY <1>1, <1>2, <1>9, EndTyped, CopyTyped, CallTyped DEF CancelLoad
<1>10. CASE PrepareLoad(c, p)
  BY <1>2, <1>10, EndTyped, GotoTyped, CallTyped DEF PrepareLoad
<1> QED
  BY <1>3, <1>4, <1>5, <1>6, <1>7, <1>8, <1>9, <1>10

\* The writes of the order.
LEMMA OrderTyped ==
  ASSUME TypeOK, NEW c \in Calls, NEW p \in Payments,
         \/ CreateClaim(c, p) \/ Pay(c, p) \/ CancelWrite(c, p) \/ PrepareWrite(c, p)
         \/ RefuseWrite(c, p)
  PROVE  TypeOK'
<1> USE OrderOf DEF history
<1>1. order[p] \in Order /\ call[c].by \subseteq Attempts
  BY DEF TypeOK, Call
<1>2. \A s \in {"apply", "answer", "revoke"} : s \in Steps
  BY DEF Steps
<1>3. CASE CreateClaim(c, p)
  <2>1. order' \in [Payments -> Order]
    BY <1>1, <1>3 DEF CreateClaim, TypeOK, Order, Status, State
  <2> QED
    BY <2>1, <1>3, EndTyped DEF CreateClaim, TypeOK
<1>4. CASE Pay(c, p)
  <2>1. order' \in [Payments -> Order]
    BY <1>1, <1>4 DEF Pay, TypeOK, Order, Status, State
  <2>2. call' \in [Calls -> Call] /\ told' \subseteq Payments
    BY <1>2, <1>4, EndTyped, GotoTyped DEF Pay, TypeOK
  <2> QED
    BY <2>1, <2>2, <1>4 DEF Pay, TypeOK
<1>5. CASE CancelWrite(c, p)
  <2>1. order' \in [Payments -> Order]
    BY <1>1, <1>5 DEF CancelWrite, Cancelled, TypeOK, Order, Status, State
  <2>2. call' \in [Calls -> Call]
    BY <1>2, <1>5, EndTyped, GotoTyped DEF CancelWrite
  <2> QED
    BY <2>1, <2>2, <1>5 DEF CancelWrite, TypeOK
<1>6. CASE PrepareWrite(c, p)
  <2>1. order' \in [Payments -> Order]
    BY <1>1, <1>6 DEF PrepareWrite, TypeOK, Order, Status, State
  <2> QED
    BY <2>1, <1>6, EndTyped DEF PrepareWrite, TypeOK
<1>7. CASE RefuseWrite(c, p)
  <2>1. order' \in [Payments -> Order]
    BY <1>1, <1>7 DEF RefuseWrite, TypeOK, Order, Status, State
  <2> QED
    BY <2>1, <1>7, EndTyped DEF RefuseWrite, TypeOK
<1> QED
  BY <1>3, <1>4, <1>5, <1>6, <1>7

\* The writes of the plan.
LEMMA PlanTyped ==
  ASSUME TypeOK, NEW c \in Calls, NEW p \in Payments,
         ApplyWrite(c, p) \/ RevokeRead(c, p) \/ RevokeWrite(c, p)
  PROVE  TypeOK'
<1>1. order[p].plan \in Plans \cup {"start"} /\ call[c].plan \in Plan
  BY OrderOf DEF TypeOK, Order, Call
<1>2. CASE ApplyWrite(c, p)
  <2>1. plan' \in Plan
    BY <1>1, <1>2 DEF ApplyWrite, Extended, Plan
  <2>2. call' \in [Calls -> Call] /\ told' \subseteq Payments
    BY <1>2, EndTyped, GotoTyped DEF ApplyWrite, TypeOK, Steps
  <2> QED
    BY <2>1, <2>2, <1>2 DEF ApplyWrite, TypeOK
<1>3. CASE RevokeRead(c, p)
  <2>1. call' \in [Calls -> Call]
    BY <1>3, EndTyped, CopyTyped DEF RevokeRead, TypeOK, Steps, State
  <2> QED
    BY <2>1, <1>3 DEF RevokeRead, TypeOK
<1>4. CASE RevokeWrite(c, p)
  <2>1. plan' \in Plan
    BY <1>1, <1>4, IdleTyped DEF RevokeWrite, Shortened, TypeOK, Plan
  <2> QED
    BY <2>1, <1>4, EndTyped DEF RevokeWrite, TypeOK
<1> QED
  BY <1>2, <1>3, <1>4

LEMMA TimeTyped ==
  ASSUME TypeOK, Month \/ \E p \in Payments : TwelveHours(p)
  PROVE  TypeOK'
<1>1. ASSUME NEW p \in Payments, TwelveHours(p) PROVE TypeOK'
  <2>1. order' = [order EXCEPT ![p] = [order[p] EXCEPT !.old = TRUE]]
    BY <1>1 DEF TwelveHours, TypeOK
  <2>2. [order[p] EXCEPT !.old = TRUE] \in Order
    BY OrderOf DEF Order
  <2>3. order' \in [Payments -> Order]
    BY <2>1, <2>2 DEF TypeOK
  <2> QED
    BY <2>3, <1>1 DEF TwelveHours, TypeOK, history
<1>2. CASE Month
  BY <1>2 DEF Month, TypeOK, Plan
<1> QED
  BY <1>1, <1>2

LEMMA CrashTyped ==
  ASSUME TypeOK, NEW c \in Calls, NEW p \in Payments, Crash(c, p)
  PROVE  TypeOK'
  BY EndTyped, FuelTyped DEF Crash, TypeOK

LEMMA StutterTyped == ASSUME TypeOK, UNCHANGED vars PROVE TypeOK'
  BY DEF TypeOK, vars

\* A callback of the web process is the only thing that happens to it, one payment at a time.
LEMMA NextTyped == TypeOK /\ [Next]_vars => TypeOK'
<1> SUFFICES ASSUME TypeOK, [Next]_vars PROVE TypeOK'
  OBVIOUS
<1>1. ASSUME NEW p \in Payments, Checkout(p) PROVE TypeOK'
  BY <1>1, CheckoutTyped
<1>2. ASSUME NEW c \in Calls, NEW p \in Payments, Step(c, p) PROVE TypeOK'
  BY <1>2, LoadTyped, OrderTyped, PlanTyped DEF Step
<1>3. ASSUME NEW c \in Calls, NEW p \in Payments, Crash(c, p) PROVE TypeOK'
  BY <1>3, CrashTyped
<1>4. ASSUME NEW c \in Calls, NEW p \in Payments, NEW a \in Attempts, NEW m \in Methods(p),
             Receive(c, p, a, m)
      PROVE  TypeOK'
  BY <1>4, ReceiveTyped
<1>5. CASE Month \/ \E p \in Payments : TwelveHours(p)
  BY <1>5, TimeTyped
<1>6. CASE UNCHANGED vars
  BY <1>6, StutterTyped
<1> QED
  BY <1>1, <1>2, <1>3, <1>4, <1>5, <1>6 DEF Next

\* Every order, plan and call of the web process is well typed, for all constants.
THEOREM BillingTypeCorrect == Spec => []TypeOK
<1> QED
  BY InitTyped, NextTyped, PTL DEF Spec

-----------------------------------------------------------------------------
(* The invariant *)

On(c, p) == call[c].on = {p}
Extending == {"apply", "applied"}
Revoking == {"revoke", "revoked"}
PaymeSteps == {"create", "order", "claim", "perform", "answer", "cancel", "cancelled"} \cup Revoking
ClickSteps == {"prepare", "prepared", "complete", "failed", "refused"}
\* The steps of a Payme call that found its transaction on the order.
Believing == {"pay", "answer", "cancelled"} \cup Extending \cup Revoking

Busy(p) ==
  \A c \in Calls : On(c, p) =>
    /\ call[c].pc \in {"pay"} \cup Extending \cup (IF p \in Payme THEN PaymeSteps ELSE ClickSteps)
    /\ call[c].by # {}

\* The status and the state of an order say the same.
Shape(p) ==
  /\ order[p].status \in {"NONE", "CREATED"} <=> order[p].state = 0
  /\ order[p].status = "PENDING" <=> order[p].state = 1
  /\ order[p].status = "PAID" <=> order[p].state = 2
  /\ order[p].trans # {} => order[p].state # 0

\* A transaction, once found on the order, stays there.
Holds(p) == p \in Payme => \A c \in Calls : On(c, p) /\ call[c].pc \in Believing => Mine(c, p)

Alone(p) ==
  p \notin crossed =>
    \A c, d \in Calls : On(c, p) /\ On(d, p) /\ (p \in Payme => call[c].by = call[d].by) => c = d

\* One call wins the order, through crashes and repeated calls.
WinsOnce(p) ==
  p \in Payme =>
    /\ \A c, d \in Calls :
         On(c, p) /\ On(d, p) /\ call[c].pc \in Extending /\ call[d].pc \in Extending => c = d
    /\ \A c \in Calls :
         On(c, p) /\ call[c].pc \in Extending => applied[p] = 0 /\ order[p].state \notin {0, 1}
    /\ applied[p] > 0 => order[p].state \notin {0, 1}
    /\ applied[p] <= 1

\* Where a call stands, what it has read is still so, and the month it owes or takes
\* back is the only one that is out of balance.
Stands(c, p) ==
  /\ call[c].pc = "pay" => order[p].state = 1
  /\ call[c].pc \in Extending => order[p].state = 2 /\ applied[p] = revoked[p]
  /\ call[c].pc = "answer" => order[p].state = 2
  /\ call[c].pc = "cancelled" => call[c].state = order[p].state /\ order[p].state \in {1, 2}
  /\ call[c].pc \in Revoking => order[p].state = -2 /\ applied[p] = revoked[p] + 1
  /\ call[c].pc \in {"prepared", "refused"} => order[p].state \in {0, 1}

Balanced(p) ==
  (\A c \in Calls : On(c, p) => call[c].pc \notin Extending \cup Revoking)
    => applied[p] = revoked[p] + (IF order[p].state = 2 THEN 1 ELSE 0)

Accounts(p) ==
  p \notin crossed =>
    /\ \A c \in Calls : On(c, p) => Stands(c, p)
    /\ Balanced(p)
    /\ p \in told => order[p].state \in {2, -2}
    /\ p \notin Payme => revoked[p] = 0

Good(p) == Busy(p) /\ Shape(p) /\ Holds(p) /\ Alone(p) /\ WinsOnce(p) /\ Accounts(p)

IInv == TypeOK /\ \A p \in Payments : Good(p)

-----------------------------------------------------------------------------
(* Steps are local to a call and a payment *)

\* What a step of c about p does to the calls of other payments and to those payments.
Local(c, p) ==
  /\ \A d \in Calls \ {c} : call'[d] = call[d]
  /\ \A q \in Payments \ {p} :
       /\ ~On(c, q) /\ call'[c].on # {q}
       /\ order'[q] = order[q] /\ applied'[q] = applied[q] /\ revoked'[q] = revoked[q]
       /\ q \in crossed' <=> q \in crossed
       /\ q \in told' <=> q \in told

LEMMA Elsewhere ==
  ASSUME IInv, NEW c \in Calls, NEW p \in Payments, NEW q \in Payments \ {p}, Local(c, p)
  PROVE  Good(q)'
<1>1. \A d \in Calls : call'[d].on = {q} => d # c /\ call'[d] = call[d] /\ On(d, q)
  BY DEF Local, On
<1>2. \A d \in Calls : On(d, q) => d # c /\ call'[d] = call[d]
  BY DEF Local
<1>3. /\ order'[q] = order[q] /\ applied'[q] = applied[q] /\ revoked'[q] = revoked[q]
      /\ q \in crossed' <=> q \in crossed
      /\ q \in told' <=> q \in told
  BY DEF Local
<1> USE <1>1, <1>2, <1>3 DEF IInv, Good, On
<1>4. Busy(q)'
  BY DEF Busy
<1>5. Shape(q)'
  BY DEF Shape
<1>6. Holds(q)'
  BY DEF Holds, Mine
<1>7. Alone(q)'
  BY DEF Alone
<1>8. WinsOnce(q)'
  BY DEF WinsOnce
<1>9. Accounts(q)'
  BY DEF Accounts, Stands, Balanced
<1> QED
  BY <1>4, <1>5, <1>6, <1>7, <1>8, <1>9

LEMMA LocalKeeps ==
  ASSUME IInv, NEW c \in Calls, NEW p \in Payments, TypeOK', Local(c, p), Good(p)'
  PROVE  IInv'
  BY Elsewhere DEF IInv

\* The ways a call moves.
Moves(c, s) ==
  /\ call'[c].pc = s /\ call'[c].on = call[c].on /\ call'[c].by = call[c].by
  /\ \A d \in Calls \ {c} : call'[d] = call[d]
Leaves(c) == call'[c].on = {} /\ \A d \in Calls \ {c} : call'[d] = call[d]

LEMMA GotoMoves ==
  ASSUME TypeOK, NEW c \in Calls, NEW s, Goto(c, s)
  PROVE  Moves(c, s)
  BY DEF TypeOK, Call, Goto, Moves

LEMMA EndLeaves ==
  ASSUME TypeOK, NEW c \in Calls, End(c)
  PROVE  Leaves(c)
  BY IdleTyped DEF TypeOK, End, Leaves

LEMMA CopyMoves ==
  ASSUME TypeOK, NEW c \in Calls, NEW s, NEW x,
         \/ call' = [call EXCEPT ![c].pc = s, ![c].state = x]
         \/ call' = [call EXCEPT ![c].pc = s, ![c].plan = x]
  PROVE  Moves(c, s)
  BY DEF TypeOK, Call, Moves

\* A call that ends, or moves on to a step from which it changes nothing it has not
\* checked, leaves its payment as it was.
LEMMA CallKeeps ==
  ASSUME IInv, NEW c \in Calls, NEW p \in Payments, On(c, p),
         UNCHANGED <<order, applied, revoked, crossed>>,
         told' = told \/ (told' = told \cup {p} /\ order[p].state = 2),
         call[c].pc \notin Extending \cup Revoking,
         \/ Leaves(c)
         \/ /\ Moves(c, "order") \/ Moves(c, "claim")
            /\ p \in Payme
  PROVE  Local(c, p) /\ Good(p)'
<1>1. Local(c, p)
  BY DEF Local, On, Leaves, Moves
<1>2. /\ \A d \in Calls : call'[d].on = {p} /\ d # c => On(d, p) /\ call'[d] = call[d]
      /\ call'[c].on = {p} => /\ p \in Payme /\ call'[c].pc \in {"order", "claim"}
                              /\ call'[c].by = call[c].by
      /\ \A d \in Calls : On(d, p) /\ d # c => call'[d] = call[d]
  BY DEF Leaves, Moves, On
<1> USE <1>2 DEF IInv, Good, On, Extending, Revoking
<1>4. Busy(p)'
  BY DEF Busy, PaymeSteps, ClickSteps
<1>5. Shape(p)'
  BY DEF Shape
<1>6. Holds(p)'
  BY DEF Holds, Mine, Believing
<1>7. Alone(p)'
  BY DEF Alone
<1>8. WinsOnce(p)'
  BY DEF WinsOnce
<1>9. Accounts(p)'
  <2>1. (\A d \in Calls : call'[d].on = {p} => Stands(d, p)') \/ p \in crossed
    BY DEF Accounts, Stands
  <2>2. Balanced(p)' \/ p \in crossed
    BY DEF Accounts, Balanced
  <2> QED
    BY <2>1, <2>2 DEF Accounts
<1> QED
  BY <1>1, <1>4, <1>5, <1>6, <1>7, <1>8, <1>9

\* A call goes on from a check that still stands.
LEMMA EnterKeeps ==
  ASSUME IInv, TypeOK', NEW c \in Calls, NEW p \in Payments, On(c, p),
         UNCHANGED <<order, applied, revoked, crossed, told>>,
         NEW s \in IF p \in Payme THEN Believing ELSE {"pay", "refused", "prepared"} \cup Extending,
         Moves(c, s), p \in Payme => Mine(c, p),
         s \in Extending <=> call[c].pc \in Extending,
         s \in Revoking <=> call[c].pc \in Revoking,
         p \notin crossed => Stands(c, p)'
  PROVE  IInv'
<1>1. Local(c, p)
  BY DEF Local, On, Moves
<1>2. /\ \A d \in Calls \ {c} : call'[d] = call[d]
      /\ call'[c].on = {p} /\ call'[c].pc = s /\ call'[c].by = call[c].by
  BY DEF Moves, On
<1>3. s \in Believing \cup {"refused", "prepared"}
  BY DEF Believing
<1> USE <1>2, <1>3 DEF IInv, Good, On, Extending, Revoking
<1>11. Busy(p)'
  BY DEF Busy, PaymeSteps, ClickSteps, Believing
<1>12. Shape(p)'
  BY DEF Shape
<1>13. Holds(p)'
  BY DEF Holds, Mine, Believing
<1>14. Alone(p)'
  BY DEF Alone
<1>15. WinsOnce(p)'
  BY DEF WinsOnce
<1>16. Accounts(p)'
  <2>1. (\A d \in Calls : call'[d].on = {p} => Stands(d, p)') \/ p \in crossed'
    BY DEF Accounts, Stands
  <2>2. Balanced(p)' \/ p \in crossed'
    BY DEF Accounts, Stands, Balanced
  <2>3. p \in crossed' \/ ((p \in told' => order'[p].state \in {2, -2}) /\ (p \notin Payme => revoked'[p] = 0))
    BY DEF Accounts, Stands
  <2> QED
    BY <2>1, <2>2, <2>3 DEF Accounts
<1> QED
  BY <1>1, <1>11, <1>12, <1>13, <1>14, <1>15, <1>16, LocalKeeps

-----------------------------------------------------------------------------
(* Reads *)

LEMMA LookKeeps ==
  ASSUME IInv, TypeOK', NEW c \in Calls, NEW p \in Payments,
         CreateLook(c, p) \/ CreateOrder(c, p) \/ CancelLoad(c, p)
  PROVE  IInv'
<1>1. On(c, p) /\ Busy(p) /\ p \in Payme /\ TypeOK
  BY DEF IInv, Good, Busy, At, On, ClickSteps, Extending, CreateLook, CreateOrder, CancelLoad
<1>2. UNCHANGED <<order, applied, revoked, crossed, told>>
  BY DEF CreateLook, CreateOrder, CancelLoad, history
<1>3. call[c].pc \notin Extending \cup Revoking /\ call[c].by # {}
  BY <1>1 DEF At, CreateLook, CreateOrder, CancelLoad, Extending, Revoking, Busy
<1>4. \/ Leaves(c) \/ Moves(c, "order") \/ Moves(c, "claim")
      \/ /\ Moves(c, "cancelled") /\ call'[c].state = order[p].state /\ Mine(c, p)
         /\ ~(order[p].state < 0)
  <2>1. CASE CreateLook(c, p)
    <3>1. CASE ~Mine(c, p)
      BY <1>1, <2>1, <3>1, GotoMoves DEF CreateLook
    <3>2. CASE Mine(c, p) /\ order[p].state = 1 /\ order[p].old
      <4>1. call' = [call EXCEPT ![c].pc = "cancelled", ![c].state = order[p].state]
        BY <2>1, <3>2 DEF CreateLook
      <4>2. call'[c].state = order[p].state
        BY <1>1, <4>1 DEF TypeOK, Call
      <4>3. Moves(c, "cancelled")
        BY <1>1, <4>1, CopyMoves
      <4> QED
        BY <4>2, <4>3, <3>2
    <3> QED
      BY <1>1, <2>1, <3>1, <3>2, EndLeaves DEF CreateLook
  <2>2. CASE CreateOrder(c, p)
    BY <1>1, <2>2, GotoMoves, EndLeaves DEF CreateOrder
  <2>3. CASE CancelLoad(c, p)
    <3>1. CASE ~Mine(c, p) \/ order[p].state < 0
      BY <1>1, <2>3, <3>1, EndLeaves DEF CancelLoad
    <3>2. CASE ~(~Mine(c, p) \/ order[p].state < 0)
      <4>1. call' = [call EXCEPT ![c].pc = "cancelled", ![c].state = order[p].state]
        BY <2>3, <3>2 DEF CancelLoad
      <4>2. call'[c].state = order[p].state
        BY <1>1, <4>1 DEF TypeOK, Call
      <4>3. Moves(c, "cancelled")
        BY <1>1, <4>1, CopyMoves
      <4> QED
        BY <4>2, <4>3, <3>2
    <3> QED
      BY <3>1, <3>2
  <2> QED
    BY <2>1, <2>2, <2>3
<1>5. CASE Leaves(c) \/ Moves(c, "order") \/ Moves(c, "claim")
  BY <1>1, <1>2, <1>3, <1>5, CallKeeps, LocalKeeps
<1>6. CASE /\ Moves(c, "cancelled") /\ call'[c].state = order[p].state /\ Mine(c, p)
           /\ ~(order[p].state < 0)
  <2>1. order[p].state \in {1, 2}
    BY <1>3, <1>6, OrderOf, <1>1 DEF IInv, Good, Shape, Mine, Order, State
  <2>2. Stands(c, p)'
    BY <1>2, <1>6, <2>1 DEF Stands, Moves, Extending, Revoking
  <2> QED
    BY <1>1, <1>2, <1>3, <1>6, <2>2, EnterKeeps DEF Believing, Extending, Revoking
<1> QED
  BY <1>4, <1>5, <1>6

LEMMA PerformLoadKeeps ==
  ASSUME IInv, TypeOK', NEW c \in Calls, NEW p \in Payments, PerformLoad(c, p)
  PROVE  IInv'
<1>1. On(c, p) /\ Busy(p) /\ p \in Payme /\ TypeOK
  BY DEF IInv, Good, Busy, At, On, ClickSteps, Extending, PerformLoad
<1>2. UNCHANGED <<order, applied, revoked, crossed>>
  BY DEF PerformLoad
<1>3. call[c].pc \notin Extending \cup Revoking
  BY DEF At, PerformLoad, Extending, Revoking
<1>4. CASE ~Mine(c, p) \/ order[p].state # 1
  <2>1. Leaves(c) /\ (told' = told \/ (told' = told \cup {p} /\ order[p].state = 2))
    BY <1>1, <1>4, EndLeaves DEF PerformLoad
  <2> QED
    BY <1>1, <1>2, <1>3, <2>1, CallKeeps, LocalKeeps
<1>5. CASE Mine(c, p) /\ order[p].state = 1 /\ order[p].old
  <2>1. call' = [call EXCEPT ![c].pc = "cancelled", ![c].state = order[p].state] /\ told' = told
    BY <1>5 DEF PerformLoad
  <2>2. Moves(c, "cancelled") /\ call'[c].state = order[p].state
    <3>1. Moves(c, "cancelled")
      BY <1>1, <2>1, CopyMoves
    <3> QED
      BY <1>1, <2>1, <3>1 DEF TypeOK, Call
  <2>3. Stands(c, p)'
    BY <1>2, <1>5, <2>2 DEF Stands, Moves, Extending, Revoking
  <2> QED
    BY <1>1, <1>2, <1>3, <1>5, <2>1, <2>2, <2>3, EnterKeeps DEF Believing, Extending, Revoking
<1>6. CASE Mine(c, p) /\ order[p].state = 1 /\ ~order[p].old
  <2>1. Moves(c, "pay") /\ told' = told
    BY <1>1, <1>6, GotoMoves DEF PerformLoad
  <2>2. Stands(c, p)'
    BY <1>2, <1>6, <2>1 DEF Stands, Moves, Extending, Revoking
  <2> QED
    BY <1>1, <1>2, <1>3, <1>6, <2>1, <2>2, EnterKeeps DEF Believing, Extending, Revoking
<1> QED
  BY <1>4, <1>5, <1>6

\* Click: what Prepare and Complete check.
LEMMA ClickLoadKeeps ==
  ASSUME IInv, TypeOK', NEW c \in Calls, NEW p \in Payments, CompleteLoad(c, p) \/ PrepareLoad(c, p)
  PROVE  IInv'
<1>1. On(c, p) /\ Busy(p) /\ p \notin Payme /\ TypeOK
  BY DEF IInv, Good, Busy, At, On, PaymeSteps, Revoking, Extending, CompleteLoad, PrepareLoad
<1>2. UNCHANGED <<order, applied, revoked, crossed, told>>
  BY DEF CompleteLoad, PrepareLoad, history
<1>3. call[c].pc \notin Extending \cup Revoking /\ call[c].by # {}
  BY <1>1 DEF At, CompleteLoad, PrepareLoad, Extending, Revoking, Busy
<1>4. CASE Leaves(c)
  BY <1>1, <1>2, <1>3, <1>4, CallKeeps, LocalKeeps
<1>5. CASE order[p].status \in {"PAID", "CANCELED"} \/ ~(\E s \in {"pay", "refused", "prepared"} : Moves(c, s))
  BY <1>1, <1>4, <1>5, GotoMoves, EndLeaves DEF CompleteLoad, PrepareLoad
<1>6. ASSUME NEW s \in {"pay", "refused", "prepared"}, Moves(c, s), order[p].status \notin {"PAID", "CANCELED"},
             s = "pay" => Mine(c, p)
      PROVE  IInv'
  <2>1. order[p].status \in {"NONE", "CREATED", "PENDING"} /\ Shape(p)
    <3>1. order[p].status \in Status
      BY <1>1, OrderOf DEF Order
    <3> QED
      BY <1>6, <3>1 DEF IInv, Good, Status
  <2>2. order[p].state \in {0, 1}
    BY <2>1 DEF Shape
  <2>3. s = "pay" => order[p].state = 1
    BY <1>3, <1>6, <2>1, <2>2 DEF Shape, Mine
  <2>4. Stands(c, p)'
    BY <1>2, <1>6, <2>2, <2>3 DEF Stands, Moves, Extending, Revoking
  <2> QED
    BY <1>1, <1>2, <1>3, <1>6, <2>4, EnterKeeps DEF Extending, Revoking
<1>7. CASE CompleteLoad(c, p) /\ order[p].status \notin {"PAID", "CANCELED"}
  BY <1>1, <1>4, <1>6, <1>7, GotoMoves, EndLeaves DEF CompleteLoad
<1>8. CASE PrepareLoad(c, p) /\ order[p].status \notin {"PAID", "CANCELED"}
  BY <1>1, <1>4, <1>6, <1>8, GotoMoves, EndLeaves DEF PrepareLoad
<1> QED
  BY <1>5, <1>7, <1>8

LEMMA ReadKeeps ==
  ASSUME IInv, TypeOK', NEW c \in Calls, NEW p \in Payments,
         \/ ApplyRead(c, p)
         \/ RevokeRead(c, p) /\ plan.slug = order[p].plan
  PROVE  IInv'
<1>1. On(c, p) /\ Busy(p) /\ TypeOK /\ Holds(p) /\ Accounts(p)
  BY DEF IInv, Good, At, On, ApplyRead, RevokeRead
<1>2. UNCHANGED <<order, applied, revoked, crossed, told>>
  BY DEF ApplyRead, RevokeRead, history
<1>3. CASE ApplyRead(c, p)
  <2>1. Moves(c, "applied") /\ call[c].pc = "apply"
    BY <1>1, <1>3, CopyMoves DEF ApplyRead, At
  <2>2. p \notin crossed => Stands(c, p)'
    BY <1>1, <1>2, <2>1 DEF Accounts, Stands, Moves, Extending, Revoking, On
  <2> QED
    BY <1>1, <1>2, <2>1, <2>2, EnterKeeps DEF Holds, Believing, Extending, Revoking, Mine
<1>4. CASE RevokeRead(c, p) /\ plan.slug = order[p].plan
  <2>1. Moves(c, "revoked") /\ call[c].pc = "revoke"
    BY <1>1, <1>4, CopyMoves DEF RevokeRead, At
  <2>2. p \notin crossed => Stands(c, p)'
    BY <1>1, <1>2, <2>1 DEF Accounts, Stands, Moves, Extending, Revoking, On
  <2>3. p \in Payme
    BY <1>1, <2>1 DEF Busy, ClickSteps, Extending
  <2> QED
    BY <1>1, <1>2, <2>1, <2>2, <2>3, EnterKeeps DEF Holds, Believing, Extending, Revoking, Mine
<1> QED
  BY <1>3, <1>4

LEMMA AnswerKeeps ==
  ASSUME IInv, TypeOK', NEW c \in Calls, NEW p \in Payments, Answer(c, p)
  PROVE  IInv'
<1>1. /\ On(c, p) /\ Leaves(c) /\ call[c].pc \notin Extending \cup Revoking
      /\ UNCHANGED <<order, applied, revoked, crossed>>
      /\ told' = told \/ (told' = told \cup {p} /\ order[p].state = 2)
  BY EndLeaves DEF IInv, At, On, Answer, Extending, Revoking
<1> QED
  BY <1>1, CallKeeps, LocalKeeps
-----------------------------------------------------------------------------
(* Writes *)

\* The order's row, with the fields a write leaves alone.
Writes(p, status, state, trans) ==
  /\ order'[p].status = status /\ order'[p].state = state /\ order'[p].trans = trans
  /\ \A q \in Payments \ {p} : order'[q] = order[q]

LEMMA ClaimKeeps ==
  ASSUME IInv, TypeOK', NEW c \in Calls, NEW p \in Payments, CreateClaim(c, p)
  PROVE  IInv'
<1>3. /\ On(c, p) /\ TypeOK /\ Good(p) /\ Leaves(c) /\ call[c].by # {} /\ call[c].pc = "claim"
      /\ UNCHANGED <<applied, revoked, crossed, told>>
  BY EndLeaves DEF IInv, Good, Busy, At, On, CreateClaim, history
<1>6. applied[p] \in Nat /\ revoked[p] \in Nat
  BY <1>3 DEF TypeOK
<1>4. CASE ~Free(p)
  BY <1>3, <1>4, CallKeeps, LocalKeeps DEF CreateClaim, Extending, Revoking
<1>5. CASE Free(p)
  <2>1. Writes(p, "PENDING", 1, call[c].by)
    BY <1>3, <1>5 DEF CreateClaim, TypeOK, Order, Writes
  <2>2. Local(c, p)
    BY <1>3, <2>1 DEF Local, On, Leaves, Writes
  <2>3. order[p].state = 0 /\ order[p].trans = {}
    BY <1>3, <1>5 DEF Free, Good, Shape
  <2>4. Busy(p)'
    BY <1>3 DEF Good, Busy, Leaves, On
  <2>5. Shape(p)'
    BY <2>1 DEF Shape, Writes
  <2>6. p \in Payme
    BY <1>3 DEF Good, Busy, ClickSteps, Extending
  <2>7. \A d \in Calls : On(d, p) => call[d].pc \notin Believing
    BY <1>3, <2>3, <2>6 DEF Good, Holds, Busy, Mine
  <2>8. \A d \in Calls : call'[d].on = {p} => d # c /\ On(d, p) /\ call'[d] = call[d]
    BY <1>3 DEF Leaves, On
  <2>9. Holds(p)'
    BY <2>7, <2>8 DEF Holds, On
  <2>10. Alone(p)'
    BY <1>3, <2>8 DEF Good, Alone, On
  <2>11. WinsOnce(p)'
    BY <1>3, <2>3, <2>7, <2>8 DEF Good, WinsOnce, On, Believing
  <2>12. p \notin crossed => \A d \in Calls : call'[d].on = {p} => Stands(d, p)'
    BY <1>3, <2>6, <2>7, <2>8 DEF Good, Busy, Stands, Believing, Extending, Revoking, PaymeSteps, On
  <2>13. p \notin crossed => applied[p] = revoked[p] /\ p \notin told
    BY <1>3, <1>6, <2>3, <2>7 DEF Good, Accounts, Balanced, Believing, Extending, Revoking
  <2>14. Accounts(p)'
    BY <1>3, <1>6, <2>1, <2>6, <2>12, <2>13 DEF Accounts, Balanced, Writes, On
  <2> QED
    BY <2>2, <2>4, <2>5, <2>9, <2>10, <2>11, <2>14, LocalKeeps DEF Good
<1> QED
  BY <1>4, <1>5

\* The update that one call wins: a Payme order leaves state 1 for good, and a Click
\* order as long as its calls come one at a time.
LEMMA PayKeeps ==
  ASSUME IInv, TypeOK', NEW c \in Calls, NEW p \in Payments, Pay(c, p)
  PROVE  IInv'
<1>1. On(c, p) /\ TypeOK /\ Good(p) /\ call[c].pc = "pay" /\ UNCHANGED <<applied, revoked, crossed>>
  BY DEF IInv, At, On, Pay
<1>2. Payable(p) <=> order[p].state = 1
  BY <1>1 DEF Payable, Good, Shape
<1>5. applied[p] \in Nat /\ revoked[p] \in Nat
  BY <1>1 DEF TypeOK
<1>3. CASE ~Payable(p)
  <2>1. UNCHANGED order /\ p \in crossed
    BY <1>1, <1>2, <1>3 DEF Pay, Good, Accounts, Stands
  <2>2. CASE p \in Payme
    <3>1. Moves(c, "answer") /\ UNCHANGED told /\ Mine(c, p)
      BY <1>1, <1>3, <2>2, GotoMoves DEF Pay, Good, Holds, Believing
    <3> QED
      BY <1>1, <2>1, <2>2, <3>1, EnterKeeps DEF Believing, Extending, Revoking
  <2>3. CASE p \notin Payme
    <3>1. Leaves(c) /\ told' = told \cup {p}
      BY <1>1, <1>3, <2>3, EndLeaves DEF Pay
    <3>2. Local(c, p)
      BY <1>1, <2>1, <3>1 DEF Local, On, Leaves
    <3>3. \A d \in Calls : call'[d].on = {p} => d # c /\ On(d, p) /\ call'[d] = call[d]
      BY <3>1 DEF Leaves, On
    <3>4. Busy(p)' /\ Shape(p)' /\ Holds(p)' /\ Alone(p)' /\ WinsOnce(p)' /\ Accounts(p)'
      BY <1>1, <2>1, <2>3, <3>3 DEF Good, Busy, Shape, Holds, Alone, WinsOnce, Accounts, On
    <3> QED
      BY <3>2, <3>4, LocalKeeps DEF Good
  <2> QED
    BY <2>2, <2>3
<1>4. CASE Payable(p)
  <2>1. Writes(p, "PAID", 2, order[p].trans) /\ Moves(c, "apply") /\ UNCHANGED told
    <3>1. Moves(c, "apply") /\ UNCHANGED told
      BY <1>1, <1>4, GotoMoves DEF Pay
    <3> QED
      BY <1>1, <1>4, <3>1 DEF Pay, TypeOK, Order, Writes
  <2>2. Local(c, p)
    BY <1>1, <2>1 DEF Local, On, Moves, Writes
  <2>3. order[p].state = 1
    BY <1>2, <1>4
  <2>4. /\ call'[c].on = {p} /\ call'[c].pc = "apply" /\ call'[c].by = call[c].by
        /\ \A d \in Calls \ {c} : call'[d] = call[d]
    BY <1>1, <2>1 DEF Moves, On
  <2>5. Busy(p)' /\ Shape(p)'
    BY <1>1, <2>1, <2>4 DEF Good, Busy, Shape, On, Writes, Extending
  <2>6. Holds(p)' /\ Alone(p)'
    BY <1>1, <2>1, <2>4 DEF Good, Holds, Alone, Mine, On, Writes, Believing
  <2>7. p \in Payme => (\A d \in Calls : On(d, p) => call[d].pc \notin Extending) /\ applied[p] = 0
    BY <1>1, <2>3 DEF Good, WinsOnce, TypeOK
  <2>8. WinsOnce(p)'
    BY <1>1, <2>1, <2>4, <2>7 DEF WinsOnce, On, Writes, Extending
  <2>9. p \notin crossed => \A d \in Calls \ {c} :
          On(d, p) => p \in Payme /\ call[d].pc \notin Believing
    BY <1>1 DEF Good, Alone, Holds, Mine, Believing
  <2>10. p \notin crossed => applied[p] = revoked[p] /\ (p \notin Payme => revoked[p] = 0)
    BY <1>1, <1>5, <2>3, <2>9 DEF Good, Accounts, Balanced, Believing, Extending, Revoking
  <2>11. p \notin crossed => \A d \in Calls : call'[d].on = {p} => Stands(d, p)'
    BY <1>1, <2>1, <2>4, <2>9, <2>10
       DEF Good, Busy, Stands, Believing, Extending, Revoking, PaymeSteps, On, Writes
  <2>12. Accounts(p)'
    BY <1>1, <2>1, <2>4, <2>10, <2>11 DEF Accounts, Balanced, On, Writes, Extending
  <2> QED
    BY <2>2, <2>5, <2>6, <2>8, <2>12, LocalKeeps DEF Good
<1> QED
  BY <1>3, <1>4
\* The month is written, taken back, or found to be another tariff's by now.
LEMMA ApplyKeeps ==
  ASSUME IInv, TypeOK', NEW c \in Calls, NEW p \in Payments, ApplyWrite(c, p)
  PROVE  IInv'
<1>1. /\ On(c, p) /\ TypeOK /\ Good(p) /\ call[c].pc = "applied"
      /\ applied' = [applied EXCEPT ![p] = @ + 1] /\ UNCHANGED <<order, revoked, crossed>>
  BY DEF IInv, At, On, ApplyWrite
<1>2. \/ p \in Payme /\ Moves(c, "answer") /\ told' = told
      \/ p \notin Payme /\ Leaves(c) /\ told' = told \cup {p}
  BY <1>1, GotoMoves, EndLeaves DEF ApplyWrite
<1>3. /\ \A d \in Calls \ {c} : call'[d] = call[d]
      /\ call'[c].on = {p} => call'[c].pc = "answer" /\ call'[c].by = call[c].by /\ p \in Payme
  BY <1>2 DEF Moves, Leaves
<1>4. applied'[p] = applied[p] + 1 /\ applied[p] \in Nat /\ revoked[p] \in Nat
  BY <1>1 DEF TypeOK
<1>5. Local(c, p)
  BY <1>1, <1>2 DEF Local, On, Moves, Leaves, TypeOK
<1>6. Busy(p)' /\ Shape(p)' /\ Holds(p)' /\ Alone(p)'
  BY <1>1, <1>3 DEF Good, Busy, Shape, Holds, Alone, Mine, On, Believing, Extending, PaymeSteps
<1>7. p \in Payme => \A d \in Calls \ {c} : On(d, p) => call[d].pc \notin Extending
  BY <1>1 DEF Good, WinsOnce, Extending
<1>8. p \in Payme => applied[p] = 0 /\ order[p].state \notin {0, 1}
  BY <1>1 DEF Good, WinsOnce, Extending
<1>9. WinsOnce(p)'
  BY <1>1, <1>3, <1>4, <1>7, <1>8 DEF WinsOnce, On, Extending
<1>10. p \notin crossed => order[p].state = 2 /\ applied[p] = revoked[p] /\ (p \notin Payme => revoked[p] = 0)
  BY <1>1 DEF Good, Accounts, Stands, Extending
<1>11. p \notin crossed => \A d \in Calls \ {c} : On(d, p) => p \in Payme /\ call[d].pc \notin Believing
  BY <1>1 DEF Good, Alone, Holds, Mine, Believing, Extending
<1>12. p \notin crossed => \A d \in Calls : call'[d].on = {p} => Stands(d, p)'
  BY <1>1, <1>3, <1>10, <1>11 DEF Good, Busy, Stands, Believing, Extending, Revoking, PaymeSteps, On
<1>13. Accounts(p)'
  BY <1>1, <1>2, <1>4, <1>10, <1>12 DEF Good, Accounts, Balanced, On
<1> QED
  BY <1>1, <1>5, <1>6, <1>9, <1>13, LocalKeeps DEF Good

\* The steps from which the month of a refund is off the books.
LEMMA RevokedKeeps ==
  ASSUME IInv, TypeOK', NEW c \in Calls, NEW p \in Payments,
         RevokeWrite(c, p) \/ (RevokeRead(c, p) /\ plan.slug # order[p].plan)
  PROVE  IInv'
<1>1. /\ On(c, p) /\ TypeOK /\ Good(p) /\ call[c].pc \in Revoking /\ Leaves(c)
      /\ revoked' = [revoked EXCEPT ![p] = @ + 1] /\ UNCHANGED <<order, applied, crossed, told>>
  BY EndLeaves DEF IInv, At, On, RevokeWrite, RevokeRead, Revoking
<1>2. \A d \in Calls : call'[d].on = {p} => d # c /\ On(d, p) /\ call'[d] = call[d]
  BY <1>1 DEF Leaves, On
<1>3. p \in Payme
  BY <1>1 DEF Good, Busy, ClickSteps, Extending, Revoking
<1>4. revoked'[p] = revoked[p] + 1 /\ applied[p] \in Nat /\ revoked[p] \in Nat
  BY <1>1 DEF TypeOK
<1>5. Local(c, p)
  BY <1>1 DEF Local, On, Leaves, TypeOK
<1>6. Busy(p)' /\ Shape(p)' /\ Holds(p)' /\ Alone(p)' /\ WinsOnce(p)'
  BY <1>1, <1>2 DEF Good, Busy, Shape, Holds, Alone, WinsOnce, Mine, On
<1>7. p \notin crossed => order[p].state = -2 /\ applied[p] = revoked[p] + 1
  BY <1>1 DEF Good, Accounts, Stands
<1>8. p \notin crossed => \A d \in Calls \ {c} : On(d, p) => call[d].pc \notin Believing
  BY <1>1, <1>3 DEF Good, Alone, Holds, Mine, Believing
<1>9. p \notin crossed => \A d \in Calls : call'[d].on = {p} => Stands(d, p)'
  BY <1>1, <1>2, <1>3, <1>8 DEF Good, Busy, Stands, Believing, Extending, Revoking, PaymeSteps, On
<1>10. Accounts(p)'
  BY <1>1, <1>3, <1>4, <1>7, <1>9 DEF Good, Accounts, Balanced, On
<1> QED
  BY <1>1, <1>5, <1>6, <1>10, LocalKeeps DEF Good

LEMMA CancelKeeps ==
  ASSUME IInv, TypeOK', NEW c \in Calls, NEW p \in Payments, CancelWrite(c, p)
  PROVE  IInv'
<1> DEFINE state == Cancelled(call[c].state)
<1>1. /\ On(c, p) /\ TypeOK /\ Good(p) /\ call[c].pc = "cancelled" /\ state \in {-1, -2}
      /\ UNCHANGED <<applied, revoked, crossed, told>>
  BY DEF IInv, At, On, CancelWrite, Cancelled, history
<1>2. p \in Payme
  BY <1>1 DEF Good, Busy, ClickSteps, Extending
<1>3. IF state = -2 THEN Moves(c, "revoke") ELSE Leaves(c)
  BY <1>1, GotoMoves, EndLeaves DEF CancelWrite
<1>4. Writes(p, "CANCELED", state, order[p].trans)
  BY <1>1 DEF CancelWrite, TypeOK, Order, Writes
<1>5. /\ \A d \in Calls \ {c} : call'[d] = call[d]
      /\ call'[c].on = {p} => call'[c].pc = "revoke" /\ call'[c].by = call[c].by /\ state = -2
      /\ state = -2 => call'[c].on = {p} /\ call'[c].pc = "revoke"
  BY <1>1, <1>3 DEF Moves, Leaves, On
<1>6. Local(c, p)
  BY <1>1, <1>3, <1>4 DEF Local, On, Moves, Leaves, Writes
<1>7. applied[p] \in Nat /\ revoked[p] \in Nat
  BY <1>1 DEF TypeOK
<1>8. state # -2 => state = -1
  BY <1>1
<1> HIDE DEF state
<1>9. Busy(p)' /\ Shape(p)'
  BY <1>1, <1>2, <1>4, <1>5, <1>8 DEF Good, Busy, Shape, On, Writes, PaymeSteps, Revoking
<1>10. Holds(p)' /\ Alone(p)'
  BY <1>1, <1>4, <1>5 DEF Good, Holds, Alone, Mine, On, Writes, Believing
<1>11. WinsOnce(p)'
  BY <1>1, <1>4, <1>5 DEF Good, WinsOnce, On, Writes, Extending
<1>12. p \notin crossed => \A d \in Calls \ {c} : On(d, p) => call[d].pc \notin Believing
  BY <1>1, <1>2 DEF Good, Alone, Holds, Mine, Believing
<1>13. p \notin crossed =>
         /\ order[p].state \in {1, 2} /\ call[c].state = order[p].state
         /\ applied[p] = revoked[p] + (IF order[p].state = 2 THEN 1 ELSE 0)
  BY <1>1, <1>12 DEF Good, Accounts, Stands, Balanced, Believing, Extending, Revoking
<1>14. p \notin crossed => (state = -2 <=> order[p].state = 2)
  BY <1>13 DEF state, Cancelled
<1>15. p \notin crossed => \A d \in Calls : call'[d].on = {p} => Stands(d, p)'
  BY <1>1, <1>2, <1>4, <1>5, <1>7, <1>12, <1>13, <1>14
     DEF Good, Busy, Stands, Believing, Extending, Revoking, PaymeSteps, On, Writes
<1>16. p \notin crossed => Balanced(p)'
  BY <1>1, <1>4, <1>5, <1>7, <1>8, <1>13, <1>14 DEF Balanced, On, Writes, Extending, Revoking
<1>17. p \notin crossed /\ p \in told => state = -2
  BY <1>1, <1>13, <1>14 DEF Good, Accounts
<1>18. Accounts(p)'
  BY <1>1, <1>2, <1>4, <1>15, <1>16, <1>17 DEF Accounts, On, Writes
<1> QED
  BY <1>1, <1>6, <1>9, <1>10, <1>11, <1>18, LocalKeeps DEF Good

\* Click's writes by id: alone on their order, they find it as they checked it.
LEMMA ClickWriteKeeps ==
  ASSUME IInv, TypeOK', NEW c \in Calls, NEW p \in Payments, PrepareWrite(c, p) \/ RefuseWrite(c, p)
  PROVE  IInv'
<1>1. /\ On(c, p) /\ TypeOK /\ Good(p) /\ call[c].pc \in {"prepared", "refused"} /\ Leaves(c)
      /\ UNCHANGED <<applied, revoked, crossed, told>>
  BY EndLeaves DEF IInv, At, On, PrepareWrite, RefuseWrite, history
<1>2. p \notin Payme
  BY <1>1 DEF Good, Busy, PaymeSteps, Extending, Revoking
<1>3. Writes(p, "PENDING", 1, call[c].by) \/ Writes(p, "CANCELED", -1, order[p].trans)
  <2>1. CASE PrepareWrite(c, p)
    BY <1>1, <2>1 DEF PrepareWrite, TypeOK, Order, Writes
  <2>2. CASE RefuseWrite(c, p)
    BY <1>1, <2>2 DEF RefuseWrite, TypeOK, Order, Writes
  <2> QED
    BY <2>1, <2>2
<1>4. \A d \in Calls : call'[d].on = {p} => d # c /\ On(d, p) /\ call'[d] = call[d]
  BY <1>1 DEF Leaves, On
<1>5. Local(c, p)
  BY <1>1, <1>3 DEF Local, On, Leaves, Writes
<1>6. applied[p] \in Nat /\ revoked[p] \in Nat
  BY <1>1 DEF TypeOK
<1>7. Busy(p)' /\ Shape(p)' /\ Holds(p)' /\ Alone(p)' /\ WinsOnce(p)'
  BY <1>1, <1>2, <1>3, <1>4 DEF Good, Busy, Shape, Holds, Alone, WinsOnce, On, Writes
<1>8. p \notin crossed =>
        /\ \A d \in Calls : On(d, p) => d = c
        /\ order[p].state \in {0, 1} /\ p \notin told /\ revoked[p] = 0 /\ applied[p] = revoked[p]
  BY <1>1, <1>2, <1>6 DEF Good, Alone, Accounts, Stands, Balanced, Extending, Revoking
<1>9. Accounts(p)'
  BY <1>1, <1>3, <1>4, <1>6, <1>8 DEF Accounts, Balanced, On, Writes
<1> QED
  BY <1>1, <1>5, <1>7, <1>9, LocalKeeps DEF Good

-----------------------------------------------------------------------------
(* Calls that come and die, and time *)

LEMMA CrashKeeps ==
  ASSUME IInv, TypeOK', NEW c \in Calls, NEW p \in Payments, Crash(c, p)
  PROVE  IInv'
<1>1. /\ On(c, p) /\ TypeOK /\ Good(p) /\ Leaves(c) /\ crossed' = crossed \cup {p}
      /\ UNCHANGED <<order, applied, revoked, told>>
  BY EndLeaves DEF IInv, On, Crash
<1>2. \A d \in Calls : call'[d].on = {p} => d # c /\ On(d, p) /\ call'[d] = call[d]
  BY <1>1 DEF Leaves, On
<1>3. Local(c, p)
  BY <1>1 DEF Local, On, Leaves
<1>4. Busy(p)' /\ Shape(p)' /\ Holds(p)' /\ Alone(p)' /\ WinsOnce(p)' /\ Accounts(p)'
  BY <1>1, <1>2 DEF Good, Busy, Shape, Holds, Alone, WinsOnce, Accounts, Mine, On
<1> QED
  BY <1>1, <1>3, <1>4, LocalKeeps DEF Good

LEMMA ReceiveKeeps ==
  ASSUME IInv, TypeOK', NEW c \in Calls, NEW p \in Payments, NEW a \in Attempts, NEW m \in Methods(p),
         Receive(c, p, a, m)
  PROVE  IInv'
<1> DEFINE x == [IdleCall EXCEPT !.pc = m, !.on = {p}, !.by = {a}]
<1>1. /\ TypeOK /\ \A q \in Payments : Good(q)
      /\ call[c].pc = "idle" /\ UNCHANGED <<order, applied, revoked, told>>
      /\ call' = [call EXCEPT ![c] = x]
  BY DEF IInv, Receive
<1>2. x.pc = m /\ x.on = {p} /\ x.by = {a}
  BY DEF IdleCall
<1> HIDE DEF x
<1>3. /\ call'[c].pc = m /\ call'[c].on = {p} /\ call'[c].by = {a}
      /\ \A d \in Calls \ {c} : call'[d] = call[d]
  BY <1>1, <1>2 DEF TypeOK
<1>4. \A q \in Payments : ~On(c, q)
  BY <1>1 DEF Good, Busy, PaymeSteps, ClickSteps, Extending, Revoking
<1>5. \/ crossed' = crossed /\ Open(p, a) = {}
      \/ crossed' = crossed \cup {p}
  BY DEF Receive
<1>6. m \notin Believing \cup {"prepared", "refused"} /\ m \in (IF p \in Payme THEN PaymeSteps ELSE ClickSteps)
  BY DEF Methods, Believing, Extending, Revoking, PaymeSteps, ClickSteps
<1>7. Local(c, p)
  BY <1>1, <1>3, <1>4, <1>5 DEF Local
<1>8. \A d \in Calls : call'[d].on = {p} /\ d # c => On(d, p) /\ call'[d] = call[d]
  BY <1>3 DEF On
<1>9. Busy(p)' /\ Shape(p)' /\ Holds(p)'
  BY <1>1, <1>3, <1>6, <1>8 DEF Good, Busy, Shape, Holds, Mine, On
<1>10. Alone(p)'
  BY <1>1, <1>3, <1>5, <1>8 DEF Good, Alone, Open, On
<1>11. WinsOnce(p)'
  BY <1>1, <1>3, <1>6, <1>8 DEF Good, WinsOnce, On, Believing
<1>12. p \notin crossed' => \A d \in Calls : call'[d].on = {p} => Stands(d, p)'
  BY <1>1, <1>3, <1>5, <1>6, <1>8 DEF Good, Accounts, Stands, On, Believing, Extending, Revoking
<1>13. p \notin crossed' => Balanced(p)'
  BY <1>1, <1>3, <1>4, <1>5, <1>8 DEF Good, Accounts, Balanced, On
<1>14. Accounts(p)'
  BY <1>1, <1>5, <1>12, <1>13 DEF Good, Accounts, On
<1> QED
  BY <1>7, <1>9, <1>10, <1>11, <1>14, LocalKeeps DEF Good

\* Neither a new order nor time changes what a call has read.
LEMMA QuietKeeps ==
  ASSUME IInv, TypeOK', UNCHANGED <<call, applied, revoked, told, crossed>>,
         \A q \in Payments :
           /\ order'[q].state = order[q].state /\ order'[q].trans = order[q].trans
           /\ \/ order'[q].status = order[q].status
              \/ {order'[q].status, order[q].status} \subseteq {"NONE", "CREATED"}
  PROVE  IInv'
<1> SUFFICES ASSUME NEW p \in Payments PROVE Good(p)'
  BY DEF IInv
<1>1. Good(p)
  BY DEF IInv
<1> QED
  BY <1>1 DEF Good, Busy, Shape, Holds, Alone, WinsOnce, Accounts, Stands, Balanced, Mine, On

LEMMA OthersKeep ==
  ASSUME IInv, TypeOK',
         \/ \E p \in Payments : Checkout(p) \/ TwelveHours(p)
         \/ Month \/ UNCHANGED vars
  PROVE  IInv'
<1>1. TypeOK
  BY DEF IInv
<1>2. ASSUME NEW p \in Payments, Checkout(p) PROVE IInv'
  <2>1. PICK s \in Plans : order' = [order EXCEPT ![p].status = "CREATED", ![p].plan = s]
    BY <1>2 DEF Checkout
  <2>2. /\ order'[p].status = "CREATED" /\ order'[p].state = order[p].state
        /\ order'[p].trans = order[p].trans /\ order[p].status = "NONE"
        /\ \A q \in Payments \ {p} : order'[q] = order[q]
    BY <1>1, <1>2, <2>1 DEF Checkout, TypeOK, Order
  <2> QED
    BY <1>2, <2>2, QuietKeeps DEF Checkout, history
<1>3. ASSUME NEW p \in Payments, TwelveHours(p) PROVE IInv'
  <2>1. /\ order'[p].status = order[p].status /\ order'[p].state = order[p].state
        /\ order'[p].trans = order[p].trans
        /\ \A q \in Payments \ {p} : order'[q] = order[q]
    BY <1>1, <1>3 DEF TwelveHours, TypeOK, Order
  <2> QED
    BY <1>3, <2>1, QuietKeeps DEF TwelveHours, history
<1>4. CASE Month \/ UNCHANGED vars
  BY <1>4, QuietKeeps DEF Month, vars, history
<1> QED
  BY <1>2, <1>3, <1>4

-----------------------------------------------------------------------------
(* Theorems *)

LEMMA IInvInit == Init => IInv
<1> SUFFICES ASSUME Init PROVE IInv
  OBVIOUS
<1>1. TypeOK
  BY InitTyped
<1>2. \A c \in Calls, p \in Payments : ~On(c, p)
  BY IdleTyped DEF Init, On
<1>3. \A p \in Payments : Good(p)
  BY <1>2 DEF Init, NoOrder, Good, Busy, Shape, Holds, Alone, WinsOnce, Accounts, Balanced
<1> QED
  BY <1>1, <1>3 DEF IInv

LEMMA IInvNext == IInv /\ [Next]_vars => IInv'
<1> SUFFICES ASSUME IInv, [Next]_vars PROVE IInv'
  OBVIOUS
<1>1. TypeOK'
  BY NextTyped DEF IInv
<1>2. ASSUME NEW c \in Calls, NEW p \in Payments, Step(c, p) PROVE IInv'
  <2>1. RevokeRead(c, p) => plan.slug = order[p].plan \/ plan.slug # order[p].plan
    OBVIOUS
  <2> QED
    BY <1>1, <1>2, <2>1, LookKeeps, PerformLoadKeeps, ClickLoadKeeps, ReadKeeps, AnswerKeeps, ClaimKeeps,
       PayKeeps, ApplyKeeps, RevokedKeeps, CancelKeeps, ClickWriteKeeps DEF Step
<1>3. ASSUME NEW c \in Calls, NEW p \in Payments, Crash(c, p) PROVE IInv'
  BY <1>1, <1>3, CrashKeeps
<1>4. ASSUME NEW c \in Calls, NEW p \in Payments, NEW a \in Attempts, NEW m \in Methods(p),
             Receive(c, p, a, m)
      PROVE  IInv'
  BY <1>1, <1>4, ReceiveKeeps
<1> QED
  BY <1>1, <1>2, <1>3, <1>4, OthersKeep DEF Next

LEMMA IInvAlways == Spec => []IInv
  BY IInvInit, IInvNext, PTL DEF Spec

\* A Payme payment extends the plan at most once, whatever calls cross, repeat or die;
\* a Click payment as long as its calls come one at a time.
THEOREM PlanExtendedOnce == Spec => []ExtendsOnce
<1>1. IInv => ExtendsOnce
  <2> SUFFICES ASSUME IInv, NEW p \in Payments, applied[p] > 1 PROVE p \notin Payme /\ p \in crossed
    BY DEF ExtendsOnce
  <2>1. Good(p) /\ applied[p] \in Nat /\ revoked[p] \in Nat
    BY DEF IInv, TypeOK
  <2>2. p \notin Payme
    BY <2>1 DEF Good, WinsOnce
  <2>3. ASSUME p \notin crossed PROVE FALSE
    <3>1. revoked[p] = 0
      BY <2>1, <2>2, <2>3 DEF Good, Accounts
    <3>2. \A c \in Calls : On(c, p) => call[c].pc \notin Extending \cup Revoking
      BY <2>1, <2>3, <3>1, <2>2 DEF Good, Accounts, Stands, Busy, ClickSteps, Revoking, Extending
    <3> QED
      BY <2>1, <2>3, <3>1, <3>2 DEF Good, Accounts, Balanced
  <2> QED
    BY <2>2, <2>3
<1> QED
  BY <1>1, IInvAlways, PTL

\* With no call under way a PAID payment has its month, and no other has one.
THEOREM PaidMonthStands == Spec => []PaidIsServed
<1>1. IInv => PaidIsServed
  <2> SUFFICES ASSUME IInv, NEW p \in Payments \ crossed, Quiet(p)
               PROVE  applied[p] - revoked[p] = IF order[p].status = "PAID" THEN 1 ELSE 0
    BY DEF PaidIsServed
  <2>1. Good(p) /\ applied[p] \in Nat /\ revoked[p] \in Nat
    BY DEF IInv, TypeOK
  <2>2. applied[p] = revoked[p] + (IF order[p].state = 2 THEN 1 ELSE 0)
    BY <2>1 DEF Good, Accounts, Balanced, Quiet, On
  <2>3. order[p].status = "PAID" <=> order[p].state = 2
    BY <2>1 DEF Good, Shape
  <2> QED
    BY <2>1, <2>2, <2>3
<1> QED
  BY <1>1, IInvAlways, PTL

\* What a provider was told stays paid or is refunded.
THEOREM ToldStaysPaid == Spec => []ToldIsPaid
<1>1. IInv => ToldIsPaid
  BY DEF IInv, Good, Accounts, ToldIsPaid, TypeOK
<1> QED
  BY <1>1, IInvAlways, PTL

\* No step gives an order that a Payme transaction holds to another one.
THEOREM TransactionStays == Spec => OneTransaction
<1>1. IInv /\ [Next]_vars => [\A p \in Payme : order[p].trans # {} => order'[p].trans = order[p].trans]_vars
  <2> SUFFICES ASSUME IInv, [Next]_vars, NEW p \in Payme, order[p].trans # {}
               PROVE  order'[p].trans = order[p].trans
    OBVIOUS
  <2> p \in Payments
    BY BillingAssumption
  <2>1. Good(p) /\ TypeOK
    BY DEF IInv
  <2>2. ASSUME NEW c \in Calls, NEW q \in Payments, CreateClaim(c, q) PROVE order'[p].trans = order[p].trans
    BY <2>1, <2>2 DEF CreateClaim, Free, Good, Shape, TypeOK
  <2>3. ASSUME NEW c \in Calls, NEW q \in Payments, PrepareWrite(c, q) PROVE order'[p].trans = order[p].trans
    <3>1. q # p
      BY <2>1, <2>3 DEF PrepareWrite, At, On, Good, Busy, PaymeSteps, Extending, Revoking
    <3> QED
      BY <2>1, <2>3, <3>1 DEF PrepareWrite, TypeOK
  <2>4. ASSUME NEW c \in Calls, NEW q \in Payments, Pay(c, q) \/ CancelWrite(c, q) \/ RefuseWrite(c, q)
        PROVE  order'[p].trans = order[p].trans
    <3>1. CASE Pay(c, q)
      BY <2>1, <3>1 DEF Pay, TypeOK, Order
    <3>2. CASE CancelWrite(c, q)
      BY <2>1, <3>2 DEF CancelWrite, TypeOK, Order
    <3>3. CASE RefuseWrite(c, q)
      BY <2>1, <3>3 DEF RefuseWrite, TypeOK, Order
    <3> QED
      BY <2>4, <3>1, <3>2, <3>3
  <2>5. ASSUME NEW q \in Payments, Checkout(q) \/ TwelveHours(q) PROVE order'[p].trans = order[p].trans
    <3>1. CASE Checkout(q)
      <4>1. PICK s \in Plans : order' = [order EXCEPT ![q].status = "CREATED", ![q].plan = s]
        BY <3>1 DEF Checkout
      <4> QED
        BY <2>1, <4>1 DEF TypeOK, Order
    <3>2. CASE TwelveHours(q)
      BY <2>1, <3>2 DEF TwelveHours, TypeOK, Order
    <3> QED
      BY <2>5, <3>1, <3>2
  <2>6. CASE UNCHANGED order
    BY <2>6
  <2>7. ASSUME NEW c \in Calls, NEW q \in Payments, Step(c, q) PROVE order'[p].trans = order[p].trans
    <3>1. \/ CreateClaim(c, q) \/ PrepareWrite(c, q)
          \/ Pay(c, q) \/ CancelWrite(c, q) \/ RefuseWrite(c, q)
          \/ UNCHANGED order
      BY <2>7 DEF Step, CreateLook, CreateOrder, PerformLoad, CompleteLoad, ApplyRead, ApplyWrite,
                  Answer, CancelLoad, RevokeRead, RevokeWrite, PrepareLoad
    <3> QED
      BY <2>2, <2>3, <2>4, <2>6, <3>1
  <2> QED
    BY <2>5, <2>6, <2>7 DEF Next, Crash, Receive, Month, vars
<1> QED
  BY <1>1, IInvAlways, PTL DEF Spec, OneTransaction

-----------------------------------------------------------------------------
(* The months of one tariff *)

\* What is sold was ordered first, and only what was ordered is called about.
Bought ==
  \A p \in Payments :
    /\ IF order[p].status = "NONE" THEN order[p].plan = "start" ELSE order[p].plan \in Plans
    /\ \A c \in Calls : On(c, p) => order[p].status # "NONE"

\* All that is sold is tariff s, no call has written over another and no month has passed.
Steady(s) ==
  /\ ~clash /\ ~elapsed /\ crossed = {}
  /\ \A p \in Payments : order[p].plan \in {s, "start"}

Served == {p \in Payments : applied[p] > revoked[p]}

\* The plan has as many months as there are payments served, and falls back to Start with none.
Months(s) ==
  /\ IsFiniteSet(Served) /\ plan.until = Cardinality(Served)
  /\ plan.slug \in {s, "start"} /\ (plan.until > 0 => plan.slug = s)

MonthsInv == Bought /\ \A s \in Plans : Steady(s) => Months(s)

\* No call changes what an order buys, or makes it unordered.
LEMMA OrderKept ==
  ASSUME TypeOK, NEW c \in Calls, NEW q \in Payments, Step(c, q), NEW p \in Payments
  PROVE  /\ order'[p].plan = order[p].plan
         /\ order'[p].status = order[p].status \/ (q = p /\ order'[p].status # "NONE")
<1> DEFINE Goal == /\ order'[p].plan = order[p].plan
                   /\ order'[p].status = order[p].status \/ (q = p /\ order'[p].status # "NONE")
<1>1. order \in [Payments -> Order] /\ order[p] \in Order /\ order[q] \in Order
  BY DEF TypeOK
<1>2. ASSUME NEW st, NEW x,
             order' = [order EXCEPT ![q].status = st, ![q].state = x], st # "NONE"
      PROVE  Goal
  BY <1>1, <1>2 DEF Order
<1>3. CASE CreateClaim(c, q)
  BY <1>1, <1>3 DEF CreateClaim, Order
<1>4. CASE Pay(c, q)
  BY <1>2, <1>4 DEF Pay
<1>5. CASE CancelWrite(c, q)
  BY <1>2, <1>5 DEF CancelWrite
<1>6. CASE PrepareWrite(c, q)
  BY <1>1, <1>6 DEF PrepareWrite, Order
<1>7. CASE RefuseWrite(c, q)
  BY <1>2, <1>7 DEF RefuseWrite
<1>8. CASE UNCHANGED order
  BY <1>8
<1> QED
  BY <1>3, <1>4, <1>5, <1>6, <1>7, <1>8 DEF Step, CreateLook, CreateOrder, PerformLoad, CompleteLoad,
     ApplyRead, ApplyWrite, Answer, CancelLoad, RevokeRead, RevokeWrite, PrepareLoad

LEMMA BoughtNext == IInv /\ Bought /\ [Next]_vars => Bought'
<1> SUFFICES ASSUME IInv, Bought, [Next]_vars, NEW p \in Payments
             PROVE  /\ IF order'[p].status = "NONE" THEN order'[p].plan = "start" ELSE order'[p].plan \in Plans
                    /\ \A d \in Calls : call'[d].on = {p} => order'[p].status # "NONE"
  BY DEF Bought, On
<1> DEFINE Goal == /\ IF order'[p].status = "NONE" THEN order'[p].plan = "start" ELSE order'[p].plan \in Plans
                   /\ \A d \in Calls : call'[d].on = {p} => order'[p].status # "NONE"
<1>1. /\ TypeOK /\ Good(p)
      /\ IF order[p].status = "NONE" THEN order[p].plan = "start" ELSE order[p].plan \in Plans
      /\ \A d \in Calls : call[d].on = {p} => order[p].status # "NONE"
  BY DEF IInv, Bought, On
<1>2. ASSUME NEW q \in Payments, Checkout(q) PROVE Goal
  <2>1. PICK s \in Plans : order' = [order EXCEPT ![q].status = "CREATED", ![q].plan = s]
    BY <1>2 DEF Checkout
  <2>2. /\ order'[q].status = "CREATED" /\ order'[q].plan = s
        /\ p # q => order'[p] = order[p]
    BY <1>1, <2>1 DEF TypeOK, Order
  <2> QED
    BY <1>1, <1>2, <2>2 DEF Checkout, history
<1>3. ASSUME NEW q \in Payments, TwelveHours(q) PROVE Goal
  BY <1>1, <1>3 DEF TwelveHours, TypeOK, Order
<1>4. CASE Month \/ UNCHANGED vars
  BY <1>1, <1>4 DEF Month, vars
<1>5. ASSUME NEW c \in Calls, NEW q \in Payments, NEW a \in Attempts, NEW m \in Methods(q), Receive(c, q, a, m)
      PROVE  Goal
  <2>1. order' = order /\ order[q].status # "NONE"
    BY <1>5 DEF Receive
  <2>2. \A d \in Calls : d # c => call'[d] = call[d]
    BY <1>1, <1>5 DEF Receive, TypeOK
  <2>3. call'[c].on = {q}
    BY <1>1, <1>5 DEF Receive, TypeOK, IdleCall
  <2> QED
    BY <1>1, <2>1, <2>2, <2>3
<1>6. ASSUME NEW c \in Calls, NEW q \in Payments, Step(c, q) \/ Crash(c, q) PROVE Goal
  <2>1. \A d \in Calls : call'[d].on = {p} => call[d].on = {p}
    <3>1. \/ End(c) \/ \E s : Goto(c, s)
          \/ \E s, x : \/ call' = [call EXCEPT ![c].pc = s, ![c].state = x]
                       \/ call' = [call EXCEPT ![c].pc = s, ![c].plan = x]
      BY <1>6 DEF Step, Crash, CreateLook, CreateOrder, CreateClaim, PerformLoad, CompleteLoad, Pay,
            ApplyRead, ApplyWrite, Answer, CancelLoad, CancelWrite, RevokeRead, RevokeWrite, PrepareLoad,
            PrepareWrite, RefuseWrite
    <3>2. Leaves(c) \/ \E s : Moves(c, s)
      BY <1>1, <3>1, EndLeaves, GotoMoves, CopyMoves
    <3> QED
      BY <3>2 DEF Leaves, Moves
  <2>2. order'[p].plan = order[p].plan /\ (order'[p].status = order[p].status \/ (q = p /\ order'[p].status # "NONE"))
    BY <1>1, <1>6, OrderKept DEF Crash, history
  <2>3. order'[p].status # "NONE" => order[p].status # "NONE" \/ (q = p /\ call[c].on = {p})
    BY <1>6, <2>2 DEF Step, Crash, At, CreateLook, CreateOrder, CreateClaim, PerformLoad, CompleteLoad, Pay,
            ApplyRead, ApplyWrite, Answer, CancelLoad, CancelWrite, RevokeRead, RevokeWrite, PrepareLoad,
            PrepareWrite, RefuseWrite
  <2> QED
    BY <1>1, <2>1, <2>2, <2>3
<1> QED
  BY <1>2, <1>3, <1>4, <1>5, <1>6 DEF Next

\* One month more for one payment more, and one less for one less.
LEMMA MonthMore ==
  ASSUME TypeOK, NEW s \in Plans, Months(s), NEW p \in Payments, applied[p] = revoked[p],
         applied' = [applied EXCEPT ![p] = @ + 1], revoked' = revoked,
         plan' = Extended(plan, s)
  PROVE  Months(s)'
<1>1. applied[p] \in Nat /\ revoked[p] \in Nat /\ plan.until \in Nat /\ plan \in Plan
  BY DEF TypeOK, Plan
<1>2. Served' = Served \cup {p} /\ p \notin Served
  BY <1>1 DEF Served, TypeOK
<1>3. IsFiniteSet(Served)' /\ Cardinality(Served)' = Cardinality(Served) + 1
  BY <1>2, FS_AddElement DEF Months
<1>4. plan'.slug = s /\ plan'.until = plan.until + 1
  BY <1>1 DEF Extended, Months
<1> QED
  BY <1>1, <1>3, <1>4 DEF Months

LEMMA MonthLess ==
  ASSUME TypeOK, NEW s \in Plans, Months(s), NEW p \in Payments, applied[p] = revoked[p] + 1,
         revoked' = [revoked EXCEPT ![p] = @ + 1], applied' = applied,
         plan' = Shortened(plan, plan.until - 1)
  PROVE  Months(s)'
<1>1. applied[p] \in Nat /\ revoked[p] \in Nat /\ plan.until \in Nat /\ plan \in Plan
  BY DEF TypeOK, Plan
<1>2. Served' = Served \ {p} /\ p \in Served
  BY <1>1 DEF Served, TypeOK
<1>3. IsFiniteSet(Served)' /\ Cardinality(Served)' = Cardinality(Served) - 1
  BY <1>2, FS_RemoveElement DEF Months
<1>4. Cardinality(Served) \in Nat /\ Cardinality(Served) # 0
  BY <1>2, FS_CardinalityType, FS_EmptySet DEF Months
<1>5. plan'.slug \in {plan.slug, "start"} /\ plan'.until = plan.until - 1
      /\ (plan'.until > 0 => plan'.slug = plan.slug)
  BY <1>1, <1>4 DEF Shortened, Start, Plan, Months
<1> QED
  BY <1>1, <1>3, <1>4, <1>5 DEF Months

LEMMA PaidStands ==
  ASSUME IInv, NEW c \in Calls, NEW p \in Payments, On(c, p), crossed = {}
  PROVE  /\ call[c].pc = "applied" => applied[p] = revoked[p]
         /\ call[c].pc \in Revoking => applied[p] = revoked[p] + 1
  BY DEF IInv, Good, Accounts, Stands, Extending, Revoking

\* What went wrong once is remembered.
LEMMA HistoryGrows ==
  ASSUME TypeOK, [Next]_vars
  PROVE  crossed \subseteq crossed' /\ (clash => clash') /\ (elapsed => elapsed')
<1> DEFINE Grow == crossed \subseteq crossed' /\ (clash => clash') /\ (elapsed => elapsed')
<1>1. ASSUME NEW c \in Calls, NEW q \in Payments, Step(c, q) PROVE Grow
  <2>1. CASE ApplyWrite(c, q)
    BY <2>1 DEF ApplyWrite
  <2>2. CASE RevokeWrite(c, q)
    BY <2>2 DEF RevokeWrite
  <2>3. UNCHANGED <<crossed, clash, elapsed>> => Grow
    OBVIOUS
  <2>4. CASE CreateLook(c, q) \/ CreateOrder(c, q) \/ CreateClaim(c, q) \/ CompleteLoad(c, q) \/ ApplyRead(c, q)
    BY <2>3, <2>4 DEF CreateLook, CreateOrder, CreateClaim, CompleteLoad, ApplyRead, history
  <2>5. CASE PerformLoad(c, q) \/ Pay(c, q) \/ Answer(c, q) \/ RevokeRead(c, q)
    BY <2>3, <2>5 DEF PerformLoad, Pay, Answer, RevokeRead
  <2>6. CASE CancelLoad(c, q) \/ CancelWrite(c, q) \/ PrepareLoad(c, q) \/ PrepareWrite(c, q) \/ RefuseWrite(c, q)
    BY <2>3, <2>6 DEF CancelLoad, CancelWrite, PrepareLoad, PrepareWrite, RefuseWrite, history
  <2> QED
    BY <1>1, <2>1, <2>2, <2>4, <2>5, <2>6 DEF Step
<1>2. ASSUME NEW c \in Calls, NEW q \in Payments, NEW a \in Attempts, NEW m \in Methods(q), Receive(c, q, a, m)
      PROVE  Grow
  BY <1>2 DEF Receive
<1>3. ASSUME NEW c \in Calls, NEW q \in Payments, Crash(c, q) PROVE Grow
  BY <1>3 DEF Crash
<1>4. ASSUME NEW q \in Payments, Checkout(q) \/ TwelveHours(q) PROVE Grow
  BY <1>4 DEF Checkout, TwelveHours, history
<1>5. CASE Month \/ UNCHANGED vars
  BY <1>5 DEF Month, vars
<1> QED
  BY <1>1, <1>2, <1>3, <1>4, <1>5 DEF Next

LEMMA MonthsNext ==
  ASSUME IInv, MonthsInv, [Next]_vars
  PROVE  MonthsInv'
<1> SUFFICES ASSUME NEW s \in Plans, Steady(s)' PROVE Months(s)'
  BY BoughtNext DEF MonthsInv
<1>1. TypeOK /\ Bought /\ Bought'
  BY BoughtNext DEF IInv, MonthsInv
<1>2. \A p \in Payments : order[p].plan # order'[p].plan => order[p].status = "NONE"
  <2> SUFFICES ASSUME NEW p \in Payments, order[p].status # "NONE" PROVE order'[p].plan = order[p].plan
    OBVIOUS
  <2>1. ASSUME NEW q \in Payments, Checkout(q) PROVE order'[p].plan = order[p].plan
    <3>1. PICK t \in Plans : order' = [order EXCEPT ![q].status = "CREATED", ![q].plan = t]
      BY <2>1 DEF Checkout
    <3> QED
      BY <1>1, <2>1, <3>1 DEF Checkout, TypeOK, Order
  <2>2. ASSUME NEW q \in Payments, TwelveHours(q) PROVE order'[p].plan = order[p].plan
    BY <1>1, <2>2 DEF TwelveHours, TypeOK, Order
  <2>3. ASSUME NEW c \in Calls, NEW q \in Payments, Step(c, q) PROVE order'[p].plan = order[p].plan
    BY <1>1, <2>3, OrderKept
  <2> QED
    BY <2>1, <2>2, <2>3 DEF Next, Crash, Receive, Month, vars
<1>3. crossed' = {} /\ ~clash' /\ ~elapsed'
  BY DEF Steady
<1>4. crossed = {} /\ ~clash /\ ~elapsed
  BY <1>1, <1>3, HistoryGrows
<1>5. Steady(s)
  BY <1>1, <1>2, <1>4, BillingAssumption DEF Steady, Bought
<1>6. Months(s)
  BY <1>5 DEF MonthsInv
<1>7. CASE UNCHANGED <<plan, applied, revoked>>
  BY <1>6, <1>7 DEF Months, Served
<1>8. ASSUME NEW c \in Calls, NEW p \in Payments, ApplyWrite(c, p) PROVE Months(s)'
  <2>1. On(c, p) /\ call[c].pc = "applied" /\ order[p].plan = s
    BY <1>1, <1>5, <1>8, BillingAssumption DEF ApplyWrite, At, On, Bought, Steady
  <2>2. plan = call[c].plan
    BY <1>3, <1>8 DEF ApplyWrite
  <2> QED
    BY <1>1, <1>4, <1>6, <1>8, <2>1, <2>2, PaidStands, MonthMore DEF ApplyWrite
<1>9. ASSUME NEW c \in Calls, NEW p \in Payments, RevokeRead(c, p) PROVE Months(s)'
  <2>1. On(c, p) /\ call[c].pc \in Revoking /\ order[p].plan = s
    BY <1>1, <1>5, <1>9, BillingAssumption DEF RevokeRead, At, On, Bought, Steady, Revoking
  <2>2. applied[p] = revoked[p] + 1
    BY <1>4, <2>1, PaidStands
  <2>3. p \in Served /\ plan.until \in Nat
    BY <1>1, <2>2 DEF Served, TypeOK, Plan
  <2>4. Cardinality(Served) \in Nat /\ Cardinality(Served) # 0
    BY <1>6, <2>3, FS_CardinalityType, FS_EmptySet DEF Months
  <2>5. plan.slug = order[p].plan
    BY <1>6, <2>1, <2>3, <2>4 DEF Months
  <2> QED
    BY <1>7, <1>9, <2>5 DEF RevokeRead
<1>10. ASSUME NEW c \in Calls, NEW p \in Payments, RevokeWrite(c, p) PROVE Months(s)'
  <2>1. On(c, p) /\ call[c].pc \in Revoking /\ plan = call[c].plan
    BY <1>3, <1>10 DEF RevokeWrite, At, On, Revoking
  <2>2. applied[p] = revoked[p] + 1
    BY <1>4, <2>1, PaidStands
  <2> QED
    BY <1>1, <1>6, <1>10, <2>1, <2>2, MonthLess DEF RevokeWrite
<1>11. ASSUME NEW c \in Calls, NEW p \in Payments, Step(c, p) PROVE Months(s)'
  BY <1>7, <1>8, <1>9, <1>10, <1>11 DEF Step, history, CreateLook, CreateOrder, CreateClaim, PerformLoad,
     CompleteLoad, Pay, ApplyRead, Answer, CancelLoad, CancelWrite, PrepareLoad, PrepareWrite, RefuseWrite
<1>12. ~Month
  BY <1>3 DEF Month
<1> QED
  BY <1>7, <1>11, <1>12 DEF Next, Checkout, TwelveHours, Receive, Crash, vars, history

LEMMA MonthsInit == Init => MonthsInv
<1> SUFFICES ASSUME Init PROVE MonthsInv
  OBVIOUS
<1>1. Bought
  BY IdleTyped DEF Init, Bought, NoOrder, On
<1>2. Served = {}
  BY DEF Init, Served
<1>3. \A s \in Plans : Months(s)
  BY <1>2, FS_EmptySet DEF Init, Months, Start
<1> QED
  BY <1>1, <1>3 DEF MonthsInv

\* With no call under way, the plan has as many months as there are PAID payments of its
\* tariff, refunds taken off, unless two calls wrote the plan over one another.
THEOREM MonthsStand == Spec => []MonthsAddUp
<1>1. IInv /\ MonthsInv => MonthsAddUp
  <2> SUFFICES ASSUME IInv, MonthsInv, ~clash, ~elapsed, crossed = {}, \A p \in Payments : Quiet(p),
                      NEW s \in Plans, \A p \in Payments : order[p].plan \in {s, "start"}
               PROVE  plan.until = Cardinality({p \in Payments : order[p].status = "PAID"})
    BY DEF MonthsAddUp
  <2>1. Months(s)
    BY DEF MonthsInv, Steady
  <2>2. ASSUME NEW p \in Payments PROVE p \in Served <=> order[p].status = "PAID"
    <3>1. Good(p) /\ applied[p] \in Nat /\ revoked[p] \in Nat
      BY DEF IInv, TypeOK
    <3>2. applied[p] = revoked[p] + (IF order[p].state = 2 THEN 1 ELSE 0)
      BY <3>1 DEF Good, Accounts, Balanced, Quiet, On
    <3> QED
      BY <3>1, <3>2 DEF Good, Shape, Served
  <2>3. Served = {p \in Payments : order[p].status = "PAID"}
    BY <2>2 DEF Served
  <2> QED
    BY <2>1, <2>3 DEF Months
<1>2. IInv /\ MonthsInv /\ [Next]_vars => MonthsInv'
  BY MonthsNext
<1> QED
  BY <1>1, <1>2, MonthsInit, IInvAlways, PTL DEF Spec
=============================================================================
