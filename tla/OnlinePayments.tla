---------------------------- MODULE OnlinePayments ----------------------------
(***************************************************************************)
(* Paying a fee assignment online: PaymentOrderService opens orders at the *)
(* gateway, PaymentVerificationService learns of payments twice over, from *)
(* the client's callback (verify_payment) and from the gateway's webhooks  *)
(* (process_webhook), and PaymentSettlementService credits them to the fee *)
(* ledger of module FeeLedger.                                             *)
(*                                                                         *)
(* Each call is split where its database transaction is: what it reads     *)
(* before it commits may be stale by then, and a call that marks an order  *)
(* PAID commits before it settles.  The gateway is external: it takes at   *)
(* most one payment per order, and delivers each event at least once, in   *)
(* any order, until a delivery succeeds.                                   *)
(*                                                                         *)
(* The amount, currency, school and order of a transaction are those of    *)
(* its order from the start, so the checks that compare them never fail    *)
(* and are left out.                                                       *)
(***************************************************************************)
EXTENDS FeeLedger

CONSTANTS
    Clerk,      \* sessions of the fees API
    Client,     \* sessions of create_payment_order and verify_payment
    Hook,       \* sessions of the webhook endpoints
    Fallible,   \* sessions that may die in the middle of a call
    Order,      \* payment orders that may be opened
    OrderOf,    \* the order a payment, named by its gateway id, is made for
    EventKind,  \* the webhook events the school subscribed to
    NoEvent     \* gateway_event_id of a transaction verify_payment inserted

Payment == Ref
Online  == Client \cup Hook
Event   == [kind : EventKind, payment : Payment]

ASSUME OnlineAssumption ==
    /\ Session = Clerk \cup Client \cup Hook
    /\ Fallible \subseteq Session
    /\ OrderOf \in [Payment -> Order]
    /\ EventKind \subseteq {"payment.authorized", "payment.captured",
                            "order.paid", "payment.failed"}
    /\ NoEvent \notin Event

VARIABLES
    orders,   \* payment_orders, by order
    txns,     \* payment_transactions, by gateway_transaction_id
    gateway,  \* the state of each payment at the gateway
    acked,    \* webhook events answered with success
    told,     \* orders for which verify_payment answered with success
    step,     \* where a session is in an online call
    job       \* what that call has read or is about to do

onlineVars == <<orders, txns, gateway, acked, told, step, job>>
vars == <<ledgerVars, onlineVars>>

OrderStatus == {"ABSENT", "CREATED", "PAID", "FAILED", "CANCELLED"}
TxnStatus   == {"ABSENT", "SUCCESS", "PENDING", "FAILED"}

\* amount and supersede are create_payment_order's, the other fields those of
\* verify_payment, process_webhook and the settlement they lead to: the order
\* verify_payment will answer for, the status of the order and whether the
\* transaction existed when they were read, the transaction inserted but not
\* committed, and the status of the assignment if it was loaded before the
\* settlement locks it.
Job == [amount    : Nat,
        supersede : SUBSET Order,
        payment   : Payment \cup {NoRef},
        event     : Event \cup {NoEvent},
        asked     : SUBSET Order,
        order     : OrderStatus,
        known     : BOOLEAN,
        insert    : BOOLEAN,
        loaded    : Status \cup {"NOT_LOADED"}]

NoJob == [amount |-> 0, supersede |-> {}, payment |-> NoRef, event |-> NoEvent,
          asked |-> {}, order |-> "ABSENT", known |-> FALSE, insert |-> FALSE,
          loaded |-> "NOT_LOADED"]

OnlineTypeOK ==
    /\ LedgerTypeOK
    /\ orders \in [Order -> [status : OrderStatus, amount : Nat]]
    /\ txns \in [Payment -> [status : TxnStatus, event : Event \cup {NoEvent}]]
    /\ gateway \in [Payment -> {"none", "authorized", "captured", "failed"}]
    /\ acked \subseteq Event
    /\ told \subseteq Order
    /\ step \in [Online -> {"idle", "create", "verify", "webhook", "settle"}]
    /\ job \in [Online -> Job]

-----------------------------------------------------------------------------
\* Mutant: a failed payment's transaction gets a status of its own.
StatusOfDeclined(e) ==
    IF e.kind = "payment.failed" THEN "DECLINED" ELSE "SUCCESS"

\* The status an event gives the transaction it creates.
StatusOf(e) ==
    CASE e.kind \in {"order.paid", "payment.captured"} -> "SUCCESS"
      [] e.kind = "payment.authorized"                 -> "PENDING"
      [] e.kind = "payment.failed"                     -> "FAILED"

\* The events the gateway has emitted so far.
Emitted(e) ==
    CASE e.kind \in {"order.paid", "payment.captured"} -> gateway[e.payment] = "captured"
      [] e.kind = "payment.authorized" -> gateway[e.payment] \in {"authorized", "captured"}
      [] e.kind = "payment.failed"     -> gateway[e.payment] = "failed"

Active   == {o \in Order : orders[o].status = "CREATED"}
Credited == {p \in Payment : \E row \in payments : row.ref = p}

JobOrder(h) == OrderOf[job[h].payment]

\* A settlement holds its order FOR UPDATE as long as it holds the assignment.
Settling(h, o) == lock = h /\ step[h] = "settle" /\ JobOrder(h) = o
OrderLocked(o) == \E h \in Online : Settling(h, o)

\* The transaction of p is inserted but not committed: another insert of it
\* waits for the unique index, and a FOR UPDATE of its order for the key share
\* of the foreign key.
Inserting(h, p) == step[h] = "settle" /\ job[h].insert /\ job[h].payment = p

Goto(h, s, j) ==
    /\ step' = [step EXCEPT ![h] = s]
    /\ job' = [job EXCEPT ![h] = j]

Done(h) == Goto(h, "idle", NoJob)

\* The call is over and is answered with success.
Answer(h, e) ==
    /\ acked' = IF e \in Event THEN acked \cup {e} ELSE acked
    /\ told' = IF e \in Event THEN told ELSE told \cup job[h].asked

Ready(h) == step[h] = "idle" /\ pc[h] = "idle"

-----------------------------------------------------------------------------
(***************************************************************************)
(* create_payment_order.  An active order of the amount due is handed out  *)
(* again without any change; an amount the column cannot hold is refused.  *)
(***************************************************************************)
OrderLoad(c) ==
    /\ Ready(c)
    /\ ~deleted
    /\ status \notin {"CANCELLED", "PAID"}
    /\ Outstanding(Current) \in Amount
    /\ \A o \in Active : orders[o].amount # Outstanding(Current)
    /\ Goto(c, "create", [NoJob EXCEPT !.amount = Outstanding(Current),
                                       !.supersede = Active])
    /\ UNCHANGED <<ledgerVars, orders, txns, gateway, acked, told>>

\* Mutant: superseded orders stay active.
OrderCommitOnly(c) ==
    /\ step[c] = "create"
    /\ Free
    /\ \E new \in Order :
          /\ orders[new].status = "ABSENT"
          /\ orders' = [orders EXCEPT ![new] = [status |-> "CREATED", amount |-> job[c].amount]]
    /\ Done(c)
    /\ UNCHANGED <<ledgerVars, txns, gateway, acked, told>>

\* The gateway has created the order; it is inserted, and the active orders
\* that were read are cancelled, whatever became of them since.
OrderCommit(c) ==
    /\ step[c] = "create"
    /\ Free
    /\ \E new \in Order :
          /\ orders[new].status = "ABSENT"
          /\ orders' = [o \in Order |->
                IF o = new THEN [status |-> "CREATED", amount |-> job[c].amount]
                ELSE IF o \in job[c].supersede THEN [orders[o] EXCEPT !.status = "CANCELLED"]
                ELSE orders[o]]
    /\ Done(c)
    /\ UNCHANGED <<ledgerVars, txns, gateway, acked, told>>

-----------------------------------------------------------------------------
(***************************************************************************)
(* The gateway, as the handlers know it: a payment attempt is authorized   *)
(* and captured, or fails; an order is paid at most once.                  *)
(***************************************************************************)
Attempt(p, outcome) ==
    /\ gateway[p] = "none"
    /\ orders[OrderOf[p]].status # "ABSENT"
    /\ \A q \in Payment : OrderOf[q] = OrderOf[p] => gateway[q] \in {"none", "failed"}
    /\ gateway' = [gateway EXCEPT ![p] = outcome]
    /\ UNCHANGED <<ledgerVars, orders, txns, acked, told, step, job>>

Capture(p) ==
    /\ gateway[p] = "authorized"
    /\ gateway' = [gateway EXCEPT ![p] = "captured"]
    /\ UNCHANGED <<ledgerVars, orders, txns, acked, told, step, job>>

-----------------------------------------------------------------------------
\* Mutant: whatever is no longer open is answered as processed already.
VerifyLoadClosed(c, o, p) ==
    /\ Ready(c)
    /\ ~deleted
    /\ \/ /\ orders[o].status = "CREATED"
          /\ o = OrderOf[p]
          /\ gateway[p] \in {"authorized", "captured"}
          /\ Goto(c, "verify", [NoJob EXCEPT !.payment = p,
                                  !.known = txns[p].status # "ABSENT"])
          /\ UNCHANGED told
       \/ /\ orders[o].status \in {"PAID", "FAILED", "CANCELLED"}
          /\ told' = told \cup {o}
          /\ UNCHANGED <<step, job>>
    /\ UNCHANGED <<ledgerVars, orders, txns, gateway, acked>>

(***************************************************************************)
(* verify_payment for the order and the payment the client names.  Only    *)
(* for an order that is not PAID is the checkout's signature verified: it  *)
(* binds the payment, once authorized, to its order.  For an order read as *)
(* PAID, the transaction of whatever payment is named is settled if it is  *)
(* successful, with an assignment loaded before it is locked; the answer   *)
(* is success whether there was such a transaction or not.                 *)
(***************************************************************************)
VerifyLoad(c, o, p) ==
    /\ Ready(c)
    /\ ~deleted
    /\ \/ /\ orders[o].status # "PAID"
          /\ o = OrderOf[p]
          /\ gateway[p] \in {"authorized", "captured"}
          /\ Goto(c, "verify", [NoJob EXCEPT !.payment = p,
                                  !.known = txns[p].status # "ABSENT"])
          /\ UNCHANGED told
       \/ /\ orders[o].status = "PAID"
          /\ txns[p].status = "SUCCESS"
          /\ Goto(c, "settle", [NoJob EXCEPT !.payment = p, !.asked = {o},
                                  !.loaded = status])
          /\ UNCHANGED told
       \/ /\ orders[o].status = "PAID"
          /\ txns[p].status # "SUCCESS"
          /\ told' = told \cup {o}
          /\ UNCHANGED <<step, job>>
    /\ UNCHANGED <<ledgerVars, orders, txns, gateway, acked>>

\* The transaction, looked up after the order was read, is inserted unless
\* there is one by now; the order becomes PAID, and both are committed before
\* the settlement starts.
VerifyCommit(c) ==
    LET p == job[c].payment IN
    /\ step[c] = "verify"
    /\ ~OrderLocked(OrderOf[p])
    /\ \A g \in Online : ~Inserting(g, p)
    /\ txns' = IF txns[p].status # "ABSENT" THEN txns
               ELSE [txns EXCEPT ![p] = [status |-> "SUCCESS", event |-> NoEvent]]
    /\ orders' = [orders EXCEPT ![OrderOf[p]].status = "PAID"]
    /\ Goto(c, "settle", [NoJob EXCEPT !.payment = p, !.asked = {OrderOf[p]}])
    /\ UNCHANGED <<ledgerVars, gateway, acked, told>>

\* A transaction inserted after the lookup: the unique index refuses the
\* second one and the call fails.
VerifyReject(c) ==
    /\ step[c] = "verify"
    /\ ~job[c].known
    /\ txns[job[c].payment].status # "ABSENT"
    /\ Done(c)
    /\ UNCHANGED <<ledgerVars, orders, txns, gateway, acked, told>>

-----------------------------------------------------------------------------
(***************************************************************************)
(* process_webhook.  An event that a transaction already carries is        *)
(* acknowledged and nothing else is done.                                  *)
(***************************************************************************)
WebhookLoad(w, e) ==
    /\ Ready(w)
    /\ Emitted(e)
    /\ \/ /\ \E p \in Payment : txns[p].event = e
          /\ acked' = acked \cup {e}
          /\ UNCHANGED <<step, job>>
       \/ /\ \A p \in Payment : txns[p].event # e
          /\ Goto(w, "webhook", [NoJob EXCEPT !.payment = e.payment, !.event = e,
                                   !.order = orders[OrderOf[e.payment]].status,
                                   !.known = txns[e.payment].status # "ABSENT"])
          /\ UNCHANGED acked
    /\ UNCHANGED <<ledgerVars, orders, txns, gateway, told>>

\* The order status the handler writes, given the one it has read.
NextOrderStatus(e, read) ==
    CASE StatusOf(e) = "SUCCESS" -> "PAID"
      [] StatusOf(e) = "FAILED"  -> "FAILED"
      [] OTHER                   -> read

\* Mutants: the order follows the event even if it was read as PAID; the
\* handler stops once the transaction is recorded.
WebhookRegress(w, raced) ==
    LET p == job[w].payment
        e == job[w].event
    IN
    /\ step[w] = "webhook"
    /\ ~raced
    /\ ~OrderLocked(OrderOf[p])
    /\ txns' = IF txns[p].status = "ABSENT"
               THEN [txns EXCEPT ![p] = [status |-> StatusOf(e), event |-> e]] ELSE txns
    /\ orders' = [orders EXCEPT ![OrderOf[p]].status = NextOrderStatus(e, job[w].order)]
    /\ Done(w)
    /\ Answer(w, e)
    /\ UNCHANGED <<ledgerVars, gateway>>
WebhookRecordOnly(w, raced) == job[w].order # "PAID" /\ WebhookRegress(w, raced)

(***************************************************************************)
(* A new event's transaction, looked up after the order was read, is       *)
(* inserted unless there is one.  If it appeared after the lookup (raced), *)
(* the unique index refuses the insert: the handler rolls back and reads   *)
(* again.  The order follows the event unless it was read as PAID; only    *)
(* then is anything committed.  A successful transaction is settled next.  *)
(***************************************************************************)
WebhookApply(w, raced) ==
    LET p == job[w].payment
        e == job[w].event
        o == OrderOf[p]
        insert == txns[p].status = "ABSENT"
        read   == IF raced THEN orders[o].status ELSE job[w].order
        target == IF insert THEN StatusOf(e) ELSE txns[p].status
        moves  == read # "PAID" /\ NextOrderStatus(e, read) # read
    IN
    /\ step[w] = "webhook"
    /\ raced => ~job[w].known /\ ~insert
    /\ insert \/ moves => ~OrderLocked(o)
    /\ \A g \in Online : ~Inserting(g, p)
    /\ IF read # "PAID"
         THEN /\ txns' = IF insert THEN [txns EXCEPT ![p] = [status |-> target, event |-> e]]
                         ELSE txns
              /\ orders' = IF moves THEN [orders EXCEPT ![o].status = NextOrderStatus(e, read)]
                           ELSE orders
         ELSE UNCHANGED <<txns, orders>>
    /\ IF target = "SUCCESS"
         THEN /\ Goto(w, "settle", [NoJob EXCEPT !.payment = p, !.event = e,
                                      !.insert = insert /\ read = "PAID"])
              /\ UNCHANGED <<acked, told>>
         ELSE Done(w) /\ Answer(w, e)
    /\ UNCHANGED <<ledgerVars, gateway>>

-----------------------------------------------------------------------------
(***************************************************************************)
(* settle_payment_transaction.                                             *)
(***************************************************************************)

\* The status of the transaction as the settlement locks it.
Target(h) == IF job[h].insert THEN StatusOf(job[h].event)
             ELSE txns[job[h].payment].status

\* The row locks on transaction, order and assignment are granted.
CanLock(h) ==
    /\ step[h] = "settle"
    /\ pc[h] = "idle"
    /\ Free
    /\ \A g \in Online \ {h} : ~(\E q \in Payment : Inserting(g, q) /\ OrderOf[q] = JobOrder(h))

\* Mutants: the reference number is not looked up; the status of the
\* transaction is not looked at.
SettleTwice(h) ==
    /\ CanLock(h)
    /\ Target(h) = "SUCCESS"
    /\ orders[JobOrder(h)].amount <= Outstanding(Current)
    /\ PayLock(h, status)
    /\ UNCHANGED onlineVars
SettleAnyStatus(h) ==
    /\ CanLock(h)
    /\ job[h].payment \notin Credited
    /\ orders[JobOrder(h)].amount <= Outstanding(Current)
    /\ PayLock(h, status)
    /\ UNCHANGED onlineVars

\* The payment is not yet in the ledger and fits in the amount due: the
\* session keeps its locks and goes on to record_payment.
SettleLock(h) ==
    /\ CanLock(h)
    /\ Target(h) = "SUCCESS"
    /\ job[h].payment \notin Credited
    /\ orders[JobOrder(h)].amount <= Outstanding(Current)
    /\ PayLock(h, IF job[h].loaded = "NOT_LOADED" THEN status ELSE job[h].loaded)
    /\ UNCHANGED onlineVars

\* A payment with this reference number is in the ledger: the settlement
\* returns it, and what the session had not committed is gone.
SettleKnown(h) ==
    /\ CanLock(h)
    /\ ~deleted
    /\ Target(h) = "SUCCESS"
    /\ job[h].payment \in Credited
    /\ Done(h)
    /\ Answer(h, job[h].event)
    /\ UNCHANGED <<ledgerVars, orders, txns, gateway>>

\* A transaction that is not successful, an assignment that is gone, or an
\* amount beyond what is due: the call fails.
SettleReject(h) ==
    /\ CanLock(h)
    /\ \/ Target(h) # "SUCCESS"
       \/ deleted
       \/ /\ job[h].payment \notin Credited
          /\ orders[JobOrder(h)].amount > Outstanding(Current)
    /\ Done(h)
    /\ UNCHANGED <<ledgerVars, orders, txns, gateway, acked, told>>

\* record_payment commits the payment, and the transaction if it was not yet.
SettleCommit(h) ==
    LET p == job[h].payment
        e == job[h].event
    IN
    /\ step[h] = "settle"
    /\ PayCommit(h, orders[OrderOf[p]].amount, p)
    /\ txns' = IF job[h].insert
               THEN [txns EXCEPT ![p] = [status |-> StatusOf(e), event |-> e]]
               ELSE txns
    /\ Done(h)
    /\ Answer(h, e)
    /\ UNCHANGED <<orders, gateway>>

\* record_payment refuses a cancelled assignment.
SettleCancelled(h) ==
    /\ step[h] = "settle"
    /\ view[h].status = "CANCELLED"
    /\ Abort(h)
    /\ Done(h)
    /\ UNCHANGED <<orders, txns, gateway, acked, told>>

\* The session dies; what it had not committed is rolled back.
Crash(h) ==
    /\ h \in Fallible
    /\ step[h] # "idle"
    /\ \/ pc[h] # "idle" /\ Abort(h)
       \/ pc[h] = "idle" /\ UNCHANGED ledgerVars
    /\ Done(h)
    /\ UNCHANGED <<orders, txns, gateway, acked, told>>

-----------------------------------------------------------------------------
Init ==
    /\ LedgerInit
    /\ orders = [o \in Order |-> [status |-> "ABSENT", amount |-> 0]]
    /\ txns = [p \in Payment |-> [status |-> "ABSENT", event |-> NoEvent]]
    /\ gateway = [p \in Payment |-> "none"]
    /\ acked = {}
    /\ told = {}
    /\ step = [h \in Online |-> "idle"]
    /\ job = [h \in Online |-> NoJob]

Staff(s) ==
    /\ s \in Online => step[s] = "idle"
    /\ StaffStep(s)
    /\ UNCHANGED onlineVars

Settle(h) ==
    \/ SettleLock(h) \/ SettleKnown(h) \/ SettleReject(h)
    \/ SettleCommit(h) \/ SettleCancelled(h)

Next ==
    \/ \E s \in Clerk : Staff(s)
    \/ \E c \in Client :
          \/ OrderLoad(c) \/ OrderCommit(c)
          \/ \E o \in Order, p \in Payment : VerifyLoad(c, o, p)
          \/ VerifyCommit(c) \/ VerifyReject(c)
    \/ \E w \in Hook :
          \/ \E e \in Event : WebhookLoad(w, e)
          \/ \E raced \in BOOLEAN : WebhookApply(w, raced)
    \/ \E h \in Online : Settle(h) \/ Crash(h)
    \/ \E p \in Payment :
          \/ \E outcome \in {"authorized", "failed"} : Attempt(p, outcome)
          \/ Capture(p)

Spec == Init /\ [][Next]_vars

(***************************************************************************)
(* Every call that is under way goes on; locks are granted in turn; and    *)
(* the gateway redelivers an event until it is acknowledged, to a webhook  *)
(* process that is free time and again.                                    *)
(***************************************************************************)
Fairness ==
    /\ \A s \in Clerk : WF_vars(pc[s] # "idle" /\ Staff(s))
    /\ \A c \in Client :
          /\ SF_vars(OrderCommit(c))
          /\ SF_vars(VerifyCommit(c) \/ VerifyReject(c))
    /\ \A w \in Hook :
          /\ \A e \in Event : SF_vars(e \notin acked /\ WebhookLoad(w, e))
          /\ SF_vars(\E raced \in BOOLEAN : WebhookApply(w, raced))
    /\ \A h \in Online : SF_vars(Settle(h))

FairSpec == Spec /\ Fairness

-----------------------------------------------------------------------------
(***************************************************************************)
(* Safety, whatever the interleaving and whoever dies in the middle.       *)
(***************************************************************************)

\* Verification, webhook and redelivered webhook all try to settle a payment:
\* it is credited at most once.
SettledOnce ==
    \A q, r \in payments : q.ref = r.ref /\ q.ref # NoRef => q = r

\* Every online credit has behind it a transaction recorded as successful, an
\* order opened for exactly that amount, and a payment that the gateway did
\* take.
CreditBacked ==
    \A row \in payments : row.ref # NoRef =>
        /\ txns[row.ref].status = "SUCCESS"
        /\ orders[OrderOf[row.ref]].amount = row.amount
        /\ gateway[row.ref] \in {"authorized", "captured"}

\* A successful transaction, once recorded, is never lost, and an order never
\* changes its amount.
RecordsStay ==
    [][/\ \A p \in Payment : txns[p].status = "SUCCESS" => txns'[p] = txns[p]
       /\ \A o \in Order : orders[o].status # "ABSENT" =>
             orders'[o].status # "ABSENT" /\ orders'[o].amount = orders[o].amount]_vars

\* Whatever verify_payment reports an order as verified for, whether it has
\* checked a signature or found the order PAID: the gateway did take a payment
\* of that order, and a transaction records it, as successful or, if a webhook
\* of its authorization came first, as pending.
VerifiedIsTaken ==
    \A o \in told : \E p \in Payment :
        /\ OrderOf[p] = o
        /\ gateway[p] \in {"authorized", "captured"}
        /\ txns[p].status \in {"SUCCESS", "PENDING"}

(***************************************************************************)
(* What the handlers intend for orders.  It holds of calls that follow one *)
(* another, not of calls that overlap.                                     *)
(***************************************************************************)

\* process_webhook: a PAID order does not become FAILED.
PaidNeverFails ==
    [][\A o \in Order : orders[o].status = "PAID" => orders'[o].status # "FAILED"]_vars

\* create_payment_order reuses or supersedes the active order: there is never
\* a second one for the same assignment.
OneActiveOrder == \A o, q \in Active : o = q

(***************************************************************************)
(* Liveness.                                                               *)
(***************************************************************************)

\* A payment the gateway captured is eventually credited, with nobody but the
\* gateway's webhooks to see to it.
CapturedIsCredited ==
    \A p \in Payment : gateway[p] = "captured" ~> p \in Credited
=============================================================================
