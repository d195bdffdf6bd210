---------------------------- MODULE OrderLifecycle ----------------------------
(***************************************************************************)
(* The life of an order in mapanytime-api: checkout, payment, fulfilment,  *)
(* cancellation and expiry, on top of the stock ledger of InventoryStock.  *)
(*                                                                         *)
(* Every HTTP request, webhook delivery and job is an actor that takes the *)
(* steps its handler takes between two points where others can run: a      *)
(* database read whose result is used later, a committed transaction, a    *)
(* call to the payment gateway.  A request runs once, from pc "idle" to    *)
(* "done"; a request that never gets there has crashed.                    *)
(*                                                                         *)
(* The payment gateway is external.  It keeps, per order, the checkout     *)
(* sessions opened with it, the ones that were paid and the refunds made,  *)
(* and it sends events, each any number of times.                          *)
(***************************************************************************)
EXTENDS InventoryStock, Sequences

CONSTANTS
    ClientRows,      \* rows the buyer takes through POST /reservations
    Releasable,      \* rows the buyer gives back through the release endpoint
    Deliveries,      \* webhook deliveries
    Cancels,         \* cancelOrder requests
    Completions,     \* completeOrder requests
    Updates,         \* updateFulfillmentStatus requests
    Initiations,     \* initiateOrderPayment requests
    Reconcilers,     \* payment reconciliation jobs
    OrderSweepers,   \* processes that run expireStalePendingOrders
    Events,          \* gateway event ids
    NoEvent,         \* an event that has not happened
    EventKinds,      \* subset of {"success", "failure"}: what the gateway reports
    Methods,         \* subset of {"CASH", "GATEWAY"}: PAYMENTMETHODTYPE on offer
    RefundOutcomes,  \* subset of {"ok", "refused", "lost"}
    Overlapping,     \* may the gateway retry an event it still waits for?
    MaxCrashes,      \* bound on the deliveries during which the process dies
    MaxSessions,     \* bound on the checkout sessions of one order
    MaxAttempts      \* bound on the deliveries of one event

ASSUME OrderConstants ==
    /\ ClientRows \subseteq Reservations
    /\ Releasable \subseteq Reservations
    /\ EventKinds \subseteq {"success", "failure"}
    /\ Methods \subseteq {"CASH", "GATEWAY"}
    /\ RefundOutcomes \subseteq {"ok", "refused", "lost"}
    /\ Overlapping \in BOOLEAN
    /\ MaxCrashes \in Nat
    /\ MaxSessions \in Nat
    /\ MaxAttempts \in Nat
    /\ IsFiniteSet(Deliveries)
    \* a delivery is not a request of another kind
    /\ Deliveries \cap (Cancels \cup Completions \cup Updates \cup Initiations
                        \cup Reconcilers) = {}

VARIABLES
    orderStatus,  \* Orders.status
    items,        \* the order's lines, each named by the hold checkout made for it
    aged,         \* createdAt <= now - PENDING_ORDER_TTL_MINUTES
    booked,       \* settlement, points, incentive and commission rows exist
    totalSold,    \* Products.totalSold
    checkout,     \* createOrder's gateway call: "none", the method, or "done"
    payments,     \* the Payments rows of each order, oldest first
    feeKept,      \* the refund's gateway fee is on the order's ledger
    processed,    \* PaymentWebhookEvents.processed
    opened,       \* gateway: number of checkout sessions of the order
    paid,         \* gateway: the sessions that captured money
    refunds,      \* gateway: refunds made for the order
    events,       \* gateway: what each event reports
    call,         \* the progress of every request
    staleOrders,  \* what each order sweeper has read and not yet handled
    pendingRows   \* what each reconciliation job has read and not yet handled

orderVars   == <<orderStatus, items, aged, booked, totalSold, checkout>>
paymentVars == <<payments, feeKept, processed>>
gatewayVars == <<opened, paid, refunds, events>>
actorVars   == <<call, staleOrders, pendingRows>>
lifeVars    == <<orderVars, paymentVars, gatewayVars, actorVars>>
vars        == <<stockVars, lifeVars>>

-----------------------------------------------------------------------------
(* Orders                                                                  *)

OrderStatus == {"NONE", "PENDING", "PROCESSING", "READY_FOR_PICKUP",
                "COMPLETED", "CANCELLED", "FAILED"}

AllowedTransitions ==
    [from \in OrderStatus |->
       CASE from = "PENDING"          -> {"PROCESSING", "CANCELLED", "FAILED"}
         [] from = "PROCESSING"       -> {"READY_FOR_PICKUP", "CANCELLED"}
         [] from = "READY_FOR_PICKUP" -> {"COMPLETED", "CANCELLED"}
         [] OTHER                     -> {}]

\* validateOrderTransition does not throw.
ValidTransition(from, to) == from = to \/ to \in AllowedTransitions[from]

Exists(o) == orderStatus[o] # "NONE"

Closed == {"CANCELLED", "FAILED"}

\* The orders whose holds expireStaleReservations leaves alone.
PaidOrders == {o \in Orders : orderStatus[o] \in {"PROCESSING", "READY_FOR_PICKUP"}}

\* What the order bought of inventory row i.
Bought(o) == [i \in Inventories |-> Quantity(On(items[o], i))]

-----------------------------------------------------------------------------
(* Payments                                                                *)

PaymentStatus == {"PENDING", "COMPLETED", "FAILED", "REFUND_PENDING", "REFUNDED"}

Payment == [status : PaymentStatus, method : {"CASH", "GATEWAY"},
            ref : BOOLEAN,                \* providerReference is set
            session : 0..MaxSessions]     \* its gateway session, 0 for cash

\* findFirst orderBy createdAt desc.
Latest(o) == Len(payments[o])

SetPayment(o, row, status) ==
    payments' = [payments EXCEPT ![o][row].status = status]

\* payments.updateMany where orderId.
SetPayments(o, status) ==
    payments' = [payments EXCEPT ![o] =
                   [row \in DOMAIN payments[o] |->
                      [payments[o][row] EXCEPT !.status = status]]]

RowsWith(o, status) == {row \in DOMAIN payments[o] : payments[o][row].status = status}

-----------------------------------------------------------------------------
(* Requests                                                                *)

Requests == Deliveries \cup Cancels \cup Completions \cup Updates
            \cup Initiations \cup Reconcilers

Idle == [pc |-> "idle", order |-> NoOrder, row |-> 0, session |-> 0, arg |-> "none"]

Goto(c, pc) == call' = [call EXCEPT ![c].pc = pc]

\* The request starts on payment row `row` of order o.
Begin(c, pc, o, row, arg) ==
    call' = [call EXCEPT ![c] = [pc |-> pc, order |-> o, row |-> row,
                                 session |-> 0, arg |-> arg]]

-----------------------------------------------------------------------------
OrderInit ==
    /\ StockInit
    /\ orderStatus = [o \in Orders |-> "NONE"]
    /\ items = [o \in Orders |-> {}]
    /\ aged = [o \in Orders |-> FALSE]
    /\ booked = [o \in Orders |-> FALSE]
    /\ totalSold = [i \in Inventories |-> 0]
    /\ checkout = [o \in Orders |-> "none"]
    /\ payments = [o \in Orders |-> << >>]
    /\ feeKept = [o \in Orders |-> FALSE]
    /\ processed = [e \in Events |-> FALSE]
    /\ opened = [o \in Orders |-> 0]
    /\ paid = [o \in Orders |-> {}]
    /\ refunds = [o \in Orders |-> 0]
    /\ events = [e \in Events |-> NoEvent]
    /\ call = [c \in Requests |-> Idle]
    /\ staleOrders = [s \in OrderSweepers |-> {}]
    /\ pendingRows = [j \in Reconcilers |-> {}]

-----------------------------------------------------------------------------
(* createOrder                                                             *)

\* The checkout transaction: a hold and a line for every item, the order, its
\* first payment row.  Any check that fails aborts all of it.
CreateOrder(o, R, inv, qty, method) ==
    /\ orderStatus[o] = "NONE"
    /\ CheckoutHolds(R, inv, qty, o)
    /\ orderStatus' = [orderStatus EXCEPT ![o] = "PENDING"]
    /\ items' = [items EXCEPT ![o] = R]
    /\ payments' = [payments EXCEPT ![o] =
                      <<[status |-> "PENDING", method |-> method,
                         ref |-> FALSE, session |-> 0]>>]
    /\ checkout' = [checkout EXCEPT ![o] = method]
    /\ UNCHANGED <<aged, booked, totalSold, feeKept, processed, gatewayVars, actorVars>>

\* The gateway call made after it succeeds: every payment row of the order gets
\* the session.
CheckoutOpens(o) ==
    LET gateway == checkout[o] = "GATEWAY"
        session == IF gateway THEN opened[o] + 1 ELSE 0 IN
    /\ checkout[o] \in Methods
    /\ session <= MaxSessions
    /\ opened' = IF gateway THEN [opened EXCEPT ![o] = session] ELSE opened
    /\ payments' = [payments EXCEPT ![o] =
                      [row \in DOMAIN payments[o] |->
                         [payments[o][row] EXCEPT !.session = session]]]
    /\ checkout' = [checkout EXCEPT ![o] = "done"]
    /\ UNCHANGED <<stockVars, orderStatus, items, aged, booked, totalSold, feeKept,
                   processed, paid, refunds, events, actorVars>>

\* Variant of CheckoutFails that leaves the holds to the sweepers.
CheckoutFails_KeepHolds(o) ==
    /\ checkout[o] = "GATEWAY"
    /\ orderStatus' = [orderStatus EXCEPT ![o] = "FAILED"]
    /\ checkout' = [checkout EXCEPT ![o] = "done"]
    /\ UNCHANGED <<stockVars, items, aged, booked, totalSold, paymentVars,
                   gatewayVars, actorVars>>

\* Or it fails, also on the fallback gateway: the order is FAILED, whatever
\* happened to it since, and its holds are released.
CheckoutFails(o) ==
    /\ checkout[o] = "GATEWAY"
    /\ orderStatus' = [orderStatus EXCEPT ![o] = "FAILED"]
    /\ ReleaseOrderReservations(o, "RELEASED")
    /\ checkout' = [checkout EXCEPT ![o] = "done"]
    /\ UNCHANGED <<items, aged, booked, totalSold, paymentVars, gatewayVars, actorVars>>

-----------------------------------------------------------------------------
(* The payment gateway (external)                                          *)

Pay(o, session, e) ==
    /\ "success" \in EventKinds
    /\ session \in 1..opened[o] \ paid[o]
    /\ events[e] = NoEvent
    /\ paid' = [paid EXCEPT ![o] = @ \cup {session}]
    /\ events' = [events EXCEPT ![e] = [order |-> o, kind |-> "success"]]
    /\ UNCHANGED <<stockVars, orderVars, paymentVars, opened, refunds, actorVars>>

DeclinePayment(o, e) ==
    /\ "failure" \in EventKinds
    /\ paid[o] # 1..opened[o]
    /\ events[e] = NoEvent
    /\ events' = [events EXCEPT ![e] = [order |-> o, kind |-> "failure"]]
    /\ UNCHANGED <<stockVars, orderVars, paymentVars, opened, paid, refunds, actorVars>>

\* refundPayment: the gateway refunds, refuses, or refunds and the answer is
\* lost, which the adapter reports as an error.
GatewayRefund(c, outcome) ==
    LET o == call[c].order IN
    /\ call[c].pc = "refunding"
    /\ refunds' = IF outcome = "refused" THEN refunds
                  ELSE [refunds EXCEPT ![o] = @ + 1]
    /\ Goto(c, IF outcome = "ok" THEN "refunded" ELSE "refused")
    /\ UNCHANGED <<stockVars, orderVars, paymentVars, opened, paid, events,
                   staleOrders, pendingRows>>

-----------------------------------------------------------------------------
(* processProviderWebhook and refundPaymentOnClosedOrder                   *)

\* The deliveries of event e so far.
AttemptsAt(e) == {x \in Deliveries : call[x].arg = e}

\* Variant of DeliveryStart without the idempotency check.
DeliveryStart_NoCheck(d, e) ==
    /\ call[d].pc = "idle"
    /\ events[e] # NoEvent
    /\ Cardinality(AttemptsAt(e)) < MaxAttempts
    /\ Overlapping \/ \A x \in AttemptsAt(e) : call[x].pc \in {"done", "crashed"}
    /\ Begin(d, "checked", events[e].order, 0, e)
    /\ UNCHANGED <<stockVars, orderVars, paymentVars, gatewayVars, staleOrders, pendingRows>>

\* The idempotency check, outside the transaction.
DeliveryStart(d, e) ==
    /\ call[d].pc = "idle"
    /\ events[e] # NoEvent
    /\ Cardinality(AttemptsAt(e)) < MaxAttempts
    /\ Overlapping \/ \A x \in AttemptsAt(e) : call[x].pc \in {"done", "crashed"}
    /\ Begin(d, IF processed[e] THEN "done" ELSE "checked", events[e].order, 0, e)
    /\ UNCHANGED <<stockVars, orderVars, paymentVars, gatewayVars, staleOrders, pendingRows>>

\* The transaction upserts the event row, and so waits for any other delivery
\* of the same event to commit, and reads the latest payment.  A COMPLETED one
\* is left alone.
DeliveryRead(d) ==
    LET o == call[d].order
        e == call[d].arg
        row == Latest(o)
        settled == payments[o][row].status = "COMPLETED" IN
    /\ call[d].pc = "checked"
    /\ \A x \in AttemptsAt(e) : call[x].pc # "read"
    /\ call' = [call EXCEPT ![d].pc = IF settled THEN "done" ELSE "read", ![d].row = row]
    /\ processed' = IF settled THEN [processed EXCEPT ![e] = TRUE] ELSE processed
    /\ UNCHANGED <<stockVars, orderVars, payments, feeKept, gatewayVars,
                   staleOrders, pendingRows>>

\* Variants of DeliverySuccess: one that forgets money landing on a closed order
\* (before #117), one that ends the holds when the payment arrives (before F90).
DeliverySuccess_KeepLate(d) ==
    LET o == call[d].order
        e == call[d].arg IN
    /\ call[d].pc = "read"
    /\ events[e].kind = "success"
    /\ processed' = [processed EXCEPT ![e] = TRUE]
    /\ payments' = [payments EXCEPT ![o][call[d].row].status = "COMPLETED",
                                    ![o][call[d].row].ref = TRUE]
    /\ orderStatus' = IF orderStatus[o] = "PENDING"
                      THEN [orderStatus EXCEPT ![o] = "PROCESSING"] ELSE orderStatus
    /\ Goto(d, "done")
    /\ UNCHANGED <<stockVars, items, aged, booked, totalSold, checkout, feeKept,
                   gatewayVars, staleOrders, pendingRows>>

DeliverySuccess_Consume(d) ==
    LET o == call[d].order
        e == call[d].arg IN
    /\ call[d].pc = "read"
    /\ events[e].kind = "success"
    /\ processed' = [processed EXCEPT ![e] = TRUE]
    /\ payments' = [payments EXCEPT ![o][call[d].row].status = "COMPLETED",
                                    ![o][call[d].row].ref = TRUE]
    /\ orderStatus' = IF orderStatus[o] = "PENDING"
                      THEN [orderStatus EXCEPT ![o] = "PROCESSING"] ELSE orderStatus
    /\ ReleaseOrderReservations(o, "CONSUMED")
    /\ Goto(d, IF orderStatus[o] \in Closed THEN "closed" ELSE "done")
    /\ UNCHANGED <<items, aged, booked, totalSold, checkout, feeKept,
                   gatewayVars, staleOrders, pendingRows>>

\* A success: the payment is COMPLETED and a PENDING order moves on; money that
\* lands on a closed order is to be refunded after the commit.
DeliverySuccess(d) ==
    LET o == call[d].order
        e == call[d].arg IN
    /\ call[d].pc = "read"
    /\ events[e].kind = "success"
    /\ processed' = [processed EXCEPT ![e] = TRUE]
    /\ payments' = [payments EXCEPT ![o][call[d].row].status = "COMPLETED",
                                    ![o][call[d].row].ref = TRUE]
    /\ orderStatus' = IF orderStatus[o] = "PENDING"
                      THEN [orderStatus EXCEPT ![o] = "PROCESSING"] ELSE orderStatus
    /\ Goto(d, IF orderStatus[o] \in Closed THEN "closed" ELSE "done")
    /\ UNCHANGED <<stockVars, items, aged, booked, totalSold, checkout, feeKept,
                   gatewayVars, staleOrders, pendingRows>>

\* A failure: the payment is FAILED, the holds are released and a PENDING order
\* is FAILED.
DeliveryFailure(d) ==
    LET o == call[d].order
        e == call[d].arg IN
    /\ call[d].pc = "read"
    /\ events[e].kind = "failure"
    /\ processed' = [processed EXCEPT ![e] = TRUE]
    /\ SetPayment(o, call[d].row, "FAILED")
    /\ ReleaseOrderReservations(o, "RELEASED")
    /\ orderStatus' = IF orderStatus[o] = "PENDING"
                      THEN [orderStatus EXCEPT ![o] = "FAILED"] ELSE orderStatus
    /\ Goto(d, "done")
    /\ UNCHANGED <<items, aged, booked, totalSold, checkout, feeKept,
                   gatewayVars, staleOrders, pendingRows>>

\* COMPLETED -> REFUND_PENDING is the claim.
LateRefundClaim(d) ==
    LET o == call[d].order
        row == call[d].row
        claimed == payments[o][row].ref /\ payments[o][row].status = "COMPLETED" IN
    /\ call[d].pc = "closed"
    /\ IF claimed THEN SetPayment(o, row, "REFUND_PENDING") ELSE UNCHANGED payments
    /\ Goto(d, IF claimed THEN "refunding" ELSE "done")
    /\ UNCHANGED <<stockVars, orderVars, feeKept, processed, gatewayVars,
                   staleOrders, pendingRows>>

LateRefundRecord(d) ==
    /\ d \in Deliveries
    /\ call[d].pc = "refunded"
    /\ SetPayment(call[d].order, call[d].row, "REFUNDED")
    /\ feeKept' = [feeKept EXCEPT ![call[d].order] = TRUE]
    /\ Goto(d, "done")
    /\ UNCHANGED <<stockVars, orderVars, processed, gatewayVars, staleOrders, pendingRows>>

\* The refund failed; the payment goes back to COMPLETED (here) or to the status
\* that was read, which was COMPLETED (in cancelOrder).
RefundFailed(c) ==
    /\ call[c].pc = "refused"
    /\ SetPayment(call[c].order, call[c].row, "COMPLETED")
    /\ Goto(c, "done")
    /\ UNCHANGED <<stockVars, orderVars, feeKept, processed, gatewayVars,
                   staleOrders, pendingRows>>

\* The process dies; an open transaction is rolled back.
DeliveryCrash(d) ==
    /\ Cardinality({x \in Deliveries : call[x].pc = "crashed"}) < MaxCrashes
    /\ call[d].pc \notin {"idle", "done", "crashed"}
    /\ Goto(d, "crashed")
    /\ UNCHANGED <<stockVars, orderVars, paymentVars, gatewayVars, staleOrders, pendingRows>>

-----------------------------------------------------------------------------
(* cancelOrder                                                             *)

\* Variant of CancelRead that takes PROCESSING to mean that money was captured.
CancelRead_ByOrder(c, o) ==
    LET needsRefund == orderStatus[o] = "PROCESSING" IN
    /\ call[c].pc = "idle"
    /\ Exists(o)
    /\ ValidTransition(orderStatus[o], "CANCELLED")
    /\ Begin(c, IF needsRefund THEN "marking" ELSE "cancelling", o, Latest(o),
             IF needsRefund THEN "refund" ELSE "none")
    /\ UNCHANGED <<stockVars, orderVars, paymentVars, gatewayVars, staleOrders, pendingRows>>

\* Reads the order and its latest payment.  A captured payment without a
\* provider reference cannot be refunded and the request is refused.
CancelRead(c, o) ==
    LET row == Latest(o)
        payment == payments[o][row]
        needsRefund == payment.status = "COMPLETED" /\ payment.method # "CASH" IN
    /\ call[c].pc = "idle"
    /\ Exists(o)
    /\ ValidTransition(orderStatus[o], "CANCELLED")
    /\ needsRefund => payment.ref
    /\ Begin(c, IF needsRefund THEN "marking" ELSE "cancelling", o, row,
             IF needsRefund THEN "refund" ELSE "none")
    /\ UNCHANGED <<stockVars, orderVars, paymentVars, gatewayVars, staleOrders, pendingRows>>

CancelMark(c) ==
    /\ call[c].pc = "marking"
    /\ SetPayment(call[c].order, call[c].row, "REFUND_PENDING")
    /\ Goto(c, "refunding")
    /\ UNCHANGED <<stockVars, orderVars, feeKept, processed, gatewayVars,
                   staleOrders, pendingRows>>

\* The transaction re-reads the order status and gives up if it moved on; a
\* refund already made stays made ...
CancelRecheck(c) ==
    /\ c \in Cancels
    /\ call[c].pc \in {"refunded", "cancelling"}
    /\ Goto(c, IF ValidTransition(orderStatus[call[c].order], "CANCELLED")
               THEN "rechecked" ELSE "done")
    /\ UNCHANGED <<stockVars, orderVars, paymentVars, gatewayVars, staleOrders, pendingRows>>

\* Variant of CancelCommit that gives back what the order bought instead of what
\* it still holds.
CancelCommit_FromItems(c) ==
    LET o == call[c].order
        refund == call[c].arg = "refund" IN
    /\ call[c].pc = "rechecked"
    /\ resv' = [r \in Reservations |->
                  IF r \in HoldsOf(o) THEN [resv[r] EXCEPT !.status = "RELEASED"]
                                      ELSE resv[r]]
    /\ quantityReserved' = [i \in Inventories |-> quantityReserved[i] - Bought(o)[i]]
    /\ IF refund THEN SetPayment(o, call[c].row, "REFUNDED")
                 ELSE SetPayments(o, "FAILED")
    /\ feeKept' = IF refund THEN [feeKept EXCEPT ![o] = TRUE] ELSE feeKept
    /\ orderStatus' = [orderStatus EXCEPT ![o] = "CANCELLED"]
    /\ Goto(c, "done")
    /\ UNCHANGED <<onHand, stale, adjusting, movement, items, aged, booked, totalSold,
                   checkout, processed, gatewayVars, staleOrders, pendingRows>>

\* ... and then releases the holds and writes the payment and the order.
CancelCommit(c) ==
    LET o == call[c].order
        refund == call[c].arg = "refund" IN
    /\ call[c].pc = "rechecked"
    /\ ReleaseOrderReservations(o, "RELEASED")
    /\ IF refund THEN SetPayment(o, call[c].row, "REFUNDED")
                 ELSE SetPayments(o, "FAILED")
    /\ feeKept' = IF refund THEN [feeKept EXCEPT ![o] = TRUE] ELSE feeKept
    /\ orderStatus' = [orderStatus EXCEPT ![o] = "CANCELLED"]
    /\ Goto(c, "done")
    /\ UNCHANGED <<items, aged, booked, totalSold, checkout, processed,
                   gatewayVars, staleOrders, pendingRows>>

-----------------------------------------------------------------------------
(* completeOrder                                                           *)

\* The transaction's reads: the order must be ready (or already completed), and
\* its latest payment confirmed, unless it is cash.
CompleteRead(k, o) ==
    LET payment == payments[o][Latest(o)] IN
    /\ call[k].pc = "idle"
    /\ Exists(o)
    /\ ValidTransition(orderStatus[o], "COMPLETED")
    /\ payment.status = "COMPLETED" \/ payment.method = "CASH"
    /\ Begin(k, "completing", o, Latest(o), "none")
    /\ UNCHANGED <<stockVars, orderVars, paymentVars, gatewayVars, staleOrders, pendingRows>>

\* Its writes: goods off the shelf, holds CONSUMED, every payment COMPLETED and
\* the ledgers booked, each only if the order has no row there yet.
CompleteCommit(k) ==
    LET o == call[k].order IN
    /\ call[k].pc = "completing"
    /\ CompleteSale(o, Bought(o))
    /\ totalSold' = [i \in Inventories |-> totalSold[i] + Bought(o)[i]]
    /\ SetPayments(o, "COMPLETED")
    /\ orderStatus' = [orderStatus EXCEPT ![o] = "COMPLETED"]
    /\ booked' = [booked EXCEPT ![o] = TRUE]
    /\ Goto(k, "done")
    /\ UNCHANGED <<items, aged, checkout, feeKept, processed, gatewayVars,
                   staleOrders, pendingRows>>

\* The CHECK constraint on quantityOnHand rolls the transaction back.
CompleteAbort(k) ==
    /\ call[k].pc = "completing"
    /\ \E i \in Inventories : onHand[i] < Bought(call[k].order)[i]
    /\ Goto(k, "done")
    /\ UNCHANGED <<stockVars, orderVars, paymentVars, gatewayVars, staleOrders, pendingRows>>

-----------------------------------------------------------------------------
(* updateFulfillmentStatus (COMPLETED and CANCELLED go to the two above)   *)

UpdateRead(u, o, target) ==
    /\ call[u].pc = "idle"
    /\ Exists(o)
    /\ ValidTransition(orderStatus[o], target)
    /\ Begin(u, "updating", o, 0, target)
    /\ UNCHANGED <<stockVars, orderVars, paymentVars, gatewayVars, staleOrders, pendingRows>>

\* The write does not look at the status again.
UpdateWrite(u) ==
    /\ call[u].pc = "updating"
    /\ orderStatus' = [orderStatus EXCEPT ![call[u].order] = call[u].arg]
    /\ Goto(u, "done")
    /\ UNCHANGED <<stockVars, items, aged, booked, totalSold, checkout, paymentVars,
                   gatewayVars, staleOrders, pendingRows>>

-----------------------------------------------------------------------------
(* initiateOrderPayment                                                    *)

InitiateRead(n, o, method) ==
    /\ call[n].pc = "idle"
    /\ Exists(o)
    /\ orderStatus[o] \notin {"COMPLETED", "CANCELLED"}
    /\ Begin(n, "opening", o, 0, method)
    /\ UNCHANGED <<stockVars, orderVars, paymentVars, gatewayVars, staleOrders, pendingRows>>

\* The gateway opens a session; then the latest PENDING row is looked up (0 if
\* there is none).
InitiateOpen(n) ==
    LET o == call[n].order
        gateway == call[n].arg = "GATEWAY"
        session == IF gateway THEN opened[o] + 1 ELSE 0
        pending == RowsWith(o, "PENDING") IN
    /\ call[n].pc = "opening"
    /\ session <= MaxSessions
    /\ opened' = IF gateway THEN [opened EXCEPT ![o] = session] ELSE opened
    /\ call' = [call EXCEPT ![n].pc = "saving", ![n].session = session,
                            ![n].row = IF pending = {} THEN 0
                                       ELSE CHOOSE r \in pending : \A q \in pending : q <= r]
    /\ UNCHANGED <<stockVars, orderVars, paymentVars, paid, refunds, events,
                   staleOrders, pendingRows>>

\* The row found is made PENDING with the new session, or a new row is added.
InitiateSave(n) ==
    LET o == call[n].order
        row == call[n].row IN
    /\ call[n].pc = "saving"
    /\ payments' = [payments EXCEPT ![o] =
         IF row = 0
         THEN Append(@, [status |-> "PENDING", method |-> call[n].arg,
                         ref |-> FALSE, session |-> call[n].session])
         ELSE [@ EXCEPT ![row].status = "PENDING", ![row].method = call[n].arg,
                        ![row].session = call[n].session]]
    /\ Goto(n, "done")
    /\ UNCHANGED <<stockVars, orderVars, feeKept, processed, gatewayVars,
                   staleOrders, pendingRows>>

-----------------------------------------------------------------------------
(* expireStalePendingOrders                                                *)

\* PENDING_ORDER_TTL_MINUTES pass.
Age(o) ==
    /\ Exists(o)
    /\ ~aged[o]
    /\ aged' = [aged EXCEPT ![o] = TRUE]
    /\ UNCHANGED <<stockVars, orderStatus, items, booked, totalSold, checkout,
                   paymentVars, gatewayVars, actorVars>>

\* Variant of StalePendingOrders that also skips orders with a PENDING payment.
StalePendingOrders_SkipPending ==
    {o \in Orders :
       /\ orderStatus[o] = "PENDING"
       /\ aged[o]
       /\ RowsWith(o, "PENDING") = {}
       /\ \A row \in DOMAIN payments[o] : payments[o][row].method # "CASH"}

\* Old PENDING orders with no captured payment and no cash payment.
StalePendingOrders ==
    {o \in Orders :
       /\ orderStatus[o] = "PENDING"
       /\ aged[o]
       /\ RowsWith(o, "COMPLETED") \cup RowsWith(o, "REFUND_PENDING") = {}
       /\ \A row \in DOMAIN payments[o] : payments[o][row].method # "CASH"}

SweepOrdersRead(s) ==
    /\ staleOrders[s] = {}
    /\ StalePendingOrders # {}
    /\ staleOrders' = [staleOrders EXCEPT ![s] = StalePendingOrders]
    /\ UNCHANGED <<stockVars, orderVars, paymentVars, gatewayVars, call, pendingRows>>

\* Variant of SweepOrder that writes the status it gives the holds.
SweepOrder_WrongStatus(s, o) ==
    /\ o \in staleOrders[s]
    /\ staleOrders' = [staleOrders EXCEPT ![s] = @ \ {o}]
    /\ orderStatus' = [orderStatus EXCEPT ![o] = "EXPIRED"]
    /\ ReleaseOrderReservations(o, "EXPIRED")
    /\ UNCHANGED <<items, aged, booked, totalSold, checkout, paymentVars,
                   gatewayVars, call, pendingRows>>

\* One order of the list, in its own transaction: an order that is no longer
\* PENDING is left alone.
SweepOrder(s, o) ==
    /\ o \in staleOrders[s]
    /\ staleOrders' = [staleOrders EXCEPT ![s] = @ \ {o}]
    /\ IF orderStatus[o] = "PENDING"
       THEN /\ orderStatus' = [orderStatus EXCEPT ![o] = "CANCELLED"]
            /\ ReleaseOrderReservations(o, "EXPIRED")
            /\ payments' = [payments EXCEPT ![o] =
                 [row \in DOMAIN payments[o] |->
                    IF payments[o][row].status = "PENDING"
                    THEN [payments[o][row] EXCEPT !.status = "FAILED"]
                    ELSE payments[o][row]]]
       ELSE UNCHANGED <<stockVars, orderStatus, payments>>
    /\ UNCHANGED <<items, aged, booked, totalSold, checkout, feeKept, processed,
                   gatewayVars, call, pendingRows>>

\* The transaction throws; the error is logged and the loop goes on.
SweepOrderFails(s, o) ==
    /\ o \in staleOrders[s]
    /\ staleOrders' = [staleOrders EXCEPT ![s] = @ \ {o}]
    /\ UNCHANGED <<stockVars, orderVars, paymentVars, gatewayVars, call, pendingRows>>

-----------------------------------------------------------------------------
(* PaymentReconciliationJob                                                *)

\* The PENDING gateway rows that have a session, each with that session.
ReconcilableRows ==
    UNION {{[order |-> o, row |-> row, session |-> payments[o][row].session] :
              row \in {x \in RowsWith(o, "PENDING") :
                         /\ payments[o][x].method = "GATEWAY"
                         /\ payments[o][x].session > 0}} : o \in Orders}

ReconcileRead(j) ==
    /\ call[j].pc = "idle"
    /\ pendingRows[j] = {}
    /\ ReconcilableRows # {}
    /\ pendingRows' = [pendingRows EXCEPT ![j] = ReconcilableRows]
    /\ UNCHANGED <<stockVars, orderVars, paymentVars, gatewayVars, call, staleOrders>>

\* paymentIntents.retrieve: succeeded, or canceled / still unpaid after half an
\* hour.  An intent that may still be paid is skipped.
ReconcileLookup(j, p, found) ==
    /\ call[j].pc = "idle"
    /\ p \in pendingRows[j]
    /\ pendingRows' = [pendingRows EXCEPT ![j] = @ \ {p}]
    /\ \/ /\ found = "succeeded" /\ p.session \in paid[p.order]
          /\ Begin(j, "reconciling", p.order, p.row, found)
       \/ /\ found = "dead" /\ p.session \notin paid[p.order]
          /\ Begin(j, "reconciling", p.order, p.row, found)
       \/ /\ found = "open" /\ p.session \notin paid[p.order]
          /\ UNCHANGED call
    /\ UNCHANGED <<stockVars, orderVars, paymentVars, gatewayVars, staleOrders>>

\* Only a row that is still PENDING moves, and with it a PENDING order; a dead
\* one releases the holds of the order.
ReconcileApply(j) ==
    LET o == call[j].order
        row == call[j].row
        succeeded == call[j].arg = "succeeded"
        claims == payments[o][row].status = "PENDING" IN
    /\ call[j].pc = "reconciling"
    /\ call' = [call EXCEPT ![j] = Idle]
    /\ IF claims
       THEN /\ payments' = [payments EXCEPT
                 ![o][row].status = IF succeeded THEN "COMPLETED" ELSE "FAILED",
                 ![o][row].ref = @ \/ succeeded]
            /\ orderStatus' =
                 IF orderStatus[o] # "PENDING" THEN orderStatus
                 ELSE [orderStatus EXCEPT ![o] = IF succeeded THEN "PROCESSING" ELSE "FAILED"]
            /\ IF succeeded THEN UNCHANGED stockVars
                            ELSE ReleaseOrderReservations(o, "RELEASED")
       ELSE UNCHANGED <<stockVars, payments, orderStatus>>
    /\ UNCHANGED <<items, aged, booked, totalSold, checkout, feeKept, processed,
                   gatewayVars, staleOrders, pendingRows>>

-----------------------------------------------------------------------------
(* The reservation endpoints, the reservation sweepers and time            *)

\* A hold for a cart, or for the order id the client sent (which must exist).
ClientReserve(r, i, q, o) ==
    /\ r \in ClientRows
    /\ o \in {NoOrder} \cup {x \in Orders : Exists(x)}
    /\ ReserveStock(r, i, q, o)
    /\ UNCHANGED lifeVars

ClientRelease(r) ==
    /\ r \in Releasable
    /\ ReleaseReservation(r)
    /\ UNCHANGED lifeVars

\* A hold made by checkout lasts at least as long as an unpaid order does.
HoldLapses(r) ==
    /\ \A o \in Orders : r \in items[o] => aged[o]
    /\ Lapse(r)
    /\ UNCHANGED lifeVars

HoldSweepRead(s) == SweepRead(s, PaidOrders) /\ UNCHANGED lifeVars

HoldSweepClaim(s, r) == SweepClaim(s, r) /\ UNCHANGED lifeVars

-----------------------------------------------------------------------------
CheckoutNext ==
    \/ \E o \in Orders, R \in SUBSET (Reservations \ ClientRows), m \in Methods :
          \E inv \in [R -> Inventories], qty \in [R -> 1..MaxQuantity] :
             CreateOrder(o, R, inv, qty, m)
    \/ \E o \in Orders : CheckoutOpens(o)
    \/ \E o \in Orders : CheckoutFails(o)

GatewayNext ==
    \/ \E o \in Orders, e \in Events : \E s \in 1..MaxSessions : Pay(o, s, e)
    \/ \E o \in Orders, e \in Events : DeclinePayment(o, e)
    \/ \E c \in Deliveries \cup Cancels, out \in RefundOutcomes : GatewayRefund(c, out)

DeliveryNext(d) ==
    \/ \E e \in Events : DeliveryStart(d, e)
    \/ DeliveryRead(d)
    \/ DeliverySuccess(d)
    \/ DeliveryFailure(d)
    \/ LateRefundClaim(d)
    \/ LateRefundRecord(d)

CancelNext(c) ==
    \/ \E o \in Orders : CancelRead(c, o)
    \/ CancelMark(c)
    \/ CancelRecheck(c)
    \/ CancelCommit(c)

CompletionNext(k) ==
    \/ \E o \in Orders : CompleteRead(k, o)
    \/ CompleteCommit(k)
    \/ CompleteAbort(k)

UpdateNext(u) ==
    \/ \E o \in Orders, t \in {"PROCESSING", "READY_FOR_PICKUP"} : UpdateRead(u, o, t)
    \/ UpdateWrite(u)

InitiationNext(n) ==
    \/ \E o \in Orders, m \in Methods : InitiateRead(n, o, m)
    \/ InitiateOpen(n)
    \/ InitiateSave(n)

OrderSweepNext(s) ==
    \/ SweepOrdersRead(s)
    \/ \E o \in Orders : SweepOrder(s, o)
    \/ \E o \in Orders : SweepOrderFails(s, o)

ReconcileNext(j) ==
    \/ ReconcileRead(j)
    \/ \E p \in pendingRows[j], found \in {"succeeded", "dead", "open"} :
          ReconcileLookup(j, p, found)
    \/ ReconcileApply(j)

HoldNext ==
    \/ \E r \in ClientRows, i \in Inventories, q \in 1..MaxQuantity,
          o \in Orders \cup {NoOrder} : ClientReserve(r, i, q, o)
    \/ \E r \in Releasable : ClientRelease(r)
    \/ \E r \in Reservations : HoldLapses(r)
    \/ \E s \in Sweepers : HoldSweepRead(s)
    \/ \E s \in Sweepers, r \in Reservations : HoldSweepClaim(s, r)

OrderNext ==
    \/ CheckoutNext
    \/ GatewayNext
    \/ \E d \in Deliveries : DeliveryNext(d)
    \/ \E c \in Deliveries \cup Cancels : RefundFailed(c)
    \/ \E d \in Deliveries : DeliveryCrash(d)
    \/ \E c \in Cancels : CancelNext(c)
    \/ \E k \in Completions : CompletionNext(k)
    \/ \E u \in Updates : UpdateNext(u)
    \/ \E n \in Initiations : InitiationNext(n)
    \/ \E o \in Orders : Age(o)
    \/ \E s \in OrderSweepers : OrderSweepNext(s)
    \/ \E j \in Reconcilers : ReconcileNext(j)
    \/ HoldNext

OrderSafety == OrderInit /\ [][OrderNext]_vars

\* The order sweep is a cron job of the worker; its transactions do not fail
\* every time an order is selected.
OrderSweepFairness ==
    \A s \in OrderSweepers :
       /\ WF_vars(SweepOrdersRead(s))
       /\ WF_vars(\E o \in Orders : SweepOrder(s, o) \/ SweepOrderFails(s, o))
       /\ \A o \in Orders : SF_vars(SweepOrder(s, o))

\* A gateway delivers an event until it is acknowledged, and a handler that
\* does not crash runs to its end.
DeliveryFairness ==
    /\ \A e \in Events : WF_vars(\E d \in Deliveries : DeliveryStart(d, e))
    /\ \A d \in Deliveries :
          /\ WF_vars(DeliveryRead(d) \/ DeliverySuccess(d) \/ DeliveryFailure(d)
                     \/ LateRefundClaim(d) \/ LateRefundRecord(d))
          /\ WF_vars(\E out \in RefundOutcomes : GatewayRefund(d, out))
          /\ WF_vars(RefundFailed(d))

OrderSpec == OrderSafety /\ OrderSweepFairness /\ DeliveryFairness

-----------------------------------------------------------------------------
(* Properties                                                              *)

RequestState ==
    [pc : {"idle", "done", "crashed", "checked", "read", "closed", "refunding", "refunded",
           "refused", "marking", "cancelling", "rechecked", "completing",
           "updating", "opening", "saving", "reconciling"},
     order : Orders \cup {NoOrder}, row : Nat, session : 0..MaxSessions,
     arg : Events \cup OrderStatus \cup {"none", "refund", "CASH", "GATEWAY",
                                         "succeeded", "dead", "open"}]

OrderTypeOK ==
    /\ StockTypeOK
    /\ orderStatus \in [Orders -> OrderStatus]
    /\ items \in [Orders -> SUBSET Reservations]
    /\ aged \in [Orders -> BOOLEAN]
    /\ booked \in [Orders -> BOOLEAN]
    /\ totalSold \in [Inventories -> Nat]
    /\ checkout \in [Orders -> {"none", "CASH", "GATEWAY", "done"}]
    /\ payments \in [Orders -> Seq(Payment)]
    /\ feeKept \in [Orders -> BOOLEAN]
    /\ processed \in [Events -> BOOLEAN]
    /\ opened \in [Orders -> 0..MaxSessions]
    /\ paid \in [Orders -> SUBSET (1..MaxSessions)]
    /\ refunds \in [Orders -> Nat]
    /\ events \in [Events -> [order : Orders, kind : {"success", "failure"}] \cup {NoEvent}]
    /\ call \in [Requests -> RequestState]
    /\ staleOrders \in [OrderSweepers -> SUBSET Orders]
    /\ DOMAIN pendingRows = Reconcilers

\* An order that is COMPLETED, CANCELLED or FAILED holds no stock through its
\* own lines, however its closing raced with payment, expiry, cancellation or a
\* failed checkout: every path that closes it claims its holds in the same
\* transaction, and nothing takes a hold for it afterwards.
ClosedOrdersHoldNothing ==
    \A o \in Orders :
       orderStatus[o] \in Closed \cup {"COMPLETED"} => items[o] \cap Active = {}

\* A hold ends as CONSUMED only with a sale that was booked: its order has its
\* settlement row.
ConsumedMeansBooked ==
    \A o \in Orders :
       (\E r \in items[o] : resv[r].status = "CONSUMED") => booked[o]

\* A refund is only ever sent for an order whose money the gateway captured, and
\* a payment row says REFUNDED only after a refund was made: rows made PENDING
\* again, replaced or completed in bulk never make money out of nothing.
RefundsAreOfCapturedMoney ==
    \A o \in Orders :
       /\ refunds[o] > 0 => paid[o] # {}
       /\ RowsWith(o, "REFUNDED") # {} => refunds[o] > 0

\* A gateway order past its TTL does not stay PENDING, whether its payment came,
\* failed or never happened and whichever delivery crashed: the sweeper cancels
\* it unless a payment moved it on.
StaleOrdersClose ==
    \A o \in Orders :
       (/\ orderStatus[o] = "PENDING" /\ aged[o]
        /\ \A row \in DOMAIN payments[o] : payments[o][row].method = "GATEWAY")
          ~> orderStatus[o] # "PENDING"

\* F109: money that arrives for an order already closed goes back to the buyer
\* ("refunded automatically once this transaction commits").
LatePaymentReturned ==
    \A o \in Orders :
       (orderStatus[o] \in Closed /\ paid[o] # {}) ~> refunds[o] = Cardinality(paid[o])

\* A captured payment is refunded at most once ("a second caller for the same
\* payment does nothing").
RefundedAtMostOnce ==
    \A o \in Orders : refunds[o] <= Cardinality(paid[o])

\* No unit is promised twice: what is reserved is on the shelf.
NoOversell == \A i \in Inventories : quantityReserved[i] <= onHand[i]

\* Products.totalSold counts every completed order once.
SoldOncePerOrder ==
    \A i \in Inventories :
       totalSold[i] = Quantity(On(UNION {items[o] : o \in {x \in Orders : booked[x]}}, i))

\* "A hold on a paid order belongs to the buyer until the goods are handed over."
PaidOrderKeepsHold ==
    \A o \in PaidOrders :
       payments[o][Latest(o)].status = "COMPLETED" => items[o] \subseteq Active

\* Cancelling an order the gateway was paid for sends the money back: "that must
\* go back through the provider, not just be stamped FAILED".
CancelReturnsMoney ==
    [][\A c \in Cancels : LET o == call[c].order IN
          CancelCommit(c) /\ orderStatus[o] = "PROCESSING" /\ paid[o] # {}
             => refunds[o] > 0]_vars
=============================================================================
