------------------------------ MODULE PaymentGateway ------------------------------
(***************************************************************************)
(* How an order reaches a payment gateway and hears back: the choice of a   *)
(* gateway with its failover and degradation window, the adapters' webhook  *)
(* verification, parsing and de-duplication keys, the page a buyer returns  *)
(* to, and the gateway fee the platform records on refunds.                 *)
(*                                                                          *)
(* One order is followed; the interleavings inside the webhook handler and  *)
(* the stock it moves are the subject of OrderLifecycle, so a delivery is   *)
(* one step here. The gateways are external: they may fail before or after  *)
(* they opened a session, and deliver each event any number of times.       *)
(***************************************************************************)
EXTENDS Integers, FiniteSets, FiniteSetsExt

CONSTANTS
    Checkouts,      \* calls of createCheckoutSessionWithFailover, numbered as they start
    KeySets,        \* the sets of gateways whose secret key may be configured
    SecretSets,     \* the sets of gateways whose webhook secret may be configured
    Tries,          \* the <<provider, method>> pairs a checkout may name
    MaxGatewayTime, \* bound on the clock, in degradation windows
    RefundParts,    \* amounts a refund may return
    PaymentAmount, GatewayFee,   \* Payments.amount and the order's PAYMENT_PROCESSING_FEE
    FeeRefunds,     \* transactions that record a refund
    NoGateway

ASSUME GatewayConstants ==
    /\ PaymentAmount \in Nat \ {0} /\ GatewayFee \in Nat
    /\ Checkouts \subseteq Nat
    /\ RefundParts \subseteq Nat \ {0} /\ MaxGatewayTime \in Nat
    /\ IsFiniteSet(Checkouts)
    /\ KeySets \cup SecretSets \subseteq SUBSET {"PAYMONGO", "XENDIT", "STRIPE"}
    /\ NoGateway \notin {"PAYMONGO", "XENDIT", "STRIPE"}

VARIABLES
    env,            \* the process environment: keys, webhook secrets, NODE_ENV = production
    gwClock, degraded,   \* time; degradedGateways: when each window ends (0: none)
    checkout,       \* the checkout calls
    session,        \* at the gateways: the state of the session each call opened
    notices,        \* at the gateways: the events they deliver
    handled,        \* PaymentWebhookEvents: the (provider, eventId) pairs processed
    payRow, payOrder,    \* the order's latest payment and the order's status
    taker, acked, recorded, denied,
                    \* ghosts: the gateway whose event completed the payment last, the paid
                    \* sessions acknowledged, whether a completion was ever written,
                    \* and the genuine deliveries answered with 400
    refundedPart, keptFee, feeCall, feeRaced
                    \* total refunded, fee recorded as kept; ghost: transactions overlapped

checkoutVars == <<env, gwClock, degraded, checkout, session, notices, handled,
                  payRow, payOrder, taker, acked, recorded, denied>>
feeVars == <<refundedPart, keptFee, feeCall, feeRaced>>
gatewayVars == <<checkoutVars, feeVars>>

Gateways == {"PAYMONGO", "XENDIT", "STRIPE"}

-----------------------------------------------------------------------------
(* Choosing a gateway. *)

\* isGatewayHealthy: not inside a degradation window, and configured. (An
\* expired window is deleted when it is met, which no reader can tell.)
Healthy(g, d) == d[g] <= gwClock /\ g \in env.keys

\* getFallbackProviderCode: the partner of the method first, then the first
\* other healthy gateway in the order PayMongo, Xendit, Stripe.
Partner(g, m) ==
    CASE m = "CARD" /\ g = "PAYMONGO" -> "STRIPE"
      [] m = "CARD" /\ g = "STRIPE" -> "PAYMONGO"
      [] m \in {"GCASH", "MAYA", "QRPH", "GRAB_PAY"} /\ g = "PAYMONGO" -> "XENDIT"
      [] m \in {"GCASH", "MAYA", "QRPH", "GRAB_PAY"} /\ g = "XENDIT" -> "PAYMONGO"
      [] OTHER -> NoGateway

Rank(g) == CASE g = "PAYMONGO" -> 1 [] g = "XENDIT" -> 2 [] OTHER -> 3

Fallback(g, m, d) ==
    LET others == {h \in Gateways \ {g} : Healthy(h, d)}
    IN  CASE others = {} -> NoGateway
          [] Partner(g, m) \in others -> Partner(g, m)
          [] OTHER -> CHOOSE h \in others : \A k \in others : Rank(h) <= Rank(k)

\* getProviderAdapter: a provider without a key is served by the mock.
Adapter(p) == IF p \in env.keys THEN p ELSE "MOCK"

\* getActivePaymentMethods offers a provider whose real adapter resolves, and
\* the mock outside production.
Offered(p) == IF p = "MOCK" THEN ~env.production ELSE Adapter(p) # "MOCK"

\* Stripe is called with an idempotency key made of the order alone: a second
\* call is answered with the first session.
SessionOf(c, g) ==
    IF g = "STRIPE" /\ \E b \in Checkouts : session[<<b, g>>] # "none"
    THEN CHOOSE s \in Checkouts \X {g} : session[s] # "none"
    ELSE <<c, g>>

-----------------------------------------------------------------------------
(* createCheckoutSessionWithFailover, with what its callers write. *)

Calling(p, m, g, s, creates) ==
    [pc |-> "calling", provider |-> p, method |-> m, at |-> g, last |-> g # p,
     session |-> s, creates |-> creates]

\* createOrder writes the provider that answered to the payment it made.
PlacedRow(g) == [payRow EXCEPT !.provider = g]

\* initiateOrderPayment reuses the latest PENDING payment or makes a new one.
RetriedRow(g) == [status |-> "PENDING", provider |-> g]

\* Variant of Answered that keeps the provider of the chosen method.
Answered_KeepProvider(c, g, s) ==
    /\ checkout' = [checkout EXCEPT ![c] = [@ EXCEPT !.pc = "answered", !.session = s]]
    /\ payRow' = IF checkout[c].creates THEN PlacedRow(checkout[c].provider)
                                        ELSE RetriedRow(checkout[c].provider)

Answered(c, g, s) ==
    /\ checkout' = [checkout EXCEPT ![c] = [@ EXCEPT !.pc = "answered", !.session = s]]
    /\ payRow' = IF checkout[c].creates THEN PlacedRow(g) ELSE RetriedRow(g)

\* The chosen gateway is called unless it is unhealthy and another can take the
\* method.
FirstGateway(p, m) ==
    IF p \in Gateways /\ ~Healthy(p, degraded) /\ Fallback(p, m, degraded) # NoGateway
    THEN Fallback(p, m, degraded) ELSE p

\* An unconfigured provider with no replacement gets the mock, which answers
\* without a page to pay on.
CheckoutBegins(c, p, m, creates) ==
    LET g == FirstGateway(p, m)
        mock == Adapter(g) = "MOCK"
        call == Calling(p, m, g, <<c, IF mock THEN "MOCK" ELSE g>>, creates)
    IN  /\ checkout[c].pc = "idle"
        /\ \A b \in Checkouts : b < c => checkout[b].pc # "idle"
        /\ checkout' = [checkout EXCEPT ![c] = IF mock THEN [call EXCEPT !.pc = "answered"] ELSE call]
        /\ payRow' = IF creates \/ mock THEN RetriedRow(p) ELSE payRow
        /\ UNCHANGED <<env, gwClock, degraded, session, notices, handled, taker, acked,
                       recorded, denied>>

\* createOrder with method m of provider p: the order and its payment are made first.
PlaceOrder(c, p, m) ==
    /\ payOrder = "none" /\ payOrder' = "PENDING"
    /\ CheckoutBegins(c, p, m, TRUE)

\* initiateOrderPayment, for an order that is neither completed nor cancelled
RetryPayment(c, p, m) ==
    /\ payOrder \notin {"none", "COMPLETED", "CANCELLED"}
    /\ CheckoutBegins(c, p, m, FALSE)
    /\ UNCHANGED payOrder

Opened(s) == [session EXCEPT ![s] = IF @ = "none" THEN "open" ELSE @]

GatewayAnswers(c) ==
    /\ checkout[c].pc = "calling"
    /\ LET s == SessionOf(c, checkout[c].at) IN
         session' = Opened(s) /\ Answered(c, checkout[c].at, s)
    /\ UNCHANGED <<env, gwClock, degraded, notices, handled, payOrder, taker, acked,
                   recorded, denied>>

\* The call failed, perhaps after the gateway opened the session. A first
\* gateway is marked degraded and replaced; a failed replacement, or none, ends
\* the checkout: createOrder fails the order it had just made.
GatewayFails(c) ==
    /\ checkout[c].pc = "calling"
    /\ LET g == checkout[c].at
           after == IF checkout[c].last THEN degraded
                    ELSE [degraded EXCEPT ![g] = gwClock + 1]
           next == IF checkout[c].last THEN NoGateway ELSE Fallback(g, checkout[c].method, after)
       IN  /\ degraded' = after
           /\ session' \in {session, Opened(SessionOf(c, g))}
           /\ checkout' = [checkout EXCEPT ![c] =
                 IF next # NoGateway
                 THEN [@ EXCEPT !.at = next, !.last = TRUE, !.session = <<c, next>>]
                 ELSE [@ EXCEPT !.pc = "failed"]]
           /\ payOrder' = IF next = NoGateway /\ checkout[c].creates THEN "FAILED" ELSE payOrder
    /\ UNCHANGED <<env, gwClock, notices, handled, payRow, taker, acked, recorded, denied>>

GatewayTick ==
    /\ gwClock < MaxGatewayTime
    /\ gwClock' = gwClock + 1
    /\ UNCHANGED <<env, degraded, checkout, session, notices, handled, payRow, payOrder,
                   taker, acked, recorded, denied>>

-----------------------------------------------------------------------------
(* The buyer at the gateway, and what the gateway reports of it. *)

\* External: the events of a payment. Stripe also reports the payment intent.
PaidEvents(g) ==
    CASE g = "PAYMONGO" -> {"checkout_session.payment.paid", "payment.paid"}
      [] g = "XENDIT" -> {"payment_session.completed"}
      [] OTHER -> {"checkout.session.completed", "payment_intent.succeeded"}

Reach(s) == \E c \in Checkouts : checkout[c].pc = "answered" /\ checkout[c].session = s

\* External: the buyer pays the session of a checkout that was answered.
BuyerPays(s) ==
    /\ session[s] = "open" /\ Reach(s)
    /\ session' = [session EXCEPT ![s] = "paid"]
    /\ notices' = notices \cup {<<s, e>> : e \in PaidEvents(s[2])}
    /\ UNCHANGED <<env, gwClock, degraded, checkout, handled, payRow, payOrder, taker,
                   acked, recorded, denied>>

\* External: the session ends unpaid. Xendit reports it; the others stay silent.
SessionExpires(s) ==
    /\ session[s] = "open"
    /\ session' = [session EXCEPT ![s] = "expired"]
    /\ notices' = notices \cup (IF s[2] = "XENDIT" THEN {<<s, "payment_session.expired">>} ELSE {})
    /\ UNCHANGED <<env, gwClock, degraded, checkout, handled, payRow, payOrder, taker,
                   acked, recorded, denied>>

\* expireStalePendingOrders: the order and its pending payment.
OrderLapses ==
    /\ payOrder = "PENDING" /\ payRow.status # "COMPLETED"
    /\ payOrder' = "CANCELLED"
    /\ payRow' = [payRow EXCEPT !.status = IF @ = "PENDING" THEN "FAILED" ELSE @]
    /\ UNCHANGED <<env, gwClock, degraded, checkout, session, notices, handled,
                   taker, acked, recorded, denied>>

-----------------------------------------------------------------------------
(* The webhook. *)

\* What each adapter's verifyWebhook hashes or compares, against what the
\* gateway signed with its secret. The request body arrives as a Buffer: PayMongo's
\* adapter hashes the Buffer serialised as JSON.
SignedText(g) == CASE g = "XENDIT" -> "token" [] OTHER -> "bytes"
VerifiedText(g) ==
    CASE g = "PAYMONGO" -> "json of the buffer"
      [] g = "XENDIT" -> "token"
      [] OTHER -> "bytes"
VerifyWebhook(g) == g \in env.secrets /\ VerifiedText(g) = SignedText(g)

\* parseWebhookEvent. Xendit's key is the session, the others' is the event.
\* Stripe's payment intents do not carry the metadata of the session.
ParseEvent(s, e) ==
    [key |-> IF s[2] = "XENDIT" THEN <<s>> ELSE <<s, e>>,
     order |-> e # "payment_intent.succeeded",
     success |-> e \in PaidEvents(s[2]), failure |-> e = "payment_session.expired"]

\* processProviderWebhook on a success and on a failure. A payment on a closed
\* order is refunded by the adapter that took it, or stays COMPLETED for a person.
ApplySuccess(g) ==
    /\ payRow' \in IF payOrder \in {"CANCELLED", "FAILED"}
                   THEN {[payRow EXCEPT !.status = st] : st \in {"REFUNDED", "COMPLETED"}}
                   ELSE {[payRow EXCEPT !.status = "COMPLETED"]}
    /\ payOrder' = IF payOrder = "PENDING" THEN "PROCESSING" ELSE payOrder
    /\ taker' = g /\ recorded' = TRUE

ApplyFailure ==
    /\ payRow' = [payRow EXCEPT !.status = "FAILED"]
    /\ payOrder' = IF payOrder = "PENDING" THEN "FAILED" ELSE payOrder
    /\ UNCHANGED <<taker, recorded>>

\* A genuine delivery. It is refused when its signature does not verify or no
\* payment exists, acknowledged when its key was processed, ignored without an
\* order; COMPLETED is terminal for every event.
Deliver(s, e) ==
    LET ev == ParseEvent(s, e)
        id == <<s[2], ev.key>>
    IN  /\ <<s, e>> \in notices
        /\ VerifyWebhook(s[2]) /\ payRow.status # "none"
        /\ handled' = handled \cup {id}
        /\ acked' = IF ev.success /\ ev.order THEN acked \cup {s} ELSE acked
        /\ IF id \in handled \/ ~ev.order \/ payRow.status = "COMPLETED"
           THEN UNCHANGED <<payRow, payOrder, taker, recorded>>
           ELSE IF ev.success THEN ApplySuccess(s[2]) ELSE ApplyFailure
        /\ UNCHANGED <<env, gwClock, degraded, checkout, session, notices, denied>>

DeliverRefused(s, e) ==
    /\ <<s, e>> \in notices
    /\ ~VerifyWebhook(s[2])
    /\ denied' = denied \cup {s[2]}
    /\ UNCHANGED <<env, gwClock, degraded, checkout, session, notices, handled, payRow,
                   payOrder, taker, acked, recorded>>

\* The mock verifies anything outside production ...
MockVerifies(p) == Adapter(p) = "MOCK" /\ ~env.production

\* ... and PayMongo's adapter takes the empty string for a secret that is missing,
\* where the others refuse.
NoSecretVerifies(p) == Adapter(p) = "PAYMONGO" /\ "PAYMONGO" \notin env.secrets

\* A call of /webhook/<p> or /mock-webhook that no gateway signed and that verifies: the
\* success or the failure it tells is believed like a gateway's. It is taken to have a
\* key of its own.
UnsignedWebhook(p) ==
    /\ MockVerifies(p) \/ NoSecretVerifies(p)
    /\ payRow.status \notin {"none", "COMPLETED"}
    /\ ApplySuccess(NoGateway) \/ ApplyFailure
    /\ UNCHANGED <<env, gwClock, degraded, checkout, session, notices, handled, acked,
                   denied>>

-----------------------------------------------------------------------------
(* The return page. *)

\* resolveReturnOutcome
ResolveReturnOutcome(payment, order, returned) ==
    CASE payment = "COMPLETED" -> "paid"
      [] payment = "FAILED" -> "failed"
      [] payment \in {"CANCELLED", "REFUNDED"} -> "cancelled"
      [] payment = "PENDING" /\ order = "FAILED" -> "failed"
      [] payment = "PENDING" /\ order = "CANCELLED" -> "cancelled"
      [] payment = "PENDING" /\ returned = "cancelled" -> "cancelled"
      [] OTHER -> "waiting"

\* handleXenditReturn and getReturnPageStatus: what the page shows now, for the
\* status in its address. No payment yet is "waiting".
ReturnPage(returned) ==
    IF payRow.status = "none" THEN "waiting"
    ELSE ResolveReturnOutcome(payRow.status, payOrder, returned)

-----------------------------------------------------------------------------
(* recordGatewayFeeKeptOnRefund, inside the transaction that records a refund. *)

\* Math.round of an amount in cents.
Cents(numerator, denominator) == (2 * numerator + denominator) \div (2 * denominator)

FeeOverlap(r) == \E q \in FeeRefunds \ {r} : feeCall[q].pc = "open"

\* The rows are read after the refund's own total is known.
FeeRead(r, amount) ==
    /\ feeCall[r].pc = "idle"
    /\ refundedPart + amount <= PaymentAmount
    /\ refundedPart' = refundedPart + amount
    /\ feeCall' = [feeCall EXCEPT ![r] =
           [pc |-> "open", total |-> refundedPart + amount, seen |-> keptFee]]
    /\ feeRaced' = (feeRaced \/ FeeOverlap(r))
    /\ UNCHANGED keptFee

FeeOwed(total, seen) == Cents(GatewayFee * total, PaymentAmount) - seen

FeeWrite(r) ==
    /\ feeCall[r].pc = "open"
    /\ LET amount == FeeOwed(feeCall[r].total, feeCall[r].seen)
       IN  keptFee' = IF amount > 0 THEN keptFee + amount ELSE keptFee
    /\ feeCall' = [feeCall EXCEPT ![r].pc = "idle"]
    /\ feeRaced' = (feeRaced \/ FeeOverlap(r))
    /\ UNCHANGED refundedPart

-----------------------------------------------------------------------------
GatewayInit ==
    /\ env \in [keys : KeySets, secrets : SecretSets, production : BOOLEAN]
    /\ gwClock = 0 /\ degraded = [g \in Gateways |-> 0]
    /\ checkout = [c \in Checkouts |-> [pc |-> "idle", provider |-> NoGateway,
          method |-> NoGateway, at |-> NoGateway, last |-> FALSE, session |-> <<c, NoGateway>>,
          creates |-> FALSE]]
    /\ session = [s \in Checkouts \X Gateways |-> "none"]
    /\ notices = {} /\ handled = {}
    /\ payRow = [status |-> "none", provider |-> NoGateway] /\ payOrder = "none"
    /\ taker = NoGateway /\ acked = {} /\ recorded = FALSE /\ denied = {}
    /\ refundedPart = 0 /\ keptFee = 0 /\ feeRaced = FALSE
    /\ feeCall = [r \in FeeRefunds |-> [pc |-> "idle", total |-> 0, seen |-> 0]]

CheckoutNext ==
    /\ \/ \E c \in Checkouts, t \in Tries : PlaceOrder(c, t[1], t[2]) \/ RetryPayment(c, t[1], t[2])
       \/ \E c \in Checkouts : GatewayAnswers(c) \/ GatewayFails(c)
       \/ GatewayTick \/ OrderLapses
       \/ \E s \in DOMAIN session : BuyerPays(s) \/ SessionExpires(s)
       \/ \E n \in notices : Deliver(n[1], n[2]) \/ DeliverRefused(n[1], n[2])
       \/ \E p \in Gateways \cup {"MOCK"} : UnsignedWebhook(p)
    /\ UNCHANGED feeVars

FeeNext ==
    /\ \E r \in FeeRefunds : FeeWrite(r) \/ \E a \in RefundParts : FeeRead(r, a)
    /\ UNCHANGED checkoutVars

GatewaySpec == GatewayInit /\ [][CheckoutNext \/ FeeNext]_gatewayVars

-----------------------------------------------------------------------------
(* Properties. *)

\* Every variable keeps its type.
GatewayTypeOK ==
    /\ env.keys \cup env.secrets \subseteq Gateways /\ gwClock \in 0..MaxGatewayTime
    /\ degraded \in [Gateways -> 0..(MaxGatewayTime + 1)]
    /\ \A c \in Checkouts : checkout[c].pc \in {"idle", "calling", "answered", "failed"}
    /\ session \in [Checkouts \X Gateways -> {"none", "open", "paid", "expired"}]
    /\ payRow.status \in {"none", "PENDING", "COMPLETED", "FAILED", "REFUNDED"}
    /\ payOrder \in {"none", "PENDING", "PROCESSING", "FAILED", "CANCELLED"}
    /\ refundedPart \in 0..PaymentAmount /\ keptFee \in Nat

\* A method the picker offered leads to a page the buyer can pay on, also when
\* gateways fail, are degraded and are replaced: a checkout of an offered
\* gateway that was answered has a session at a configured gateway (F83).
OfferedMethodsTakeMoney ==
    \A c \in Checkouts :
        checkout[c].pc = "answered" /\ checkout[c].provider # "MOCK" /\ Offered(checkout[c].provider)
        => checkout[c].at \in env.keys /\ session[checkout[c].session] # "none"

\* Production, with PayMongo's webhook secret set if its key is: no code requires it.
SecretsAreSet == env.production /\ ("PAYMONGO" \in env.keys => "PAYMONGO" \in env.secrets)

\* Then nothing but money received at a gateway completes a payment, whatever else is
\* missing from the environment: without a key the mock's calls are refused, without
\* a secret Xendit's and Stripe's are.
CompletedMeansPaid ==
    SecretsAreSet /\ recorded => \E s \in DOMAIN session : session[s] = "paid"

\* With a single checkout answered, a completed payment names the gateway that
\* took the money, failover or not: that is where cancelOrder and executeRefund
\* send the refund. (A second checkout may overwrite the provider of a payment
\* whose first session is then paid.)
RefundReachesTheTaker ==
    payRow.status = "COMPLETED" /\ taker \in Gateways
    /\ Cardinality({c \in Checkouts : checkout[c].pc # "idle"}) = 1
    => payRow.provider = taker

\* A paid event that was acknowledged left a completed payment: no expired
\* session of the order, and no repeated key, swallows it.
AcknowledgedMoneyIsRecorded == acked # {} => recorded

\* The return page says "paid" only when a gateway has the money, whatever the
\* address of the page claims, under the same condition.
PaidPageMeansPaid ==
    SecretsAreSet /\ (\E returned \in {"success", "cancelled"} : ReturnPage(returned) = "paid")
    => \E s \in DOMAIN session : session[s] = "paid"

\* While a gateway is in its degradation window it is called only when no other
\* gateway is healthy.
DegradedGatewaysRest ==
    [][\A c \in Checkouts, g \in Gateways :
          checkout'[c].pc = "calling" /\ checkout'[c].at = g
          /\ ~(checkout[c].pc = "calling" /\ checkout[c].at = g)
          /\ degraded'[g] > gwClock
          => \A h \in Gateways \ {g} : ~Healthy(h, degraded')]_checkoutVars

\* Refunds recorded one at a time keep exactly the rounded share of the gateway
\* fee, and a full refund keeps the whole fee, in however many parts it is made.
FeeKeptAddsUp ==
    ~feeRaced /\ (\A r \in FeeRefunds : feeCall[r].pc = "idle")
    => keptFee = Cents(GatewayFee * refundedPart, PaymentAmount)

\* A checkout takes money where it can be taken, believes only gateways, and knows
\* where the money is.
CheckoutsAreSafe ==
    /\ [](GatewayTypeOK /\ OfferedMethodsTakeMoney /\ CompletedMeansPaid /\ RefundReachesTheTaker
          /\ AcknowledgedMoneyIsRecorded /\ PaidPageMeansPaid /\ FeeKeptAddsUp)
    /\ DegradedGatewaysRest
=============================================================================
