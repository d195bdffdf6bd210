------------------------------ MODULE GatewayRefunds ------------------------------
(***************************************************************************)
(* Sending a captured payment back through the adapter of the gateway that  *)
(* took it: the reference a webhook leaves on the payment, what each adapter *)
(* makes of it, answers that are lost, refunds that fail after they were    *)
(* accepted, and the retries and overlaps of the requests that ask for one. *)
(*                                                                          *)
(* cancelOrder and executeRefund read the payment and mark it later;        *)
(* refundPaymentOnClosedOrder claims it in one statement. All three ask for *)
(* the whole amount. What they do to orders, stock and settlements is the   *)
(* subject of OrderLifecycle and SettlementLedger.                          *)
(***************************************************************************)
EXTENDS Integers, FiniteSets

CONSTANTS
    RefundGateways, \* gateways a payment may have been taken by
    Askers,         \* cancelOrder and executeRefund requests
    Claimers,       \* refundPaymentOnClosedOrder calls
    MaxCalls,       \* bound on refunds a gateway makes
    MaxLosses       \* bound on lost answers, deaths and late failures together

ASSUME RefundConstants ==
    /\ RefundGateways \subseteq {"PAYMONGO", "XENDIT", "STRIPE"}
    /\ Askers \cap Claimers = {} /\ MaxCalls \in Nat \ {0} /\ MaxLosses \in Nat

VARIABLES
    took,           \* the gateway that took the payment
    stored,         \* Payments.providerReference, by kind
    payState,       \* Payments.status
    noted,          \* Payments.refundReference: the number of a refund, 0 for none
    asking,         \* the progress of the requests
    made,           \* at the gateway: the state of each refund it made
    keyed,          \* at Stripe: the refund its idempotency key stands for
    losses,         \* lost answers, deaths and late failures so far, by kind
    excess,         \* ghost: a call was refused because the money is already back
    refundRaced     \* ghost: two requests were under way at once

refundVars == <<took, stored, payState, noted, asking, made, keyed, losses, excess, refundRaced>>

-----------------------------------------------------------------------------
(* References. *)

\* parseWebhookEvent of Xendit: the payment request, else the session; before
\* #139 it was the session.
XenditReferences == {"payment request", "session"}

\* parsePayMongoShapedWebhookEvent: the id of what the event is about
PayMongoReferences == {"checkout session", "payment"}

\* parseWebhookEvent of Stripe, and the intent that reconciliation looked up
StripeReferences == {"payment intent"}

ReferencesOf(g) ==
    CASE g = "XENDIT" -> XenditReferences
      [] g = "PAYMONGO" -> PayMongoReferences
      [] OTHER -> StripeReferences

\* External: what the refund interfaces accept.
RefundableAt(g) ==
    CASE g = "XENDIT" -> {"payment request", "payment"}
      [] g = "PAYMONGO" -> {"payment"}
      [] OTHER -> {"payment intent"}

\* Xendit's refundPayment exchanges the id of a session for its payment request.
NeedsLookUp(g, ref) == g = "XENDIT" /\ ref = "session"

\* Variant of KeptKey: a key of its own for every call.
KeptKey_PerCall(g, n) == IF g = "STRIPE" THEN 0 ELSE keyed

\* Stripe's idempotency key is made of the payment and the amount, so it is the
\* same in every call; the other adapters send none.
KeptKey(g, n) == IF g = "STRIPE" THEN n ELSE keyed

-----------------------------------------------------------------------------
RefundInit ==
    /\ took \in RefundGateways
    /\ stored = "none" /\ payState = "PENDING" /\ noted = 0
    /\ asking = [r \in Askers \cup Claimers |-> [pc |-> "idle", target |-> "none", refund |-> 0]]
    /\ made = [n \in 1..MaxCalls |-> "none"] /\ keyed = 0
    /\ losses = [answers |-> 0, deaths |-> 0, bounces |-> 0]
    /\ excess = FALSE /\ refundRaced = FALSE

UnderWay == {r \in Askers \cup Claimers : asking[r].pc # "idle"}

Spare == losses.answers + losses.deaths + losses.bounces < MaxLosses

Asks(r, pc) == asking' = [asking EXCEPT ![r].pc = pc]

EndAsking(r) == asking' = [asking EXCEPT ![r] = [pc |-> "idle", target |-> "none", refund |-> 0]]

\* The webhook, or Stripe's reconciliation, completes the payment and stores the
\* reference; COMPLETED is terminal for later events.
MoneyRecorded(ref) ==
    /\ payState = "PENDING"
    /\ payState' = "COMPLETED" /\ stored' = ref
    /\ UNCHANGED <<took, noted, asking, made, keyed, losses, excess, refundRaced>>

\* The payment is read: COMPLETED, with a reference. A claim marks it as well.
RefundRead(r) ==
    /\ asking[r].pc = "idle" /\ payState = "COMPLETED"
    /\ asking' = [asking EXCEPT ![r] =
          [pc |-> IF r \in Claimers THEN "sending" ELSE "read", target |-> stored, refund |-> 0]]
    /\ payState' = IF r \in Claimers THEN "REFUND_PENDING" ELSE payState
    /\ refundRaced' = (refundRaced \/ UnderWay # {})
    /\ UNCHANGED <<took, stored, noted, made, keyed, losses, excess>>

\* The intent is marked whatever the payment has become.
RefundMark(r) ==
    /\ asking[r].pc = "read"
    /\ payState' = "REFUND_PENDING"
    /\ Asks(r, "sending")
    /\ UNCHANGED <<took, stored, noted, made, keyed, losses, excess, refundRaced>>

\* paymentRequestForSession finds the payment request, or throws.
LookUpSession(r) ==
    /\ asking[r].pc = "sending" /\ NeedsLookUp(took, asking[r].target)
    /\ \/ asking' = [asking EXCEPT ![r].target = "payment request"]
       \/ Asks(r, "failed")
    /\ UNCHANGED <<took, stored, payState, noted, made, keyed, losses, excess, refundRaced>>

-----------------------------------------------------------------------------
(* The gateway (external). *)

Returned == {n \in 1..MaxCalls : made[n] \in {"pending", "succeeded"}}
Unused == {n \in 1..MaxCalls : made[n] = "none"}
Calls(r) == asking[r].pc = "sending" /\ ~NeedsLookUp(took, asking[r].target)

Respond(r, n) ==
    \/ /\ asking' = [asking EXCEPT ![r].pc = "answered", ![r].refund = n]
       /\ UNCHANGED losses
    \/ /\ Spare
       /\ losses' = [losses EXCEPT !.answers = @ + 1]
       /\ Asks(r, "failed")

\* A refund is made, at once or to be settled later; the answer may be lost,
\* which axios reports as an error.
GatewayMakes(r) ==
    /\ Calls(r) /\ asking[r].target \in RefundableAt(took)
    /\ keyed = 0 /\ Returned = {} /\ Unused # {}
    /\ LET n == CHOOSE k \in Unused : \A j \in Unused : k <= j
       IN  /\ \E state \in {"pending", "succeeded"} : made' = [made EXCEPT ![n] = state]
           /\ keyed' = KeptKey(took, n)
           /\ Respond(r, n)
    /\ UNCHANGED <<took, stored, payState, noted, excess, refundRaced>>

\* Stripe answers a key it knows with the refund it made for it, whose status
\* nobody reads.
GatewayRepeats(r) ==
    /\ Calls(r) /\ keyed # 0
    /\ Respond(r, keyed)
    /\ UNCHANGED <<took, stored, payState, noted, made, keyed, excess, refundRaced>>

\* A reference of the wrong kind, money that is already back, or any other reason.
GatewayRefuses(r) ==
    /\ Calls(r) /\ keyed = 0
    /\ Asks(r, "failed")
    /\ excess' = (excess \/ (asking[r].target \in RefundableAt(took) /\ Returned # {}))
    /\ UNCHANGED <<took, stored, payState, noted, made, keyed, losses, refundRaced>>

\* A refund that was accepted is paid, or fails and is never reported to the code.
GatewaySettles(n) ==
    /\ made[n] = "pending"
    /\ \/ made' = [made EXCEPT ![n] = "succeeded"] /\ UNCHANGED losses
       \/ /\ Spare
          /\ made' = [made EXCEPT ![n] = "failed"]
          /\ losses' = [losses EXCEPT !.bounces = @ + 1]
    /\ UNCHANGED <<took, stored, payState, noted, asking, keyed, excess, refundRaced>>

-----------------------------------------------------------------------------
(* What the answer leads to. *)

\* The catch block: the payment is put back to COMPLETED, over whatever it became.
RefundRestore(r) ==
    /\ asking[r].pc = "failed"
    /\ payState' = "COMPLETED"
    /\ EndAsking(r)
    /\ UNCHANGED <<took, stored, noted, made, keyed, losses, excess, refundRaced>>

\* The transaction that records the refund.
RefundRecord(r) ==
    /\ asking[r].pc = "answered"
    /\ payState' = "REFUNDED" /\ noted' = asking[r].refund
    /\ EndAsking(r)
    /\ UNCHANGED <<took, stored, made, keyed, losses, excess, refundRaced>>

\* The process dies, or a write fails: REFUND_PENDING is left for a person.
RefundDies(r) ==
    /\ asking[r].pc # "idle" /\ Spare
    /\ losses' = [losses EXCEPT !.deaths = @ + 1]
    /\ EndAsking(r)
    /\ UNCHANGED <<took, stored, payState, noted, made, keyed, excess, refundRaced>>

RefundNext ==
    \/ \E ref \in ReferencesOf(took) : MoneyRecorded(ref)
    \/ \E n \in 1..MaxCalls : GatewaySettles(n)
    \/ \E r \in Askers \cup Claimers :
          \/ RefundRead(r) \/ RefundMark(r) \/ LookUpSession(r)
          \/ GatewayMakes(r) \/ GatewayRepeats(r) \/ GatewayRefuses(r)
          \/ RefundRestore(r) \/ RefundRecord(r) \/ RefundDies(r)

RefundSpec == RefundInit /\ [][RefundNext]_refundVars

-----------------------------------------------------------------------------
(* Properties. *)

\* Payments, requests and refunds have the shapes the code gives them.
RefundTypeOK ==
    /\ payState \in {"PENDING", "COMPLETED", "REFUND_PENDING", "REFUNDED"}
    /\ stored \in ReferencesOf(took) \cup {"none"}
    /\ keyed \in 0..MaxCalls /\ noted \in 0..MaxCalls
    /\ \A r \in Askers \cup Claimers : asking[r].refund \in 0..MaxCalls

\* A refund asked of Xendit or Stripe names a thing they refund, whichever event
\* completed the payment and whenever it was stored (#139). (PayMongo's may name
\* the checkout session its event was about.)
RefundsNameAPayment ==
    took # "PAYMONGO" =>
        \A r \in Askers \cup Claimers : Calls(r) => asking[r].target \in RefundableAt(took)

\* At Stripe a retry after a lost answer or a death is answered with the refund
\* that was made, and so gets it recorded: no call is refused because the money is
\* already back. (At Xendit and PayMongo, without a key, it is: such a payment
\* stays COMPLETED with its money returned.)
RetriesFindTheFirst == took = "STRIPE" => ~excess

\* A payment recorded as REFUNDED has its money back at the buyer, and names the
\* refund that returned it, through lost answers, deaths and overlapping requests;
\* only a refund that failed after it was accepted is not noticed.
RefundedMeansReturned ==
    payState = "REFUNDED" /\ losses.bounces = 0 => noted \in Returned

\* The catch block is right that "the refund did not happen": a payment offered for
\* refund has not been returned, unless an answer was lost, a process died or two
\* requests overlapped.
CompletedMeansKept ==
    payState = "COMPLETED" /\ losses.answers = 0 /\ losses.deaths = 0 /\ ~refundRaced
        => Returned = {}

\* The status of a payment tells where its money is.
RefundsAreSafe ==
    RefundTypeOK /\ RefundsNameAPayment /\ RetriesFindTheFirst /\ RefundedMeansReturned
    /\ CompletedMeansKept
=============================================================================
