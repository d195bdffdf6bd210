---------------------------- MODULE SettlementLedger ----------------------------
(***************************************************************************)
(* What the platform owes the seller for completed orders, and what takes   *)
(* it back: settlements, return requests with their refunds, and payouts.   *)
(*                                                                          *)
(* All orders are of one seller.  An order is here from its completion on;  *)
(* how it got there is OrderLifecycle's business.  A refund is always of    *)
(* the whole payment, as createReturnRequest asks for the order's total.    *)
(*                                                                          *)
(* A step of a request ends where another transaction can come in, which in *)
(* these services is after nearly every statement, because most of them run *)
(* outside a transaction.  An actor serves any number of requests, one at a *)
(* time.                                                                    *)
(*                                                                          *)
(* SellerPayouts.status is a label that only updatePayoutStatus reads; a    *)
(* payout is here what it pays for and how much.                            *)
(***************************************************************************)
EXTENDS Integers, FiniteSets

CONSTANTS
    Orders,           \* orders of the seller
    Returns,          \* ids of ReturnRequests rows
    NoOrder,          \* order of a return that does not exist
    NoReturn,         \* return of a request that has none
    Openers,          \* createReturnRequest requests
    Deciders,         \* updateReturnStatus requests
    Payouts,          \* createPayout requests, each the payout it makes
    SettlementEdits,  \* updateSettlementStatus requests
    Releasers,        \* processes that run releaseMaturedSettlements
    ReturnWindow,     \* RETURN_WINDOW_DAYS
    SettlementHold,   \* SETTLEMENT_HOLD_DAYS
    SellerNet,        \* what a gateway order owes the seller
    Commission,       \* what a cash order has the seller owe
    RefundOutcomes,   \* subset of {"ok", "refused", "lost"}
    MaxDay,           \* bound on time
    MaxCompletions,   \* bound on the completions of one order
    MaxRefunds        \* bound on the refunds the provider makes for one order

ASSUME SettlementConstants ==
    /\ IsFiniteSet(Orders)
    /\ IsFiniteSet(Openers \cup Deciders \cup Payouts \cup SettlementEdits)
    /\ NoOrder \notin Orders
    /\ NoReturn \notin Returns
    /\ ReturnWindow \in Nat
    /\ SettlementHold \in Nat
    /\ SellerNet \in Nat
    /\ Commission \in Nat
    /\ RefundOutcomes \subseteq {"ok", "refused", "lost"}
    /\ MaxDay \in Nat
    /\ MaxCompletions \in Nat
    /\ MaxRefunds \in Nat

VARIABLES
    now,          \* the day
    method,       \* the payment method of each order
    completions,  \* how often the order was completed, 0 before it is COMPLETED
    completedAt,  \* Orders.completedAt
    payment,      \* Payments.status of the order's payment
    refunded,     \* Payments.refundedAmount is the whole amount
    feeKept,      \* the gateway fee of the refund is on the order's ledger
    settlement,   \* Settlements.status
    eligibleAt,   \* Settlements.releaseEligibleAt
    returns,      \* the ReturnRequests rows
    payouts,      \* the SellerPayouts rows: their items and totalAmount
    restocks,     \* how often the goods of the order went back on the shelf
    refundsSent,  \* gateway: refunds made for the order
    call,         \* the progress of every request
    due           \* what each release job has read and not yet written

saleVars   == <<method, completions, completedAt>>
moneyVars  == <<payment, refunded, feeKept, restocks, refundsSent>>
ledgerVars == <<settlement, eligibleAt>>
vars == <<now, saleVars, moneyVars, ledgerVars, returns, payouts, call, due>>

-----------------------------------------------------------------------------
(* Rows                                                                     *)

SettlementStatus == {"NONE", "PENDING", "HELD", "RELEASED", "REFUNDED"}

ReturnStatus == {"NONE", "PENDING", "APPROVED", "REJECTED", "ITEM_RECEIVED", "REFUNDED"}

AllowedReturnTransitions ==
    [from \in ReturnStatus |->
       CASE from = "PENDING"       -> {"APPROVED", "REJECTED"}
         [] from = "APPROVED"      -> {"ITEM_RECEIVED", "REJECTED"}
         [] from = "ITEM_RECEIVED" -> {"REFUNDED"}
         [] OTHER                  -> {}]

Completed(o) == completions[o] > 0

ReturnsOf(o) == {r \in Returns : returns[r].order = o}

OpenReturns(o) ==
    {r \in ReturnsOf(o) : returns[r].status \in {"PENDING", "APPROVED", "ITEM_RECEIVED"}}

\* The orders whose settlement sits in a payout.
PaidOut == UNION {payouts[p].items : p \in Payouts}

\* Sum of sellerNetAmount: a cash order counts as the commission owed.
NetOf(S) == SellerNet * Cardinality({o \in S : method[o] = "GATEWAY"})
            - Commission * Cardinality({o \in S : method[o] = "CASH"})

-----------------------------------------------------------------------------
(* Requests                                                                 *)

Requests == Openers \cup Deciders \cup Payouts \cup SettlementEdits

Idle == [pc |-> "idle", order |-> NoOrder, return |-> NoReturn, to |-> "NONE", found |-> {}]

Goto(c, pc) == call' = [call EXCEPT ![c].pc = pc]

\* The request is over.
Finish(c) == call' = [call EXCEPT ![c] = Idle]

-----------------------------------------------------------------------------
SettlementInit ==
    /\ now = 0
    /\ method \in [Orders -> {"CASH", "GATEWAY"}]
    /\ completions = [o \in Orders |-> 0]
    /\ completedAt = [o \in Orders |-> 0]
    /\ payment = [o \in Orders |-> IF method[o] = "CASH" THEN "PENDING" ELSE "COMPLETED"]
    /\ refunded = [o \in Orders |-> FALSE]
    /\ feeKept = [o \in Orders |-> FALSE]
    /\ settlement = [o \in Orders |-> "NONE"]
    /\ eligibleAt = [o \in Orders |-> 0]
    /\ returns = [r \in Returns |-> [order |-> NoOrder, status |-> "NONE"]]
    /\ payouts = [p \in Payouts |-> [items |-> {}, total |-> 0]]
    /\ restocks = [o \in Orders |-> 0]
    /\ refundsSent = [o \in Orders |-> 0]
    /\ call = [c \in Requests |-> Idle]
    /\ due = [j \in Releasers |-> {}]

-----------------------------------------------------------------------------
(* Time and completion                                                      *)

Tick ==
    /\ now < MaxDay
    /\ now' = now + 1
    /\ UNCHANGED <<saleVars, moneyVars, ledgerVars, returns, payouts, call, due>>

\* completeOrderInternal as far as money goes.  A second completion passes the
\* transition check, renews completedAt and finds the settlement there.
CompleteOrder(o) ==
    /\ completions[o] < MaxCompletions
    /\ payment[o] = "COMPLETED" \/ method[o] = "CASH"
    /\ payment' = [payment EXCEPT ![o] = "COMPLETED"]
    /\ completions' = [completions EXCEPT ![o] = @ + 1]
    /\ completedAt' = [completedAt EXCEPT ![o] = now]
    /\ IF settlement[o] = "NONE"
       THEN /\ settlement' = [settlement EXCEPT ![o] = "PENDING"]
            /\ eligibleAt' = [eligibleAt EXCEPT ![o] = now + SettlementHold]
       ELSE UNCHANGED ledgerVars
    /\ UNCHANGED <<now, method, refunded, feeKept, returns, payouts, restocks,
                   refundsSent, call, due>>

-----------------------------------------------------------------------------
(* createReturnRequest                                                      *)

\* The checks: completed, within the window, no return open or refunded.
OpenRead(b, o) ==
    /\ call[b].pc = "idle"
    /\ Completed(o)
    /\ now <= completedAt[o] + ReturnWindow
    /\ OpenReturns(o) = {}
    /\ \A r \in ReturnsOf(o) : returns[r].status # "REFUNDED"
    /\ call' = [call EXCEPT ![b] = [@ EXCEPT !.pc = "opening", !.order = o]]
    /\ UNCHANGED <<now, saleVars, moneyVars, ledgerVars, returns, payouts, due>>

OpenWrite(b, r) ==
    /\ call[b].pc = "opening"
    /\ returns[r].status = "NONE"
    /\ returns' = [returns EXCEPT ![r] = [order |-> call[b].order, status |-> "PENDING"]]
    /\ Finish(b)
    /\ UNCHANGED <<now, saleVars, moneyVars, ledgerVars, payouts, due>>

-----------------------------------------------------------------------------
(* updateReturnStatus                                                       *)

\* Where a decision goes first: an approval freezes the settlement before the
\* return is written, a refund has its own procedure.
FirstStep(to) == CASE to = "APPROVED" -> "holding"
                   [] to = "REFUNDED" -> "loading"
                   [] OTHER           -> "writing"

\* The return is read and the transition checked; asking for the status it has
\* already, or for one it may not move to, changes nothing.
DecideRead(d, r, to) ==
    /\ call[d].pc = "idle"
    /\ returns[r].status # "NONE"
    /\ to \in AllowedReturnTransitions[returns[r].status]
    /\ call' = [call EXCEPT ![d] = [pc |-> FirstStep(to), order |-> returns[r].order,
                                    return |-> r, to |-> to, found |-> {}]]
    /\ UNCHANGED <<now, saleVars, moneyVars, ledgerVars, returns, payouts, due>>

\* holdForOrder.
DecideHold(d) ==
    LET o == call[d].order IN
    /\ call[d].pc = "holding"
    /\ settlement' = IF settlement[o] \in {"PENDING", "RELEASED"}
                     THEN [settlement EXCEPT ![o] = "HELD"] ELSE settlement
    /\ Goto(d, "writing")
    /\ UNCHANGED <<now, saleVars, moneyVars, eligibleAt, returns, payouts, due>>

\* ReturnRepository.updateStatus, whatever the status has become.
DecideWrite(d) ==
    /\ call[d].pc = "writing"
    /\ returns' = [returns EXCEPT ![call[d].return].status = call[d].to]
    /\ IF call[d].to = "REJECTED" THEN Goto(d, "freeing") ELSE Finish(d)
    /\ UNCHANGED <<now, saleVars, moneyVars, ledgerVars, payouts, due>>

\* A rejected return lets the settlement mature again.
DecideFree(d) ==
    LET o == call[d].order IN
    /\ call[d].pc = "freeing"
    /\ settlement' = IF settlement[o] = "HELD"
                     THEN [settlement EXCEPT ![o] = "PENDING"] ELSE settlement
    /\ Finish(d)
    /\ UNCHANGED <<now, saleVars, moneyVars, eligibleAt, returns, payouts, due>>

-----------------------------------------------------------------------------
(* executeRefund                                                            *)

\* The payment is read; only a COMPLETED one with its amount still refundable
\* goes on.  Cash has nothing to send back.
RefundLoad(d) ==
    LET o == call[d].order IN
    /\ call[d].pc = "loading"
    /\ IF payment[o] # "COMPLETED" \/ refunded[o] THEN Finish(d)
       ELSE Goto(d, IF method[o] = "CASH" THEN "refunded" ELSE "marking")
    /\ UNCHANGED <<now, saleVars, moneyVars, ledgerVars, returns, payouts, due>>

\* The intent is marked before the provider is called.
RefundMark(d) ==
    /\ call[d].pc = "marking"
    /\ payment' = [payment EXCEPT ![call[d].order] = "REFUND_PENDING"]
    /\ Goto(d, "refunding")
    /\ UNCHANGED <<now, saleVars, refunded, feeKept, restocks, refundsSent,
                   ledgerVars, returns, payouts, due>>

\* The provider (external): refunds, refuses, or refunds and the answer is lost.
GatewayRefund(d, outcome) ==
    LET o == call[d].order IN
    /\ call[d].pc = "refunding"
    /\ outcome = "refused" \/ refundsSent[o] < MaxRefunds
    /\ refundsSent' = IF outcome = "refused" THEN refundsSent
                      ELSE [refundsSent EXCEPT ![o] = @ + 1]
    /\ Goto(d, IF outcome = "ok" THEN "refunded" ELSE "refused")
    /\ UNCHANGED <<now, saleVars, payment, refunded, feeKept, restocks,
                   ledgerVars, returns, payouts, due>>

\* Variant of RefundRestore whose catch block falls through.
RefundRestore_FallThrough(d) ==
    /\ call[d].pc = "refused"
    /\ payment' = [payment EXCEPT ![call[d].order] = "COMPLETED"]
    /\ Goto(d, "refunded")
    /\ UNCHANGED <<now, saleVars, refunded, feeKept, restocks, refundsSent,
                   ledgerVars, returns, payouts, due>>

\* The catch block: the payment goes back to the status it was read with.
RefundRestore(d) ==
    /\ call[d].pc = "refused"
    /\ payment' = [payment EXCEPT ![call[d].order] = "COMPLETED"]
    /\ Finish(d)
    /\ UNCHANGED <<now, saleVars, refunded, feeKept, restocks, refundsSent,
                   ledgerVars, returns, payouts, due>>

\* The settlement, in a payout or not, is REFUNDED when there is one.
MarkRefundedForOrder(o) == [settlement EXCEPT ![o] = IF @ = "NONE" THEN @ ELSE "REFUNDED"]

\* The closing transaction: payment, fee ledger, settlement, stock and return.
RefundCommit(d) ==
    LET o == call[d].order IN
    /\ call[d].pc = "refunded"
    /\ payment' = [payment EXCEPT ![o] = "REFUNDED"]
    /\ refunded' = [refunded EXCEPT ![o] = TRUE]
    /\ feeKept' = [feeKept EXCEPT ![o] = @ \/ method[o] = "GATEWAY"]
    /\ settlement' = MarkRefundedForOrder(o)
    /\ restocks' = [restocks EXCEPT ![o] = @ + 1]
    /\ returns' = [returns EXCEPT ![call[d].return].status = "REFUNDED"]
    /\ Finish(d)
    /\ UNCHANGED <<now, saleVars, refundsSent, eligibleAt, payouts, due>>

\* The process dies while it handles a decision.
DecideCrash(d) ==
    /\ call[d].pc # "idle"
    /\ Finish(d)
    /\ UNCHANGED <<now, saleVars, moneyVars, ledgerVars, returns, payouts, due>>

-----------------------------------------------------------------------------
(* releaseMaturedSettlements                                                *)

\* Variant of DueSettlements that forgets the settlements a return froze.
DueSettlements_PendingOnly ==
    {o \in Orders : /\ settlement[o] = "PENDING"
                    /\ eligibleAt[o] <= now
                    /\ Completed(o)
                    /\ OpenReturns(o) = {}}

DueSettlements ==
    {o \in Orders : /\ settlement[o] \in {"PENDING", "HELD"}
                    /\ eligibleAt[o] <= now
                    /\ Completed(o)
                    /\ OpenReturns(o) = {}}

ReleaseRead(j) ==
    /\ due[j] = {}
    /\ DueSettlements # {}
    /\ due' = [due EXCEPT ![j] = DueSettlements]
    /\ UNCHANGED <<now, saleVars, moneyVars, ledgerVars, returns, payouts, call>>

\* Variant of ReleaseWrite that releases everything it read.
ReleaseWrite_Unconditional(j) ==
    /\ due[j] # {}
    /\ settlement' = [o \in Orders |-> IF o \in due[j] THEN "RELEASED" ELSE settlement[o]]
    /\ due' = [due EXCEPT ![j] = {}]
    /\ UNCHANGED <<now, saleVars, moneyVars, eligibleAt, returns, payouts, call>>

\* updateMany on the ids read, where the status is still PENDING or HELD.
ReleaseWrite(j) ==
    /\ due[j] # {}
    /\ settlement' = [o \in Orders |->
                        IF o \in due[j] /\ settlement[o] \in {"PENDING", "HELD"}
                        THEN "RELEASED" ELSE settlement[o]]
    /\ due' = [due EXCEPT ![j] = {}]
    /\ UNCHANGED <<now, saleVars, moneyVars, eligibleAt, returns, payouts, call>>

-----------------------------------------------------------------------------
(* createPayout                                                             *)

\* Variant of PayoutRead without the test of the total.
PayoutRead_AnyTotal(p, named) ==
    LET S == {o \in named : settlement[o] = "RELEASED" /\ o \notin PaidOut} IN
    /\ call[p].pc = "idle"
    /\ payouts[p].items = {}
    /\ S # {}
    /\ call' = [call EXCEPT ![p] = [@ EXCEPT !.pc = "paying", !.found = S]]
    /\ UNCHANGED <<now, saleVars, moneyVars, ledgerVars, returns, payouts, due>>

\* The RELEASED settlements without a payout item, among the ones named (or all
\* of them).  Cash commissions net off; there must be something left to send.
PayoutRead(p, named) ==
    LET S == {o \in named : settlement[o] = "RELEASED" /\ o \notin PaidOut} IN
    /\ call[p].pc = "idle"
    /\ payouts[p].items = {}
    /\ S # {}
    /\ NetOf(S) > 0
    /\ call' = [call EXCEPT ![p] = [@ EXCEPT !.pc = "paying", !.found = S]]
    /\ UNCHANGED <<now, saleVars, moneyVars, ledgerVars, returns, payouts, due>>

\* Variant of PayoutWrite without the unique index on settlementId.
PayoutWrite_NoUnique(p) ==
    LET S == call[p].found IN
    /\ call[p].pc = "paying"
    /\ payouts' = [payouts EXCEPT ![p] = [items |-> S, total |-> NetOf(S)]]
    /\ Finish(p)
    /\ UNCHANGED <<now, saleVars, moneyVars, ledgerVars, returns, due>>

\* The payout and its items; the unique index on settlementId aborts the
\* transaction when one of the settlements got into another payout.
PayoutWrite(p) ==
    LET S == call[p].found IN
    /\ call[p].pc = "paying"
    /\ payouts' = IF S \cap PaidOut # {} THEN payouts
                  ELSE [payouts EXCEPT ![p] = [items |-> S, total |-> NetOf(S)]]
    /\ Finish(p)
    /\ UNCHANGED <<now, saleVars, moneyVars, ledgerVars, returns, due>>

-----------------------------------------------------------------------------
(* updateSettlementStatus                                                   *)

SettlementEditRead(e, o, to) ==
    /\ call[e].pc = "idle"
    /\ settlement[o] # "NONE"
    /\ o \notin PaidOut
    /\ call' = [call EXCEPT ![e] = [@ EXCEPT !.pc = "editing", !.order = o, !.to = to]]
    /\ UNCHANGED <<now, saleVars, moneyVars, ledgerVars, returns, payouts, due>>

SettlementEditWrite(e) ==
    /\ call[e].pc = "editing"
    /\ settlement' = [settlement EXCEPT ![call[e].order] = call[e].to]
    /\ Finish(e)
    /\ UNCHANGED <<now, saleVars, moneyVars, eligibleAt, returns, payouts, due>>

-----------------------------------------------------------------------------
OpenNext(b) ==
    \/ \E o \in Orders : OpenRead(b, o)
    \/ \E r \in Returns : OpenWrite(b, r)

DecideNext(d) ==
    \/ \E r \in Returns, to \in ReturnStatus : DecideRead(d, r, to)
    \/ DecideHold(d)
    \/ DecideWrite(d)
    \/ DecideFree(d)
    \/ RefundLoad(d)
    \/ RefundMark(d)
    \/ \E outcome \in RefundOutcomes : GatewayRefund(d, outcome)
    \/ RefundRestore(d)
    \/ RefundCommit(d)
    \/ DecideCrash(d)

PayoutNext(p) ==
    \/ \E named \in SUBSET Orders : PayoutRead(p, named)
    \/ PayoutWrite(p)

SettlementEditNext(e) ==
    \/ \E o \in Orders, to \in SettlementStatus \ {"NONE"} : SettlementEditRead(e, o, to)
    \/ SettlementEditWrite(e)

ReleaseNext(j) == ReleaseRead(j) \/ ReleaseWrite(j)

SettlementNext ==
    \/ Tick
    \/ \E o \in Orders : CompleteOrder(o)
    \/ \E b \in Openers : OpenNext(b)
    \/ \E d \in Deciders : DecideNext(d)
    \/ \E p \in Payouts : PayoutNext(p)
    \/ \E e \in SettlementEdits : SettlementEditNext(e)
    \/ \E j \in Releasers : ReleaseNext(j)

SettlementSafety == SettlementInit /\ [][SettlementNext]_vars

\* The release job is an hourly cron job.
SettlementSpec ==
    SettlementSafety
    /\ \A j \in Releasers : WF_vars(ReleaseRead(j)) /\ WF_vars(ReleaseWrite(j))

-----------------------------------------------------------------------------
(* Properties                                                               *)

RequestState ==
    [pc : {"idle", "opening", "holding", "writing", "freeing", "loading", "marking",
           "refunding", "refunded", "refused", "paying", "editing"},
     order : Orders \cup {NoOrder}, return : Returns \cup {NoReturn},
     to : ReturnStatus \cup SettlementStatus, found : SUBSET Orders]

SettlementTypeOK ==
    /\ now \in 0..MaxDay
    /\ method \in [Orders -> {"CASH", "GATEWAY"}]
    /\ completions \in [Orders -> 0..MaxCompletions]
    /\ completedAt \in [Orders -> 0..MaxDay]
    /\ payment \in [Orders -> {"PENDING", "COMPLETED", "REFUND_PENDING", "REFUNDED"}]
    /\ refunded \in [Orders -> BOOLEAN]
    /\ feeKept \in [Orders -> BOOLEAN]
    /\ settlement \in [Orders -> SettlementStatus]
    /\ eligibleAt \in [Orders -> Nat]
    /\ returns \in [Returns -> [order : Orders \cup {NoOrder}, status : ReturnStatus]]
    /\ payouts \in [Payouts -> [items : SUBSET Orders, total : Nat]]
    /\ restocks \in [Orders -> Nat]
    /\ refundsSent \in [Orders -> Nat]
    /\ call \in [Requests -> RequestState]
    /\ due \in [Releasers -> SUBSET Orders]

\* No settlement is paid in two payouts, although two payout runs can sweep the
\* same settlements at once.
NoDoublePayout ==
    \A p, q \in Payouts : p # q => payouts[p].items \cap payouts[q].items = {}

\* A refund the database shows was sent: a gateway payment or return is REFUNDED,
\* and the goods go back on the shelf, no more often than the provider refunded
\* ("a refund we recorded but never sent is worse"), whatever was refused, lost
\* or asked for twice.
RecordedRefundsWereSent ==
    \A o \in Orders : method[o] = "GATEWAY" =>
       /\ restocks[o] <= refundsSent[o]
       /\ payment[o] = "REFUNDED" => refundsSent[o] > 0
       /\ \A r \in ReturnsOf(o) : returns[r].status = "REFUNDED" => refundsSent[o] > 0

\* "The seller is not paid for a sale that came back": once REFUNDED, a settlement
\* becomes payable again by no return decision, release job or completion that
\* read it before, only by an admin's edit.
RefundedSettlementStays ==
    [][\A o \in Orders :
          settlement[o] = "REFUNDED" /\ settlement'[o] # "REFUNDED"
             => \E e \in SettlementEdits : call[e].pc = "editing" /\ call'[e].pc = "idle"]_vars

\* A settlement past its hold is released, refunded, or waits for a return that
\* is open: no crash or race of decisions leaves it frozen.
SettlementsMature ==
    \A o \in Orders :
       (settlement[o] \in {"PENDING", "HELD"} /\ eligibleAt[o] <= now)
          ~> (settlement[o] \in {"RELEASED", "REFUNDED"} \/ OpenReturns(o) # {})

\* The goods of an order come back once: a repeated request for REFUNDED is "a
\* retry, not a transition: answer with the current record and do nothing else".
GoodsReturnOnce == \A o \in Orders : restocks[o] <= 1
=============================================================================
