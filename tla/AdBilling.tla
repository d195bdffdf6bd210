------------------------------- MODULE AdBilling -------------------------------
(***************************************************************************)
(* What a promotion costs: the events of buyers (trackEvent), the marketing *)
(* wallet of the seller they are charged to, and the budget of the ad.      *)
(*                                                                          *)
(* None of it runs in a transaction.  Every database statement is a step of *)
(* its own: an event reads the ad, later the wallet, then debits it and in  *)
(* the end counts the spend on the ad; the process may die in between.      *)
(***************************************************************************)
EXTENDS Integers, FiniteSets, FiniteSetsExt

CONSTANTS
    AdSellers,
    BilledAds,
    SellerOfAd,     \* the seller whose wallet an ad is charged to
    TotalBudget,    \* totalBudget of an ad; 0 stands for none
    EventTypes,     \* IMPRESSION, CLICK and CONVERSION
    EventCost,      \* AD_COST_PER_IMPRESSION, AD_COST_PER_CLICK, nothing for a conversion
    Trackers,       \* trackEvent requests under way
    Depositors,     \* deposit requests under way
    DepositAmounts,
    DepositKeys,    \* referenceKeys of deposits
    MaxDeposited,   \* bound on lifetimeDeposited
    NoAd

ASSUME BillingConstants ==
    /\ IsFiniteSet(AdSellers) /\ IsFiniteSet(BilledAds)
    /\ IsFiniteSet(Trackers) /\ Trackers # {}
    /\ SellerOfAd \in [BilledAds -> AdSellers]
    /\ TotalBudget \in [BilledAds -> Nat]
    /\ EventCost \in [EventTypes -> Nat] /\ IsFiniteSet(EventTypes) /\ EventTypes # {}
    /\ DepositAmounts \subseteq Nat \ {0}
    /\ MaxDeposited \in Nat
    /\ NoAd \notin BilledAds \cup AdSellers

VARIABLES
    adWallet,       \* MarketingWallet rows
    depositRows,    \* referenceKeys of the DEPOSIT transactions
    spendRows,      \* AD_SPEND transactions: what each ad was charged
    adSpent,        \* MerchantAds.spentAmount
    adActive,       \* MerchantAds.isActive
    adCall          \* the progress of every request

billingVars == <<adWallet, depositRows, spendRows, adSpent, adActive, adCall>>

AdIdle == [pc |-> "idle", ad |-> NoAd, seller |-> NoAd, key |-> NoAd, amount |-> 0, seen |-> 0]

AdDone(c) == adCall' = [adCall EXCEPT ![c] = AdIdle]

BillingInit ==
    /\ adWallet = [s \in AdSellers |-> [balance |-> 0, deposited |-> 0, spent |-> 0]]
    /\ depositRows = {}
    /\ spendRows = [a \in BilledAds |-> 0]
    /\ adSpent = [a \in BilledAds |-> 0]
    /\ adActive = [a \in BilledAds |-> TRUE]
    /\ adCall = [c \in Trackers \cup Depositors |-> AdIdle]

-----------------------------------------------------------------------------
(* Deposits                                                                 *)

\* deposit increments the wallet first.
DepositWallet(d, s, key, amount) ==
    /\ adCall[d].pc = "idle"
    /\ adWallet[s].deposited + amount <= MaxDeposited
    /\ adWallet' = [adWallet EXCEPT ![s].balance = @ + amount, ![s].deposited = @ + amount]
    /\ adCall' = [adCall EXCEPT ![d] = [AdIdle EXCEPT !.pc = "deposit", !.seller = s, !.key = key]]
    /\ UNCHANGED <<depositRows, spendRows, adSpent, adActive>>

\* It then inserts the transaction row, which a referenceKey that was used before
\* refuses: the request answers an error and the wallet keeps the money.
DepositRecord(d) ==
    /\ adCall[d].pc = "deposit"
    /\ depositRows' = depositRows \cup {adCall[d].key}
    /\ AdDone(d)
    /\ UNCHANGED <<adWallet, spendRows, adSpent, adActive>>

-----------------------------------------------------------------------------
(* trackEvent                                                               *)

\* The budget test, against the spentAmount the request read.
WithinBudget(ad, spent, cost) == TotalBudget[ad] = 0 \/ spent + cost <= TotalBudget[ad]

\* The ad is read and the event recorded.  A conversion costs nothing.
TrackRead(t, ad, type) ==
    LET cost == EventCost[type] IN
    /\ adCall[t].pc = "idle"
    /\ adCall' = [adCall EXCEPT ![t] =
         [AdIdle EXCEPT !.ad = ad, !.seller = SellerOfAd[ad], !.amount = cost, !.seen = adSpent[ad],
            !.pc = IF cost = 0 THEN "count"
                   ELSE IF WithinBudget(ad, adSpent[ad], cost) THEN "charge" ELSE "over"]]
    /\ UNCHANGED <<adWallet, depositRows, spendRows, adSpent, adActive>>

\* The budget is reached: the ad is switched off and the event is free.
TrackOver(t) ==
    /\ adCall[t].pc = "over"
    /\ adActive' = [adActive EXCEPT ![adCall[t].ad] = FALSE]
    /\ adCall' = [adCall EXCEPT ![t].pc = "count", ![t].amount = 0]
    /\ UNCHANGED <<adWallet, depositRows, spendRows, adSpent>>

\* deductSpend reads the balance; without the funds the ad is switched off and the
\* event is free.
ChargeRead(t) ==
    LET c == adCall[t] IN
    /\ c.pc = "charge"
    /\ \/ /\ adWallet[c.seller].balance >= c.amount
          /\ adCall' = [adCall EXCEPT ![t].pc = "debit"]
          /\ UNCHANGED adActive
       \/ /\ adWallet[c.seller].balance < c.amount
          /\ adActive' = [adActive EXCEPT ![c.ad] = FALSE]
          /\ adCall' = [adCall EXCEPT ![t].pc = "count", ![t].amount = 0]
    /\ UNCHANGED <<adWallet, depositRows, spendRows, adSpent>>

\* The decrement carries no condition of its own.
ChargeWrite(t) ==
    LET c == adCall[t] IN
    /\ c.pc = "debit"
    /\ adWallet' = [adWallet EXCEPT ![c.seller].balance = @ - c.amount, ![c.seller].spent = @ + c.amount]
    /\ adCall' = [adCall EXCEPT ![t].pc = "record"]
    /\ UNCHANGED <<depositRows, spendRows, adSpent, adActive>>

\* The AD_SPEND row, and the ad switched off when this event uses up its budget.
ChargeRecord(t) ==
    LET c == adCall[t] IN
    /\ c.pc = "record"
    /\ spendRows' = [spendRows EXCEPT ![c.ad] = @ + c.amount]
    /\ adActive' = [adActive EXCEPT ![c.ad] =
                      @ /\ (TotalBudget[c.ad] = 0 \/ c.seen + c.amount < TotalBudget[c.ad])]
    /\ adCall' = [adCall EXCEPT ![t].pc = "count"]
    /\ UNCHANGED <<adWallet, depositRows, adSpent>>

\* incrementAdMetrics.
TrackCount(t) ==
    LET c == adCall[t] IN
    /\ c.pc = "count"
    /\ adSpent' = [adSpent EXCEPT ![c.ad] = @ + c.amount]
    /\ AdDone(t)
    /\ UNCHANGED <<adWallet, depositRows, spendRows, adActive>>

\* The process dies, or a statement fails, in the middle of a request.
RequestDies(c) ==
    /\ adCall[c].pc # "idle"
    /\ AdDone(c)
    /\ UNCHANGED <<adWallet, depositRows, spendRows, adSpent, adActive>>

\* setActive: the seller pauses or resumes the ad.  Nothing looks at the budget.
SetAdActive(ad, active) ==
    /\ adActive[ad] # active
    /\ adActive' = [adActive EXCEPT ![ad] = active]
    /\ UNCHANGED <<adWallet, depositRows, spendRows, adSpent, adCall>>

BillingNext ==
    \/ \E d \in Depositors, s \in AdSellers, key \in DepositKeys, amount \in DepositAmounts :
         DepositWallet(d, s, key, amount)
    \/ \E d \in Depositors : DepositRecord(d)
    \/ \E t \in Trackers, ad \in BilledAds, type \in EventTypes : TrackRead(t, ad, type)
    \/ \E t \in Trackers : TrackOver(t) \/ ChargeRead(t) \/ ChargeWrite(t) \/ ChargeRecord(t)
                           \/ TrackCount(t)
    \/ \E c \in Trackers \cup Depositors : RequestDies(c)
    \/ \E ad \in BilledAds, active \in BOOLEAN : SetAdActive(ad, active)

BillingSpec == BillingInit /\ [][BillingNext]_billingVars

-----------------------------------------------------------------------------
(* Properties                                                               *)

\* Wallets, ads and their rows keep their types, and no AD_SPEND row of zero is on
\* its way (trackEvent, deductSpend).
BillingTypeOK ==
    /\ adWallet \in [AdSellers -> [balance : Int, deposited : Nat, spent : Nat]]
    /\ depositRows \subseteq DepositKeys
    /\ spendRows \in [BilledAds -> Nat]
    /\ adSpent \in [BilledAds -> Nat]
    /\ adActive \in [BilledAds -> BOOLEAN]
    /\ \A t \in Trackers : adCall[t].pc \in {"charge", "debit", "record"} => adCall[t].amount > 0

MaxCost == Max({EventCost[e] : e \in EventTypes})

\* What a set of events under way costs, and what those of an ad are about to count.
Amounts(T) == SumFunctionOnSet([t \in Trackers |-> adCall[t].amount], T)

Uncounted(ad) == Amounts({t \in Trackers : adCall[t].ad = ad /\ adCall[t].pc = "count"})

AdsOf(s) == {ad \in BilledAds : SellerOfAd[ad] = s}

\* An ad never reports spend that its seller was not charged: spentAmount, with what
\* is about to be counted, is at most the AD_SPEND rows of the ad, and these are at
\* most the lifetimeSpent of the wallet, whichever request dies where.
ReportedSpendWasCharged ==
    /\ \A ad \in BilledAds : adSpent[ad] + Uncounted(ad) <= spendRows[ad]
    /\ \A s \in AdSellers : SumFunctionOnSet(spendRows, AdsOf(s)) <= adWallet[s].spent

\* Events that overlap take an ad past its budget, by less than one event for each.
BudgetOverrunBounded ==
    \A ad \in BilledAds :
      TotalBudget[ad] > 0 =>
        adSpent[ad] <= TotalBudget[ad] + (Cardinality(Trackers) - 1) * MaxCost

WalletAccount == INSTANCE Account WITH
    Owners   <- AdSellers,
    Slack    <- (Cardinality(Trackers) - 1) * MaxCost,
    balance  <- [s \in AdSellers |-> adWallet[s].balance],
    credited <- [s \in AdSellers |-> adWallet[s].deposited],
    spent    <- [s \in AdSellers |-> adWallet[s].spent]

\* The marketing wallet is an account: deposits are its credits, ad spend its debits,
\* and it is overdrawn by at most one event for every other request under way.
WalletImplementsAccount == WalletAccount!AccountSpec

\* Ads report no more than their sellers were charged, and stay near their budgets.
SpendIsAccounted == BillingTypeOK /\ ReportedSpendWasCharged /\ BudgetOverrunBounded
=============================================================================
