------------------------------ MODULE RewardWallet ------------------------------
(***************************************************************************)
(* MapPoints: the points buyers earn by completed orders and by the         *)
(* campaigns of sellers, what they spend them on, and their expiry.         *)
(*                                                                          *)
(* Every service here runs in a transaction at READ COMMITTED, so a request *)
(* takes two steps: what it reads without a lock, and its writes with the   *)
(* commit.  A condition that is part of an UPDATE, a unique key or a CHECK  *)
(* constraint is tested in the second.                                      *)
(*                                                                          *)
(* All campaigns are of one seller, within their dates and open to every    *)
(* order here.  What an order earns is rounded once, so it is a number of   *)
(* points; a point costs a campaign PointValue.                             *)
(***************************************************************************)
EXTENDS Integers, FiniteSets, FiniteSetsExt, Sequences, SequencesExt

CONSTANTS
    Buyers,
    Orders,           \* orders that get completed
    BuyerOf,          \* the buyer of each order
    EarnedPoints,     \* what an order earns, 0 when it rounds to nothing
    Campaigns,        \* SellerCampaigns, in the order the query lists them
    BonusPoints,      \* what a campaign grants for an order, before the budget's cap
    Budgets,          \* budgetAmounts a campaign may be created with
    TopUps,           \* addBudgetAmounts
    StatusPatches,    \* what a seller sets a campaign to, of ACTIVE and PAUSED
    PointValue,       \* pointValueInPhp
    Vouchers,         \* the voucher catalogue
    PointCost,        \* pointCost of a voucher
    TotalStock,       \* totalStock of a voucher
    UserVouchers,     \* ids of claimed vouchers
    Completers,       \* completion requests
    Claimers,         \* claimVoucher requests
    Checkouts,        \* createOrder requests with a voucher, each the order it makes
    Editors,          \* updateCampaign requests
    Sweepers,         \* processes that run expireOldPoints
    MaxBudget,        \* bound on budgets
    None

ASSUME RewardConstants ==
    /\ IsFiniteSet(Buyers) /\ IsFiniteSet(Orders) /\ IsFiniteSet(UserVouchers)
    /\ BuyerOf \in [Orders -> Buyers]
    /\ EarnedPoints \in [Orders -> Nat]
    /\ Campaigns \in Seq(Range(Campaigns))
    /\ BonusPoints \in [Orders -> Nat]
    /\ Budgets \subseteq Nat \ {0}
    /\ TopUps \subseteq Nat \ {0}
    /\ StatusPatches \subseteq {"ACTIVE", "PAUSED"}
    /\ PointValue \in Nat \ {0}
    /\ PointCost \in Nat \ {0}
    /\ TotalStock \in Nat
    /\ MaxBudget \in Nat
    /\ None \notin Buyers \cup Orders \cup UserVouchers \cup Range(Campaigns) \cup Vouchers

VARIABLES
    wallet,     \* RewardWallet: balance, lifetimeEarned, lifetimeSpent
    earned,     \* EARN transaction of an order: its amount, 0 when there is none
    bonus,      \* BONUS transaction and campaign transaction of an order
    lapsed,     \* expiresAt of the EARN transaction has passed
    expired,    \* EXPIRED transaction of an EARN lot: what it took
    campaign,   \* SellerCampaigns rows
    claimed,    \* RewardVouchers.claimedCount
    held,       \* UserVouchers rows
    applied,    \* the voucher each checkout's order was discounted with
    call,       \* the progress of every request
    lots        \* what each expiry sweep has read and not yet handled

walletVars   == <<wallet, earned, bonus, lapsed, expired>>
voucherVars  == <<claimed, held, applied>>
vars == <<walletVars, voucherVars, campaign, call, lots>>

-----------------------------------------------------------------------------
Requests == Completers \cup Claimers \cup Checkouts \cup Editors

Idle == [pc |-> "idle", order |-> None, subject |-> None, to |-> None, points |-> 0, amount |-> 0]

Finish(c) == call' = [call EXCEPT ![c] = Idle]

NoBonus == [campaign |-> None, points |-> 0]

Least(a, b) == IF a <= b THEN a ELSE b

RewardInit ==
    /\ wallet = [b \in Buyers |-> [balance |-> 0, earned |-> 0, spent |-> 0]]
    /\ earned = [o \in Orders |-> 0]
    /\ bonus = [o \in Orders |-> NoBonus]
    /\ lapsed = [o \in Orders |-> FALSE]
    /\ expired = [o \in Orders |-> 0]
    /\ campaign = [c \in Range(Campaigns) |-> [status |-> "NONE", budget |-> 0, spent |-> 0]]
    /\ claimed = [v \in Vouchers |-> 0]
    /\ held = [u \in UserVouchers |->
                 [status |-> "NONE", buyer |-> None, voucher |-> None, lapsed |-> FALSE]]
    /\ applied = [x \in Checkouts |-> None]
    /\ call = [c \in Requests |-> Idle]
    /\ lots = [s \in Sweepers |-> {}]

-----------------------------------------------------------------------------
(* Campaigns                                                                *)

\* createCampaign: DRAFT when it has not begun.
CreateCampaign(c, budget, status) ==
    /\ campaign[c].status = "NONE"
    /\ campaign' = [campaign EXCEPT ![c] = [status |-> status, budget |-> budget, spent |-> 0]]
    /\ UNCHANGED <<walletVars, voucherVars, call, lots>>

\* updateCampaign reads the row, adds to the budget it read and writes the sum.
\* amount 0 stands for a patch without a top-up, status None for one without it.
EditRead(e, c, status, amount) ==
    LET sum == campaign[c].budget + amount
        reopens == amount > 0 /\ campaign[c].status = "EXHAUSTED" /\ sum > campaign[c].spent IN
    /\ call[e].pc = "idle"
    /\ campaign[c].status # "NONE"
    /\ sum <= MaxBudget
    /\ status # None \/ amount > 0
    /\ call' = [call EXCEPT ![e] =
                  [@ EXCEPT !.pc = "editing", !.subject = c,
                            !.to = IF reopens THEN "ACTIVE" ELSE status,
                            !.amount = IF amount = 0 THEN 0 ELSE sum]]
    /\ UNCHANGED <<walletVars, voucherVars, campaign, lots>>

\* The status of c unless the request decided on one.
StatusAfter(r, status) == IF r.to = None THEN status ELSE r.to

EditWrite(e) ==
    LET r == call[e] IN
    /\ r.pc = "editing"
    /\ campaign' = [campaign EXCEPT ![r.subject].status = StatusAfter(r, @),
                                    ![r.subject].budget = IF r.amount = 0 THEN @ ELSE r.amount]
    /\ Finish(e)
    /\ UNCHANGED <<walletVars, voucherVars, lots>>

-----------------------------------------------------------------------------
(* Completion                                                               *)

\* The campaigns that may pay, and the first of them.
Paying == {c \in Range(Campaigns) : campaign[c].status = "ACTIVE"
                                    /\ campaign[c].budget > campaign[c].spent}

ActiveCampaign ==
    IF Paying = {} THEN None
    ELSE Campaigns[Min({i \in DOMAIN Campaigns : Campaigns[i] \in Paying})]

\* Its bonus, clamped to what is left of the budget.
BonusOf(c, o) == Least(BonusPoints[o], (campaign[c].budget - campaign[c].spent) \div PointValue)

\* The order has points to earn.
Awards(o) == EarnedPoints[o] > 0 /\ earned[o] = 0

\* A completion holds the row of its order and, once it awarded points, of the
\* wallet: one of the same order, or of the same buyer and with points to award,
\* waits before it reads the campaigns.
Blocks(p, o) == p = o \/ (BuyerOf[p] = BuyerOf[o] /\ Awards(p) /\ Awards(o))

\* Variant of CompleteRead that keeps the cost of the bonus before the clamp.
CompleteRead_CostBeforeClamp(q, o) ==
    LET c == IF bonus[o] # NoBonus \/ BonusPoints[o] = 0 THEN None ELSE ActiveCampaign
        n == IF c = None THEN 0 ELSE BonusOf(c, o)
        cost == IF c = None THEN 0 ELSE BonusPoints[o] * PointValue
        last == c # None /\ (n = 0 \/ campaign[c].spent + cost >= campaign[c].budget) IN
    /\ call[q].pc = "idle"
    /\ \A p \in Completers : call[p].pc = "completing" => ~Blocks(call[p].order, o)
    /\ call' = [call EXCEPT ![q] =
                  [pc |-> "completing", order |-> o, subject |-> c,
                   to |-> IF last THEN "EXHAUSTED" ELSE None, points |-> n, amount |-> cost]]
    /\ UNCHANGED <<walletVars, voucherVars, campaign, lots>>

\* The reads of the completing transaction.  A campaign that this bonus uses up,
\* or that cannot pay a single point, will be EXHAUSTED.
CompleteRead(q, o) ==
    LET c == IF bonus[o] # NoBonus \/ BonusPoints[o] = 0 THEN None ELSE ActiveCampaign
        n == IF c = None THEN 0 ELSE BonusOf(c, o)
        cost == n * PointValue
        last == c # None /\ (n = 0 \/ campaign[c].spent + cost >= campaign[c].budget) IN
    /\ call[q].pc = "idle"
    /\ \A p \in Completers : call[p].pc = "completing" => ~Blocks(call[p].order, o)
    /\ call' = [call EXCEPT ![q] =
                  [pc |-> "completing", order |-> o, subject |-> c,
                   to |-> IF last THEN "EXHAUSTED" ELSE None, points |-> n, amount |-> cost]]
    /\ UNCHANGED <<walletVars, voucherVars, campaign, lots>>

\* awardPointsForCompletedOrder and processOrderCampaignIncentive, each once for
\* an order.  The campaign's spending is incremented; that it is exhausted was
\* decided on the row that was read.
CompleteCommit(q) ==
    LET r == call[q]
        o == r.order
        points == r.points + IF earned[o] > 0 THEN 0 ELSE EarnedPoints[o] IN
    /\ r.pc = "completing"
    /\ earned' = [earned EXCEPT ![o] = EarnedPoints[o]]
    /\ wallet' = [wallet EXCEPT ![BuyerOf[o]].balance = @ + points,
                                ![BuyerOf[o]].earned = @ + points]
    /\ bonus' = IF r.points = 0 THEN bonus
                ELSE [bonus EXCEPT ![o] = [campaign |-> r.subject, points |-> r.points]]
    /\ campaign' = IF r.subject = None THEN campaign
                   ELSE [campaign EXCEPT ![r.subject].spent = @ + r.amount,
                                         ![r.subject].status = StatusAfter(r, @)]
    /\ Finish(q)
    /\ UNCHANGED <<lapsed, expired, voucherVars, lots>>

\* The transaction rolls back.
CompleteAbort(q) ==
    /\ call[q].pc = "completing"
    /\ Finish(q)
    /\ UNCHANGED <<walletVars, voucherVars, campaign, lots>>

-----------------------------------------------------------------------------
(* Vouchers                                                                 *)

\* claimVoucher: the stock is tested on a read.
ClaimRead(k, b, v) ==
    /\ call[k].pc = "idle"
    /\ claimed[v] < TotalStock
    /\ call' = [call EXCEPT ![k] = [@ EXCEPT !.pc = "claiming", !.order = b, !.subject = v]]
    /\ UNCHANGED <<walletVars, voucherVars, campaign, lots>>

\* Variant of ClaimWrite without the condition on the balance.
ClaimWrite_AnyBalance(k, u) ==
    LET b == call[k].order
        v == call[k].subject IN
    /\ call[k].pc = "claiming"
    /\ held[u].status = "NONE"
    /\ wallet' = [wallet EXCEPT ![b].balance = @ - PointCost, ![b].spent = @ + PointCost]
    /\ claimed' = [claimed EXCEPT ![v] = @ + 1]
    /\ held' = [held EXCEPT ![u] =
                  [status |-> "ACTIVE", buyer |-> b, voucher |-> v, lapsed |-> FALSE]]
    /\ Finish(k)
    /\ UNCHANGED <<earned, bonus, lapsed, expired, applied, campaign, lots>>

\* The points are taken where the balance suffices, or the claim fails.
ClaimWrite(k, u) ==
    LET b == call[k].order
        v == call[k].subject IN
    /\ call[k].pc = "claiming"
    /\ held[u].status = "NONE"
    /\ IF wallet[b].balance >= PointCost
       THEN /\ wallet' = [wallet EXCEPT ![b].balance = @ - PointCost, ![b].spent = @ + PointCost]
            /\ claimed' = [claimed EXCEPT ![v] = @ + 1]
            /\ held' = [held EXCEPT ![u] =
                          [status |-> "ACTIVE", buyer |-> b, voucher |-> v, lapsed |-> FALSE]]
       ELSE UNCHANGED <<wallet, claimed, held>>
    /\ Finish(k)
    /\ UNCHANGED <<earned, bonus, lapsed, expired, applied, campaign, lots>>

\* validateVoucherForOrder.
CheckoutRead(x, u) ==
    /\ call[x].pc = "idle"
    /\ applied[x] = None
    /\ held[u].status = "ACTIVE"
    /\ ~held[u].lapsed
    /\ call' = [call EXCEPT ![x] = [@ EXCEPT !.pc = "ordering", !.subject = u]]
    /\ UNCHANGED <<walletVars, voucherVars, campaign, lots>>

\* Variant of CheckoutWrite without the condition on the status.
CheckoutWrite_Unconditional(x) ==
    LET u == call[x].subject IN
    /\ call[x].pc = "ordering"
    /\ held' = [held EXCEPT ![u].status = "USED"]
    /\ applied' = [applied EXCEPT ![x] = u]
    /\ Finish(x)
    /\ UNCHANGED <<walletVars, claimed, campaign, lots>>

\* markVoucherUsed at the end of checkout: the order rolls back with it.
CheckoutWrite(x) ==
    LET u == call[x].subject IN
    /\ call[x].pc = "ordering"
    /\ IF held[u].status = "ACTIVE"
       THEN /\ held' = [held EXCEPT ![u].status = "USED"]
            /\ applied' = [applied EXCEPT ![x] = u]
       ELSE UNCHANGED <<held, applied>>
    /\ Finish(x)
    /\ UNCHANGED <<walletVars, claimed, campaign, lots>>

-----------------------------------------------------------------------------
(* Expiry                                                                   *)

\* Time passes the expiresAt of a lot or of a voucher.
LotLapses(o) ==
    /\ earned[o] > 0
    /\ ~lapsed[o]
    /\ lapsed' = [lapsed EXCEPT ![o] = TRUE]
    /\ UNCHANGED <<wallet, earned, bonus, expired, voucherVars, campaign, call, lots>>

VoucherLapses(u) ==
    /\ held[u].status = "ACTIVE"
    /\ ~held[u].lapsed
    /\ held' = [held EXCEPT ![u].lapsed = TRUE]
    /\ UNCHANGED <<walletVars, claimed, applied, campaign, call, lots>>

StaleVouchers == {u \in UserVouchers : held[u].status = "ACTIVE" /\ held[u].lapsed}

\* expireStaleVouchers, one statement.
ExpireStaleVouchers ==
    /\ StaleVouchers # {}
    /\ held' = [u \in UserVouchers |->
                  IF u \in StaleVouchers THEN [held[u] EXCEPT !.status = "EXPIRED"] ELSE held[u]]
    /\ UNCHANGED <<walletVars, claimed, applied, campaign, call, lots>>

\* expireOldPoints: the lots due that have no EXPIRED transaction.
DueLots == {o \in Orders : earned[o] > 0 /\ lapsed[o] /\ expired[o] = 0}

\* A lot a sweep has read, with what it will take once the wallet is read too.
ExpireRead(s) ==
    /\ lots[s] = {}
    /\ DueLots # {}
    /\ lots' = [lots EXCEPT ![s] = {[order |-> o, take |-> 0] : o \in DueLots}]
    /\ UNCHANGED <<walletVars, voucherVars, campaign, call>>

\* Variant of ExpireLotRead that takes a lot whole or not at all.
ExpireLotRead_WholeLot(s, l) ==
    LET take == IF earned[l.order] <= wallet[BuyerOf[l.order]].balance
                THEN earned[l.order] ELSE 0 IN
    /\ l \in lots[s] /\ l.take = 0
    /\ \A m \in lots[s] : m.take = 0
    /\ lots' = [lots EXCEPT ![s] = IF take = 0 THEN @ \ {l}
                                   ELSE (@ \ {l}) \cup {[l EXCEPT !.take = take]}]
    /\ UNCHANGED <<walletVars, voucherVars, campaign, call>>

\* The transaction of one lot reads the wallet; an empty one is left alone.
ExpireLotRead(s, l) ==
    LET take == Least(earned[l.order], wallet[BuyerOf[l.order]].balance) IN
    /\ l \in lots[s] /\ l.take = 0
    /\ \A m \in lots[s] : m.take = 0
    /\ lots' = [lots EXCEPT ![s] = IF take = 0 THEN @ \ {l}
                                   ELSE (@ \ {l}) \cup {[l EXCEPT !.take = take]}]
    /\ UNCHANGED <<walletVars, voucherVars, campaign, call>>

\* Variant of ExpireLotWrite without the unique referenceKey.
ExpireLotWrite_NoKey(s, l) ==
    LET b == BuyerOf[l.order] IN
    /\ l \in lots[s] /\ l.take > 0
    /\ IF l.take > wallet[b].balance
       THEN lots' = [lots EXCEPT ![s] = {}] /\ UNCHANGED <<wallet, expired>>
       ELSE /\ wallet' = [wallet EXCEPT ![b].balance = @ - l.take]
            /\ expired' = [expired EXCEPT ![l.order] = l.take]
            /\ lots' = [lots EXCEPT ![s] = @ \ {l}]
    /\ UNCHANGED <<earned, bonus, lapsed, voucherVars, campaign, call>>

\* Its writes.  A balance below zero (CHECK) or a second EXPIRED transaction of
\* the lot (referenceKey) aborts it, and with it the sweep.
ExpireLotWrite(s, l) ==
    LET b == BuyerOf[l.order] IN
    /\ l \in lots[s] /\ l.take > 0
    /\ IF expired[l.order] > 0 \/ l.take > wallet[b].balance
       THEN lots' = [lots EXCEPT ![s] = {}] /\ UNCHANGED <<wallet, expired>>
       ELSE /\ wallet' = [wallet EXCEPT ![b].balance = @ - l.take]
            /\ expired' = [expired EXCEPT ![l.order] = l.take]
            /\ lots' = [lots EXCEPT ![s] = @ \ {l}]
    /\ UNCHANGED <<earned, bonus, lapsed, voucherVars, campaign, call>>

-----------------------------------------------------------------------------
CampaignNext ==
    \/ \E c \in Range(Campaigns), budget \in Budgets, status \in {"ACTIVE", "DRAFT"} :
          CreateCampaign(c, budget, status)
    \/ \E e \in Editors, c \in Range(Campaigns), status \in StatusPatches \cup {None},
          amount \in TopUps \cup {0} : EditRead(e, c, status, amount)
    \/ \E e \in Editors : EditWrite(e)

CompleteNext(q) ==
    \/ \E o \in Orders : CompleteRead(q, o)
    \/ CompleteCommit(q)
    \/ CompleteAbort(q)

VoucherNext ==
    \/ \E k \in Claimers, b \in Buyers, v \in Vouchers : ClaimRead(k, b, v)
    \/ \E k \in Claimers, u \in UserVouchers : ClaimWrite(k, u)
    \/ \E x \in Checkouts, u \in UserVouchers : CheckoutRead(x, u)
    \/ \E x \in Checkouts : CheckoutWrite(x)
    \/ \E u \in UserVouchers : VoucherLapses(u)
    \/ ExpireStaleVouchers

SweepLot(s) == \E l \in lots[s] : ExpireLotRead(s, l) \/ ExpireLotWrite(s, l)

RewardNext ==
    \/ CampaignNext
    \/ \E q \in Completers : CompleteNext(q)
    \/ VoucherNext
    \/ \E o \in Orders : LotLapses(o)
    \/ \E s \in Sweepers : ExpireRead(s) \/ SweepLot(s)

RewardSafety == RewardInit /\ [][RewardNext]_vars

\* The expiry sweep is an hourly cron job, and its loop runs to its end.
RewardSpec ==
    RewardSafety /\ \A s \in Sweepers : WF_vars(ExpireRead(s)) /\ WF_vars(SweepLot(s))

-----------------------------------------------------------------------------
(* Properties                                                               *)

RewardTypeOK ==
    /\ wallet \in [Buyers -> [balance : Nat, earned : Nat, spent : Nat]]
    /\ earned \in [Orders -> Nat]
    /\ bonus \in [Orders -> [campaign : Range(Campaigns) \cup {None}, points : Nat]]
    /\ lapsed \in [Orders -> BOOLEAN]
    /\ expired \in [Orders -> Nat]
    /\ campaign \in [Range(Campaigns) ->
          [status : {"NONE", "DRAFT", "ACTIVE", "PAUSED", "EXHAUSTED"}, budget : Nat, spent : Nat]]
    /\ claimed \in [Vouchers -> Nat]
    /\ held \in [UserVouchers ->
          [status : {"NONE", "ACTIVE", "USED", "EXPIRED"}, buyer : Buyers \cup {None},
           voucher : Vouchers \cup {None}, lapsed : BOOLEAN]]
    /\ applied \in [Checkouts -> UserVouchers \cup {None}]
    /\ \A c \in Requests : call[c].pc \in {"idle", "completing", "claiming", "ordering", "editing"}
    /\ lots \in [Sweepers -> SUBSET [order : Orders, take : Nat]]

OrdersOf(b) == {o \in Orders : BuyerOf[o] = b}

ClaimsOf(b) == {u \in UserVouchers : held[u].buyer = b}

\* What the transactions of an order brought its buyer, and what it was granted.
NetPoints == [o \in Orders |-> earned[o] + bonus[o].points - expired[o]]

GrantedPoints == [o \in Orders |-> bonus[o].points]

GrantsOf(c) == {o \in Orders : bonus[o].campaign = c}

\* A wallet is the sum of its transactions: what its orders earned and were
\* granted, less what lapsed and what its vouchers cost, whichever sweeps, claims
\* and completions meet in it.
BalanceIsLedger ==
    \A b \in Buyers :
       wallet[b].balance = SumFunctionOnSet(NetPoints, OrdersOf(b))
                           - PointCost * Cardinality(ClaimsOf(b))

\* A campaign is charged for exactly the bonuses it granted.
CampaignPaysItsBonuses ==
    \A c \in Range(Campaigns) :
       campaign[c].spent = PointValue * SumFunctionOnSet(GrantedPoints, GrantsOf(c))

\* A claimed voucher discounts one order, and only while it is valid: "two
\* concurrent checkouts applying the same voucher cannot both succeed".
VoucherUsedOnce ==
    /\ \A x, y \in Checkouts : x # y /\ applied[x] # None => applied[x] # applied[y]
    /\ \A x \in Checkouts : applied[x] # None => held[applied[x]].status = "USED"

\* Points past their date go: the lot has been taken, or there is nothing left to
\* take.
LapsedPointsGo ==
    \A o \in Orders :
       (earned[o] > 0 /\ lapsed[o])
          ~> (expired[o] > 0 \/ wallet[BuyerOf[o]].balance = 0)
=============================================================================
