---------------------------- MODULE RewardWalletProofs ----------------------------
(***************************************************************************)
(* MapPoints for any number of buyers, orders, campaigns, vouchers and      *)
(* requests: a wallet is the sum of its transactions, a campaign is charged *)
(* for what it granted, and a voucher discounts one order.                  *)
(*                                                                          *)
(* A request decides on what it read without a lock and writes later, so    *)
(* the argument is about what is still true of those reads when it writes:  *)
(* a completion's order has got no bonus in the meantime, because no other  *)
(* one completes it, and its campaign exists.  The rest of what it writes   *)
(* is relative to the rows it finds.                                        *)
(***************************************************************************)
EXTENDS RewardWallet, SumTheorems

\* A request carries what its operation reads.
RequestState ==
    [pc : {"idle", "completing", "claiming", "ordering", "editing"},
     order : Orders \cup Buyers \cup {None},
     subject : Range(Campaigns) \cup Vouchers \cup UserVouchers \cup {None},
     to : {"ACTIVE", "PAUSED", "EXHAUSTED", None},
     points : Nat, amount : Nat]

\* The campaign of a request exists.
Exists(c) == c \in Range(Campaigns) /\ campaign[c].status # "NONE"

\* What a completion read is still so, and its charge is the price of its bonus.
CompletionFits(r) ==
    /\ r.order \in Orders
    /\ r.amount = PointValue * r.points
    /\ IF r.subject = None THEN r.points = 0
       ELSE Exists(r.subject) /\ bonus[r.order] = NoBonus

Fits(c) ==
    /\ call[c].pc = "completing" => c \in Completers /\ CompletionFits(call[c])
    /\ call[c].pc = "claiming" => call[c].order \in Buyers /\ call[c].subject \in Vouchers
    /\ call[c].pc = "ordering" => call[c].subject \in UserVouchers
    /\ call[c].pc = "editing" => Exists(call[c].subject)

RequestsFit == call \in [Requests -> RequestState] /\ \A c \in Requests : Fits(c)

\* Two completions are never of one order.
CompletesAlone ==
    \A p, q \in Completers :
       call[p].pc = "completing" /\ call[q].pc = "completing" /\ p # q =>
          call[p].order # call[q].order

\* An order earns once; a row that was never made holds nothing.
RowsFit ==
    /\ \A o \in Orders : /\ earned[o] \in {0, EarnedPoints[o]}
                         /\ bonus[o].campaign = None => bonus[o].points = 0
    /\ \A c \in Range(Campaigns) : campaign[c].status = "NONE" => campaign[c].spent = 0
    /\ \A u \in UserVouchers : held[u].status = "NONE" => held[u].buyer = None

\* What the writes of a request rely on.
RewardShape == RewardTypeOK /\ RequestsFit /\ CompletesAlone /\ RowsFit

RewardInv == RewardShape /\ BalanceIsLedger /\ CampaignPaysItsBonuses /\ VoucherUsedOnce

-----------------------------------------------------------------------------
(* Amounts and campaigns                                                   *)

\* The price of points is an amount, and adds up.
LEMMA PriceOfPoints ==
    /\ \A n \in Nat : PointValue * n \in Nat /\ n * PointValue = PointValue * n
    /\ \A m, n \in Int : PointValue * (m + n) = PointValue * m + PointValue * n
    /\ PointValue * 0 = 0
BY RewardConstants

\* The price of vouchers is an amount, and one more costs PointCost.
LEMMA PriceOfVouchers ==
    \A n \in Nat : PointCost * n \in Nat /\ PointCost * (n + 1) = PointCost * n + PointCost
BY RewardConstants

\* An amount divided by a price is a number.
LEMMA DivisionIsNat == ASSUME NEW d \in Nat, NEW p \in Nat \ {0} PROVE d \div p \in Nat
OBVIOUS

\* A budget left over buys a number of points.
LEMMA BonusIsNat ==
    ASSUME RewardTypeOK, NEW c \in Paying, NEW o \in Orders
    PROVE  BonusOf(c, o) \in Nat
<1>1. PICK d \in Nat : d = campaign[c].budget - campaign[c].spent
  BY DEF Paying, RewardTypeOK
<1>2. PICK m \in Nat : m = d \div PointValue
  <2>1. d \div PointValue \in Nat
    BY DivisionIsNat, RewardConstants
  <2> QED
    BY <2>1, Zenon
<1>3. PICK n \in Nat : n = BonusPoints[o]
  BY RewardConstants
<1>4. BonusOf(c, o) = Least(n, m)
  BY <1>1, <1>2, <1>3, Zenon DEF BonusOf
<1> QED
  BY <1>4 DEF Least

\* A set of positions of a list has a first one.
LEMMA FirstPosition ==
    ASSUME NEW n \in Nat, NEW I \in SUBSET (1..n), I # {}
    PROVE  \E i \in I : \A j \in I : i <= j
<1> DEFINE R == 1..n
           C == {1..i : i \in I}
<1>1. IsFiniteSet(R) /\ C \in SUBSET (SUBSET R) /\ C # {}
  <2>1. IsFiniteSet(1..n)
    BY FS_Interval
  <2>2. C # {}
    OBVIOUS
  <2>3. \A i \in I : 1..i \subseteq 1..n
    OBVIOUS
  <2> QED
    BY <2>1, <2>2, <2>3
<1>2. PICK s \in C : \A t \in C : ~ (t \subseteq s /\ t # s)
  <2> HIDE DEF C, R
  <2> QED
    BY <1>1, LeastSubset
<1>3. PICK i \in I : s = 1..i
  BY <1>2
<1>4. ASSUME NEW j \in I, ~ (i <= j) PROVE FALSE
  <2>1. 1..j \in C
    OBVIOUS
  <2>2. i \in Int /\ j \in Int /\ 1 <= i
    OBVIOUS
  <2>3. 1..j \subseteq s /\ i \in s /\ i \notin 1..j
    BY <1>3, <1>4, <2>2
  <2> QED
    BY <1>2, <2>1, <2>3
<1> QED
  BY <1>4

\* The campaign that pays can pay.
LEMMA ActiveCampaignPays == ActiveCampaign # None => ActiveCampaign \in Paying
<1> SUFFICES ASSUME ActiveCampaign # None PROVE ActiveCampaign \in Paying
  OBVIOUS
<1> DEFINE I == {i \in DOMAIN Campaigns : Campaigns[i] \in Paying}
<1>1. Paying # {} /\ ActiveCampaign = Campaigns[Min(I)]
  BY DEF ActiveCampaign
<1>2. I # {}
  BY <1>1 DEF Paying, Range
<1>3. PICK n \in Nat : DOMAIN Campaigns = 1..n
  BY RewardConstants
<1>4. I \in SUBSET (1..n)
  BY <1>3
<1>5. Min(I) \in I
  <2> HIDE DEF I
  <2>1. \E i \in I : \A j \in I : i <= j
    BY <1>2, <1>4, FirstPosition
  <2> QED
    BY <2>1 DEF Min
<1> QED
  BY <1>1, <1>5

-----------------------------------------------------------------------------
(* Requests                                                                *)

\* No campaign is taken back.
CampaignsStay ==
    \A c \in Range(Campaigns) : campaign[c].status # "NONE" => campaign'[c].status # "NONE"

\* A request that did not move still fits, unless its order got a bonus.
LEMMA OtherFits ==
    ASSUME RewardShape, CampaignsStay, NEW x \in Requests, call'[x] = call[x],
           call[x].pc = "completing" => bonus'[call[x].order] = bonus[call[x].order]
    PROVE  Fits(x)'
<1>1. Fits(x)
  BY DEF RewardShape, RequestsFit
<1>2. \A c : Exists(c) => Exists(c)'
  BY DEF Exists, CampaignsStay
<1>3. CASE call[x].pc = "completing"
  <2>1. x \in Completers /\ CompletionFits(call[x])
    BY <1>1, <1>3 DEF Fits
  <2>2. CompletionFits(call[x])'
    BY <1>2, <1>3, <2>1 DEF CompletionFits
  <2> QED
    BY <1>3, <2>1, <2>2 DEF Fits
<1>4. CASE call[x].pc # "completing"
  BY <1>1, <1>2, <1>4 DEF Fits
<1> QED
  BY <1>3, <1>4

\* Nobody moved.
LEMMA RequestsStay ==
    ASSUME RewardShape, CampaignsStay, UNCHANGED <<call, bonus>>
    PROVE  RequestsFit' /\ CompletesAlone'
<1>1. \A x \in Requests : Fits(x)'
  BY OtherFits
<1> QED
  BY <1>1 DEF RewardShape, RequestsFit, CompletesAlone

\* One request moved, to where it fits.
LEMMA RequestMoves ==
    ASSUME RewardShape, CampaignsStay, NEW c \in Requests, NEW r \in RequestState,
           call' = [call EXCEPT ![c] = r], Fits(c)',
           \A x \in Requests : x # c /\ call[x].pc = "completing" =>
              bonus'[call[x].order] = bonus[call[x].order],
           r.pc = "completing" =>
              \A p \in Completers : p # c /\ call[p].pc = "completing" =>
                 call[p].order # r.order
    PROVE  RequestsFit' /\ CompletesAlone'
<1>1. call \in [Requests -> RequestState]
  BY DEF RewardShape, RequestsFit
<1>2. call'[c] = r /\ \A x \in Requests : x # c => call'[x] = call[x]
  BY <1>1
<1>3. call' \in [Requests -> RequestState]
  BY <1>1
<1>4. ASSUME NEW x \in Requests PROVE Fits(x)'
  <2>1. CASE x = c
    BY <2>1
  <2>2. CASE x # c
    BY <1>2, <2>2, OtherFits
  <2> QED
    BY <2>1, <2>2
<1>5. CompletesAlone'
  <2> SUFFICES ASSUME NEW p \in Completers, NEW q \in Completers, p # q,
                      call'[p].pc = "completing", call'[q].pc = "completing"
               PROVE  call'[p].order # call'[q].order
    BY DEF CompletesAlone
  <2>1. p \in Requests /\ q \in Requests
    BY DEF Requests
  <2>2. CASE p = c
    BY <1>2, <2>1, <2>2
  <2>3. CASE q = c
    BY <1>2, <2>1, <2>3
  <2>4. CASE p # c /\ q # c
    BY <1>2, <2>1, <2>4 DEF RewardShape, CompletesAlone
  <2> QED
    BY <2>2, <2>3, <2>4
<1> QED
  BY <1>3, <1>4, <1>5 DEF RequestsFit

\* One request ended.
LEMMA RequestEnds ==
    ASSUME RewardShape, CampaignsStay, NEW c \in Requests, Finish(c),
           \A x \in Requests : x # c /\ call[x].pc = "completing" =>
              bonus'[call[x].order] = bonus[call[x].order]
    PROVE  RequestsFit' /\ CompletesAlone'
<1>1. Idle \in RequestState /\ Idle.pc = "idle"
  BY DEF Idle, RequestState
<1>2. call' = [call EXCEPT ![c] = Idle]
  BY DEF Finish
<1>3. call'[c] = Idle
  BY <1>2 DEF RewardShape, RequestsFit
<1>4. Fits(c)'
  BY <1>1, <1>3 DEF Fits
<1> QED
  BY <1>1, <1>2, <1>4, RequestMoves

\* An order is completed by one request at a time, so the bonus a completion writes
\* is no other one's business.
LEMMA BonusOfOneOrder ==
    ASSUME RewardShape, NEW q \in Completers, call[q].pc = "completing",
           \A o \in Orders : o # call[q].order => bonus'[o] = bonus[o]
    PROVE  \A x \in Requests : x # q /\ call[x].pc = "completing" =>
              bonus'[call[x].order] = bonus[call[x].order]
<1> SUFFICES ASSUME NEW x \in Requests, x # q, call[x].pc = "completing"
             PROVE  bonus'[call[x].order] = bonus[call[x].order]
  OBVIOUS
<1>1. x \in Completers /\ call[x].order \in Orders
  BY DEF RewardShape, RequestsFit, Fits, CompletionFits
<1>2. call[x].order # call[q].order
  BY <1>1 DEF RewardShape, CompletesAlone
<1> QED
  BY <1>1, <1>2

-----------------------------------------------------------------------------
(* The shape of the rows and requests                                      *)

\* A step of a request that writes no row.
LEMMA CallShape ==
    ASSUME RewardShape, UNCHANGED <<walletVars, voucherVars, campaign, lots>>,
           RequestsFit', CompletesAlone'
    PROVE  RewardShape'
<1>1. RewardTypeOK'
  <2>1. \A c \in Requests : call'[c].pc \in {"idle", "completing", "claiming", "ordering", "editing"}
    BY DEF RequestsFit, RequestState
  <2> QED
    BY <2>1 DEF RewardShape, RewardTypeOK, walletVars, voucherVars
<1>2. RowsFit'
  BY DEF RewardShape, RowsFit, walletVars, voucherVars
<1> QED
  BY <1>1, <1>2 DEF RewardShape

\* A step that moves no request.
LEMMA RowShape ==
    ASSUME RewardShape, CampaignsStay, UNCHANGED <<call, bonus>>,
           wallet' \in [Buyers -> [balance : Nat, earned : Nat, spent : Nat]],
           lapsed' \in [Orders -> BOOLEAN],
           expired' \in [Orders -> Nat],
           campaign' \in [Range(Campaigns) ->
              [status : {"NONE", "DRAFT", "ACTIVE", "PAUSED", "EXHAUSTED"},
               budget : Nat, spent : Nat]],
           \A c \in Range(Campaigns) : campaign'[c].status = "NONE" => campaign'[c].spent = 0,
           held' \in [UserVouchers ->
              [status : {"NONE", "ACTIVE", "USED", "EXPIRED"}, buyer : Buyers \cup {None},
               voucher : Vouchers \cup {None}, lapsed : BOOLEAN]],
           \A u \in UserVouchers : held'[u].status = "NONE" => held'[u].buyer = None,
           lots' \in [Sweepers -> SUBSET [order : Orders, take : Nat]],
           UNCHANGED <<earned, claimed, applied>>
    PROVE  RewardShape'
<1>1. RequestsFit' /\ CompletesAlone'
  BY RequestsStay
<1>2. \A c \in Requests : call'[c].pc \in {"idle", "completing", "claiming", "ordering", "editing"}
  BY DEF RewardShape, RewardTypeOK
<1>3. RewardTypeOK'
  BY <1>2 DEF RewardShape, RewardTypeOK
<1>4. RowsFit'
  BY DEF RewardShape, RowsFit
<1> QED
  BY <1>1, <1>3, <1>4 DEF RewardShape

LEMMA CreateCampaignShape ==
    ASSUME RewardShape, NEW c \in Range(Campaigns), NEW budget \in Budgets,
           NEW status \in {"ACTIVE", "DRAFT"}, CreateCampaign(c, budget, status)
    PROVE  RewardShape'
<1>1. budget \in Nat
  BY RewardConstants
<1>2. /\ campaign \in [Range(Campaigns) ->
            [status : {"NONE", "DRAFT", "ACTIVE", "PAUSED", "EXHAUSTED"},
             budget : Nat, spent : Nat]]
      /\ campaign' = [campaign EXCEPT ![c] = [status |-> status, budget |-> budget, spent |-> 0]]
  BY DEF RewardShape, RewardTypeOK, CreateCampaign
<1>3. /\ campaign' \in [Range(Campaigns) ->
            [status : {"NONE", "DRAFT", "ACTIVE", "PAUSED", "EXHAUSTED"},
             budget : Nat, spent : Nat]]
      /\ campaign'[c] = [status |-> status, budget |-> budget, spent |-> 0]
      /\ \A d \in Range(Campaigns) : d # c => campaign'[d] = campaign[d]
  BY <1>1, <1>2
<1>4. CampaignsStay
  BY <1>3 DEF CampaignsStay
<1>5. \A d \in Range(Campaigns) : campaign'[d].status = "NONE" => campaign'[d].spent = 0
  BY <1>3 DEF RewardShape, RowsFit
<1> QED
  BY <1>3, <1>4, <1>5, RowShape
     DEF CreateCampaign, RewardShape, RewardTypeOK, RowsFit, walletVars, voucherVars

LEMMA EditReadShape ==
    ASSUME RewardShape, NEW e \in Editors, NEW c \in Range(Campaigns),
           NEW status \in StatusPatches \cup {None}, NEW amount \in TopUps \cup {0},
           EditRead(e, c, status, amount)
    PROVE  RewardShape'
<1> DEFINE to == IF amount > 0 /\ campaign[c].status = "EXHAUSTED"
                    /\ campaign[c].budget + amount > campaign[c].spent
                 THEN "ACTIVE" ELSE status
           sum == IF amount = 0 THEN 0 ELSE campaign[c].budget + amount
           r == [call[e] EXCEPT !.pc = "editing", !.subject = c, !.to = to, !.amount = sum]
<1>1. e \in Requests /\ call[e] \in RequestState
  BY DEF Requests, RewardShape, RequestsFit
<1>2. amount \in Nat /\ campaign[c].budget \in Nat
  <2>1. amount \in Nat
    BY RewardConstants
  <2>2. campaign[c] \in [status : {"NONE", "DRAFT", "ACTIVE", "PAUSED", "EXHAUSTED"},
                         budget : Nat, spent : Nat]
    BY DEF RewardShape, RewardTypeOK
  <2> QED
    BY <2>1, <2>2
<1>3. to \in {"ACTIVE", "PAUSED", "EXHAUSTED", None} /\ sum \in Nat
  BY <1>2, RewardConstants
<1>4. call' = [call EXCEPT ![e] = r]
  BY DEF EditRead
<1> HIDE DEF to, sum
<1>5. r \in RequestState /\ r.pc = "editing" /\ r.subject = c
  BY <1>1, <1>3 DEF RequestState
<1>6. Exists(c)'
  BY DEF EditRead, Exists
<1>7. call'[e] = r
  BY <1>1, <1>4 DEF RewardShape, RequestsFit
<1>8. Fits(e)'
  BY <1>5, <1>6, <1>7 DEF Fits
<1>9. CampaignsStay /\ bonus' = bonus
  BY DEF EditRead, CampaignsStay, walletVars
<1> HIDE DEF r
<1>10. RequestsFit' /\ CompletesAlone'
  BY <1>1, <1>4, <1>5, <1>8, <1>9, RequestMoves
<1> QED
  BY <1>10, CallShape DEF EditRead

\* A request that edits or completes a campaign leaves it one of the statuses.
LEMMA StatusAfterTyped ==
    ASSUME NEW r \in RequestState,
           NEW status \in {"NONE", "DRAFT", "ACTIVE", "PAUSED", "EXHAUSTED"}
    PROVE  /\ StatusAfter(r, status) \in {"NONE", "DRAFT", "ACTIVE", "PAUSED", "EXHAUSTED"}
           /\ status # "NONE" => StatusAfter(r, status) # "NONE"
BY DEF StatusAfter, RequestState

LEMMA EditWriteShape ==
    ASSUME RewardShape, NEW e \in Editors, EditWrite(e)
    PROVE  RewardShape'
<1>1. e \in Requests /\ call[e] \in RequestState /\ call[e].pc = "editing"
  BY DEF EditWrite, Requests, RewardShape, RequestsFit
<1>2. PICK c \in Range(Campaigns) : c = call[e].subject /\ campaign[c].status # "NONE"
  BY <1>1 DEF RewardShape, RequestsFit, Fits, Exists
<1>3. PICK s \in {"NONE", "DRAFT", "ACTIVE", "PAUSED", "EXHAUSTED"} :
         s = StatusAfter(call[e], campaign[c].status) /\ s # "NONE"
  <2>1. campaign[c].status \in {"NONE", "DRAFT", "ACTIVE", "PAUSED", "EXHAUSTED"}
    BY DEF RewardShape, RewardTypeOK
  <2> QED
    BY <1>1, <1>2, <2>1, StatusAfterTyped
<1>4. PICK n \in Nat : n = IF call[e].amount = 0 THEN campaign[c].budget ELSE call[e].amount
  BY <1>1 DEF RewardShape, RewardTypeOK, RequestState
<1>5. /\ campaign \in [Range(Campaigns) ->
            [status : {"NONE", "DRAFT", "ACTIVE", "PAUSED", "EXHAUSTED"},
             budget : Nat, spent : Nat]]
      /\ campaign' = [campaign EXCEPT ![c].status = s, ![c].budget = n]
  BY <1>2, <1>3, <1>4 DEF RewardShape, RewardTypeOK, EditWrite
<1>6. /\ campaign' \in [Range(Campaigns) ->
            [status : {"NONE", "DRAFT", "ACTIVE", "PAUSED", "EXHAUSTED"},
             budget : Nat, spent : Nat]]
      /\ campaign'[c].status = s /\ campaign'[c].spent = campaign[c].spent
      /\ \A d \in Range(Campaigns) : d # c => campaign'[d] = campaign[d]
  BY <1>5
<1>7. CampaignsStay
  BY <1>3, <1>6 DEF CampaignsStay
<1>8. RequestsFit' /\ CompletesAlone'
  BY <1>1, <1>7, RequestEnds DEF EditWrite, walletVars
<1>9. \A d \in Range(Campaigns) : campaign'[d].status = "NONE" => campaign'[d].spent = 0
  BY <1>3, <1>6, SMTT(30) DEF RewardShape, RowsFit
<1>10. RewardTypeOK'
  <2>1. \A x \in Requests : call'[x].pc \in {"idle", "completing", "claiming", "ordering", "editing"}
    BY <1>8 DEF RequestsFit, RequestState
  <2> QED
    BY <1>6, <2>1 DEF EditWrite, RewardShape, RewardTypeOK, walletVars, voucherVars
<1>11. RowsFit'
  BY <1>9 DEF EditWrite, RewardShape, RowsFit, walletVars, voucherVars
<1> QED
  BY <1>8, <1>10, <1>11 DEF RewardShape

LEMMA CompleteReadShape ==
    ASSUME RewardShape, NEW q \in Completers, NEW o \in Orders, CompleteRead(q, o)
    PROVE  RewardShape'
<1> DEFINE c == IF bonus[o] # NoBonus \/ BonusPoints[o] = 0 THEN None ELSE ActiveCampaign
           n == IF c = None THEN 0 ELSE BonusOf(c, o)
           last == c # None /\ (n = 0 \/ campaign[c].spent + n * PointValue >= campaign[c].budget)
           to == IF last THEN "EXHAUSTED" ELSE None
           r == [pc |-> "completing", order |-> o, subject |-> c, to |-> to,
                 points |-> n, amount |-> n * PointValue]
<1>1. q \in Requests
  BY DEF Requests
<1>2. call' = [call EXCEPT ![q] = r]
  BY DEF CompleteRead
<1>3. c # None => c \in Paying /\ bonus[o] = NoBonus
  BY ActiveCampaignPays
<1>4. n \in Nat /\ (c = None => n = 0)
  BY <1>3, BonusIsNat DEF RewardShape
<1>5. to \in {"ACTIVE", "PAUSED", "EXHAUSTED", None}
  OBVIOUS
<1>6. c \in Range(Campaigns) \cup {None}
  BY <1>3 DEF Paying
<1>7. n * PointValue \in Nat /\ n * PointValue = PointValue * n
  BY <1>4, PriceOfPoints
<1>8. bonus' = bonus /\ CampaignsStay
  BY DEF CompleteRead, CampaignsStay, walletVars
<1>9. PICK k \in Range(Campaigns) \cup {None} : k = c
  BY <1>6
<1>10. k # None => Exists(k)'
  BY <1>3, <1>9 DEF Exists, Paying, CompleteRead
<1> HIDE DEF c, n, last, to
<1>11. PICK m \in RequestState : m = r
  BY <1>4, <1>5, <1>6, <1>7 DEF RequestState
<1>12. /\ m.pc = "completing" /\ m.order = o /\ m.subject = k
       /\ m.amount = PointValue * m.points /\ m.points = n
  BY <1>7, <1>9, <1>11
<1>13. CompletionFits(m)'
  BY <1>3, <1>4, <1>8, <1>9, <1>10, <1>12 DEF CompletionFits
<1>14. call' = [call EXCEPT ![q] = m] /\ call'[q] = m
  BY <1>1, <1>2, <1>11 DEF RewardShape, RequestsFit
<1>15. Fits(q)'
  BY <1>12, <1>13, <1>14 DEF Fits, CompletionFits, Exists
<1>16. \A p \in Completers : p # q /\ call[p].pc = "completing" => call[p].order # m.order
  BY <1>12 DEF CompleteRead, Blocks
<1>17. RequestsFit' /\ CompletesAlone'
  BY <1>1, <1>8, <1>12, <1>14, <1>15, <1>16, RequestMoves
<1> QED
  BY <1>17, CallShape DEF CompleteRead

\* What a completing request will write, and to which rows.
LEMMA CompletionReads ==
    ASSUME RewardShape, NEW q \in Completers, call[q].pc = "completing"
    PROVE  /\ q \in Requests /\ call[q] \in RequestState
           /\ call[q].order \in Orders /\ BuyerOf[call[q].order] \in Buyers
           /\ call[q].points \in Nat /\ EarnedPoints[call[q].order] \in Nat
           /\ call[q].amount \in Nat /\ call[q].amount = PointValue * call[q].points
           /\ call[q].subject = None => call[q].points = 0
           /\ call[q].subject # None => /\ call[q].subject \in Range(Campaigns)
                                        /\ campaign[call[q].subject].status # "NONE"
                                        /\ bonus[call[q].order] = NoBonus
<1>1. q \in Requests /\ call[q] \in RequestState
  BY DEF Requests, RewardShape, RequestsFit
<1>2. CompletionFits(call[q])
  BY <1>1 DEF RewardShape, RequestsFit, Fits
<1>3. call[q].points \in Nat /\ call[q].amount \in Nat
  BY <1>1 DEF RequestState
<1> QED
  BY <1>1, <1>2, <1>3, RewardConstants DEF CompletionFits, Exists

\* The bonus a completion writes.
LEMMA CommitBonus ==
    ASSUME RewardShape, NEW q \in Completers, CompleteCommit(q)
    PROVE  /\ bonus' \in [Orders -> [campaign : Range(Campaigns) \cup {None}, points : Nat]]
           /\ \A o \in Orders : o # call[q].order => bonus'[o] = bonus[o]
           /\ call[q].points = 0 => bonus' = bonus
           /\ call[q].points # 0 =>
                 /\ bonus'[call[q].order].campaign = call[q].subject
                 /\ bonus'[call[q].order].points = call[q].points
                 /\ call[q].subject \in Range(Campaigns)
                 /\ bonus[call[q].order] = NoBonus
<1>1. call[q].pc = "completing"
  BY DEF CompleteCommit
<1>2. PICK o \in Orders : o = call[q].order
  BY <1>1, CompletionReads
<1>3. bonus \in [Orders -> [campaign : Range(Campaigns) \cup {None}, points : Nat]]
  BY DEF RewardShape, RewardTypeOK
<1>4. CASE call[q].points = 0
  <2>1. bonus' = bonus
    BY <1>4 DEF CompleteCommit
  <2> QED
    BY <1>3, <1>4, <2>1
<1>5. CASE call[q].points # 0
  <2>1. PICK p \in Nat : p = call[q].points
    BY <1>1, CompletionReads
  <2>2. PICK c \in Range(Campaigns) : c = call[q].subject
    BY <1>1, <1>5, CompletionReads
  <2>3. bonus' = [bonus EXCEPT ![o] = [campaign |-> c, points |-> p]]
    BY <1>2, <1>5, <2>1, <2>2 DEF CompleteCommit
  <2>4. bonus[o] = NoBonus
    BY <1>1, <1>2, <1>5, CompletionReads
  <2>5. /\ bonus' \in [Orders -> [campaign : Range(Campaigns) \cup {None}, points : Nat]]
        /\ bonus'[o] = [campaign |-> c, points |-> p]
        /\ \A x \in Orders : x # o => bonus'[x] = bonus[x]
    BY <1>3, <2>3
  <2> QED
    BY <1>2, <1>5, <2>1, <2>2, <2>4, <2>5
<1> QED
  BY <1>4, <1>5

\* What a completion charges the campaign it read.
LEMMA CommitCampaign ==
    ASSUME RewardShape, NEW q \in Completers, CompleteCommit(q)
    PROVE  /\ campaign' \in [Range(Campaigns) ->
                 [status : {"NONE", "DRAFT", "ACTIVE", "PAUSED", "EXHAUSTED"},
                  budget : Nat, spent : Nat]]
           /\ CampaignsStay
           /\ \A c \in Range(Campaigns) :
                 /\ c # call[q].subject => campaign'[c] = campaign[c]
                 /\ c = call[q].subject =>
                       /\ campaign'[c].spent = campaign[c].spent + call[q].amount
                       /\ campaign'[c].status # "NONE"
<1>1. call[q].pc = "completing"
  BY DEF CompleteCommit
<1>2. campaign \in [Range(Campaigns) ->
            [status : {"NONE", "DRAFT", "ACTIVE", "PAUSED", "EXHAUSTED"},
             budget : Nat, spent : Nat]]
  BY DEF RewardShape, RewardTypeOK
<1>3. CASE call[q].subject = None
  <2>1. campaign' = campaign
    BY <1>3 DEF CompleteCommit
  <2>2. None \notin Range(Campaigns)
    BY RewardConstants
  <2> QED
    BY <1>2, <1>3, <2>1, <2>2 DEF CampaignsStay
<1>4. CASE call[q].subject # None
  <2>1. PICK c \in Range(Campaigns) : c = call[q].subject /\ campaign[c].status # "NONE"
    BY <1>1, <1>4, CompletionReads
  <2>2. PICK a \in Nat : a = call[q].amount
    BY <1>1, CompletionReads
  <2>3. PICK s \in {"NONE", "DRAFT", "ACTIVE", "PAUSED", "EXHAUSTED"} :
           s = StatusAfter(call[q], campaign[c].status) /\ s # "NONE"
    <3>1. campaign[c].status \in {"NONE", "DRAFT", "ACTIVE", "PAUSED", "EXHAUSTED"}
      BY <1>2
    <3>2. call[q] \in RequestState
      BY <1>1, CompletionReads
    <3> QED
      BY <2>1, <3>1, <3>2, StatusAfterTyped
  <2>4. campaign' = [campaign EXCEPT ![c].spent = @ + a, ![c].status = s]
    BY <1>2, <1>4, <2>1, <2>2, <2>3 DEF CompleteCommit
  <2>5. /\ campaign' \in [Range(Campaigns) ->
              [status : {"NONE", "DRAFT", "ACTIVE", "PAUSED", "EXHAUSTED"},
               budget : Nat, spent : Nat]]
        /\ campaign'[c].spent = campaign[c].spent + a /\ campaign'[c].status = s
        /\ \A d \in Range(Campaigns) : d # c => campaign'[d] = campaign[d]
    <3>0. PICK n \in Nat : n = campaign[c].spent + a
      BY <1>2
    <3>1. PICK row \in [status : {"NONE", "DRAFT", "ACTIVE", "PAUSED", "EXHAUSTED"},
                        budget : Nat, spent : Nat] :
             row = [campaign[c] EXCEPT !.spent = n, !.status = s]
      <4>1. campaign[c] \in [status : {"NONE", "DRAFT", "ACTIVE", "PAUSED", "EXHAUSTED"},
                            budget : Nat, spent : Nat]
        BY <1>2
      <4>2. [campaign[c] EXCEPT !.spent = n, !.status = s] \in
               [status : {"NONE", "DRAFT", "ACTIVE", "PAUSED", "EXHAUSTED"},
                budget : Nat, spent : Nat]
        BY <4>1
      <4> QED
        BY <4>2, Zenon
    <3>2. campaign' = [campaign EXCEPT ![c] = row]
      BY <1>2, <2>4, <3>0, <3>1
    <3>3. row.spent = campaign[c].spent + a /\ row.status = s
      BY <1>2, <3>0, <3>1
    <3> QED
      BY <1>2, <3>2, <3>3
  <2> QED
    BY <2>1, <2>2, <2>3, <2>5 DEF CampaignsStay
<1> QED
  BY <1>3, <1>4

\* What a completion adds to the wallet of the buyer.
LEMMA CommitWallet ==
    ASSUME RewardShape, NEW q \in Completers, CompleteCommit(q)
    PROVE  LET o == call[q].order
               points == call[q].points + (IF earned[o] > 0 THEN 0 ELSE EarnedPoints[o]) IN
           /\ points \in Nat
           /\ wallet' \in [Buyers -> [balance : Nat, earned : Nat, spent : Nat]]
           /\ wallet'[BuyerOf[o]].balance = wallet[BuyerOf[o]].balance + points
           /\ \A b \in Buyers : b # BuyerOf[o] => wallet'[b] = wallet[b]
<1>1. call[q].pc = "completing"
  BY DEF CompleteCommit
<1>2. PICK o \in Orders : o = call[q].order
  BY <1>1, CompletionReads
<1>3. PICK b \in Buyers : b = BuyerOf[o]
  BY <1>2, RewardConstants
<1>4. call[q].points \in Nat /\ EarnedPoints[o] \in Nat
  BY <1>1, <1>2, CompletionReads
<1>5. PICK n \in Nat : n = call[q].points + (IF earned[o] > 0 THEN 0 ELSE EarnedPoints[o])
  BY <1>4
<1>6. /\ wallet \in [Buyers -> [balance : Nat, earned : Nat, spent : Nat]]
      /\ wallet' = [wallet EXCEPT ![b].balance = @ + n, ![b].earned = @ + n]
  BY <1>2, <1>3, <1>5 DEF RewardShape, RewardTypeOK, CompleteCommit
<1>7. /\ wallet' \in [Buyers -> [balance : Nat, earned : Nat, spent : Nat]]
      /\ wallet'[b].balance = wallet[b].balance + n
      /\ \A x \in Buyers : x # b => wallet'[x] = wallet[x]
  <2>1. PICK row \in [balance : Nat, earned : Nat, spent : Nat] :
           row = [wallet[b] EXCEPT !.balance = wallet[b].balance + n,
                                   !.earned = wallet[b].earned + n]
    <3>1. wallet[b] \in [balance : Nat, earned : Nat, spent : Nat]
      BY <1>6
    <3>2. wallet[b].balance + n \in Nat /\ wallet[b].earned + n \in Nat
      BY <3>1
    <3>3. [wallet[b] EXCEPT !.balance = wallet[b].balance + n,
                            !.earned = wallet[b].earned + n]
             \in [balance : Nat, earned : Nat, spent : Nat]
      BY <3>1, <3>2
    <3> QED
      BY <3>3, Zenon
  <2>2. wallet' = [wallet EXCEPT ![b] = row]
    BY <1>6, <2>1
  <2>3. row.balance = wallet[b].balance + n
    BY <1>6, <2>1
  <2> QED
    BY <1>6, <2>2, <2>3
<1> QED
  BY <1>2, <1>3, <1>5, <1>7

LEMMA CompleteCommitShape ==
    ASSUME RewardShape, NEW q \in Completers, CompleteCommit(q)
    PROVE  RewardShape'
<1>1. call[q].pc = "completing"
  BY DEF CompleteCommit
<1>2. PICK o \in Orders : o = call[q].order /\ EarnedPoints[o] \in Nat
  BY <1>1, CompletionReads, SMTT(30)
<1>3. RequestsFit' /\ CompletesAlone'
  <2>1. q \in Requests
    BY DEF Requests
  <2>2. \A x \in Requests : x # q /\ call[x].pc = "completing" =>
              bonus'[call[x].order] = bonus[call[x].order]
    BY <1>1, CommitBonus, BonusOfOneOrder
  <2> QED
    BY <2>1, <2>2, CommitCampaign, RequestEnds DEF CompleteCommit
<1>4. /\ earned \in [Orders -> Nat]
      /\ earned' = [earned EXCEPT ![o] = EarnedPoints[o]]
  BY <1>2 DEF RewardShape, RewardTypeOK, CompleteCommit
<1>5. /\ earned' \in [Orders -> Nat] /\ earned'[o] = EarnedPoints[o]
      /\ \A x \in Orders : x # o => earned'[x] = earned[x]
  BY <1>2, <1>4, SMTT(30)
<1>6. RewardTypeOK'
  <2>1. wallet' \in [Buyers -> [balance : Nat, earned : Nat, spent : Nat]]
    BY CommitWallet
  <2>2. \A x \in Requests : call'[x].pc \in {"idle", "completing", "claiming", "ordering", "editing"}
    BY <1>3 DEF RequestsFit, RequestState
  <2> QED
    BY <1>5, <2>1, <2>2, CommitBonus, CommitCampaign
       DEF CompleteCommit, RewardShape, RewardTypeOK, voucherVars
<1>7. RowsFit'
  <2>1. ASSUME NEW x \in Orders
        PROVE  earned'[x] \in {0, EarnedPoints[x]} /\ (bonus'[x].campaign = None => bonus'[x].points = 0)
    <3>1. earned[x] \in {0, EarnedPoints[x]} /\ (bonus[x].campaign = None => bonus[x].points = 0)
      BY DEF RewardShape, RowsFit
    <3>2. earned'[x] \in {0, EarnedPoints[x]}
      BY <1>5, <3>1
    <3>3. bonus'[x].campaign = None => bonus'[x].points = 0
      <4>1. CASE x # o \/ call[q].points = 0
        BY <1>2, <3>1, <4>1, CommitBonus
      <4>2. CASE x = o /\ call[q].points # 0
        <5>1. bonus'[o].campaign \in Range(Campaigns)
          BY <1>2, <4>2, CommitBonus
        <5>2. None \notin Range(Campaigns)
          BY RewardConstants
        <5> QED
          BY <4>2, <5>1, <5>2
      <4> QED
        BY <4>1, <4>2
    <3> QED
      BY <3>2, <3>3
  <2>2. ASSUME NEW c \in Range(Campaigns), campaign'[c].status = "NONE"
        PROVE  campaign'[c].spent = 0
    BY <2>2, CommitCampaign DEF RewardShape, RowsFit
  <2>3. \A u \in UserVouchers : held'[u].status = "NONE" => held'[u].buyer = None
    BY DEF CompleteCommit, RewardShape, RowsFit, voucherVars
  <2> QED
    BY <2>1, <2>2, <2>3 DEF RowsFit
<1> QED
  BY <1>3, <1>6, <1>7 DEF RewardShape

LEMMA CompleteAbortShape ==
    ASSUME RewardShape, NEW q \in Completers, CompleteAbort(q)
    PROVE  RewardShape'
<1>1. q \in Requests /\ CampaignsStay /\ bonus' = bonus
  BY DEF CompleteAbort, Requests, CampaignsStay, walletVars
<1>2. RequestsFit' /\ CompletesAlone'
  BY <1>1, RequestEnds DEF CompleteAbort
<1> QED
  BY <1>2, CallShape DEF CompleteAbort

LEMMA ClaimReadShape ==
    ASSUME RewardShape, NEW k \in Claimers, NEW b \in Buyers, NEW v \in Vouchers,
           ClaimRead(k, b, v)
    PROVE  RewardShape'
<1>1. k \in Requests /\ call[k] \in RequestState
  BY DEF Requests, RewardShape, RequestsFit
<1>2. PICK r \in RequestState :
         r = [call[k] EXCEPT !.pc = "claiming", !.order = b, !.subject = v]
  BY <1>1 DEF RequestState
<1>3. r.pc = "claiming" /\ r.order = b /\ r.subject = v
  BY <1>1, <1>2 DEF RequestState
<1>4. call' = [call EXCEPT ![k] = r] /\ call'[k] = r
  BY <1>1, <1>2 DEF ClaimRead, RewardShape, RequestsFit
<1>5. Fits(k)' /\ CampaignsStay /\ bonus' = bonus
  BY <1>3, <1>4 DEF Fits, ClaimRead, CampaignsStay, walletVars
<1>6. RequestsFit' /\ CompletesAlone'
  BY <1>1, <1>3, <1>4, <1>5, RequestMoves
<1> QED
  BY <1>6, CallShape DEF ClaimRead

LEMMA CheckoutReadShape ==
    ASSUME RewardShape, NEW x \in Checkouts, NEW u \in UserVouchers, CheckoutRead(x, u)
    PROVE  RewardShape'
<1>1. x \in Requests /\ call[x] \in RequestState
  BY DEF Requests, RewardShape, RequestsFit
<1>2. PICK r \in RequestState : r = [call[x] EXCEPT !.pc = "ordering", !.subject = u]
  BY <1>1 DEF RequestState
<1>3. r.pc = "ordering" /\ r.subject = u
  BY <1>1, <1>2 DEF RequestState
<1>4. call' = [call EXCEPT ![x] = r] /\ call'[x] = r
  BY <1>1, <1>2 DEF CheckoutRead, RewardShape, RequestsFit
<1>5. Fits(x)' /\ CampaignsStay /\ bonus' = bonus
  BY <1>3, <1>4 DEF Fits, CheckoutRead, CampaignsStay, walletVars
<1>6. RequestsFit' /\ CompletesAlone'
  BY <1>1, <1>3, <1>4, <1>5, RequestMoves
<1> QED
  BY <1>6, CallShape DEF CheckoutRead

\* The two outcomes of a claim: nothing changed, or the points of one voucher went and
\* one row that was not there is the buyer's.
LEMMA ClaimWrites ==
    ASSUME RewardShape, NEW k \in Claimers, NEW u \in UserVouchers, ClaimWrite(k, u)
    PROVE  /\ k \in Requests
           /\ held[u].buyer = None /\ held[u].status = "NONE"
           /\ \/ UNCHANGED <<wallet, claimed, held>>
              \/ /\ call[k].order \in Buyers
                 /\ wallet' \in [Buyers -> [balance : Nat, earned : Nat, spent : Nat]]
                 /\ wallet'[call[k].order].balance = wallet[call[k].order].balance - PointCost
                 /\ \A b \in Buyers : b # call[k].order => wallet'[b] = wallet[b]
                 /\ claimed' \in [Vouchers -> Nat]
                 /\ held' \in [UserVouchers ->
                       [status : {"NONE", "ACTIVE", "USED", "EXPIRED"},
                        buyer : Buyers \cup {None}, voucher : Vouchers \cup {None},
                        lapsed : BOOLEAN]]
                 /\ held'[u].buyer = call[k].order /\ held'[u].status = "ACTIVE"
                 /\ \A y \in UserVouchers : y # u => held'[y] = held[y]
<1>1. k \in Requests /\ held[u].status = "NONE" /\ held[u].buyer = None
  BY DEF Requests, ClaimWrite, RewardShape, RowsFit
<1>2. /\ wallet \in [Buyers -> [balance : Nat, earned : Nat, spent : Nat]]
      /\ claimed \in [Vouchers -> Nat]
      /\ held \in [UserVouchers ->
            [status : {"NONE", "ACTIVE", "USED", "EXPIRED"},
             buyer : Buyers \cup {None}, voucher : Vouchers \cup {None},
             lapsed : BOOLEAN]]
  BY DEF RewardShape, RewardTypeOK
<1>3. PICK b \in Buyers : b = call[k].order
  BY <1>1 DEF ClaimWrite, RewardShape, RequestsFit, Fits
<1>4. PICK v \in Vouchers : v = call[k].subject
  BY <1>1 DEF ClaimWrite, RewardShape, RequestsFit, Fits
<1>5. CASE wallet[b].balance >= PointCost
  <2>1. /\ wallet' = [wallet EXCEPT ![b].balance = @ - PointCost, ![b].spent = @ + PointCost]
        /\ claimed' = [claimed EXCEPT ![v] = @ + 1]
        /\ held' = [held EXCEPT ![u] =
                      [status |-> "ACTIVE", buyer |-> b, voucher |-> v, lapsed |-> FALSE]]
    BY <1>3, <1>4, <1>5 DEF ClaimWrite
  <2>2. wallet[b] \in [balance : Nat, earned : Nat, spent : Nat]
    BY <1>2
  <2>3. wallet[b].balance - PointCost \in Nat /\ wallet[b].spent + PointCost \in Nat
    BY <1>5, <2>2, RewardConstants
  <2>4. PICK row \in [balance : Nat, earned : Nat, spent : Nat] :
           row = [wallet[b] EXCEPT !.balance = wallet[b].balance - PointCost,
                                   !.spent = wallet[b].spent + PointCost]
    <3>1. [wallet[b] EXCEPT !.balance = wallet[b].balance - PointCost,
                            !.spent = wallet[b].spent + PointCost]
             \in [balance : Nat, earned : Nat, spent : Nat]
      BY <2>2, <2>3
    <3> QED
      BY <3>1, Zenon
  <2>5. wallet' = [wallet EXCEPT ![b] = row]
    BY <1>2, <2>1, <2>4
  <2>6. row.balance = wallet[b].balance - PointCost
    BY <2>2, <2>4
  <2>7. /\ wallet' \in [Buyers -> [balance : Nat, earned : Nat, spent : Nat]]
        /\ wallet'[b].balance = wallet[b].balance - PointCost
        /\ \A x \in Buyers : x # b => wallet'[x] = wallet[x]
    BY <1>2, <2>5, <2>6
  <2>8. claimed' \in [Vouchers -> Nat]
    BY <1>2, <2>1
  <2>9. /\ held' \in [UserVouchers ->
              [status : {"NONE", "ACTIVE", "USED", "EXPIRED"},
               buyer : Buyers \cup {None}, voucher : Vouchers \cup {None},
               lapsed : BOOLEAN]]
        /\ held'[u].buyer = b /\ held'[u].status = "ACTIVE"
        /\ \A y \in UserVouchers : y # u => held'[y] = held[y]
    BY <1>2, <2>1
  <2> QED
    BY <1>1, <1>3, <2>7, <2>8, <2>9
<1>6. CASE ~ (wallet[b].balance >= PointCost)
  BY <1>1, <1>3, <1>6 DEF ClaimWrite
<1> QED
  BY <1>5, <1>6

LEMMA ClaimWriteShape ==
    ASSUME RewardShape, NEW k \in Claimers, NEW u \in UserVouchers, ClaimWrite(k, u)
    PROVE  RewardShape'
<1>1. CampaignsStay /\ UNCHANGED <<earned, bonus, lapsed, expired, applied, campaign, lots>>
  BY DEF ClaimWrite, CampaignsStay
<1>2. RequestsFit' /\ CompletesAlone'
  BY <1>1, ClaimWrites, RequestEnds DEF ClaimWrite
<1>3. \A c \in Requests : call'[c].pc \in {"idle", "completing", "claiming", "ordering", "editing"}
  BY <1>2 DEF RequestsFit, RequestState
<1>4. /\ wallet' \in [Buyers -> [balance : Nat, earned : Nat, spent : Nat]]
      /\ claimed' \in [Vouchers -> Nat]
      /\ held' \in [UserVouchers ->
            [status : {"NONE", "ACTIVE", "USED", "EXPIRED"},
             buyer : Buyers \cup {None}, voucher : Vouchers \cup {None},
             lapsed : BOOLEAN]]
  BY ClaimWrites DEF RewardShape, RewardTypeOK
<1>5. RewardTypeOK'
  BY <1>1, <1>3, <1>4 DEF RewardShape, RewardTypeOK
<1>6. RowsFit'
  <2>1. \A y \in UserVouchers : held'[y].status = "NONE" => held'[y].buyer = None
    BY ClaimWrites DEF RewardShape, RowsFit
  <2> QED
    BY <1>1, <2>1 DEF RewardShape, RowsFit
<1> QED
  BY <1>2, <1>5, <1>6 DEF RewardShape

\* The two outcomes of the end of a checkout: it failed, or it used a voucher that was
\* valid.
LEMMA CheckoutWrites ==
    ASSUME RewardShape, NEW x \in Checkouts, CheckoutWrite(x)
    PROVE  /\ x \in Requests
           /\ \/ UNCHANGED <<held, applied>>
              \/ /\ call[x].subject \in UserVouchers
                 /\ held[call[x].subject].status = "ACTIVE"
                 /\ held'[call[x].subject].status = "USED"
                 /\ applied' = [applied EXCEPT ![x] = call[x].subject]
                 /\ \A y \in UserVouchers : /\ held'[y].buyer = held[y].buyer
                                            /\ held'[y].status = "NONE" <=> held[y].status = "NONE"
                                            /\ y # call[x].subject => held'[y] = held[y]
           /\ held' \in [UserVouchers ->
                 [status : {"NONE", "ACTIVE", "USED", "EXPIRED"},
                  buyer : Buyers \cup {None}, voucher : Vouchers \cup {None},
                  lapsed : BOOLEAN]]
           /\ applied' \in [Checkouts -> UserVouchers \cup {None}]
<1>1. x \in Requests
  BY DEF Requests
<1>2. PICK u \in UserVouchers : u = call[x].subject
  BY <1>1 DEF CheckoutWrite, RewardShape, RequestsFit, Fits
<1>3. /\ held \in [UserVouchers ->
            [status : {"NONE", "ACTIVE", "USED", "EXPIRED"},
             buyer : Buyers \cup {None}, voucher : Vouchers \cup {None},
             lapsed : BOOLEAN]]
      /\ applied \in [Checkouts -> UserVouchers \cup {None}]
  BY DEF RewardShape, RewardTypeOK
<1>4. CASE held[u].status = "ACTIVE"
  <2>1. /\ held' = [held EXCEPT ![u].status = "USED"]
        /\ applied' = [applied EXCEPT ![x] = u]
    BY <1>2, <1>4 DEF CheckoutWrite
  <2>2. /\ held' \in [UserVouchers ->
              [status : {"NONE", "ACTIVE", "USED", "EXPIRED"},
               buyer : Buyers \cup {None}, voucher : Vouchers \cup {None},
               lapsed : BOOLEAN]]
        /\ held'[u].status = "USED" /\ held'[u].buyer = held[u].buyer
        /\ \A y \in UserVouchers : y # u => held'[y] = held[y]
    BY <1>3, <2>1
  <2>3. applied' \in [Checkouts -> UserVouchers \cup {None}]
    BY <1>3, <2>1
  <2> QED
    BY <1>1, <1>2, <1>4, <2>1, <2>2, <2>3
<1>5. CASE held[u].status # "ACTIVE"
  BY <1>1, <1>2, <1>3, <1>5 DEF CheckoutWrite
<1> QED
  BY <1>4, <1>5

LEMMA CheckoutWriteShape ==
    ASSUME RewardShape, NEW x \in Checkouts, CheckoutWrite(x)
    PROVE  RewardShape'
<1>1. CampaignsStay /\ UNCHANGED <<walletVars, claimed, campaign, lots>>
  BY DEF CheckoutWrite, CampaignsStay
<1>2. bonus' = bonus
  BY <1>1 DEF walletVars
<1>3. RequestsFit' /\ CompletesAlone'
  BY <1>1, <1>2, CheckoutWrites, RequestEnds DEF CheckoutWrite
<1>4. \A c \in Requests : call'[c].pc \in {"idle", "completing", "claiming", "ordering", "editing"}
  BY <1>3 DEF RequestsFit, RequestState
<1>5. RewardTypeOK'
  BY <1>1, <1>4, CheckoutWrites DEF RewardShape, RewardTypeOK, walletVars
<1>6. RowsFit'
  <2>1. \A y \in UserVouchers : held'[y].status = "NONE" => held'[y].buyer = None
    BY CheckoutWrites DEF RewardShape, RowsFit
  <2> QED
    BY <1>1, <2>1 DEF RewardShape, RowsFit, walletVars
<1> QED
  BY <1>3, <1>5, <1>6 DEF RewardShape

-----------------------------------------------------------------------------
(* Dates that pass and sweeps                                              *)

LEMMA LotLapsesShape ==
    ASSUME RewardShape, NEW o \in Orders, LotLapses(o)
    PROVE  RewardShape'
<1>1. lapsed' \in [Orders -> BOOLEAN]
  BY DEF LotLapses, RewardShape, RewardTypeOK
<1> QED
  BY <1>1, RowShape
     DEF LotLapses, CampaignsStay, RewardShape, RewardTypeOK, RowsFit, voucherVars

\* What the expiry of vouchers leaves as it was.
LEMMA VouchersLapse ==
    ASSUME RewardShape,
           (\E u \in UserVouchers : VoucherLapses(u)) \/ ExpireStaleVouchers
    PROVE  /\ held' \in [UserVouchers ->
                 [status : {"NONE", "ACTIVE", "USED", "EXPIRED"},
                  buyer : Buyers \cup {None}, voucher : Vouchers \cup {None},
                  lapsed : BOOLEAN]]
           /\ \A y \in UserVouchers : /\ held'[y].buyer = held[y].buyer
                                      /\ held'[y].status = "NONE" <=> held[y].status = "NONE"
                                      /\ held'[y].status = "USED" <=> held[y].status = "USED"
           /\ UNCHANGED <<walletVars, claimed, applied, campaign, call, lots>>
<1>1. held \in [UserVouchers ->
            [status : {"NONE", "ACTIVE", "USED", "EXPIRED"},
             buyer : Buyers \cup {None}, voucher : Vouchers \cup {None},
             lapsed : BOOLEAN]]
  BY DEF RewardShape, RewardTypeOK
<1>2. CASE ExpireStaleVouchers
  <2>1. \A y \in UserVouchers :
           held'[y] = IF y \in StaleVouchers THEN [held[y] EXCEPT !.status = "EXPIRED"]
                      ELSE held[y]
    BY <1>2 DEF ExpireStaleVouchers
  <2>2. ASSUME NEW y \in UserVouchers
        PROVE  /\ held'[y] \in [status : {"NONE", "ACTIVE", "USED", "EXPIRED"},
                               buyer : Buyers \cup {None}, voucher : Vouchers \cup {None},
                               lapsed : BOOLEAN]
               /\ held'[y].buyer = held[y].buyer
               /\ held'[y].status = "NONE" <=> held[y].status = "NONE"
               /\ held'[y].status = "USED" <=> held[y].status = "USED"
    <3>1. CASE y \in StaleVouchers
      BY <1>1, <2>1, <3>1 DEF StaleVouchers
    <3>2. CASE y \notin StaleVouchers
      BY <1>1, <2>1, <3>2
    <3> QED
      BY <3>1, <3>2
  <2>3. held' = [y \in UserVouchers |-> held'[y]]
    BY <1>2 DEF ExpireStaleVouchers
  <2> QED
    BY <1>2, <2>2, <2>3 DEF ExpireStaleVouchers
<1>3. ASSUME NEW u \in UserVouchers, VoucherLapses(u)
      PROVE  /\ held' \in [UserVouchers ->
                   [status : {"NONE", "ACTIVE", "USED", "EXPIRED"},
                    buyer : Buyers \cup {None}, voucher : Vouchers \cup {None},
                    lapsed : BOOLEAN]]
             /\ \A y \in UserVouchers : /\ held'[y].buyer = held[y].buyer
                                        /\ held'[y].status = held[y].status
             /\ UNCHANGED <<walletVars, claimed, applied, campaign, call, lots>>
  BY <1>1, <1>3 DEF VoucherLapses
<1> QED
  BY <1>2, <1>3

LEMMA VouchersLapseShape ==
    ASSUME RewardShape,
           (\E u \in UserVouchers : VoucherLapses(u)) \/ ExpireStaleVouchers
    PROVE  RewardShape'
<1>1. UNCHANGED <<wallet, earned, bonus, lapsed, expired, claimed, applied, campaign, call, lots>>
  BY VouchersLapse DEF walletVars
<1>2. CampaignsStay
  BY <1>1 DEF CampaignsStay
<1>3. \A u \in UserVouchers : held'[u].status = "NONE" => held'[u].buyer = None
  BY VouchersLapse DEF RewardShape, RowsFit
<1>4. \A c \in Range(Campaigns) : campaign'[c].status = "NONE" => campaign'[c].spent = 0
  BY <1>1 DEF RewardShape, RowsFit
<1> QED
  BY <1>1, <1>2, <1>3, <1>4, VouchersLapse, RowShape DEF RewardShape, RewardTypeOK

LEMMA ExpireReadShape ==
    ASSUME RewardShape, NEW s \in Sweepers, ExpireRead(s)
    PROVE  RewardShape'
<1>1. {[order |-> o, take |-> 0] : o \in DueLots} \in SUBSET [order : Orders, take : Nat]
  BY DEF DueLots
<1>2. lots' \in [Sweepers -> SUBSET [order : Orders, take : Nat]]
  BY <1>1 DEF ExpireRead, RewardShape, RewardTypeOK
<1> QED
  BY <1>2, RowShape
     DEF ExpireRead, CampaignsStay, RewardShape, RewardTypeOK, RowsFit, walletVars, voucherVars

LEMMA ExpireLotReadShape ==
    ASSUME RewardShape, NEW s \in Sweepers, NEW l \in lots[s], ExpireLotRead(s, l)
    PROVE  RewardShape'
<1>1. l \in [order : Orders, take : Nat] /\ BuyerOf[l.order] \in Buyers
  BY RewardConstants DEF RewardShape, RewardTypeOK
<1>2. earned[l.order] \in Nat /\ wallet[BuyerOf[l.order]].balance \in Nat
  BY <1>1 DEF RewardShape, RewardTypeOK
<1>3. PICK n \in Nat : n = Least(earned[l.order], wallet[BuyerOf[l.order]].balance)
  BY <1>2 DEF Least
<1>4. PICK m \in [order : Orders, take : Nat] : m = [l EXCEPT !.take = n]
  BY <1>1
<1>5. lots' = [lots EXCEPT ![s] = IF n = 0 THEN lots[s] \ {l} ELSE (lots[s] \ {l}) \cup {m}]
  BY <1>3, <1>4 DEF ExpireLotRead
<1>6. lots' \in [Sweepers -> SUBSET [order : Orders, take : Nat]]
  BY <1>5 DEF RewardShape, RewardTypeOK
<1> QED
  BY <1>6, RowShape
     DEF ExpireLotRead, CampaignsStay, RewardShape, RewardTypeOK, RowsFit, walletVars, voucherVars

\* The two outcomes of the end of a lot: it failed, or the points it takes were there
\* and the lot had not been taken.
LEMMA ExpireWrites ==
    ASSUME RewardShape, NEW s \in Sweepers, NEW l \in lots[s], ExpireLotWrite(s, l)
    PROVE  /\ l.order \in Orders /\ BuyerOf[l.order] \in Buyers /\ l.take \in Nat
           /\ \/ UNCHANGED <<wallet, expired>>
              \/ /\ expired[l.order] = 0
                 /\ expired'[l.order] = l.take
                 /\ \A o \in Orders : o # l.order => expired'[o] = expired[o]
                 /\ wallet'[BuyerOf[l.order]].balance = wallet[BuyerOf[l.order]].balance - l.take
                 /\ \A b \in Buyers : b # BuyerOf[l.order] => wallet'[b] = wallet[b]
           /\ wallet' \in [Buyers -> [balance : Nat, earned : Nat, spent : Nat]]
           /\ expired' \in [Orders -> Nat]
           /\ lots' \in [Sweepers -> SUBSET [order : Orders, take : Nat]]
<1>1. l \in [order : Orders, take : Nat]
  BY DEF RewardShape, RewardTypeOK
<1>2. PICK o \in Orders : o = l.order
  BY <1>1
<1>3. PICK b \in Buyers : b = BuyerOf[o]
  BY RewardConstants
<1>4. PICK n \in Nat : n = l.take
  BY <1>1
<1>5. /\ wallet \in [Buyers -> [balance : Nat, earned : Nat, spent : Nat]]
      /\ expired \in [Orders -> Nat]
      /\ lots \in [Sweepers -> SUBSET [order : Orders, take : Nat]]
  BY DEF RewardShape, RewardTypeOK
<1>6. CASE expired[o] > 0 \/ n > wallet[b].balance
  <2>1. lots' = [lots EXCEPT ![s] = {}] /\ UNCHANGED <<wallet, expired>>
    BY <1>2, <1>3, <1>4, <1>6 DEF ExpireLotWrite
  <2>2. lots' \in [Sweepers -> SUBSET [order : Orders, take : Nat]]
    BY <1>5, <2>1
  <2> QED
    BY <1>2, <1>3, <1>4, <1>5, <2>1, <2>2
<1>7. CASE ~ (expired[o] > 0 \/ n > wallet[b].balance)
  <2>1. /\ wallet' = [wallet EXCEPT ![b].balance = @ - n]
        /\ expired' = [expired EXCEPT ![o] = n]
        /\ lots' = [lots EXCEPT ![s] = @ \ {l}]
    BY <1>2, <1>3, <1>4, <1>7 DEF ExpireLotWrite
  <2>2. PICK p \in Nat : p = wallet[b].balance /\ n <= p /\ expired[o] = 0
    BY <1>5, <1>7
  <2>3. PICK m \in Nat : m = p - n
    BY <2>2
  <2>4. wallet' = [wallet EXCEPT ![b].balance = m]
    BY <1>5, <2>1, <2>2, <2>3
  <2>5. /\ wallet' \in [Buyers -> [balance : Nat, earned : Nat, spent : Nat]]
        /\ wallet'[b].balance = m
        /\ \A x \in Buyers : x # b => wallet'[x] = wallet[x]
    BY <1>5, <2>4
  <2>6. /\ expired' \in [Orders -> Nat] /\ expired'[o] = n
        /\ \A x \in Orders : x # o => expired'[x] = expired[x]
    BY <1>5, <2>1
  <2>7. lots' \in [Sweepers -> SUBSET [order : Orders, take : Nat]]
    BY <1>5, <2>1
  <2>8. wallet'[b].balance = wallet[b].balance - n
    BY <2>2, <2>3, <2>5
  <2> QED
    BY <1>2, <1>3, <1>4, <2>2, <2>5, <2>6, <2>7, <2>8
<1> QED
  BY <1>6, <1>7

LEMMA ExpireLotWriteShape ==
    ASSUME RewardShape, NEW s \in Sweepers, NEW l \in lots[s], ExpireLotWrite(s, l)
    PROVE  RewardShape'
<1>1. UNCHANGED <<earned, bonus, lapsed, claimed, held, applied, campaign, call>>
  BY DEF ExpireLotWrite, voucherVars
<1>2. CampaignsStay
  BY <1>1 DEF CampaignsStay
<1> QED
  BY <1>1, <1>2, ExpireWrites, RowShape DEF RewardShape, RewardTypeOK, RowsFit

-----------------------------------------------------------------------------
(* Every step keeps the shape                                              *)

LEMMA RewardShapeStep == RewardShape /\ [RewardNext]_vars => RewardShape'
<1> SUFFICES ASSUME RewardShape, [RewardNext]_vars PROVE RewardShape'
  OBVIOUS
<1>1. CASE CampaignNext
  BY <1>1, CreateCampaignShape, EditReadShape, EditWriteShape DEF CampaignNext
<1>2. ASSUME NEW q \in Completers, CompleteNext(q) PROVE RewardShape'
  BY <1>2, CompleteReadShape, CompleteCommitShape, CompleteAbortShape DEF CompleteNext
<1>3. CASE VoucherNext
  BY <1>3, ClaimReadShape, ClaimWriteShape, CheckoutReadShape, CheckoutWriteShape,
     VouchersLapseShape DEF VoucherNext
<1>4. ASSUME NEW o \in Orders, LotLapses(o) PROVE RewardShape'
  BY <1>4, LotLapsesShape
<1>5. ASSUME NEW s \in Sweepers, ExpireRead(s) \/ SweepLot(s) PROVE RewardShape'
  BY <1>5, ExpireReadShape, ExpireLotReadShape, ExpireLotWriteShape DEF SweepLot
<1>6. CASE UNCHANGED vars
  <2>1. CampaignsStay
    BY <1>6 DEF vars, CampaignsStay
  <2>2. RequestsFit' /\ CompletesAlone'
    BY <1>6, <2>1, RequestsStay DEF vars, walletVars
  <2> QED
    BY <1>6, <2>2, CallShape DEF vars
<1> QED
  BY <1>1, <1>2, <1>3, <1>4, <1>5, <1>6 DEF RewardNext

\* The database before the first order.
LEMMA RewardShapeInit == RewardInit => RewardShape
<1> SUFFICES ASSUME RewardInit PROVE RewardShape
  OBVIOUS
<1>1. call \in [Requests -> RequestState] /\ \A c \in Requests : call[c].pc = "idle"
  BY DEF RewardInit, Idle, RequestState
<1>2. RequestsFit
  BY <1>1 DEF RequestsFit, Fits
<1>3. CompletesAlone
  BY <1>1 DEF CompletesAlone, Requests
<1>4. /\ wallet \in [Buyers -> [balance : Nat, earned : Nat, spent : Nat]]
      /\ earned \in [Orders -> Nat] /\ lapsed \in [Orders -> BOOLEAN]
      /\ expired \in [Orders -> Nat] /\ claimed \in [Vouchers -> Nat]
      /\ applied \in [Checkouts -> UserVouchers \cup {None}]
      /\ lots \in [Sweepers -> SUBSET [order : Orders, take : Nat]]
  BY DEF RewardInit
<1>5. bonus \in [Orders -> [campaign : Range(Campaigns) \cup {None}, points : Nat]]
  BY DEF RewardInit, NoBonus
<1>6. campaign \in [Range(Campaigns) ->
          [status : {"NONE", "DRAFT", "ACTIVE", "PAUSED", "EXHAUSTED"}, budget : Nat, spent : Nat]]
  BY DEF RewardInit
<1>7. held \in [UserVouchers ->
          [status : {"NONE", "ACTIVE", "USED", "EXPIRED"}, buyer : Buyers \cup {None},
           voucher : Vouchers \cup {None}, lapsed : BOOLEAN]]
  BY DEF RewardInit
<1>8. RewardTypeOK
  BY <1>1, <1>4, <1>5, <1>6, <1>7 DEF RewardTypeOK
<1>9. RowsFit
  BY DEF RewardInit, NoBonus, RowsFit
<1> QED
  BY <1>2, <1>3, <1>8, <1>9 DEF RewardShape

-----------------------------------------------------------------------------
(* The wallets                                                             *)

\* What the orders of a buyer brought is a sum of numbers.
LEMMA NetPointsTyped ==
    ASSUME RewardTypeOK
    PROVE  /\ NetPoints \in [Orders -> Int]
           /\ \A b : /\ OrdersOf(b) \in SUBSET Orders /\ IsFiniteSet(OrdersOf(b))
                     /\ SumFunctionOnSet(NetPoints, OrdersOf(b)) \in Int
                     /\ IsFiniteSet(ClaimsOf(b)) /\ Cardinality(ClaimsOf(b)) \in Nat
<1>1. NetPoints \in [Orders -> Int]
  <2>1. ASSUME NEW o \in Orders PROVE earned[o] + bonus[o].points - expired[o] \in Int
    BY DEF RewardTypeOK
  <2> QED
    BY <2>1 DEF NetPoints
<1>2. ASSUME NEW b
      PROVE  /\ OrdersOf(b) \in SUBSET Orders /\ IsFiniteSet(OrdersOf(b))
             /\ IsFiniteSet(ClaimsOf(b)) /\ Cardinality(ClaimsOf(b)) \in Nat
  <2>1. OrdersOf(b) \in SUBSET Orders /\ ClaimsOf(b) \in SUBSET UserVouchers
    BY DEF OrdersOf, ClaimsOf
  <2>2. IsFiniteSet(OrdersOf(b)) /\ IsFiniteSet(ClaimsOf(b))
    BY <2>1, FS_Subset, RewardConstants
  <2> QED
    BY <2>1, <2>2, FS_CardinalityType
<1> QED
  BY <1>1, <1>2, SumInt

\* A step that moves no points.
LEMMA BalanceStays ==
    ASSUME RewardShape, BalanceIsLedger, UNCHANGED <<earned, bonus, expired>>,
           \A b \in Buyers : wallet'[b].balance = wallet[b].balance,
           \A u \in UserVouchers : held'[u].buyer = held[u].buyer
    PROVE  BalanceIsLedger'
<1>1. NetPoints' = NetPoints
  BY DEF NetPoints
<1>2. \A b : ClaimsOf(b)' = ClaimsOf(b)
  BY DEF ClaimsOf
<1> QED
  BY <1>1, <1>2 DEF BalanceIsLedger, OrdersOf

\* A step that moves the points of one order, and as many of its buyer.
LEMMA BalanceFollows ==
    ASSUME RewardShape, RewardShape', BalanceIsLedger, NEW o \in Orders, NEW n \in Int,
           earned'[o] + bonus'[o].points - expired'[o]
              = (earned[o] + bonus[o].points - expired[o]) + n,
           \A x \in Orders : x # o =>
              /\ earned'[x] = earned[x] /\ bonus'[x] = bonus[x] /\ expired'[x] = expired[x],
           wallet'[BuyerOf[o]].balance = wallet[BuyerOf[o]].balance + n,
           \A b \in Buyers : b # BuyerOf[o] => wallet'[b].balance = wallet[b].balance,
           held' = held
    PROVE  BalanceIsLedger'
<1>1. PICK f \in [Orders -> Int] : f = NetPoints
  BY NetPointsTyped DEF RewardShape
<1>2. PICK g \in [Orders -> Int] : g = NetPoints'
  <2>1. NetPoints' \in [Orders -> Int]
    <3>1. ASSUME NEW x \in Orders PROVE earned'[x] + bonus'[x].points - expired'[x] \in Int
      BY DEF RewardShape, RewardTypeOK
    <3> QED
      BY <3>1 DEF NetPoints
  <2> QED
    BY <2>1, Zenon
<1>3. g[o] = f[o] + n /\ \A x \in Orders : x # o => g[x] = f[x]
  BY <1>1, <1>2 DEF NetPoints
<1>4. \A b : ClaimsOf(b)' = ClaimsOf(b)
  BY DEF ClaimsOf
<1>5. ASSUME NEW b \in Buyers
      PROVE  wallet'[b].balance = SumFunctionOnSet(g, OrdersOf(b))
                                  - PointCost * Cardinality(ClaimsOf(b))
  <2>1. OrdersOf(b) \in SUBSET Orders /\ IsFiniteSet(OrdersOf(b))
    BY NetPointsTyped DEF RewardShape
  <2>2. PICK s \in Int : s = SumFunctionOnSet(f, OrdersOf(b))
    BY <2>1, SumInt
  <2>3. PICK p \in Int : p = PointCost * Cardinality(ClaimsOf(b))
    BY NetPointsTyped, PriceOfVouchers DEF RewardShape
  <2>4. wallet[b].balance = s - p
    BY <1>1, <2>2, <2>3 DEF BalanceIsLedger
  <2>5. CASE b = BuyerOf[o]
    <3>1. o \in OrdersOf(b)
      BY <2>5 DEF OrdersOf
    <3>2. SumFunctionOnSet(g, OrdersOf(b)) = s + (g[o] - f[o])
      BY <1>3, <2>1, <2>2, <3>1, SumChange
    <3>3. SumFunctionOnSet(g, OrdersOf(b)) = s + n
      <4>1. g[o] - f[o] = n
        BY <1>1, <1>2, <1>3
      <4> QED
        BY <3>2, <4>1, Zenon
    <3>4. wallet'[b].balance = (s - p) + n
      BY <2>4, <2>5
    <3>5. (s - p) + n = (s + n) - p
      OBVIOUS
    <3> QED
      BY <2>3, <3>3, <3>4, <3>5, Zenon
  <2>6. CASE b # BuyerOf[o]
    <3>1. \A x \in OrdersOf(b) : f[x] = g[x]
      BY <1>3, <2>6 DEF OrdersOf
    <3>2. SumFunctionOnSet(f, OrdersOf(b)) = SumFunctionOnSet(g, OrdersOf(b))
      BY <2>1, <3>1, SumSame
    <3>3. wallet'[b].balance = wallet[b].balance
      BY <2>6
    <3> QED
      BY <2>2, <2>3, <2>4, <3>2, <3>3, Zenon
  <2> QED
    BY <2>5, <2>6
<1> QED
  BY <1>2, <1>4, <1>5, Zenon DEF BalanceIsLedger, OrdersOf

\* A claim takes the price of a voucher from the wallet and is one more claim.
LEMMA ClaimBalance ==
    ASSUME RewardShape, BalanceIsLedger, NEW k \in Claimers, NEW u \in UserVouchers,
           ClaimWrite(k, u)
    PROVE  BalanceIsLedger'
<1>1. UNCHANGED <<earned, bonus, expired>>
  BY DEF ClaimWrite
<1>2. CASE UNCHANGED <<wallet, claimed, held>>
  BY <1>1, <1>2, BalanceStays
<1>3. CASE ~ UNCHANGED <<wallet, claimed, held>>
  <2>1. PICK c \in Buyers : c = call[k].order
    BY <1>3, ClaimWrites
  <2>2. /\ wallet'[c].balance = wallet[c].balance - PointCost
        /\ \A b \in Buyers : b # c => wallet'[b] = wallet[b]
        /\ held[u].buyer = None /\ held'[u].buyer = c
        /\ \A y \in UserVouchers : y # u => held'[y] = held[y]
    BY <1>3, <2>1, ClaimWrites
  <2>3. None \notin Buyers
    BY RewardConstants
  <2>4. NetPoints' = NetPoints
    BY <1>1 DEF NetPoints
  <2>5. ASSUME NEW b \in Buyers
        PROVE  wallet'[b].balance = SumFunctionOnSet(NetPoints, OrdersOf(b))
                                    - PointCost * Cardinality(ClaimsOf(b)')
    <3>1. CASE b = c
      <4>1. ClaimsOf(b)' = ClaimsOf(b) \cup {u} /\ u \notin ClaimsOf(b)
        BY <2>2, <2>3, <3>1 DEF ClaimsOf
      <4>2. PICK n \in Nat : n = Cardinality(ClaimsOf(b))
        BY NetPointsTyped DEF RewardShape
      <4>3. Cardinality(ClaimsOf(b)') = n + 1
        BY <4>1, <4>2, NetPointsTyped, FS_AddElement DEF RewardShape
      <4>4. PICK s \in Int : s = SumFunctionOnSet(NetPoints, OrdersOf(b))
        BY NetPointsTyped DEF RewardShape
      <4>5. PICK p \in Nat : p = PointCost * n /\ PointCost * (n + 1) = p + PointCost
        BY PriceOfVouchers
      <4>6. wallet[b].balance = s - p
        BY <4>2, <4>4, <4>5 DEF BalanceIsLedger
      <4>7. wallet'[b].balance = (s - p) - PointCost
        BY <2>2, <3>1, <4>6
      <4>8. (s - p) - PointCost = s - (p + PointCost)
        BY RewardConstants
      <4> QED
        BY <4>3, <4>4, <4>5, <4>7, <4>8, Zenon
    <3>2. CASE b # c
      <4>1. ClaimsOf(b)' = ClaimsOf(b)
        BY <2>2, <2>3, <3>2 DEF ClaimsOf
      <4> QED
        BY <2>2, <3>2, <4>1 DEF BalanceIsLedger
    <3> QED
      BY <3>1, <3>2
  <2> QED
    BY <2>4, <2>5, Zenon DEF BalanceIsLedger, OrdersOf
<1> QED
  BY <1>2, <1>3

\* A completion adds to the wallet what the order earned now and the bonus it got now.
LEMMA CommitBalance ==
    ASSUME RewardShape, RewardShape', BalanceIsLedger, NEW q \in Completers, CompleteCommit(q)
    PROVE  BalanceIsLedger'
<1>1. call[q].pc = "completing"
  BY DEF CompleteCommit
<1>2. PICK o \in Orders : o = call[q].order /\ EarnedPoints[o] \in Nat
  BY <1>1, CompletionReads
<1>3. PICK p \in Nat : p = call[q].points
  BY <1>1, CompletionReads
<1>4. PICK n \in Nat : n = p + (IF earned[o] > 0 THEN 0 ELSE EarnedPoints[o])
  BY <1>2
<1>5. /\ wallet'[BuyerOf[o]].balance = wallet[BuyerOf[o]].balance + n
      /\ \A b \in Buyers : b # BuyerOf[o] => wallet'[b].balance = wallet[b].balance
  BY <1>2, <1>3, <1>4, CommitWallet, SMTT(30)
<1>6. earned'[o] = EarnedPoints[o] /\ \A x \in Orders : x # o => earned'[x] = earned[x]
  BY <1>2 DEF CompleteCommit, RewardShape, RewardTypeOK
<1>7. earned[o] \in {0, EarnedPoints[o]}
  BY DEF RewardShape, RowsFit
<1>8. PICK e \in Nat : e = earned[o]
  BY DEF RewardShape, RewardTypeOK
<1>9. PICK m \in Nat : m = bonus[o].points
  BY DEF RewardShape, RewardTypeOK
<1>10. PICK x \in Nat : x = expired[o]
  BY DEF RewardShape, RewardTypeOK
<1>11. bonus'[o].points = m + p /\ \A y \in Orders : y # o => bonus'[y] = bonus[y]
  <2>1. CASE p = 0
    <3>1. bonus' = bonus
      BY <1>3, <2>1, CommitBonus
    <3>2. m + p = m
      BY <2>1
    <3> QED
      BY <1>9, <3>1, <3>2
  <2>2. CASE p # 0
    <3>1. bonus'[o].points = p /\ bonus[o] = NoBonus
      BY <1>2, <1>3, <2>2, CommitBonus
    <3>2. m = 0
      BY <1>9, <3>1 DEF NoBonus
    <3> QED
      BY <1>2, <3>1, <3>2, CommitBonus
  <2> QED
    BY <2>1, <2>2
<1>12. EarnedPoints[o] + (m + p) - x = (e + m - x) + n
  BY <1>2, <1>4, <1>7, <1>8
<1>13. expired' = expired /\ held' = held
  BY DEF CompleteCommit, voucherVars
<1>14. earned'[o] + bonus'[o].points - expired'[o]
          = (earned[o] + bonus[o].points - expired[o]) + n
  BY <1>6, <1>8, <1>9, <1>10, <1>11, <1>12, <1>13
<1> QED
  BY <1>5, <1>6, <1>11, <1>13, <1>14, BalanceFollows

\* The end of a lot takes from the wallet what it records.
LEMMA ExpireBalance ==
    ASSUME RewardShape, RewardShape', BalanceIsLedger, NEW s \in Sweepers, NEW l \in lots[s],
           ExpireLotWrite(s, l)
    PROVE  BalanceIsLedger'
<1>1. UNCHANGED <<earned, bonus, held>>
  BY DEF ExpireLotWrite, voucherVars
<1>2. CASE UNCHANGED <<wallet, expired>>
  BY <1>1, <1>2, BalanceStays
<1>3. CASE ~ UNCHANGED <<wallet, expired>>
  <2>1. PICK o \in Orders : o = l.order
    BY ExpireWrites
  <2>2. PICK t \in Nat : t = l.take
    BY ExpireWrites
  <2>3. /\ expired[o] = 0 /\ expired'[o] = t
        /\ \A x \in Orders : x # o => expired'[x] = expired[x]
        /\ wallet'[BuyerOf[o]].balance = wallet[BuyerOf[o]].balance - t
        /\ \A b \in Buyers : b # BuyerOf[o] => wallet'[b].balance = wallet[b].balance
    BY <1>3, <2>1, <2>2, ExpireWrites
  <2>4. PICK n \in Int : n = 0 - t
    OBVIOUS
  <2>5. PICK e \in Nat : e = earned[o]
    BY DEF RewardShape, RewardTypeOK
  <2>6. PICK m \in Nat : m = bonus[o].points
    BY DEF RewardShape, RewardTypeOK
  <2>7. PICK w \in Nat : w = wallet[BuyerOf[o]].balance
    BY RewardConstants DEF RewardShape, RewardTypeOK
  <2>8. w - t = w + n /\ e + m - t = (e + m - 0) + n
    BY <2>4
  <2>9. wallet'[BuyerOf[o]].balance = wallet[BuyerOf[o]].balance + n
    BY <2>3, <2>7, <2>8
  <2>10. earned'[o] + bonus'[o].points - expired'[o]
            = (earned[o] + bonus[o].points - expired[o]) + n
    BY <1>1, <2>3, <2>5, <2>6, <2>8
  <2> QED
    BY <1>1, <2>3, <2>4, <2>9, <2>10, BalanceFollows
<1> QED
  BY <1>2, <1>3

\* Every other step leaves the wallets and their transactions as they were.
LEMMA BalanceStep ==
    ASSUME RewardShape, RewardShape', BalanceIsLedger, [RewardNext]_vars
    PROVE  BalanceIsLedger'
<1>1. CASE CampaignNext
  <2>1. UNCHANGED <<wallet, earned, bonus, expired, held>>
    BY <1>1
       DEF CampaignNext, CreateCampaign, EditRead, EditWrite, walletVars, voucherVars
  <2> QED
    BY <2>1, BalanceStays, SMTT(30)
<1>2. ASSUME NEW q \in Completers, CompleteNext(q) PROVE BalanceIsLedger'
  <2>1. CASE CompleteCommit(q)
    BY <2>1, CommitBalance
  <2>2. CASE (\E o \in Orders : CompleteRead(q, o)) \/ CompleteAbort(q)
    <3>1. UNCHANGED <<wallet, earned, bonus, expired, held>>
      BY <2>2 DEF CompleteRead, CompleteAbort, walletVars, voucherVars
    <3> QED
      BY <3>1, BalanceStays
  <2> QED
    BY <1>2, <2>1, <2>2 DEF CompleteNext
<1>3. CASE VoucherNext
  <2>1. ASSUME NEW k \in Claimers, NEW b \in Buyers, NEW v \in Vouchers, ClaimRead(k, b, v)
        PROVE  BalanceIsLedger'
    BY <2>1, BalanceStays DEF ClaimRead, walletVars, voucherVars
  <2>2. ASSUME NEW k \in Claimers, NEW u \in UserVouchers, ClaimWrite(k, u)
        PROVE  BalanceIsLedger'
    BY <2>2, ClaimBalance
  <2>3. ASSUME NEW x \in Checkouts, NEW u \in UserVouchers, CheckoutRead(x, u)
        PROVE  BalanceIsLedger'
    BY <2>3, BalanceStays DEF CheckoutRead, walletVars, voucherVars
  <2>4. ASSUME NEW x \in Checkouts, CheckoutWrite(x) PROVE BalanceIsLedger'
    BY <2>4, CheckoutWrites, BalanceStays DEF CheckoutWrite, walletVars
  <2>5. CASE (\E u \in UserVouchers : VoucherLapses(u)) \/ ExpireStaleVouchers
    BY <2>5, VouchersLapse, BalanceStays DEF walletVars
  <2> QED
    BY <1>3, <2>1, <2>2, <2>3, <2>4, <2>5 DEF VoucherNext
<1>4. ASSUME NEW o \in Orders, LotLapses(o) PROVE BalanceIsLedger'
  BY <1>4, BalanceStays DEF LotLapses, voucherVars
<1>5. ASSUME NEW s \in Sweepers, ExpireRead(s) PROVE BalanceIsLedger'
  BY <1>5, BalanceStays DEF ExpireRead, walletVars, voucherVars
<1>6. ASSUME NEW s \in Sweepers, SweepLot(s) PROVE BalanceIsLedger'
  <2>1. PICK l \in lots[s] : ExpireLotRead(s, l) \/ ExpireLotWrite(s, l)
    BY <1>6 DEF SweepLot
  <2>2. CASE ExpireLotRead(s, l)
    BY <2>2, BalanceStays DEF ExpireLotRead, walletVars, voucherVars
  <2>3. CASE ExpireLotWrite(s, l)
    BY <2>3, ExpireBalance
  <2> QED
    BY <2>1, <2>2, <2>3
<1>7. CASE UNCHANGED vars
  BY <1>7, BalanceStays DEF vars, walletVars, voucherVars
<1> QED
  BY <1>1, <1>2, <1>3, <1>4, <1>5, <1>6, <1>7 DEF RewardNext

-----------------------------------------------------------------------------
(* The campaigns                                                           *)

\* What a campaign granted is a sum of numbers.
LEMMA GrantsTyped ==
    ASSUME RewardTypeOK
    PROVE  /\ GrantedPoints \in [Orders -> Int]
           /\ \A c : /\ GrantsOf(c) \in SUBSET Orders /\ IsFiniteSet(GrantsOf(c))
                     /\ SumFunctionOnSet(GrantedPoints, GrantsOf(c)) \in Int
<1>1. GrantedPoints \in [Orders -> Int]
  <2>1. ASSUME NEW o \in Orders PROVE bonus[o].points \in Int
    BY DEF RewardTypeOK
  <2> QED
    BY <2>1 DEF GrantedPoints
<1>2. ASSUME NEW c PROVE GrantsOf(c) \in SUBSET Orders /\ IsFiniteSet(GrantsOf(c))
  BY FS_Subset, RewardConstants DEF GrantsOf
<1> QED
  BY <1>1, <1>2, SumInt

\* A step that grants and charges nothing.
LEMMA ChargesStay ==
    ASSUME CampaignPaysItsBonuses, UNCHANGED bonus,
           \A c \in Range(Campaigns) : campaign'[c].spent = campaign[c].spent
    PROVE  CampaignPaysItsBonuses'
<1>1. GrantedPoints' = GrantedPoints
  BY DEF GrantedPoints
<1>2. \A c : GrantsOf(c)' = GrantsOf(c)
  BY DEF GrantsOf
<1> QED
  BY <1>1, <1>2 DEF CampaignPaysItsBonuses

\* A completion charges its campaign for the bonus it grants, and no other.
LEMMA CommitCharge ==
    ASSUME RewardShape, RewardShape', CampaignPaysItsBonuses, NEW q \in Completers,
           CompleteCommit(q)
    PROVE  CampaignPaysItsBonuses'
<1>1. call[q].pc = "completing"
  BY DEF CompleteCommit
<1>2. PICK o \in Orders : o = call[q].order
  BY <1>1, CompletionReads
<1>3. PICK p \in Nat : p = call[q].points /\ call[q].amount = PointValue * p
  BY <1>1, CompletionReads
<1>4. CASE p = 0
  <2>1. call[q].amount = 0 /\ bonus' = bonus
    BY <1>3, <1>4, PriceOfPoints, CommitBonus
  <2>2. \A c \in Range(Campaigns) : campaign[c].spent \in Nat
    BY DEF RewardShape, RewardTypeOK
  <2>3. \A c \in Range(Campaigns) : campaign'[c].spent = campaign[c].spent
    BY <2>1, <2>2, CommitCampaign
  <2> QED
    BY <2>1, <2>3, ChargesStay
<1>5. CASE p # 0
  <2>1. PICK d \in Range(Campaigns) : d = call[q].subject
    BY <1>2, <1>3, <1>5, CommitBonus
  <2>2. /\ bonus'[o].campaign = d /\ bonus'[o].points = p
        /\ bonus[o].campaign = None
        /\ \A x \in Orders : x # o => bonus'[x] = bonus[x]
    BY <1>2, <1>3, <1>5, <2>1, CommitBonus DEF NoBonus
  <2>3. None \notin Range(Campaigns)
    BY RewardConstants
  <2>4. PICK f \in [Orders -> Int] : f = GrantedPoints
    BY GrantsTyped DEF RewardShape
  <2>5. PICK g \in [Orders -> Int] : g = GrantedPoints'
    <3>1. ASSUME NEW x \in Orders PROVE bonus'[x].points \in Int
      BY DEF RewardShape, RewardTypeOK
    <3>2. GrantedPoints' \in [Orders -> Int]
      BY <3>1 DEF GrantedPoints
    <3> QED
      BY <3>2, Zenon
  <2>6. g[o] = p /\ \A x \in Orders : x # o => g[x] = f[x]
    BY <2>2, <2>4, <2>5 DEF GrantedPoints
  <2>7. ASSUME NEW c \in Range(Campaigns)
        PROVE  campaign'[c].spent = PointValue * SumFunctionOnSet(g, GrantsOf(c)')
    <3>1. GrantsOf(c) \in SUBSET Orders /\ IsFiniteSet(GrantsOf(c)) /\ o \notin GrantsOf(c)
      BY <2>2, <2>3, GrantsTyped DEF GrantsOf, RewardShape
    <3>2. PICK s \in Int : s = SumFunctionOnSet(f, GrantsOf(c))
      BY <3>1, SumInt
    <3>3. SumFunctionOnSet(g, GrantsOf(c)) = s
      <4>1. \A x \in GrantsOf(c) : f[x] = g[x]
        BY <2>6, <3>1
      <4> QED
        BY <3>1, <3>2, <4>1, SumSame
    <3>4. campaign[c].spent = PointValue * s
      BY <2>4, <3>2 DEF CampaignPaysItsBonuses
    <3>5. CASE c = d
      <4>1. GrantsOf(c)' = GrantsOf(c) \cup {o}
        BY <2>2, <3>5 DEF GrantsOf
      <4>2. SumFunctionOnSet(g, GrantsOf(c) \cup {o}) = s + p
        BY <2>6, <3>1, <3>3, SumAdd
      <4>3. campaign'[c].spent = campaign[c].spent + PointValue * p
        BY <1>3, <2>1, <3>5, CommitCampaign
      <4>4. PointValue * (s + p) = PointValue * s + PointValue * p
        BY PriceOfPoints
      <4> QED
        BY <3>4, <4>1, <4>2, <4>3, <4>4, Zenon
    <3>6. CASE c # d
      <4>1. GrantsOf(c)' = GrantsOf(c)
        BY <2>2, <2>3, <3>6 DEF GrantsOf
      <4>2. campaign'[c].spent = campaign[c].spent
        BY <2>1, <3>6, CommitCampaign
      <4> QED
        BY <3>3, <3>4, <4>1, <4>2, Zenon
    <3> QED
      BY <3>5, <3>6
  <2> QED
    BY <2>5, <2>7, Zenon DEF CampaignPaysItsBonuses
<1> QED
  BY <1>4, <1>5

\* No other step grants, and only an update sets what a campaign holds.
LEMMA ChargeStep ==
    ASSUME RewardShape, RewardShape', CampaignPaysItsBonuses, [RewardNext]_vars
    PROVE  CampaignPaysItsBonuses'
<1>1. ASSUME NEW c \in Range(Campaigns), NEW budget \in Budgets,
             NEW status \in {"ACTIVE", "DRAFT"}, CreateCampaign(c, budget, status)
      PROVE  CampaignPaysItsBonuses'
  <2>1. campaign[c].spent = 0
    BY <1>1 DEF CreateCampaign, RewardShape, RowsFit
  <2>2. /\ bonus' = bonus
        /\ \A d \in Range(Campaigns) : campaign'[d].spent = campaign[d].spent
    BY <1>1, <2>1 DEF CreateCampaign, walletVars, RewardShape, RewardTypeOK
  <2> QED
    BY <2>2, ChargesStay
<1>2. ASSUME NEW e \in Editors, EditWrite(e) PROVE CampaignPaysItsBonuses'
  <2>1. PICK c \in Range(Campaigns) : c = call[e].subject
    BY <1>2 DEF EditWrite, Requests, RewardShape, RequestsFit, Fits, Exists
  <2>2. /\ campaign \in [Range(Campaigns) ->
              [status : {"NONE", "DRAFT", "ACTIVE", "PAUSED", "EXHAUSTED"},
               budget : Nat, spent : Nat]]
        /\ campaign' = [campaign EXCEPT
              ![c].status = StatusAfter(call[e], campaign[c].status),
              ![c].budget = IF call[e].amount = 0 THEN campaign[c].budget ELSE call[e].amount]
    BY <1>2, <2>1 DEF EditWrite, RewardShape, RewardTypeOK
  <2>3. \A d \in Range(Campaigns) : campaign'[d].spent = campaign[d].spent
    BY <2>2
  <2> QED
    BY <1>2, <2>3, ChargesStay DEF EditWrite, walletVars
<1>3. ASSUME NEW q \in Completers, CompleteCommit(q) PROVE CampaignPaysItsBonuses'
  BY <1>3, CommitCharge
<1>4. CASE UNCHANGED <<bonus, campaign>>
  BY <1>4, ChargesStay
<1>5. ASSUME ~ UNCHANGED <<bonus, campaign>>,
             ~ \E c \in Range(Campaigns), budget \in Budgets, status \in {"ACTIVE", "DRAFT"} :
                   CreateCampaign(c, budget, status),
             ~ \E e \in Editors : EditWrite(e),
             ~ \E q \in Completers : CompleteCommit(q)
      PROVE  FALSE
  <2> USE DEF walletVars, voucherVars
  <2>1. ~ CampaignNext
    BY <1>5 DEF CampaignNext, EditRead
  <2>2. ~ \E q \in Completers : CompleteNext(q)
    BY <1>5 DEF CompleteNext, CompleteRead, CompleteAbort
  <2>3. ~ VoucherNext
    BY <1>5 DEF VoucherNext, ClaimRead, ClaimWrite, CheckoutRead, CheckoutWrite,
                VoucherLapses, ExpireStaleVouchers
  <2>4. ~ \E o \in Orders : LotLapses(o)
    BY <1>5 DEF LotLapses
  <2>5. ~ \E s \in Sweepers : ExpireRead(s) \/ SweepLot(s)
    BY <1>5 DEF ExpireRead, SweepLot, ExpireLotRead, ExpireLotWrite
  <2>6. ~ UNCHANGED vars
    BY <1>5 DEF vars
  <2> QED
    BY <2>1, <2>2, <2>3, <2>4, <2>5, <2>6 DEF RewardNext
<1> QED
  BY <1>1, <1>2, <1>3, <1>4, <1>5

-----------------------------------------------------------------------------
(* The vouchers                                                            *)

\* A step that uses no voucher, and takes back no used one.
LEMMA UsesStay ==
    ASSUME RewardShape, VoucherUsedOnce, UNCHANGED applied,
           \A u \in UserVouchers : held[u].status = "USED" => held'[u].status = "USED"
    PROVE  VoucherUsedOnce'
<1>1. \A x \in Checkouts : applied[x] # None => applied[x] \in UserVouchers
  BY DEF RewardShape, RewardTypeOK
<1> QED
  BY <1>1 DEF VoucherUsedOnce

\* The voucher a checkout uses was used by no other, for that one is ACTIVE no more.
LEMMA CheckoutUse ==
    ASSUME RewardShape, VoucherUsedOnce, NEW x \in Checkouts, CheckoutWrite(x)
    PROVE  VoucherUsedOnce'
<1>1. CASE UNCHANGED <<held, applied>>
  BY <1>1, UsesStay
<1>2. CASE ~ UNCHANGED <<held, applied>>
  <2>1. PICK u \in UserVouchers : u = call[x].subject
    BY <1>2, CheckoutWrites
  <2>2. /\ held[u].status = "ACTIVE" /\ held'[u].status = "USED"
        /\ applied' = [applied EXCEPT ![x] = u]
        /\ \A y \in UserVouchers : y # u => held'[y] = held[y]
    BY <1>2, <2>1, CheckoutWrites
  <2>3. applied \in [Checkouts -> UserVouchers \cup {None}]
    BY DEF RewardShape, RewardTypeOK
  <2>4. applied'[x] = u /\ \A y \in Checkouts : y # x => applied'[y] = applied[y]
    BY <2>2, <2>3
  <2>5. \A y \in Checkouts : applied[y] # None =>
           applied[y] \in UserVouchers /\ applied[y] # u /\ held[applied[y]].status = "USED"
    BY <2>2, <2>3 DEF VoucherUsedOnce
  <2>6. \A y \in Checkouts : applied'[y] # None => held'[applied'[y]].status = "USED"
    BY <2>2, <2>4, <2>5
  <2>7. \A y, z \in Checkouts :
           y # z /\ applied'[y] # None => applied'[y] # applied'[z]
    BY <2>4, <2>5 DEF VoucherUsedOnce
  <2> QED
    BY <2>6, <2>7 DEF VoucherUsedOnce
<1> QED
  BY <1>1, <1>2

LEMMA VoucherStep ==
    ASSUME RewardShape, VoucherUsedOnce, [RewardNext]_vars
    PROVE  VoucherUsedOnce'
<1>1. CASE CampaignNext \/ (\E q \in Completers : CompleteNext(q))
  <2>1. UNCHANGED <<held, applied>>
    BY <1>1
       DEF CampaignNext, CreateCampaign, EditRead, EditWrite, CompleteNext, CompleteRead,
           CompleteCommit, CompleteAbort, voucherVars
  <2> QED
    BY <2>1, UsesStay, SMTT(30)
<1>2. CASE VoucherNext
  <2>1. ASSUME NEW k \in Claimers, NEW b \in Buyers, NEW v \in Vouchers, ClaimRead(k, b, v)
        PROVE  VoucherUsedOnce'
    BY <2>1, UsesStay DEF ClaimRead, voucherVars
  <2>2. ASSUME NEW k \in Claimers, NEW u \in UserVouchers, ClaimWrite(k, u)
        PROVE  VoucherUsedOnce'
    <3>1. applied' = applied
      BY <2>2 DEF ClaimWrite
    <3>2. \A y \in UserVouchers : held[y].status = "USED" => held'[y].status = "USED"
      BY <2>2, ClaimWrites
    <3> QED
      BY <3>1, <3>2, UsesStay
  <2>3. ASSUME NEW x \in Checkouts, NEW u \in UserVouchers, CheckoutRead(x, u)
        PROVE  VoucherUsedOnce'
    BY <2>3, UsesStay DEF CheckoutRead, voucherVars
  <2>4. ASSUME NEW x \in Checkouts, CheckoutWrite(x) PROVE VoucherUsedOnce'
    BY <2>4, CheckoutUse
  <2>5. CASE (\E u \in UserVouchers : VoucherLapses(u)) \/ ExpireStaleVouchers
    BY <2>5, VouchersLapse, UsesStay
  <2> QED
    BY <1>2, <2>1, <2>2, <2>3, <2>4, <2>5 DEF VoucherNext
<1>3. ASSUME NEW o \in Orders, LotLapses(o) PROVE VoucherUsedOnce'
  BY <1>3, UsesStay DEF LotLapses, voucherVars
<1>4. ASSUME NEW s \in Sweepers, ExpireRead(s) \/ SweepLot(s) PROVE VoucherUsedOnce'
  <2>1. UNCHANGED <<held, applied>>
    BY <1>4 DEF ExpireRead, SweepLot, ExpireLotRead, ExpireLotWrite, voucherVars
  <2> QED
    BY <2>1, UsesStay
<1>5. CASE UNCHANGED vars
  BY <1>5, UsesStay DEF vars, voucherVars
<1> QED
  BY <1>1, <1>2, <1>3, <1>4, <1>5 DEF RewardNext

-----------------------------------------------------------------------------
(* The results                                                             *)

\* RewardInv holds at the start.
LEMMA RewardInvInit == RewardInit => RewardInv
<1> SUFFICES ASSUME RewardInit PROVE RewardInv
  OBVIOUS
<1>1. RewardShape
  BY RewardShapeInit
<1>2. BalanceIsLedger
  <2> SUFFICES ASSUME NEW b \in Buyers
               PROVE  wallet[b].balance = SumFunctionOnSet(NetPoints, OrdersOf(b))
                                          - PointCost * Cardinality(ClaimsOf(b))
    BY DEF BalanceIsLedger
  <2>1. ClaimsOf(b) = {}
    BY RewardConstants DEF RewardInit, ClaimsOf
  <2>2. Cardinality(ClaimsOf(b)) = 0 /\ PointCost * 0 = 0
    BY <2>1, FS_EmptySet, RewardConstants
  <2>3. OrdersOf(b) \in SUBSET Orders /\ IsFiniteSet(OrdersOf(b))
    BY <1>1, NetPointsTyped DEF RewardShape
  <2>4. \A x \in OrdersOf(b) : NetPoints[x] = 0
    BY DEF RewardInit, NoBonus, NetPoints, OrdersOf
  <2>5. SumFunctionOnSet(NetPoints, OrdersOf(b)) = 0
    BY <1>1, <2>3, <2>4, NetPointsTyped, SumZero DEF RewardShape
  <2>6. wallet[b].balance = 0
    BY DEF RewardInit
  <2> QED
    BY <2>2, <2>5, <2>6
<1>3. CampaignPaysItsBonuses
  <2> SUFFICES ASSUME NEW c \in Range(Campaigns)
               PROVE  campaign[c].spent = PointValue * SumFunctionOnSet(GrantedPoints, GrantsOf(c))
    BY DEF CampaignPaysItsBonuses
  <2>1. GrantsOf(c) = {}
    BY RewardConstants DEF RewardInit, NoBonus, GrantsOf
  <2>2. SumFunctionOnSet(GrantedPoints, GrantsOf(c)) = 0
    BY <2>1, SumEmpty
  <2>3. campaign[c].spent = 0
    BY DEF RewardInit
  <2> QED
    BY <2>2, <2>3, PriceOfPoints
<1>4. VoucherUsedOnce
  BY DEF RewardInit, VoucherUsedOnce
<1> QED
  BY <1>1, <1>2, <1>3, <1>4 DEF RewardInv

\* Whatever sweeps, claims, checkouts, completions and edits meet, every wallet is the
\* sum of its transactions, every campaign is charged for what it granted and no
\* voucher discounts two orders.  Fairness is not needed for it.
THEOREM RewardsAreSafe == RewardSpec => []RewardInv
<1>1. RewardInv /\ [RewardNext]_vars => RewardInv'
  <2> SUFFICES ASSUME RewardInv, [RewardNext]_vars PROVE RewardInv'
    OBVIOUS
  <2>1. RewardShape'
    BY RewardShapeStep DEF RewardInv
  <2> QED
    BY <2>1, BalanceStep, ChargeStep, VoucherStep DEF RewardInv
<1> QED
  BY <1>1, RewardInvInit, PTL DEF RewardSpec, RewardSafety

\* The rows and requests are of their types: no balance, budget or count goes below
\* zero.
THEOREM RewardsTypeCorrect == RewardSpec => []RewardTypeOK
<1>1. RewardInv => RewardTypeOK
  BY DEF RewardInv, RewardShape
<1> QED
  BY <1>1, RewardsAreSafe, PTL

\* The balance the app shows is the sum of the transactions it lists.
THEOREM WalletsBalance == RewardSpec => []BalanceIsLedger
<1>1. RewardInv => BalanceIsLedger
  BY DEF RewardInv
<1> QED
  BY <1>1, RewardsAreSafe, PTL

\* spentAmount is what the BONUS transactions of a campaign are worth, although the
\* completions that increment it read the row without a lock.
THEOREM CampaignsPay == RewardSpec => []CampaignPaysItsBonuses
<1>1. RewardInv => CampaignPaysItsBonuses
  BY DEF RewardInv
<1> QED
  BY <1>1, RewardsAreSafe, PTL

\* markVoucherUsed lets one of the checkouts that read a voucher as ACTIVE commit.
THEOREM VouchersUsedOnce == RewardSpec => []VoucherUsedOnce
<1>1. RewardInv => VoucherUsedOnce
  BY DEF RewardInv
<1> QED
  BY <1>1, RewardsAreSafe, PTL
=============================================================================
