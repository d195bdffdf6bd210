--------------------------------- MODULE Pricing ---------------------------------
(***************************************************************************)
(* What an order costs its buyer, brings its seller and leaves the platform:*)
(* the fees of the active rate card under each payer policy, and the life   *)
(* of the rate cards (pricing configurations).                              *)
(*                                                                          *)
(* Amounts are centavos and rates are 1/Unit, both integers; toFixed(2) is  *)
(* rounding to the nearest centavo, ties upwards.                           *)
(***************************************************************************)
EXTENDS Integers, FiniteSets, Sequences, Functions, FiniteSetsExt

CONSTANTS
    Cards,          \* PricingConfigurations rows
    RateCards,      \* the lists of active components a card may hold, by priority
    CardPolicies,   \* the payer policies a card may be given
    Unit,           \* a rate of 1
    DefaultRate,    \* DEFAULT_PAYMENT_GATEWAY_RATE, DEFAULT_SELLER_COMMISSION_RATE
    MaxRate,        \* MAX_PLAUSIBLE_RATE
    Baskets,        \* what is priced: subtotal, discount, voucher, method, cash, policy
    CardRequests,   \* concurrent activation and archiving requests
    Quoters,        \* concurrent pricing requests
    NoCard, AnyMethod, NoFee

Policies == {"BUYER", "SELLER", "PLATFORM", "SHARED"}

\* A card's effective window: it has not begun, it is open, or it is closed because it
\* is past or ends before it begins.
Windows == {"waiting", "open", "closed"}

\* componentSchema: no amount of a component is negative, and no rate above 1 (it asks for less).
FeeComponent ==
    [type : STRING, rate : 0..Unit, fixed : Nat, min : Nat \cup {NoFee}, max : Nat \cup {NoFee},
     scope : STRING \cup {AnyMethod}]

\* What is priced; "NONE" leaves the policy to the card.
Purchase ==
    [subtotal : Nat, discount : Nat, voucher : Nat, method : STRING, cash : BOOLEAN,
     policy : Policies \cup {"NONE"}]

ASSUME PricingConstants ==
    /\ Unit \in Nat \ {0} /\ DefaultRate \in 0..Unit /\ MaxRate \in 0..Unit
    /\ NoCard \notin Cards /\ CardPolicies \subseteq Policies
    /\ RateCards \subseteq Seq(FeeComponent) /\ Baskets \subseteq Purchase

VARIABLES
    card,           \* the rows: status, window, policy, list
    cardCall,       \* the progress of activations and archivings
    quoting,        \* a pricing request that has read its configuration
    quote,          \* the result of a pricing request
    edited,         \* ghost: a card was edited after it was last validated
    cardRaced       \* ghost: two requests decided on the same state

cardVars == <<card, cardCall, quoting, quote, edited, cardRaced>>

-----------------------------------------------------------------------------
(* Arithmetic. *)

AtLeastZero(n) == IF n < 0 THEN 0 ELSE n

\* Number((num / den).toFixed(2))
Rounded(num, den) == (2 * num + den) \div (2 * den)

\* BUYER_COST_SHARE, in halves
BuyerHalves == [BUYER |-> 2, SHARED |-> 1, SELLER |-> 0, PLATFORM |-> 0]

\* grossUp and its rounding: cost = (amount * rate + fixed) / (1 - rate * share)
GrossUp(amount, rate, fixed, halves) ==
    LET bill == amount * rate + fixed * Unit
        divisor == 2 * Unit - rate * halves
    IN  IF rate <= 0 /\ fixed <= 0 THEN 0
        ELSE IF divisor <= 0 THEN Rounded(bill, Unit)
        ELSE Rounded(2 * bill, divisor)

\* clampFee
ClampFee(value, c) ==
    LET floored == IF c.min # NoFee /\ value < c.min THEN c.min ELSE value
    IN  IF c.max # NoFee /\ floored > c.max THEN c.max ELSE floored

\* matchComponent: the first of its type whose scope is open or the wanted one; a
\* caller that names no method matches any scope.
Matching(list, type, method) ==
    {i \in DOMAIN list : /\ list[i].type = type
                         /\ list[i].scope = AnyMethod \/ method = AnyMethod \/ list[i].scope = method}
First(list, found) == list[Min(found)]

\* resolvePaymentProcessingCost
GatewayCost(amount, list, b, halves) ==
    LET found == Matching(list, "PAYMENT_PROCESSING_FEE", b.method)
        c == First(list, found)
    IN  IF b.cash THEN 0
        ELSE IF found # {} THEN ClampFee(GrossUp(amount, c.rate, c.fixed, halves), c)
        ELSE GrossUp(amount, DefaultRate, 0, halves)

\* resolveBuyerPlatformFee: nothing by default
BuyerPlatformFee(amount, list) ==
    LET found == Matching(list, "BUYER_TRANSACTION_FEE", AnyMethod)
        c == First(list, found)
    IN  IF found # {} THEN ClampFee(Rounded(amount * c.rate + c.fixed * Unit, Unit), c) ELSE 0

\* resolveSellerCommission: a component without a rate falls back as well
SellerCommission(amount, list) ==
    LET found == Matching(list, "SELLER_MARKETPLACE_FEE", AnyMethod)
        rate == First(list, found).rate
    IN  Rounded(amount * (IF found # {} /\ rate # 0 THEN rate ELSE DefaultRate), Unit)

\* The part of the gateway's cost the seller carries; the buyer's half is rounded first.
SellerDeduction(policy, cost) ==
    CASE policy = "SELLER" -> cost
      [] policy = "SHARED" -> cost - Rounded(cost, 2)
      [] OTHER -> 0

\* The goods the seller sold: the platform funds the voucher.
CommissionBase(b) == AtLeastZero(b.subtotal - b.discount)

\* Variant of PlatformNet: the platform pays the gateway whoever else does.
PlatformNet_WholeCost(commission, buyerFee, cost, deduction) == commission + buyerFee - cost

\* What the platform keeps: the gateway is paid from it, but for the seller's part.
PlatformNet(commission, buyerFee, cost, deduction) ==
    commission + buyerFee - AtLeastZero(cost - deduction)

\* priceWith
PriceWith(cfgPolicy, list, b) ==
    LET policy == IF b.policy # "NONE" THEN b.policy ELSE cfgPolicy
        order == AtLeastZero(b.subtotal - b.discount - b.voucher)
        cost == GatewayCost(order, list, b, BuyerHalves[policy])
        platformFee == BuyerPlatformFee(order, list)
        buyerPart == CASE policy = "BUYER" -> cost [] policy = "SHARED" -> Rounded(cost, 2) [] OTHER -> 0
        deduction == SellerDeduction(policy, cost)
        commission == SellerCommission(CommissionBase(b), list)
        buyerFee == buyerPart + platformFee
    IN  [policy |-> policy, order |-> order, cost |-> cost, buyerFee |-> buyerFee,
         buyerTotal |-> order + buyerFee, commission |-> commission, deduction |-> deduction,
         sellerNet |-> AtLeastZero(b.subtotal - b.discount - commission - deduction),
         platformNet |-> PlatformNet(commission, buyerFee, cost, deduction)]

-----------------------------------------------------------------------------
(* What an order and its settlement keep of a quote. *)

Charge(type, amount, payer, beneficiary) ==
    [type |-> type, amount |-> amount, payer |-> payer, beneficiary |-> beneficiary]

\* createOrder's OrderCharges rows: the last one is the platform's whoever carries
\* the gateway's fee.
OrderCharges(b, r) ==
    {Charge("PRODUCT", b.subtotal, "BUYER", "SELLER"),
     Charge("BUYER_TRANSACTION_FEE", r.buyerFee, "BUYER", "PLATFORM"),
     Charge("SELLER_MARKETPLACE_FEE", r.commission, "SELLER", "PLATFORM"),
     Charge("PAYMENT_PROCESSING_FEE", r.cost, "PLATFORM", "PAYMENT_PROVIDER")}
    \cup {c \in {Charge("DISCOUNT", b.discount, "SELLER", "BUYER"),
                 Charge("PLATFORM_SUBSIDY", b.voucher, "PLATFORM", "BUYER")} : c.amount > 0}

\* createOrder's snapshot of the amounts on the order and on its payment
OrderRow(b, r) ==
    [total |-> r.buyerTotal, subtotal |-> b.subtotal, discount |-> b.discount, voucher |-> b.voucher,
     commission |-> r.commission, sellerNet |-> r.sellerNet, cost |-> r.cost,
     buyerFee |-> r.buyerFee, payer |-> r.policy, payment |-> r.buyerTotal]

\* createForOrder: the seller's share of the gateway's fee is what is left. A cash
\* sale owes the platform its commission.
SettlementRow(row, cash) ==
    LET base == AtLeastZero(row.subtotal - row.discount)
        paymentFee == AtLeastZero(base - row.commission - row.sellerNet)
    IN  [base |-> base, commission |-> row.commission, paymentFee |-> IF cash THEN 0 ELSE paymentFee,
         net |-> IF cash THEN -row.commission ELSE row.sellerNet]

-----------------------------------------------------------------------------
(* Rate cards. *)

NoQuote == [pc |-> "idle", basket |-> NoCard, list |-> <<>>, result |-> NoCard]
NewCard == [status |-> "DRAFT", window |-> "open", policy |-> "BUYER", list |-> <<>>]

PricingInit ==
    /\ card = [k \in Cards |-> NewCard]
    /\ cardCall = [c \in CardRequests |-> [pc |-> "idle", card |-> NoCard, incumbents |-> {}]]
    /\ quoting = [q \in Quoters |-> NoCard]
    /\ quote = [q \in Quoters |-> NoQuote]
    /\ edited = [k \in Cards |-> TRUE]
    /\ cardRaced = FALSE

\* validateConfiguration's errors. A closed window is one (ALREADY_EXPIRED and
\* EMPTY_EFFECTIVE_WINDOW), one that has yet to begin is none.
Errors(row) ==
    \/ row.window = "closed"
    \/ ~\E i \in DOMAIN row.list : row.list[i].type = "PAYMENT_PROCESSING_FEE"
    \/ \E i \in DOMAIN row.list :
          LET c == row.list[i]
          IN  \/ c.rate < 0 \/ c.fixed < 0 \/ c.rate > MaxRate
              \/ c.min # NoFee /\ c.max # NoFee /\ c.min # 0 /\ c.max # 0 /\ c.min > c.max

CardIdle(c) == cardCall' = [cardCall EXCEPT ![c].pc = "idle", ![c].card = NoCard, ![c].incumbents = {}]

\* addComponent, updateComponent, deleteComponent and updatePricingConfiguration, on
\* a draft or on the live card alike, without validation
EditCard(k, list, policy) ==
    /\ card' = [card EXCEPT ![k].list = list, ![k].policy = policy]
    /\ edited' = [edited EXCEPT ![k] = TRUE]
    /\ UNCHANGED <<cardCall, quoting, quote, cardRaced>>

\* updatePricingConfiguration moves effectiveFrom or effectiveUntil, or time passes
\* effectiveUntil.
CardWindow(k, window) ==
    /\ card[k].window # window
    /\ card' = [card EXCEPT ![k].window = window]
    /\ edited' = [edited EXCEPT ![k] = TRUE]
    /\ UNCHANGED <<cardCall, quoting, quote, cardRaced>>

\* Time passes effectiveFrom.
CardBegins(k) ==
    /\ card[k].window = "waiting"
    /\ card' = [card EXCEPT ![k].window = "open"]
    /\ UNCHANGED <<cardCall, quoting, quote, edited, cardRaced>>

\* activateConfiguration: validated first ...
ValidateCard(c, k) ==
    /\ cardCall[c].pc = "idle"
    /\ ~Errors(card[k])
    /\ cardCall' = [cardCall EXCEPT ![c].pc = "valid", ![c].card = k]
    /\ edited' = [edited EXCEPT ![k] = FALSE]
    /\ UNCHANGED <<card, quoting, quote, cardRaced>>

\* ... then, in a transaction, the statement that archives the others sees the
\* rows that are ACTIVE when it begins ...
ArchiveOthers(c) ==
    /\ cardCall[c].pc = "valid"
    /\ cardCall' = [cardCall EXCEPT ![c].pc = "replacing",
          ![c].incumbents = {k \in Cards \ {cardCall[c].card} : card[k].status = "ACTIVE"}]
    /\ UNCHANGED <<card, quoting, quote, edited, cardRaced>>

\* ... and the commit archives those of them that still are, and promotes the card.
PromoteCard(c) ==
    LET k == cardCall[c].card
        retired == {j \in cardCall[c].incumbents : card[j].status = "ACTIVE"}
    IN  /\ cardCall[c].pc = "replacing"
        /\ card' = [j \in Cards |->
              IF j = k THEN [card[j] EXCEPT !.status = "ACTIVE"]
              ELSE IF j \in retired THEN [card[j] EXCEPT !.status = "ARCHIVED", !.window = "closed"]
              ELSE card[j]]
        /\ cardRaced' = (cardRaced \/ \E d \in CardRequests \ {c} : cardCall[d].pc # "idle")
        /\ CardIdle(c)
        /\ UNCHANGED <<quoting, quote, edited>>

\* The live card is only replaced.
MayArchive(k) == card[k].status # "ACTIVE"

\* archiveConfiguration: the status is read first and the row written by id.
ArchiveRead(c, k) ==
    /\ cardCall[c].pc = "idle"
    /\ MayArchive(k)
    /\ cardCall' = [cardCall EXCEPT ![c].pc = "archiving", ![c].card = k]
    /\ UNCHANGED <<card, quoting, quote, edited, cardRaced>>

ArchiveWrite(c) ==
    LET k == cardCall[c].card
    IN  /\ cardCall[c].pc = "archiving"
        /\ card' = [card EXCEPT ![k].status = "ARCHIVED", ![k].window = "closed"]
        /\ cardRaced' = (cardRaced \/ \E d \in CardRequests \ {c} : cardCall[d].card = k)
        /\ CardIdle(c)
        /\ UNCHANGED <<quoting, quote, edited>>

-----------------------------------------------------------------------------
(* Pricing an order. *)

LiveCard(k) == card[k].status = "ACTIVE" /\ card[k].window = "open"

\* getActivePricingConfiguration: the live card, or none at all. Of two, the one
\* with the higher priority, then the newer one: any.
ReadCard(q) ==
    /\ quoting[q] = NoCard /\ quote[q].pc = "idle"
    /\ \E k \in Cards :
          /\ LiveCard(k)
          /\ quoting' = [quoting EXCEPT ![q] = k]
    /\ UNCHANGED <<card, cardCall, quote, edited, cardRaced>>

\* calculateOrderPricing with the components of the card that was read
PriceOrder(q, b) ==
    LET k == quoting[q]
    IN  /\ k # NoCard /\ quote[q].pc = "idle"
        /\ quote' = [quote EXCEPT ![q] = [pc |-> "priced", basket |-> b, list |-> card[k].list,
                                          result |-> PriceWith(card[k].policy, card[k].list, b)]]
        /\ UNCHANGED <<card, cardCall, quoting, edited, cardRaced>>

\* No card is live, or reading it fails: the built-in rates.
PriceFallback(q, b) ==
    /\ quote[q].pc = "idle" /\ quoting[q] = NoCard
    /\ quote' = [quote EXCEPT ![q] = [pc |-> "priced", basket |-> b, list |-> <<>>,
                                      result |-> PriceWith("BUYER", <<>>, b)]]
    /\ UNCHANGED <<card, cardCall, quoting, edited, cardRaced>>

\* calculateManyOrderPricing prices the next basket with the same read; or it ends.
QuoteEnds(q) ==
    /\ quote[q].pc = "priced"
    /\ quote' = [quote EXCEPT ![q] = NoQuote]
    /\ \E keep \in {quoting[q], NoCard} : quoting' = [quoting EXCEPT ![q] = keep]
    /\ UNCHANGED <<card, cardCall, edited, cardRaced>>

PricingStep(cards, requests, quoters) ==
    \/ \E k \in cards, list \in RateCards, policy \in CardPolicies : EditCard(k, list, policy)
    \/ \E k \in cards : CardBegins(k) \/ \E window \in Windows : CardWindow(k, window)
    \/ \E c \in requests :
          \/ ArchiveOthers(c) \/ PromoteCard(c) \/ ArchiveWrite(c)
          \/ \E k \in cards : ValidateCard(c, k) \/ ArchiveRead(c, k)
    \/ \E q \in quoters :
          \/ ReadCard(q) \/ QuoteEnds(q)
          \/ \E b \in Baskets : PriceOrder(q, b) \/ PriceFallback(q, b)

PricingNext == PricingStep(Cards, CardRequests, Quoters)

PricingSpec == PricingInit /\ [][PricingNext]_cardVars

-----------------------------------------------------------------------------
(* Properties. *)

Quoted == {q \in Quoters : quote[q].pc = "priced"}

\* Cards, requests and quotes have the shapes the code gives them.
PricingTypeOK ==
    /\ \A k \in Cards :
          card[k].status \in {"DRAFT", "ACTIVE", "ARCHIVED"} /\ card[k].policy \in Policies
    /\ \A q \in Quoted : quote[q].result.buyerTotal >= quote[q].result.order

\* What the buyer pays and the voucher covers is what the seller, the platform and
\* the gateway receive, to the centavo and under every payer policy, but for what a
\* seller's fees exceed his goods by: his net stops at zero, and nobody is charged.
TheBooksBalance ==
    \A q \in Quoted :
        LET r == quote[q].result
            b == quote[q].basket
            uncovered == AtLeastZero(r.commission + r.deduction - CommissionBase(b))
        IN  b.discount + b.voucher <= b.subtotal =>
                r.buyerTotal + b.voucher + uncovered = r.sellerNet + r.platformNet + r.cost

\* What the rows bring a party.
LedgerNet(party, charges) ==
    LET amount == [c \in charges |-> c.amount]
    IN  SumFunctionOnSet(amount, {c \in charges : c.beneficiary = party})
        - SumFunctionOnSet(amount, {c \in charges : c.payer = party})

\* The rows an order is booked with say what its buyer pays, what its seller gets
\* and what the platform keeps, in whichever way the fee, a discount and a voucher
\* combine (createOrder). They leave out what no row is written for: the seller's
\* share of the gateway's fee, which the rows have the platform carry, and the part
\* of his fees that exceeds his goods.
ChargesTellTheTotals ==
    \A q \in Quoted :
        LET r == quote[q].result
            b == quote[q].basket
            rows == OrderCharges(b, r)
            uncovered == AtLeastZero(r.commission + r.deduction - CommissionBase(b))
        IN  b.discount + b.voucher <= b.subtotal =>
                /\ OrderRow(b, r).payment = -LedgerNet("BUYER", rows)
                /\ OrderRow(b, r).sellerNet = LedgerNet("SELLER", rows) - r.deduction + uncovered
                /\ r.platformNet = LedgerNet("PLATFORM", rows) + b.voucher + r.deduction

\* A settlement recovers the seller's share of the gateway's fee from the order's
\* snapshot and accounts for the goods in full, unless the fees exceed the goods;
\* a cash settlement is the commission owed (createForOrder re-derives the share
\* so that it cannot drift from the engine).
SettlementsFollowQuotes ==
    \A q \in Quoted :
        LET r == quote[q].result
            b == quote[q].basket
            kept == SettlementRow(OrderRow(b, r), b.cash)
            covered == r.commission + r.deduction <= CommissionBase(b)
        IN  IF b.cash THEN kept.net = -r.commission /\ kept.paymentFee = 0
            ELSE /\ covered => kept.paymentFee = r.deduction
                 /\ kept.net = AtLeastZero(kept.base - kept.commission - r.deduction)
                 /\ covered => kept.base = kept.commission + kept.paymentFee + kept.net

\* Where the buyer carries the fee, the gateway's bill for the captured total is
\* what was collected for it, to the centavo (grossUp); a fixed minimum or maximum
\* overrides it.
GatewayIsCovered ==
    \A q \in Quoted :
        LET r == quote[q].result
            b == quote[q].basket
            found == Matching(quote[q].list, "PAYMENT_PROCESSING_FEE", b.method)
            c == First(quote[q].list, found)
            bill == Rounded((r.order + r.cost) * c.rate + c.fixed * Unit, Unit)
        IN  ~b.cash /\ r.policy = "BUYER" /\ found # {} /\ c.min = NoFee /\ c.max = NoFee /\ c.rate < Unit
                => bill = r.cost

\* A voucher costs the seller nothing: the same goods without it earn the seller the
\* same commission and no more (the platform funds it).
VouchersSpareTheSeller ==
    \A q \in Quoted :
        LET r == quote[q].result
            plain == PriceWith(r.policy, quote[q].list, [quote[q].basket EXCEPT !.voucher = 0, !.policy = r.policy])
        IN  r.commission = plain.commission /\ r.sellerNet >= plain.sellerNet

\* One card is live at most, unless an activation or an archiving began before
\* another one ended (ArchiveOthers does not see an uncommitted promotion).
OneLiveCard == ~cardRaced => Cardinality({k \in Cards : card[k].status = "ACTIVE"}) <= 1

\* An ACTIVE card whose window has not begun, or has closed since the card was validated.
OutOfWindow(k) ==
    /\ card[k].status = "ACTIVE"
    /\ card[k].window = "waiting" \/ (card[k].window = "closed" /\ edited[k])

\* A live card is never left without a live successor, for orders to be priced at the
\* built-in rates, unless its own window ends or is moved, its successor's has not begun
\* or ended after the validation, or such requests overlapped (archiveConfiguration
\* refuses the live card, and activation archives the incumbent in the step that
\* replaces it). The validation lets a card of the future retire the live one.
NoSilentFallback ==
    [][(\E k \in Cards : LiveCard(k)) /\ ~cardRaced' =>
          \E k \in Cards : LiveCard(k)' \/ OutOfWindow(k)']_cardVars

\* A live card has none of the errors that block activation, unless it was edited
\* after its validation, which no edit repeats, or requests overlapped.
LiveCardsWereValidated ==
    \A k \in Cards : LiveCard(k) /\ ~edited[k] /\ ~cardRaced => ~Errors(card[k])

\* Prices: every centavo has an owner in the quote, in the rows of the order and in
\* its settlement.
PricesAddUp ==
    PricingTypeOK /\ TheBooksBalance /\ ChargesTellTheTotals /\ SettlementsFollowQuotes
    /\ GatewayIsCovered /\ VouchersSpareTheSeller

\* ... and rates: one card is live, as it was validated.
OneValidatedCard == OneLiveCard /\ LiveCardsWereValidated

\* Prices and rates together: what an order is charged is right by a card that was live.
PricingIsSound == [](PricesAddUp /\ OneValidatedCard) /\ NoSilentFallback
=============================================================================
