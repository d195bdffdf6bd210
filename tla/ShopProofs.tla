------------------------------- MODULE ShopProofs -------------------------------
(***************************************************************************)
(* What a shopper meets: the page to pay on and the gateway behind it, the  *)
(* price of a basket and the fee card it follows, the cart, the wishlist,   *)
(* the addresses and the ratings, the categories with their products, the   *)
(* pickup code at the counter, and a payment that is sent back.             *)
(* Each holds for any number of checkouts, gateways' answers, baskets,      *)
(* cards, requests, products and categories, for every amount and rate,     *)
(* and however requests overlap or gateways fail.                           *)
(*                                                                         *)
(* Prices and bonuses are arithmetic on rounded shares, proved from what    *)
(* rounding down and the least and largest of some numbers are.  The walks  *)
(* through the category tree are recursive functions: that they exist, and  *)
(* what they hold in every round, is proved by the least round that fails.  *)
(***************************************************************************)
EXTENDS PaymentGateway, GatewayRefunds, CashPickup, Pricing, BuyerData, Catalogue,
        SumTheorems, FiniteSetTheorems, WellFoundedInduction, TLAPS

-----------------------------------------------------------------------------
(* Numbers and finite sets                                                 *)

\* The least of some numbers is one of them, and so is the largest.
LEMMA MinIsLeast ==
    ASSUME NEW S \in SUBSET Int, IsFiniteSet(S), S # {}
    PROVE  Min(S) \in S /\ \A x \in S : Min(S) <= x
<1> DEFINE f == [x \in S |-> -x]
<1>1. f \in [S -> Int]
  OBVIOUS
<1>2. \E x \in S : \A y \in S : f[y] <= f[x]
  <2> HIDE DEF f
  <2> QED
    BY <1>1, LargestEntry
<1>3. PICK x \in S : \A y \in S : x <= y
  BY <1>2
<1> QED
  BY <1>3 DEF Min

LEMMA MaxIsLargest ==
    ASSUME NEW S \in SUBSET Int, IsFiniteSet(S), S # {}
    PROVE  Max(S) \in S /\ \A x \in S : x <= Max(S)
<1> DEFINE f == [x \in S |-> x]
<1>1. f \in [S -> Int]
  OBVIOUS
<1>2. \E x \in S : \A y \in S : f[y] <= f[x]
  <2> HIDE DEF f
  <2> QED
    BY <1>1, LargestEntry
<1>3. PICK x \in S : \A y \in S : x >= y
  BY <1>2
<1> QED
  BY <1>3 DEF Max

\* Two values, and the values of a function on a finite set, are finitely many.
LEMMA TwoAreFinite == \A x, y : IsFiniteSet({x, y})
<1> TAKE x, y
<1>1. IsFiniteSet({x} \cup {y})
  BY FS_Singleton, FS_AddElement
<1>2. {x} \cup {y} = {x, y}
  OBVIOUS
<1> QED
  BY <1>1, <1>2

LEMMA ValuesAreFinite ==
    ASSUME NEW S, IsFiniteSet(S), NEW f, DOMAIN f = S, f = [x \in S |-> f[x]]
    PROVE  IsFiniteSet({f[x] : x \in S})
<1>1. f \in Surjection(S, {f[x] : x \in S})
  BY DEF Surjection
<1> QED
  BY <1>1, FS_Surjection

\* The least of some naturals.
LEMMA LeastNatural ==
    ASSUME NEW S \in SUBSET Nat, S # {}
    PROVE  \E m \in S : \A k \in S : m <= k
<1>1. PICK n \in S : TRUE
  OBVIOUS
<1>2. PICK low : low = {k \in S : k <= n}
  OBVIOUS
<1>3. IsFiniteSet(low)
  <2>1. n \in Nat /\ \A k \in low : k \in Nat /\ k <= n
    BY <1>1, <1>2
  <2>2. \A k \in low : k \in 0..n
    BY <2>1
  <2>3. low \in SUBSET (0..n) /\ 0 \in Int /\ n \in Int
    BY <2>1, <2>2
  <2> QED
    BY <2>3, FS_Interval, FS_Subset
<1>4. n \in low
  BY <1>1, <1>2
<1>5. Min(low) \in low /\ \A k \in low : Min(low) <= k
  <2>1. \A k \in low : k \in Nat
    BY <1>2
  <2>2. \A k \in low : k \in Int
    BY <2>1
  <2>3. low \in SUBSET Int /\ low # {}
    BY <1>4, <2>2
  <2> QED
    BY <1>3, <2>3, MinIsLeast
<1>6. PICK m \in low : \A k \in low : m <= k
  BY <1>5
<1>7. m \in S /\ m <= n
  BY <1>2
<1>8. ASSUME NEW k \in S PROVE m <= k
  <2>1. CASE k <= n
    BY <1>2, <1>6, <2>1
  <2>2. CASE ~(k <= n)
    <3>1. m \in Nat /\ n \in Nat /\ k \in Nat
      BY <1>1, <1>7
    <3> QED
      BY <1>7, <2>2, <3>1
  <2> QED
    BY <2>1, <2>2
<1> QED
  BY <1>7, <1>8

-----------------------------------------------------------------------------
(* The gateway fee that refunds leave with the platform                    *)

\* The share of the fee that refunds of a total amount leave with the platform.
FeeShare(total) == Cents(GatewayFee * total, PaymentAmount)

FeeShape ==
    /\ refundedPart \in 0 .. PaymentAmount /\ keptFee \in Nat /\ feeRaced \in BOOLEAN
    /\ feeCall \in [FeeRefunds -> [pc : {"idle", "open"}, total : 0 .. PaymentAmount, seen : Nat]]

\* A transaction that no other overlaps has read the fee kept so far, for the total that
\* is now refunded; between transactions the fee kept is the share of that total.
FeeFits ==
    /\ (\A r \in FeeRefunds : feeCall[r].pc = "idle") => keptFee = FeeShare(refundedPart)
    /\ \A r \in FeeRefunds : feeCall[r].pc = "open" =>
          /\ \A q \in FeeRefunds \ {r} : feeCall[q].pc = "idle"
          /\ feeCall[r].total = refundedPart /\ feeCall[r].seen = keptFee
          /\ keptFee <= FeeShare(refundedPart)

FeeInv == FeeShape /\ (~feeRaced => FeeFits)

\* The share is an amount, nothing for nothing, and grows with the refunds.
LEMMA ShareGrows ==
    /\ \A t \in 0 .. PaymentAmount : FeeShare(t) \in Nat
    /\ FeeShare(0) = 0
    /\ \A t, u \in 0 .. PaymentAmount : t <= u => FeeShare(t) <= FeeShare(u)
<1>1. PICK A \in Nat \ {0} : A = PaymentAmount
  BY GatewayConstants
<1>2. PICK G \in Nat : G = GatewayFee
  BY GatewayConstants
<1>3. PICK D \in Nat \ {0} : D = 2 * A
  OBVIOUS
<1>4. \A x \in Nat : x \div D \in Nat
  OBVIOUS
<1>5. \A x, y \in Nat : x <= y => x \div D <= y \div D
  OBVIOUS
<1>6. A \div D = 0
  BY <1>3
<1>7. \A t \in 0 .. A : 2 * (G * t) + A \in Nat
  OBVIOUS
<1>8. \A t, u \in 0 .. A : t <= u => 2 * (G * t) + A <= 2 * (G * u) + A
  <2>1. ASSUME NEW t \in 0 .. A, NEW u \in 0 .. A, t <= u PROVE G * t <= G * u
    BY <2>1
  <2>2. \A t \in 0 .. A : G * t \in Int
    OBVIOUS
  <2> QED
    BY <2>1, <2>2
<1>9. \A t : FeeShare(t) = (2 * (G * t) + A) \div D
  BY <1>1, <1>2, <1>3 DEF FeeShare, Cents
<1>10. ASSUME NEW t \in 0 .. A PROVE FeeShare(t) \in Nat
  BY <1>4, <1>7, <1>9
<1>11. FeeShare(0) = 0
  <2>1. 2 * (G * 0) + A = A
    OBVIOUS
  <2> QED
    BY <1>6, <1>9, <2>1
<1>12. ASSUME NEW t \in 0 .. A, NEW u \in 0 .. A, t <= u PROVE FeeShare(t) <= FeeShare(u)
  <2>1. 2 * (G * t) + A <= 2 * (G * u) + A
    BY <1>8, <1>12
  <2> QED
    BY <1>5, <1>7, <1>9, <2>1
<1> QED
  BY <1>1, <1>10, <1>11, <1>12

LEMMA FeeInvInit == GatewayInit => FeeInv
<1> SUFFICES ASSUME GatewayInit PROVE FeeInv
  OBVIOUS
<1>1. FeeShape
  <2>1. 0 \in 0 .. PaymentAmount /\ 0 \in Nat
    BY GatewayConstants
  <2>2. feeCall = [r \in FeeRefunds |-> [pc |-> "idle", total |-> 0, seen |-> 0]]
    BY DEF GatewayInit
  <2>3. refundedPart = 0 /\ keptFee = 0 /\ feeRaced = FALSE
    BY DEF GatewayInit
  <2> QED
    BY <2>1, <2>2, <2>3 DEF FeeShape
<1>2. FeeFits
  BY ShareGrows DEF GatewayInit, FeeFits
<1> QED
  BY <1>1, <1>2 DEF FeeInv

\* The first half of a refund: its total is known, and the fee kept so far is read.
LEMMA FeeReadStep ==
    ASSUME FeeInv, NEW r \in FeeRefunds, NEW amount \in RefundParts, FeeRead(r, amount)
    PROVE  FeeInv'
<1>1. FeeShape
  BY DEF FeeInv
<1>2. PICK t \in 0 .. PaymentAmount : t = refundedPart + amount /\ refundedPart <= t
  BY <1>1, GatewayConstants DEF FeeShape, FeeRead
<1>3. PICK k \in Nat : k = keptFee
  BY <1>1 DEF FeeShape
<1>4. feeCall' = [feeCall EXCEPT ![r] = [pc |-> "open", total |-> t, seen |-> k]]
  BY <1>2, <1>3 DEF FeeRead
<1>5. /\ feeCall'[r] = [pc |-> "open", total |-> t, seen |-> k]
      /\ \A q \in FeeRefunds : q # r => feeCall'[q] = feeCall[q]
  BY <1>1, <1>4 DEF FeeShape
<1>6. refundedPart' = t /\ keptFee' = k
  BY <1>2, <1>3 DEF FeeRead
<1>7. FeeShape'
  BY <1>1, <1>4, <1>6 DEF FeeShape, FeeRead, FeeOverlap
<1>8. ASSUME ~feeRaced' PROVE FeeFits'
  <2>1. ~feeRaced /\ \A q \in FeeRefunds : feeCall[q].pc = "idle"
    BY <1>1, <1>8 DEF FeeRead, FeeOverlap, FeeShape
  <2>2. k = FeeShare(refundedPart)
    BY <1>3, <2>1 DEF FeeInv, FeeFits
  <2>3. k <= FeeShare(t)
    BY <1>1, <1>2, <2>2, ShareGrows DEF FeeShape
  <2>4. \A q \in FeeRefunds : feeCall'[q].pc = "open" => q = r
    BY <1>5, <2>1
  <2>5. feeCall'[r].pc = "open" /\ feeCall'[r].total = t /\ feeCall'[r].seen = k
    BY <1>5
  <2>6. \A q \in FeeRefunds \ {r} : feeCall'[q].pc = "idle"
    BY <1>5, <2>1
  <2>7. FeeShare(t)' = FeeShare(t)
    BY <1>6 DEF FeeShare, Cents
  <2>8. FeeShare(refundedPart)' = FeeShare(t)
    BY <1>6 DEF FeeShare, Cents
  <2> QED
    BY <1>6, <2>3, <2>4, <2>5, <2>6, <2>8 DEF FeeFits
<1> QED
  BY <1>7, <1>8 DEF FeeInv

\* The second half: what is owed beyond it is recorded.
LEMMA FeeWriteStep ==
    ASSUME FeeInv, NEW r \in FeeRefunds, FeeWrite(r)
    PROVE  FeeInv'
<1>1. FeeShape
  BY DEF FeeInv
<1>2. PICK t \in 0 .. PaymentAmount, s \in Nat, k \in Nat, owed \in Int :
          /\ t = feeCall[r].total /\ s = feeCall[r].seen /\ k = keptFee
          /\ owed = FeeShare(t) - s
          /\ keptFee' = IF owed > 0 THEN k + owed ELSE k
  BY <1>1, ShareGrows DEF FeeShape, FeeWrite, FeeOwed, FeeShare
<1>3. /\ feeCall'[r].pc = "idle"
      /\ \A q \in FeeRefunds : q # r => feeCall'[q] = feeCall[q]
      /\ feeCall' \in [FeeRefunds -> [pc : {"idle", "open"}, total : 0 .. PaymentAmount, seen : Nat]]
  BY <1>1 DEF FeeShape, FeeWrite
<1>4. refundedPart' = refundedPart
  BY DEF FeeWrite
<1>5. FeeShape'
  <2>1. keptFee' \in Nat
    BY <1>2
  <2>2. feeRaced' \in BOOLEAN
    BY <1>1 DEF FeeShape, FeeWrite, FeeOverlap
  <2> QED
    BY <1>1, <1>3, <1>4, <2>1, <2>2 DEF FeeShape
<1>6. ASSUME ~feeRaced' PROVE FeeFits'
  <2>1. ~feeRaced /\ \A q \in FeeRefunds \ {r} : feeCall[q].pc # "open"
    BY <1>6 DEF FeeWrite, FeeOverlap
  <2>2. \A q \in FeeRefunds : feeCall'[q].pc = "idle"
    BY <1>1, <1>3, <2>1 DEF FeeShape
  <2>3. t = refundedPart /\ s = k /\ k <= FeeShare(refundedPart)
    BY <1>2, <2>1 DEF FeeInv, FeeFits, FeeWrite
  <2>4. FeeShare(refundedPart) \in Nat
    BY <1>1, ShareGrows DEF FeeShape
  <2>5. keptFee' = FeeShare(refundedPart)
    BY <1>2, <2>3, <2>4
  <2>6. FeeShare(refundedPart)' = FeeShare(refundedPart)
    BY <1>4 DEF FeeShare, Cents
  <2> QED
    BY <2>2, <2>5, <2>6 DEF FeeFits
<1> QED
  BY <1>5, <1>6 DEF FeeInv

LEMMA FeeInvStep == FeeInv /\ [FeeNext]_feeVars => FeeInv'
<1> SUFFICES ASSUME FeeInv, [FeeNext]_feeVars PROVE FeeInv'
  OBVIOUS
<1>1. CASE UNCHANGED feeVars
  BY <1>1 DEF FeeInv, FeeShape, FeeFits, FeeShare, Cents, feeVars
<1> QED
  BY <1>1, FeeReadStep, FeeWriteStep DEF FeeNext

-----------------------------------------------------------------------------
(* Checkouts, sessions and what the gateways report of them                *)

Named == {t[1] : t \in Tries} \cup {NoGateway}
Sessions == Checkouts \X Gateways
CallState ==
    [pc : {"idle", "calling", "answered", "failed"}, provider : Named,
     method : {t[2] : t \in Tries} \cup {NoGateway}, at : Named \cup Gateways, last : BOOLEAN,
     session : Checkouts \X (Gateways \cup {"MOCK", NoGateway}), creates : BOOLEAN]

GatewayShape ==
    /\ env \in [keys : SUBSET Gateways, secrets : SUBSET Gateways, production : BOOLEAN]
    /\ gwClock \in 0 .. MaxGatewayTime /\ degraded \in [Gateways -> 0 .. MaxGatewayTime + 1]
    /\ checkout \in [Checkouts -> CallState]
    /\ session \in [Sessions -> {"none", "open", "paid", "expired"}]
    /\ payRow \in [status : {"none", "PENDING", "COMPLETED", "FAILED", "REFUNDED"},
                   provider : Named \cup Gateways]
    /\ payOrder \in {"none", "PENDING", "PROCESSING", "FAILED", "CANCELLED"}
    /\ recorded \in BOOLEAN

\* A call that waits is at a configured gateway; one that was answered has an open page there, or
\* is the mock's because the method it was made for has no key.
CheckoutCallFits(call) ==
    /\ call.pc = "calling" => call.at \in env.keys
    /\ call.pc = "answered" =>
          \/ /\ call.at \in env.keys /\ call.session \in Sessions
             /\ call.session[2] = call.at /\ session[call.session] # "none"
          \/ call.provider \notin env.keys /\ call.session[2] = "MOCK"

\* The only checkout there is wrote the gateway that answered it.
Alone(c) == \A d \in Checkouts \ {c} : checkout[d].pc = "idle"
AnswerIsWritten ==
    \A c \in Checkouts : checkout[c].pc = "answered" /\ checkout[c].at \in env.keys /\ Alone(c)
        => payRow.provider = checkout[c].at

CallsFit ==
    /\ \A c \in Checkouts : CheckoutCallFits(checkout[c])
    /\ AnswerIsWritten
    /\ \A s \in Sessions : session[s] = "paid" =>
          \E c \in Checkouts : checkout[c].pc = "answered" /\ checkout[c].session = s

EventId(n) == <<n[1][2], ParseEvent(n[1], n[2]).key>>
Pays(n) == n[2] \in PaidEvents(n[1][2]) /\ n[2] # "payment_intent.succeeded"

\* An event is about a session that ended so; the key of an event is that of no event which
\* says otherwise, so a key that was processed stands for what was recorded.
NoticesAreTrue ==
    /\ \A n \in notices :
          /\ n[1] \in Sessions
          /\ \/ n[2] \in PaidEvents(n[1][2]) /\ session[n[1]] = "paid"
             \/ n[2] = "payment_session.expired" /\ n[1][2] = "XENDIT" /\ session[n[1]] = "expired"
    /\ \A id \in handled : \E n \in notices : id = EventId(n) /\ (Pays(n) => recorded)

MoneyIsReal ==
    /\ payRow.status \in {"COMPLETED", "REFUNDED"} => recorded
    /\ acked # {} => recorded
    /\ SecretsAreSet /\ recorded => \E s \in Sessions : session[s] = "paid"
    /\ taker \in Gateways => \E s \in Sessions : session[s] = "paid" /\ s[2] = taker

CheckoutInv == GatewayShape /\ CallsFit /\ NoticesAreTrue /\ MoneyIsReal

LEMMA CheckoutInvInit == GatewayInit => CheckoutInv
<1> SUFFICES ASSUME GatewayInit PROVE CheckoutInv
  OBVIOUS
<1>1. GatewayShape
  <2>1. checkout \in [Checkouts -> CallState]
    BY DEF GatewayInit, CallState, Named
  <2>2. env \in [keys : SUBSET Gateways, secrets : SUBSET Gateways, production : BOOLEAN]
    BY GatewayConstants DEF GatewayInit, Gateways
  <2>3. session \in [Sessions -> {"none", "open", "paid", "expired"}]
    BY DEF GatewayInit, Sessions
  <2>4. degraded \in [Gateways -> 0 .. MaxGatewayTime + 1] /\ gwClock \in 0 .. MaxGatewayTime
    BY GatewayConstants DEF GatewayInit
  <2> QED
    BY <2>1, <2>2, <2>3, <2>4 DEF GatewayInit, GatewayShape, Named
<1>2. CallsFit
  BY DEF GatewayInit, CallsFit, CheckoutCallFits, AnswerIsWritten, Sessions
<1>3. NoticesAreTrue /\ MoneyIsReal
  BY GatewayConstants DEF GatewayInit, NoticesAreTrue, MoneyIsReal, Gateways
<1> QED
  BY <1>1, <1>2, <1>3 DEF CheckoutInv

\* What takes the place of a gateway is another one, healthy, and there is one as long as any
\* other is.
LEMMA FallbackIsHealthy ==
    ASSUME GatewayShape, NEW g, NEW m, NEW d
    PROVE  /\ Fallback(g, m, d) # NoGateway =>
                 /\ Fallback(g, m, d) \in Gateways \ {g} /\ Healthy(Fallback(g, m, d), d)
                 /\ Fallback(g, m, d) \in env.keys
           /\ Fallback(g, m, d) = NoGateway => \A h \in Gateways \ {g} : ~Healthy(h, d)
<1> DEFINE others == {h \in Gateways \ {g} : Healthy(h, d)}
<1>1. NoGateway \notin Gateways
  BY GatewayConstants DEF Gateways
<1>2. CASE others = {}
  BY <1>2 DEF Fallback
<1>3. CASE others # {} /\ Partner(g, m) \in others
  BY <1>1, <1>3 DEF Fallback, Healthy
<1>4. CASE others # {} /\ Partner(g, m) \notin others
  <2>1. Fallback(g, m, d) = CHOOSE h \in others : \A k \in others : Rank(h) <= Rank(k)
    BY <1>4 DEF Fallback
  <2>2. \E h \in others : \A k \in others : Rank(h) <= Rank(k)
    <3>1. others \subseteq {"PAYMONGO", "XENDIT", "STRIPE"}
      BY DEF Gateways
    <3>2. Rank("PAYMONGO") = 1 /\ Rank("XENDIT") = 2 /\ Rank("STRIPE") = 3
      BY DEF Rank
    <3> HIDE DEF others
    <3>3. CASE "PAYMONGO" \in others
      <4>1. \A k \in others : Rank("PAYMONGO") <= Rank(k)
        BY <3>1, <3>2
      <4> QED
        BY <3>3, <4>1
    <3>4. CASE "PAYMONGO" \notin others /\ "XENDIT" \in others
      <4>1. \A k \in others : Rank("XENDIT") <= Rank(k)
        BY <3>1, <3>2, <3>4
      <4> QED
        BY <3>4, <4>1
    <3>5. CASE "PAYMONGO" \notin others /\ "XENDIT" \notin others
      <4>1. \A k \in others : k = "STRIPE"
        BY <3>1, <3>5
      <4> QED
        BY <1>4, <3>2, <4>1
    <3> QED
      BY <3>3, <3>4, <3>5
  <2>3. Fallback(g, m, d) \in others
    BY <2>1, <2>2
  <2> QED
    BY <1>1, <2>3 DEF Healthy
<1> QED
  BY <1>2, <1>3, <1>4

\* A session that is opened or left alone.
Opens(old, new) ==
    /\ new \in [Sessions -> {"none", "open", "paid", "expired"}]
    /\ \A s \in Sessions : new[s] = old[s] \/ (old[s] = "none" /\ new[s] = "open")

\* A call begins, goes on or ends; the promise to its caller is kept by what it writes.
LEMMA CallMoves ==
    ASSUME CheckoutInv, NEW c \in Checkouts, NEW next \in CallState,
           checkout' = [checkout EXCEPT ![c] = next],
           next.pc # "idle", checkout[c].pc # "answered",
           Opens(session, session'), NEW keys, keys = env.keys,
           next.pc = "calling" => next.at \in keys,
           next.pc = "answered" =>
              \/ /\ next.at \in keys /\ next.session \in Sessions
                 /\ next.session[2] = next.at /\ session'[next.session] # "none"
                 /\ payRow'.provider = next.at
              \/ next.at \notin keys /\ next.provider \notin keys /\ next.session[2] = "MOCK",
           payRow' \in [status : {"none", "PENDING", "COMPLETED", "FAILED", "REFUNDED"},
                        provider : Named \cup Gateways],
           payRow'.status = payRow.status \/ payRow'.status = "PENDING",
           payOrder' \in {"none", "PENDING", "PROCESSING", "FAILED", "CANCELLED"},
           degraded' \in [Gateways -> 0 .. MaxGatewayTime + 1],
           UNCHANGED <<env, gwClock, notices, handled, taker, acked, recorded>>
    PROVE  CheckoutInv'
<1>1. GatewayShape /\ CallsFit /\ NoticesAreTrue /\ MoneyIsReal
  BY DEF CheckoutInv
<1>2. checkout'[c] = next /\ \A d \in Checkouts : d # c => checkout'[d] = checkout[d]
  BY <1>1 DEF GatewayShape
<1>3. /\ session' \in [Sessions -> {"none", "open", "paid", "expired"}]
      /\ \A s \in Sessions : session'[s] = session[s] \/ (session[s] = "none" /\ session'[s] = "open")
  BY DEF Opens
<1>4. GatewayShape'
  <2>1. checkout' \in [Checkouts -> CallState]
    BY <1>1 DEF GatewayShape
  <2> QED
    BY <1>1, <1>3, <2>1 DEF GatewayShape
<1>5. \A s \in Sessions : session'[s] = "paid" <=> session[s] = "paid"
  BY <1>3
<1>6. CallsFit'
  <2>1. env' = env /\ env'.keys = keys
    OBVIOUS
  <2>2. ASSUME NEW d \in Checkouts PROVE CheckoutCallFits(checkout[d])'
    <3>1. CASE d = c
      BY <1>2, <2>1, <3>1 DEF CheckoutCallFits
    <3>2. CASE d # c
      <4>1. CheckoutCallFits(checkout[d]) /\ checkout'[d] = checkout[d]
        BY <1>1, <1>2, <3>2 DEF CallsFit
      <4> QED
        BY <1>3, <2>1, <4>1 DEF CheckoutCallFits
    <3> QED
      BY <3>1, <3>2
  <2>3. AnswerIsWritten'
    <3>1. ASSUME NEW d \in Checkouts, checkout'[d].pc = "answered", checkout'[d].at \in keys, Alone(d)'
          PROVE  payRow'.provider = checkout'[d].at
      <4>1. d = c
        BY <1>2, <3>1 DEF Alone
      <4> QED
        BY <1>2, <3>1, <4>1
    <3> QED
      BY <2>1, <3>1 DEF AnswerIsWritten
  <2>4. ASSUME NEW s \in Sessions, session'[s] = "paid"
        PROVE  \E d \in Checkouts : checkout'[d].pc = "answered" /\ checkout'[d].session = s
    <3>1. PICK d \in Checkouts : checkout[d].pc = "answered" /\ checkout[d].session = s
      BY <1>1, <1>5, <2>4 DEF CallsFit
    <3> QED
      BY <1>2, <3>1
  <2> QED
    BY <2>2, <2>3, <2>4 DEF CallsFit
<1>7. NoticesAreTrue'
  BY <1>1, <1>3, <1>5 DEF NoticesAreTrue, EventId, ParseEvent, Pays, PaidEvents
<1>8. MoneyIsReal'
  BY <1>1, <1>5 DEF MoneyIsReal, SecretsAreSet
<1> QED
  BY <1>4, <1>6, <1>7, <1>8 DEF CheckoutInv

\* Where a checkout is called: at the gateway of its method or, unless that is healthy, at its
\* replacement.
LEMMA FirstIsConfigured ==
    ASSUME GatewayShape, NEW p \in Named, NEW m
    PROVE  /\ FirstGateway(p, m) \in Named \cup Gateways
           /\ p \in env.keys => FirstGateway(p, m) \in env.keys
           /\ \A g : g \in env.keys => Adapter(g) = g /\ g # "MOCK" /\ g \in Gateways
           /\ \A g : g \notin env.keys => Adapter(g) = "MOCK"
<1>1. env.keys \subseteq Gateways
  BY DEF GatewayShape
<1>2. "MOCK" \notin Gateways
  BY DEF Gateways
<1>3. \/ FirstGateway(p, m) = p
      \/ FirstGateway(p, m) = Fallback(p, m, degraded) /\ Fallback(p, m, degraded) # NoGateway
  BY DEF FirstGateway
<1>4. FirstGateway(p, m) = p \/ FirstGateway(p, m) \in env.keys
  BY <1>3, FallbackIsHealthy
<1> QED
  BY <1>1, <1>2, <1>4 DEF Adapter

LEMMA CheckoutBeginsStep ==
    ASSUME CheckoutInv, NEW c \in Checkouts, NEW t \in Tries, NEW creates \in BOOLEAN,
           CheckoutBegins(c, t[1], t[2], creates),
           payOrder' \in {"none", "PENDING", "PROCESSING", "FAILED", "CANCELLED"}
    PROVE  CheckoutInv'
<1>1. GatewayShape
  BY DEF CheckoutInv
<1>2. PICK p \in Named, m \in {u[2] : u \in Tries} \cup {NoGateway}, g \in Named \cup Gateways,
           keys \in SUBSET Gateways :
         p = t[1] /\ m = t[2] /\ g = FirstGateway(p, m) /\ keys = env.keys
  <2>1. t[1] \in Named
    BY DEF Named
  <2> QED
    BY <1>1, <2>1, FirstIsConfigured DEF GatewayShape
<1>3. (p \in keys => g \in keys) /\ (Adapter(g) = "MOCK" <=> g \notin keys)
  BY <1>1, <1>2, FirstIsConfigured
<1>4. PICK sent \in CallState :
        /\ sent = [pc |-> IF g \in keys THEN "calling" ELSE "answered", provider |-> p, method |-> m,
                   at |-> g, last |-> g # p,
                   session |-> <<c, IF g \in keys THEN g ELSE "MOCK">>, creates |-> creates]
        /\ checkout' = [checkout EXCEPT ![c] = sent]
  <2> DEFINE sent == [pc |-> IF g \in keys THEN "calling" ELSE "answered", provider |-> p, method |-> m,
                   at |-> g, last |-> g # p,
                   session |-> <<c, IF g \in keys THEN g ELSE "MOCK">>, creates |-> creates]
  <2>1. sent \in CallState
    BY DEF CallState
  <2>2. checkout' = [checkout EXCEPT ![c] = sent]
    <3>1. CASE g \in keys
      BY <1>2, <1>3, <3>1 DEF CheckoutBegins, Calling
    <3>2. CASE g \notin keys
      <4>1. [pc |-> "calling", provider |-> p, method |-> m, at |-> g, last |-> g # p,
             session |-> <<c, "MOCK">>, creates |-> creates] \in CallState
        BY DEF CallState
      <4>2. PICK call \in CallState : call = Calling(p, m, g, <<c, "MOCK">>, creates)
        BY <4>1 DEF Calling
      <4>3. checkout' = [checkout EXCEPT ![c] = [call EXCEPT !.pc = "answered"]]
        BY <1>2, <1>3, <3>2, <4>2 DEF CheckoutBegins
      <4>4. sent.session = <<c, "MOCK">> /\ sent.pc = "answered"
        BY <3>2
      <4>5. [call EXCEPT !.pc = "answered"] = sent
        BY <3>2, <4>2 DEF Calling, CallState
      <4> QED
        BY <4>3, <4>5
    <3> QED
      BY <3>1, <3>2
  <2> QED
    BY <2>1, <2>2
<1>5. /\ sent.pc # "idle" /\ (sent.pc = "calling" <=> g \in keys) /\ (sent.pc = "answered" <=> g \notin keys)
      /\ sent.at = g /\ sent.provider = p /\ (g \notin keys => sent.session[2] = "MOCK")
  BY <1>4
<1>6. /\ payRow' \in [status : {"none", "PENDING", "COMPLETED", "FAILED", "REFUNDED"},
                      provider : Named \cup Gateways]
      /\ payRow'.status = payRow.status \/ payRow'.status = "PENDING"
  BY <1>1, <1>2 DEF CheckoutBegins, RetriedRow, GatewayShape
<1>7. Opens(session, session')
  BY <1>1 DEF Opens, CheckoutBegins, GatewayShape
<1>8. checkout[c].pc # "answered"
  BY DEF CheckoutBegins
<1>9. /\ degraded' \in [Gateways -> 0 .. MaxGatewayTime + 1]
      /\ UNCHANGED <<env, gwClock, notices, handled, taker, acked, recorded>>
  BY <1>1 DEF CheckoutBegins, GatewayShape
<1>10. sent.pc = "answered" => sent.at \notin keys /\ sent.provider \notin keys /\ sent.session[2] = "MOCK"
  BY <1>3, <1>5
<1> QED
  BY <1>2, <1>4, <1>5, <1>6, <1>7, <1>8, <1>9, <1>10, CallMoves

\* The session a call gets or may have left behind is at the gateway it was made to.
LEMMA SessionIsThere ==
    ASSUME GatewayShape, NEW c \in Checkouts, NEW g \in Gateways
    PROVE  /\ SessionOf(c, g) \in Sessions /\ SessionOf(c, g)[2] = g
           /\ Opens(session, Opened(SessionOf(c, g))) /\ Opens(session, session)
           /\ Opened(SessionOf(c, g))[SessionOf(c, g)] # "none"
<1>1. SessionOf(c, g) \in Sessions /\ SessionOf(c, g)[2] = g
  <2>1. CASE g = "STRIPE" /\ \E b \in Checkouts : session[<<b, g>>] # "none"
    <3>1. SessionOf(c, g) = CHOOSE s \in Checkouts \X {g} : session[s] # "none"
      BY <2>1 DEF SessionOf
    <3>2. \E s \in Checkouts \X {g} : session[s] # "none"
      BY <2>1
    <3>3. SessionOf(c, g) \in Checkouts \X {g}
      BY <3>1, <3>2
    <3> QED
      BY <3>3 DEF Sessions
  <2>2. CASE ~(g = "STRIPE" /\ \E b \in Checkouts : session[<<b, g>>] # "none")
    BY <2>2 DEF SessionOf, Sessions
  <2> QED
    BY <2>1, <2>2
<1>2. PICK s \in Sessions : s = SessionOf(c, g)
  BY <1>1
<1>3. Opens(session, Opened(s)) /\ Opens(session, session) /\ Opened(s)[s] # "none"
  BY DEF Opens, Opened, GatewayShape
<1> QED
  BY <1>1, <1>2, <1>3

LEMMA GatewayAnswersStep ==
    ASSUME CheckoutInv, NEW c \in Checkouts, GatewayAnswers(c)
    PROVE  CheckoutInv'
<1>1. GatewayShape /\ CheckoutCallFits(checkout[c]) /\ checkout[c] \in CallState
  BY DEF CheckoutInv, CallsFit, GatewayShape
<1>2. PICK call \in CallState, keys \in SUBSET Gateways : call = checkout[c] /\ keys = env.keys
  BY <1>1 DEF GatewayShape
<1>3. call.pc = "calling" /\ call.at \in keys /\ call.at \in Gateways
  BY <1>1, <1>2 DEF GatewayAnswers, CheckoutCallFits
<1>4. PICK s \in Sessions :
        /\ s = SessionOf(c, call.at) /\ s[2] = call.at
        /\ Opens(session, Opened(s)) /\ Opened(s)[s] # "none"
  BY <1>1, <1>3, SessionIsThere
<1>5. session' = Opened(s) /\ Answered(c, call.at, s)
  BY <1>2, <1>4 DEF GatewayAnswers
<1>6. PICK next \in CallState :
        /\ next.pc = "answered" /\ next.session = s /\ next.at = call.at
        /\ checkout' = [checkout EXCEPT ![c] = next]
  <2>1. s \in Checkouts \X (Gateways \cup {"MOCK", NoGateway})
    BY DEF Sessions
  <2>2. PICK next \in CallState : next = [call EXCEPT !.pc = "answered", !.session = s]
    BY <2>1 DEF CallState
  <2>3. next.pc = "answered" /\ next.session = s /\ next.at = call.at
    BY <2>2 DEF CallState
  <2>4. checkout' = [checkout EXCEPT ![c] = next]
    BY <1>2, <1>5, <2>2 DEF Answered
  <2> QED
    BY <2>3, <2>4
<1>7. /\ payRow' \in [status : {"none", "PENDING", "COMPLETED", "FAILED", "REFUNDED"},
                      provider : Named \cup Gateways]
      /\ payRow'.status = payRow.status \/ payRow'.status = "PENDING"
      /\ payRow'.provider = call.at
  BY <1>1, <1>3, <1>5 DEF Answered, PlacedRow, RetriedRow, GatewayShape
<1>8. checkout[c].pc # "answered"
  BY <1>2, <1>3
<1>9. /\ payOrder' \in {"none", "PENDING", "PROCESSING", "FAILED", "CANCELLED"}
      /\ degraded' \in [Gateways -> 0 .. MaxGatewayTime + 1]
      /\ UNCHANGED <<env, gwClock, notices, handled, taker, acked, recorded>>
  BY <1>1 DEF GatewayAnswers, GatewayShape
<1>10. /\ next.at \in keys /\ next.session \in Sessions
       /\ next.session[2] = next.at /\ session'[next.session] # "none" /\ payRow'.provider = next.at
  BY <1>3, <1>4, <1>5, <1>6, <1>7
<1>11. Opens(session, session') /\ next.pc # "idle" /\ next.pc # "calling"
  BY <1>4, <1>5, <1>6
<1> QED
  BY <1>2, <1>6, <1>7, <1>8, <1>9, <1>10, <1>11, CallMoves

LEMMA GatewayFailsStep ==
    ASSUME CheckoutInv, NEW c \in Checkouts, GatewayFails(c)
    PROVE  CheckoutInv'
<1>1. GatewayShape /\ CheckoutCallFits(checkout[c]) /\ checkout[c] \in CallState
  BY DEF CheckoutInv, CallsFit, GatewayShape
<1>2. PICK call \in CallState, keys \in SUBSET Gateways : call = checkout[c] /\ keys = env.keys
  BY <1>1 DEF GatewayShape
<1>3. call.pc = "calling" /\ call.at \in keys /\ call.at \in Gateways
  BY <1>1, <1>2 DEF GatewayFails, CheckoutCallFits
<1>4. degraded' \in [Gateways -> 0 .. MaxGatewayTime + 1]
  BY <1>1, <1>2, <1>3, GatewayConstants DEF GatewayFails, GatewayShape
<1>5. PICK replaced : /\ replaced \in keys \cup {NoGateway}
                      /\ replaced = IF call.last THEN NoGateway ELSE Fallback(call.at, call.method, degraded')
  BY <1>1, <1>2, FallbackIsHealthy
<1>6. checkout' = [checkout EXCEPT ![c] =
                     IF replaced # NoGateway
                     THEN [@ EXCEPT !.at = replaced, !.last = TRUE, !.session = <<c, replaced>>]
                     ELSE [@ EXCEPT !.pc = "failed"]]
  BY <1>2, <1>5 DEF GatewayFails
<1>7. PICK next \in CallState :
        /\ next.pc \in {"calling", "failed"} /\ (next.pc = "calling" => next.at \in keys)
        /\ checkout' = [checkout EXCEPT ![c] = next]
  <2>1. CASE replaced # NoGateway
    <3>1. PICK next \in CallState : next = [call EXCEPT !.at = replaced, !.last = TRUE, !.session = <<c, replaced>>]
      BY <1>5, <2>1 DEF CallState
    <3>2. next.pc = "calling" /\ next.at \in keys
      BY <1>3, <1>5, <2>1, <3>1 DEF CallState
    <3>3. checkout' = [checkout EXCEPT ![c] = next]
      BY <1>2, <1>6, <2>1, <3>1
    <3> QED
      BY <3>2, <3>3
  <2>2. CASE replaced = NoGateway
    <3>1. PICK next \in CallState : next = [call EXCEPT !.pc = "failed"]
      BY DEF CallState
    <3>2. next.pc = "failed"
      BY <3>1 DEF CallState
    <3>3. checkout' = [checkout EXCEPT ![c] = next]
      BY <1>2, <1>6, <2>2, <3>1
    <3> QED
      BY <3>2, <3>3
  <2> QED
    BY <2>1, <2>2
<1>8. Opens(session, session')
  BY <1>1, <1>2, <1>3, SessionIsThere DEF GatewayFails
<1>9. /\ payRow' \in [status : {"none", "PENDING", "COMPLETED", "FAILED", "REFUNDED"},
                      provider : Named \cup Gateways]
      /\ payRow'.status = payRow.status
      /\ payOrder' \in {"none", "PENDING", "PROCESSING", "FAILED", "CANCELLED"}
      /\ UNCHANGED <<env, gwClock, notices, handled, taker, acked, recorded>>
  BY <1>1 DEF GatewayFails, GatewayShape
<1>10. next.pc # "idle" /\ next.pc # "answered" /\ checkout[c].pc # "answered"
  BY <1>2, <1>3, <1>7
<1> QED
  BY <1>2, <1>4, <1>7, <1>8, <1>9, <1>10, CallMoves

\* The order is written without a checkout: the payment keeps its gateway.
LEMMA RowsMove ==
    ASSUME CheckoutInv, NEW row \in [status : {"none", "PENDING", "COMPLETED", "FAILED", "REFUNDED"},
                                     provider : Named \cup Gateways],
           payRow' = row, row.provider = payRow.provider,
           row.status \in {"COMPLETED", "REFUNDED"} => recorded',
           payOrder' \in {"none", "PENDING", "PROCESSING", "FAILED", "CANCELLED"},
           recorded' \in BOOLEAN, recorded => recorded', acked' # {} => recorded',
           SecretsAreSet /\ recorded' => \E s \in Sessions : session[s] = "paid",
           taker' \in Gateways => \E s \in Sessions : session[s] = "paid" /\ s[2] = taker',
           \A id \in handled' : id \in handled \/
                                \E n \in notices : id = EventId(n) /\ (Pays(n) => recorded'),
           UNCHANGED <<env, gwClock, degraded, checkout, session, notices>>
    PROVE  CheckoutInv'
<1>1. GatewayShape /\ CallsFit /\ NoticesAreTrue /\ MoneyIsReal
  BY DEF CheckoutInv
<1>2. GatewayShape'
  BY <1>1 DEF GatewayShape
<1>3. CallsFit'
  BY <1>1 DEF CallsFit, CheckoutCallFits, AnswerIsWritten, Alone
<1>4. NoticesAreTrue'
  <2>1. ASSUME NEW id \in handled' PROVE \E n \in notices : id = EventId(n) /\ (Pays(n) => recorded')
    BY <1>1 DEF NoticesAreTrue
  <2>2. \A n : EventId(n)' = EventId(n) /\ (Pays(n)' <=> Pays(n))
    BY DEF EventId, Pays, ParseEvent, PaidEvents
  <2>3. ASSUME NEW n \in notices'
        PROVE  /\ n[1] \in Sessions
               /\ \/ n[2] \in PaidEvents(n[1][2]) /\ session'[n[1]] = "paid"
                  \/ n[2] = "payment_session.expired" /\ n[1][2] = "XENDIT" /\ session'[n[1]] = "expired"
    BY <1>1 DEF NoticesAreTrue
  <2> QED
    BY <2>1, <2>3 DEF NoticesAreTrue, EventId, Pays, ParseEvent, PaidEvents
<1>5. MoneyIsReal'
  BY DEF MoneyIsReal, SecretsAreSet
<1> QED
  BY <1>2, <1>3, <1>4, <1>5 DEF CheckoutInv

LEMMA OrderLapsesStep == ASSUME CheckoutInv, OrderLapses PROVE CheckoutInv'
<1>1. GatewayShape /\ MoneyIsReal
  BY DEF CheckoutInv
<1>2. PICK row \in [status : {"none", "PENDING", "COMPLETED", "FAILED", "REFUNDED"},
                    provider : Named \cup Gateways] :
        /\ payRow' = row /\ row.provider = payRow.provider
        /\ row.status \in {"COMPLETED", "REFUNDED"} => row.status = payRow.status
  BY <1>1 DEF OrderLapses, GatewayShape
<1> QED
  BY <1>1, <1>2, RowsMove DEF OrderLapses, GatewayShape, MoneyIsReal

\* A success is applied for a session that is paid, or for a call that verified without a signature.
LEMMA SuccessStep ==
    ASSUME CheckoutInv, NEW g, ApplySuccess(g),
           SecretsAreSet => \E s \in Sessions : session[s] = "paid",
           g \in Gateways => \E s \in Sessions : session[s] = "paid" /\ s[2] = g,
           \A id \in handled' : id \in handled \/ \E n \in notices : id = EventId(n),
           UNCHANGED <<env, gwClock, degraded, checkout, session, notices>>
    PROVE  CheckoutInv'
<1>1. GatewayShape /\ MoneyIsReal
  BY DEF CheckoutInv
<1>2. PICK row \in [status : {"none", "PENDING", "COMPLETED", "FAILED", "REFUNDED"},
                    provider : Named \cup Gateways] :
        payRow' = row /\ row.provider = payRow.provider
  BY <1>1 DEF ApplySuccess, GatewayShape
<1>3. payOrder' \in {"none", "PENDING", "PROCESSING", "FAILED", "CANCELLED"}
  BY <1>1 DEF ApplySuccess, GatewayShape
<1>4. recorded' = TRUE /\ taker' = g
  BY DEF ApplySuccess
<1> QED
  BY <1>2, <1>3, <1>4, RowsMove

\* Events of one session with one key agree on whether it was paid.
LEMMA KeysAgree ==
    ASSUME CheckoutInv, NEW n \in notices, NEW k \in notices, EventId(n) = EventId(k), Pays(n)
    PROVE  Pays(k)
<1>1. NoticesAreTrue
  BY DEF CheckoutInv
<1>2. PICK s \in Sessions, e \in {n[2]} : s = n[1] /\ e = n[2]
  BY <1>1 DEF NoticesAreTrue
<1>3. PICK t \in Sessions, f \in {k[2]} : t = k[1] /\ f = k[2]
  BY <1>1 DEF NoticesAreTrue
<1>4. PICK g \in Gateways, h \in Gateways : g = s[2] /\ h = t[2]
  BY DEF Sessions
<1>5. EventId(n) = <<g, IF g = "XENDIT" THEN <<s>> ELSE <<s, e>>>>
  BY <1>2, <1>4 DEF EventId, ParseEvent
<1>6. EventId(k) = <<h, IF h = "XENDIT" THEN <<t>> ELSE <<t, f>>>>
  BY <1>3, <1>4 DEF EventId, ParseEvent
<1>7. g = h /\ (IF g = "XENDIT" THEN <<s>> ELSE <<s, e>>) = (IF h = "XENDIT" THEN <<t>> ELSE <<t, f>>)
  <2>1. PICK x : x = IF g = "XENDIT" THEN <<s>> ELSE <<s, e>>
    OBVIOUS
  <2>2. PICK y : y = IF h = "XENDIT" THEN <<t>> ELSE <<t, f>>
    OBVIOUS
  <2>3. <<g, x>> = <<h, y>>
    BY <1>5, <1>6, <2>1, <2>2
  <2>4. g = h /\ x = y
    BY <2>3
  <2> QED
    BY <2>1, <2>2, <2>4
<1>8. CASE g = "XENDIT"
  <2>1. s = t
    <3>1. <<s>> = <<t>>
      BY <1>7, <1>8
    <3> QED
      BY <3>1
  <2>2. session[s] = "paid"
    BY <1>1, <1>2, <1>4, <1>8 DEF NoticesAreTrue, Pays, PaidEvents
  <2>3. f \in PaidEvents(h)
    BY <1>1, <1>3, <1>4, <2>1, <2>2 DEF NoticesAreTrue
  <2>4. f = "payment_session.completed"
    BY <1>7, <1>8, <2>3 DEF PaidEvents
  <2> QED
    BY <1>3, <1>4, <2>3, <2>4 DEF Pays
<1>9. CASE g # "XENDIT"
  <2>1. <<s, e>> = <<t, f>>
    BY <1>7, <1>9
  <2>2. e = f
    BY <2>1
  <2> QED
    BY <1>2, <1>3, <1>4, <1>7, <2>2 DEF Pays
<1> QED
  BY <1>8, <1>9

LEMMA DeliverStep ==
    ASSUME CheckoutInv, NEW n \in notices, Deliver(n[1], n[2])
    PROVE  CheckoutInv'
<1>1. GatewayShape /\ NoticesAreTrue /\ MoneyIsReal
  BY DEF CheckoutInv
<1>2. PICK s \in Sessions, e \in {n[2]}, g \in Gateways : s = n[1] /\ e = n[2] /\ g = s[2]
  BY <1>1 DEF NoticesAreTrue, Sessions
<1>3. PICK ev : ev = ParseEvent(s, e)
  OBVIOUS
<1>4. /\ ev.success <=> e \in PaidEvents(g)
      /\ ev.order <=> e # "payment_intent.succeeded"
      /\ EventId(n) = <<g, ev.key>>
      /\ Pays(n) <=> ev.success /\ ev.order
  <2>1. ev.success = (e \in PaidEvents(g)) /\ ev.order = (e # "payment_intent.succeeded")
    BY <1>2, <1>3 DEF ParseEvent
  <2> QED
    BY <1>2, <1>3, <2>1 DEF EventId, Pays
<1>5. /\ handled' = handled \cup {EventId(n)}
      /\ acked' = IF ev.success /\ ev.order THEN acked \cup {s} ELSE acked
      /\ UNCHANGED <<env, gwClock, degraded, checkout, session, notices>>
  BY <1>2, <1>3, <1>4 DEF Deliver
<1>6. \/ EventId(n) \in handled \/ ~ev.order \/ payRow.status = "COMPLETED"
      \/ ev.success \/ ~ev.success
  OBVIOUS
<1>7. CASE EventId(n) \in handled \/ ~ev.order \/ payRow.status = "COMPLETED"
  <2>1. UNCHANGED <<payRow, payOrder, taker, recorded>>
    BY <1>2, <1>3, <1>4, <1>7 DEF Deliver
  <2>2. Pays(n) => recorded
    <3>1. ASSUME Pays(n), EventId(n) \in handled PROVE recorded
      <4>1. PICK k \in notices : EventId(n) = EventId(k) /\ (Pays(k) => recorded)
        BY <1>1, <3>1 DEF NoticesAreTrue
      <4> QED
        BY <3>1, <4>1, KeysAgree
    <3> QED
      BY <1>1, <1>4, <1>7, <3>1 DEF MoneyIsReal
  <2>3. PICK row \in [status : {"none", "PENDING", "COMPLETED", "FAILED", "REFUNDED"},
                      provider : Named \cup Gateways] : row = payRow
    BY <1>1 DEF GatewayShape
  <2>4. acked' # {} => recorded
    BY <1>1, <1>4, <1>5, <2>2 DEF MoneyIsReal
  <2>5. \A id \in handled' : id \in handled \/ \E k \in notices : id = EventId(k) /\ (Pays(k) => recorded')
    BY <1>5, <2>1, <2>2
  <2> QED
    BY <1>1, <1>5, <2>1, <2>3, <2>4, <2>5, RowsMove DEF GatewayShape, MoneyIsReal
<1>8. CASE ~(EventId(n) \in handled \/ ~ev.order \/ payRow.status = "COMPLETED") /\ ev.success
  <2>1. ApplySuccess(g)
    BY <1>2, <1>3, <1>4, <1>8 DEF Deliver
  <2>2. session[s] = "paid"
    BY <1>1, <1>2, <1>4, <1>8 DEF NoticesAreTrue, PaidEvents
  <2> QED
    BY <1>2, <1>5, <2>1, <2>2, SuccessStep
<1>9. CASE ~(EventId(n) \in handled \/ ~ev.order \/ payRow.status = "COMPLETED") /\ ~ev.success
  <2>1. ApplyFailure
    BY <1>2, <1>3, <1>4, <1>9 DEF Deliver
  <2>2. PICK row \in [status : {"none", "PENDING", "COMPLETED", "FAILED", "REFUNDED"},
                      provider : Named \cup Gateways] :
          payRow' = row /\ row.provider = payRow.provider /\ row.status = "FAILED"
    BY <1>1, <2>1 DEF ApplyFailure, GatewayShape
  <2>3. /\ payOrder' \in {"none", "PENDING", "PROCESSING", "FAILED", "CANCELLED"}
        /\ taker' = taker /\ recorded' = recorded /\ acked' = acked
    BY <1>1, <1>5, <1>9, <2>1 DEF ApplyFailure, GatewayShape
  <2>4. \A id \in handled' : id \in handled \/ \E k \in notices : id = EventId(k) /\ (Pays(k) => recorded')
    BY <1>4, <1>5, <1>9
  <2> QED
    BY <1>1, <1>5, <2>2, <2>3, <2>4, RowsMove DEF GatewayShape, MoneyIsReal
<1> QED
  BY <1>7, <1>8, <1>9

\* A call that no gateway signed verifies at the mock outside production or at PayMongo's
\* adapter without a secret.
LEMMA UnsignedWebhookStep ==
    ASSUME CheckoutInv, NEW p, UnsignedWebhook(p)
    PROVE  CheckoutInv'
<1>1. GatewayShape /\ MoneyIsReal
  BY DEF CheckoutInv
<1>2. ~SecretsAreSet
  BY DEF UnsignedWebhook, MockVerifies, NoSecretVerifies, SecretsAreSet, Adapter
<1>3. NoGateway \notin Gateways
  BY GatewayConstants DEF Gateways
<1>4. CASE ApplySuccess(NoGateway)
  BY <1>2, <1>3, <1>4, SuccessStep DEF UnsignedWebhook
<1>5. CASE ApplyFailure
  <2>1. PICK row \in [status : {"none", "PENDING", "COMPLETED", "FAILED", "REFUNDED"},
                      provider : Named \cup Gateways] :
          payRow' = row /\ row.provider = payRow.provider /\ row.status = "FAILED"
    BY <1>1, <1>5 DEF ApplyFailure, GatewayShape
  <2>2. payOrder' \in {"none", "PENDING", "PROCESSING", "FAILED", "CANCELLED"} /\ taker' = taker /\ recorded' = recorded
    BY <1>1, <1>5 DEF ApplyFailure, GatewayShape
  <2> QED
    BY <1>1, <2>1, <2>2, RowsMove DEF UnsignedWebhook, GatewayShape, MoneyIsReal
<1> QED
  BY <1>4, <1>5 DEF UnsignedWebhook

\* A session ends: what was paid stays paid, and the gateway says how it ended.
LEMMA SessionEnds ==
    ASSUME CheckoutInv, NEW s \in Sessions, session[s] = "open",
           NEW how \in {"paid", "expired"}, session' = [session EXCEPT ![s] = how],
           NEW reports, notices' = notices \cup reports,
           \A n \in reports :
              /\ n[1] = s
              /\ \/ n[2] \in PaidEvents(s[2]) /\ how = "paid"
                 \/ n[2] = "payment_session.expired" /\ s[2] = "XENDIT" /\ how = "expired",
           how = "paid" => Reach(s),
           UNCHANGED <<env, gwClock, degraded, checkout, handled, payRow, payOrder, taker, acked,
                       recorded>>
    PROVE  CheckoutInv'
<1>1. GatewayShape /\ CallsFit /\ NoticesAreTrue /\ MoneyIsReal
  BY DEF CheckoutInv
<1>2. /\ session' \in [Sessions -> {"none", "open", "paid", "expired"}]
      /\ session'[s] = how /\ \A t \in Sessions : t # s => session'[t] = session[t]
  BY <1>1 DEF GatewayShape
<1>3. GatewayShape'
  BY <1>1, <1>2 DEF GatewayShape
<1>4. CallsFit'
  <2>1. ASSUME NEW c \in Checkouts PROVE CheckoutCallFits(checkout[c])'
    <3>1. CheckoutCallFits(checkout[c])
      BY <1>1 DEF CallsFit
    <3>2. \A t \in Sessions : session[t] # "none" => session'[t] # "none"
      BY <1>2
    <3> QED
      BY <3>1, <3>2 DEF CheckoutCallFits
  <2>2. AnswerIsWritten'
    BY <1>1 DEF CallsFit, AnswerIsWritten, Alone
  <2>3. ASSUME NEW t \in Sessions, session'[t] = "paid"
        PROVE  \E c \in Checkouts : checkout'[c].pc = "answered" /\ checkout'[c].session = t
    BY <1>1, <1>2, <2>3 DEF CallsFit, Reach
  <2> QED
    BY <2>1, <2>2, <2>3 DEF CallsFit
<1>5. NoticesAreTrue'
  <2>1. ASSUME NEW n \in notices'
        PROVE  /\ n[1] \in Sessions
               /\ \/ n[2] \in PaidEvents(n[1][2]) /\ session'[n[1]] = "paid"
                  \/ n[2] = "payment_session.expired" /\ n[1][2] = "XENDIT" /\ session'[n[1]] = "expired"
    <3>1. CASE n \in notices
      <4>1. n[1] # s
        BY <1>1, <3>1 DEF NoticesAreTrue
      <4> QED
        BY <1>1, <1>2, <3>1, <4>1 DEF NoticesAreTrue
    <3>2. CASE n \in reports
      BY <1>2, <3>2
    <3> QED
      BY <2>1, <3>1, <3>2
  <2>2. \A id \in handled : \E n \in notices' : id = EventId(n) /\ (Pays(n) => recorded)
    BY <1>1 DEF NoticesAreTrue
  <2> QED
    BY <2>1, <2>2 DEF NoticesAreTrue, EventId, Pays, ParseEvent, PaidEvents
<1>6. MoneyIsReal'
  <2>1. \A t \in Sessions : session[t] = "paid" => session'[t] = "paid"
    BY <1>2
  <2> QED
    BY <1>1, <2>1 DEF MoneyIsReal, SecretsAreSet
<1> QED
  BY <1>3, <1>4, <1>5, <1>6 DEF CheckoutInv

LEMMA BuyerPaysStep ==
    ASSUME CheckoutInv, NEW s \in Sessions, BuyerPays(s)
    PROVE  CheckoutInv'
<1> DEFINE reports == {<<s, e>> : e \in PaidEvents(s[2])}
<1>1. \A n \in reports : n[1] = s /\ n[2] \in PaidEvents(s[2])
  OBVIOUS
<1>2. notices' = notices \cup reports
  BY DEF BuyerPays
<1> HIDE DEF reports
<1> QED
  BY <1>1, <1>2, SessionEnds DEF BuyerPays

LEMMA SessionExpiresStep ==
    ASSUME CheckoutInv, NEW s \in Sessions, SessionExpires(s)
    PROVE  CheckoutInv'
<1> DEFINE reports == IF s[2] = "XENDIT" THEN {<<s, "payment_session.expired">>} ELSE {}
<1>1. \A n \in reports : n[1] = s /\ n[2] = "payment_session.expired" /\ s[2] = "XENDIT"
  OBVIOUS
<1>2. notices' = notices \cup reports
  BY DEF SessionExpires
<1> HIDE DEF reports
<1> QED
  BY <1>1, <1>2, SessionEnds DEF SessionExpires

\* Whatever gateways, buyers and processes do, in whichever order, keeps the invariant.
LEMMA CheckoutInvStep == CheckoutInv /\ [CheckoutNext]_checkoutVars => CheckoutInv'
<1> SUFFICES ASSUME CheckoutInv, [CheckoutNext]_checkoutVars PROVE CheckoutInv'
  OBVIOUS
<1>1. GatewayShape
  BY DEF CheckoutInv
<1>2. ASSUME UNCHANGED <<env, degraded, checkout, session, notices, handled, payRow, payOrder,
                         taker, acked, recorded>>,
             gwClock' \in 0 .. MaxGatewayTime
      PROVE  CheckoutInv'
  <2>1. GatewayShape'
    BY <1>1, <1>2 DEF GatewayShape
  <2>2. CallsFit'
    BY <1>2 DEF CheckoutInv, CallsFit, CheckoutCallFits, AnswerIsWritten, Alone
  <2>3. NoticesAreTrue'
    BY <1>2 DEF CheckoutInv, NoticesAreTrue, EventId, Pays, ParseEvent, PaidEvents
  <2>4. MoneyIsReal'
    BY <1>2 DEF CheckoutInv, MoneyIsReal, SecretsAreSet
  <2> QED
    BY <2>1, <2>2, <2>3, <2>4 DEF CheckoutInv
<1>3. CASE UNCHANGED checkoutVars
  BY <1>1, <1>2, <1>3 DEF checkoutVars, GatewayShape
<1>4. ASSUME NEW c \in Checkouts, NEW t \in Tries, PlaceOrder(c, t[1], t[2]) PROVE CheckoutInv'
  BY <1>4, CheckoutBeginsStep DEF PlaceOrder
<1>5. ASSUME NEW c \in Checkouts, NEW t \in Tries, RetryPayment(c, t[1], t[2]) PROVE CheckoutInv'
  BY <1>1, <1>5, CheckoutBeginsStep DEF RetryPayment, GatewayShape
<1>6. CASE GatewayTick
  BY <1>1, <1>2, <1>6, GatewayConstants DEF GatewayTick, GatewayShape
<1>7. ASSUME NEW s \in DOMAIN session, BuyerPays(s) \/ SessionExpires(s) PROVE CheckoutInv'
  <2>1. s \in Sessions
    BY <1>1 DEF GatewayShape
  <2> QED
    BY <1>7, <2>1, BuyerPaysStep, SessionExpiresStep
<1>8. ASSUME NEW n \in notices, DeliverRefused(n[1], n[2]) PROVE CheckoutInv'
  BY <1>1, <1>2, <1>8 DEF DeliverRefused, GatewayShape
<1> QED
  BY <1>3, <1>4, <1>5, <1>6, <1>7, <1>8, GatewayAnswersStep, GatewayFailsStep, OrderLapsesStep,
     DeliverStep, UnsignedWebhookStep DEF CheckoutNext

LEMMA CheckoutInvSafe ==
    CheckoutInv /\ FeeInv =>
       /\ GatewayTypeOK /\ OfferedMethodsTakeMoney /\ CompletedMeansPaid /\ RefundReachesTheTaker
       /\ AcknowledgedMoneyIsRecorded /\ PaidPageMeansPaid /\ FeeKeptAddsUp
<1> SUFFICES ASSUME CheckoutInv, FeeInv
             PROVE  /\ GatewayTypeOK /\ OfferedMethodsTakeMoney /\ CompletedMeansPaid /\ RefundReachesTheTaker
                    /\ AcknowledgedMoneyIsRecorded /\ PaidPageMeansPaid /\ FeeKeptAddsUp
  OBVIOUS
<1>1. GatewayShape /\ CallsFit /\ MoneyIsReal
  BY DEF CheckoutInv
<1>2. GatewayTypeOK
  <2>1. \A c \in Checkouts : checkout[c].pc \in {"idle", "calling", "answered", "failed"}
    BY <1>1 DEF GatewayShape, CallState
  <2> QED
    BY <1>1, <2>1 DEF GatewayShape, GatewayTypeOK, Sessions, FeeInv, FeeShape
<1>3. OfferedMethodsTakeMoney
  <2>1. ASSUME NEW c \in Checkouts, checkout[c].pc = "answered", checkout[c].provider # "MOCK",
               Offered(checkout[c].provider)
        PROVE  checkout[c].at \in env.keys /\ session[checkout[c].session] # "none"
    <3>1. checkout[c].provider \in env.keys
      BY <2>1 DEF Offered, Adapter
    <3> QED
      BY <1>1, <2>1, <3>1 DEF CallsFit, CheckoutCallFits
  <2> QED
    BY <2>1 DEF OfferedMethodsTakeMoney
<1>4. DOMAIN session = Sessions
  BY <1>1 DEF GatewayShape
<1>5. CompletedMeansPaid
  BY <1>1, <1>4 DEF MoneyIsReal, CompletedMeansPaid
<1>6. RefundReachesTheTaker
  <2> SUFFICES ASSUME payRow.status = "COMPLETED", taker \in Gateways,
                      Cardinality({c \in Checkouts : checkout[c].pc # "idle"}) = 1
               PROVE  payRow.provider = taker
    BY DEF RefundReachesTheTaker
  <2>1. IsFiniteSet({c \in Checkouts : checkout[c].pc # "idle"})
    BY GatewayConstants, FS_Subset
  <2>2. PICK only : {c \in Checkouts : checkout[c].pc # "idle"} = {only}
    BY <2>1, FS_Singleton
  <2>3. PICK s \in Sessions : session[s] = "paid" /\ s[2] = taker
    BY <1>1 DEF MoneyIsReal
  <2>4. PICK c \in Checkouts : checkout[c].pc = "answered" /\ checkout[c].session = s
    BY <1>1, <2>3 DEF CallsFit
  <2>5. c = only /\ \A d \in Checkouts : checkout[d].pc # "idle" => d = only
    BY <2>2, <2>4
  <2>6. Alone(c)
    BY <2>5 DEF Alone
  <2>7. taker # "MOCK"
    BY DEF Gateways
  <2>8. checkout[c].at = taker /\ checkout[c].at \in env.keys
    BY <1>1, <2>3, <2>4, <2>7 DEF CallsFit, CheckoutCallFits
  <2> QED
    BY <1>1, <2>4, <2>6, <2>8 DEF CallsFit, AnswerIsWritten
<1>7. AcknowledgedMoneyIsRecorded
  BY <1>1 DEF MoneyIsReal, AcknowledgedMoneyIsRecorded
<1>8. PaidPageMeansPaid
  <2>1. ASSUME NEW returned, ReturnPage(returned) = "paid" PROVE payRow.status = "COMPLETED"
    BY <2>1 DEF ReturnPage, ResolveReturnOutcome
  <2> QED
    BY <1>1, <1>4, <2>1 DEF MoneyIsReal, PaidPageMeansPaid
<1>9. FeeKeptAddsUp
  BY DEF FeeInv, FeeFits, FeeShare, FeeKeptAddsUp
<1> QED
  BY <1>2, <1>3, <1>5, <1>6, <1>7, <1>8, <1>9

\* A gateway that is chosen inside its window has no healthy one to take its place.
LEMMA ChosenRests ==
    ASSUME CheckoutInv, CheckoutNext, NEW c \in Checkouts, NEW g \in Gateways,
           checkout'[c].pc = "calling", checkout'[c].at = g,
           ~(checkout[c].pc = "calling" /\ checkout[c].at = g), degraded'[g] > gwClock
    PROVE  \A h \in Gateways \ {g} : ~Healthy(h, degraded')
<1>1. GatewayShape /\ CallsFit
  BY DEF CheckoutInv
<1>2. degraded[g] \in Int /\ gwClock \in Int
  BY <1>1 DEF GatewayShape
<1>3. ASSUME NEW d \in Checkouts, NEW t \in Tries, NEW creates \in BOOLEAN,
             CheckoutBegins(d, t[1], t[2], creates)
      PROVE  \A h \in Gateways \ {g} : ~Healthy(h, degraded')
  <2>1. degraded' = degraded /\ ~Healthy(g, degraded)
    BY <1>2, <1>3 DEF CheckoutBegins, Healthy
  <2>2. d = c
    BY <1>1, <1>3 DEF CheckoutBegins, GatewayShape
  <2>3. checkout'[c].at = FirstGateway(t[1], t[2])
    <3>1. PICK first : first = FirstGateway(t[1], t[2])
      OBVIOUS
    <3>2. PICK call : call = Calling(t[1], t[2], first, <<c, IF Adapter(first) = "MOCK" THEN "MOCK" ELSE first>>,
                                     creates)
      OBVIOUS
    <3>3. call.at = first /\ [call EXCEPT !.pc = "answered"].at = first
      BY <3>2 DEF Calling
    <3>4. checkout' = [checkout EXCEPT ![c] = IF Adapter(first) = "MOCK" THEN [call EXCEPT !.pc = "answered"]
                                                                          ELSE call]
      BY <1>3, <2>2, <3>1, <3>2 DEF CheckoutBegins
    <3> QED
      BY <1>1, <3>1, <3>3, <3>4 DEF GatewayShape
  <2>4. g = FirstGateway(t[1], t[2])
    BY <2>3
  <2>5. ~ (g = Fallback(t[1], t[2], degraded) /\ g # NoGateway)
    BY <1>1, <2>1, FallbackIsHealthy
  <2>6. g = t[1] /\ Fallback(g, t[2], degraded) = NoGateway
    BY <2>1, <2>4, <2>5 DEF FirstGateway
  <2> QED
    BY <1>1, <2>1, <2>6, FallbackIsHealthy
<1>4. ASSUME NEW d \in Checkouts, GatewayFails(d) PROVE FALSE
  <2>1. d = c
    BY <1>1, <1>4 DEF GatewayFails, GatewayShape
  <2>2. PICK call \in CallState : call = checkout[c] /\ call.pc = "calling"
    BY <1>1, <1>4, <2>1 DEF GatewayShape, GatewayFails
  <2>3. PICK replaced : replaced = IF call.last THEN NoGateway ELSE Fallback(call.at, call.method, degraded')
    OBVIOUS
  <2>4. checkout' = [checkout EXCEPT ![c] =
                     IF replaced # NoGateway
                     THEN [@ EXCEPT !.at = replaced, !.last = TRUE, !.session = <<c, replaced>>]
                     ELSE [@ EXCEPT !.pc = "failed"]]
    BY <1>4, <2>1, <2>2, <2>3 DEF GatewayFails
  <2>5. replaced # NoGateway /\ g = replaced
    BY <1>1, <2>2, <2>4 DEF GatewayShape, CallState
  <2>6. Healthy(g, degraded')
    BY <1>1, <2>2, <2>3, <2>5, FallbackIsHealthy
  <2>7. degraded'[g] \in Int
    <3>1. GatewayShape'
      BY <1>4, GatewayFailsStep DEF CheckoutInv
    <3> QED
      BY <3>1 DEF GatewayShape
  <2> QED
    BY <1>2, <2>6, <2>7 DEF Healthy
<1>5. ASSUME NEW d \in Checkouts, GatewayAnswers(d) PROVE FALSE
  <2>1. PICK call \in CallState : call = checkout[d] /\ call.pc = "calling"
    BY <1>1, <1>5 DEF GatewayAnswers, GatewayShape
  <2>2. checkout' = [checkout EXCEPT ![d] = [@ EXCEPT !.pc = "answered", !.session = SessionOf(d, call.at)]]
    BY <1>5, <2>1 DEF GatewayAnswers, Answered
  <2>3. d = c => checkout'[c].pc = "answered"
    BY <1>1, <2>1, <2>2 DEF GatewayShape, CallState
  <2> QED
    BY <1>1, <2>2, <2>3 DEF GatewayShape
<1>6. CASE UNCHANGED checkout
  BY <1>6
<1> QED
  BY <1>3, <1>4, <1>5, <1>6 DEF CheckoutNext, PlaceOrder, RetryPayment, GatewayTick, OrderLapses,
     BuyerPays, SessionExpires, Deliver, DeliverRefused, UnsignedWebhook

\* A checkout leads to a page to pay on; in production, with PayMongo's webhook secret set
\* where its key is, only money received completes a payment; what was acknowledged is
\* recorded, refunds find the money, a degraded gateway rests and the fee kept is what is
\* owed, however gateways fail and requests overlap.
THEOREM CheckoutsSafe == GatewaySpec => CheckoutsAreSafe
<1>1. GatewayInit => CheckoutInv /\ FeeInv
  BY CheckoutInvInit, FeeInvInit
<1>2. [CheckoutNext \/ FeeNext]_gatewayVars => [CheckoutNext]_checkoutVars /\ [FeeNext]_feeVars
  BY DEF CheckoutNext, FeeNext, gatewayVars
<1>3. CheckoutInv /\ FeeInv /\ [CheckoutNext \/ FeeNext]_gatewayVars => (CheckoutInv /\ FeeInv)'
  BY <1>2, CheckoutInvStep, FeeInvStep
<1>4. CheckoutInv /\ [CheckoutNext \/ FeeNext]_gatewayVars =>
        [\A c \in Checkouts, g \in Gateways :
          checkout'[c].pc = "calling" /\ checkout'[c].at = g
          /\ ~(checkout[c].pc = "calling" /\ checkout[c].at = g)
          /\ degraded'[g] > gwClock
          => \A h \in Gateways \ {g} : ~Healthy(h, degraded')]_checkoutVars
  BY <1>2, ChosenRests
<1> QED
  BY <1>1, <1>3, <1>4, CheckoutInvSafe, PTL DEF GatewaySpec, CheckoutsAreSafe, DegradedGatewaysRest

-----------------------------------------------------------------------------
(* Prices: arithmetic                                                      *)

\* Division rounds down.
LEMMA DivBounds ==
    ASSUME NEW n \in Int, NEW d \in Nat \ {0}
    PROVE  /\ n \div d \in Int
           /\ d * (n \div d) <= n /\ n < d * (n \div d) + d
OBVIOUS

\* Between two bounds there is one quotient.
LEMMA QuotientGrows ==
    ASSUME NEW m \in Int, NEW n \in Int, m <= n, NEW d \in Nat \ {0}
    PROVE  m \div d <= n \div d
<1>1. PICK p \in Int : p = m \div d /\ d * p <= m /\ m < d * p + d
  BY DivBounds
<1>2. PICK q \in Int : q = n \div d /\ d * q <= n /\ n < d * q + d
  BY DivBounds
<1> SUFFICES ASSUME p > q PROVE FALSE
  BY <1>1, <1>2
<1>3. d * p >= d * q + d
  <2>1. PICK e \in Nat : p = q + 1 + e
    <3>1. p - q - 1 \in Nat /\ p = q + 1 + (p - q - 1)
      OBVIOUS
    <3> QED
      BY <3>1
  <2>2. d * p = d * q + d + d * e /\ d * e \in Nat
    BY <2>1
  <2> QED
    BY <2>2
<1> QED
  BY <1>1, <1>2, <1>3

\* The product of what grows grows.
LEMMA ProductGrows ==
    ASSUME NEW m \in Nat, NEW n \in Nat, m <= n, NEW k \in Nat
    PROVE  m * k <= n * k /\ m * k \in Nat /\ n * k \in Nat
<1>1. PICK d \in Nat : n = m + d
  <2>1. n - m \in Nat /\ n = m + (n - m)
    OBVIOUS
  <2> QED
    BY <2>1
<1>2. n * k = m * k + d * k /\ d * k \in Nat /\ m * k \in Nat
  BY <1>1
<1> QED
  BY <1>2

\* Rounding to the centavo keeps amounts amounts, and the larger the larger.
LEMMA RoundedNat ==
    ASSUME NEW n \in Nat, NEW d \in Nat \ {0}
    PROVE  Rounded(n, d) \in Nat
<1>1. 2 * n + d \in Nat /\ 2 * d \in Nat \ {0}
  OBVIOUS
<1>2. \A k \in Nat, e \in Nat \ {0} : k \div e \in Nat
  OBVIOUS
<1> QED
  BY <1>1, <1>2 DEF Rounded

LEMMA RoundedGrows ==
    ASSUME NEW m \in Nat, NEW n \in Nat, m <= n, NEW d \in Nat \ {0}
    PROVE  Rounded(m, d) <= Rounded(n, d)
<1>1. 2 * m + d \in Int /\ 2 * n + d \in Int /\ 2 * m + d <= 2 * n + d /\ 2 * d \in Nat \ {0}
  OBVIOUS
<1> QED
  BY <1>1, QuotientGrows DEF Rounded

\* What is rounded is off by half a centavo at most.
LEMMA RoundedBounds ==
    ASSUME NEW n \in Int, NEW d \in Nat \ {0}
    PROVE  /\ Rounded(n, d) \in Int
           /\ 2 * (d * Rounded(n, d)) <= 2 * n + d
           /\ 2 * n < 2 * (d * Rounded(n, d)) + d
<1>1. 2 * n + d \in Int /\ 2 * d \in Nat \ {0}
  OBVIOUS
<1>2. PICK q \in Int : /\ q = (2 * n + d) \div (2 * d)
                       /\ (2 * d) * q <= 2 * n + d /\ 2 * n + d < (2 * d) * q + 2 * d
  BY <1>1, DivBounds
<1>3. (2 * d) * q = 2 * (d * q)
  BY <1>2
<1>4. d * q \in Int
  BY <1>2
<1> QED
  BY <1>2, <1>3, <1>4 DEF Rounded

\* One rounded amount fits.
LEMMA RoundedOnly ==
    ASSUME NEW n \in Int, NEW d \in Nat \ {0}, NEW q \in Int,
           2 * (d * q) <= 2 * n + d, 2 * n < 2 * (d * q) + d
    PROVE  Rounded(n, d) = q
<1>1. PICK r \in Int : r = Rounded(n, d) /\ 2 * (d * r) <= 2 * n + d /\ 2 * n < 2 * (d * r) + d
  BY RoundedBounds
<1>2. d * (q - r) < d /\ d * (r - q) < d
  <2>1. d * q \in Int /\ d * r \in Int /\ d * (q - r) = d * q - d * r /\ d * (r - q) = d * r - d * q
    BY <1>1
  <2> QED
    BY <1>1, <2>1
<1>3. \A k \in Int : d * k < d => k < 1
  OBVIOUS
<1>4. q - r < 1 /\ r - q < 1
  <2>1. q - r \in Int /\ r - q \in Int
    BY <1>1
  <2> QED
    BY <1>2, <1>3, <2>1
<1>5. r = q
  <2>1. \A k, l \in Int : k - l < 1 /\ l - k < 1 => l = k
    OBVIOUS
  <2> QED
    BY <1>4, <2>1
<1> QED
  BY <1>1, <1>5

-----------------------------------------------------------------------------
(* Prices: what a component charges                                        *)

\* The component that is charged is one of the card's.
LEMMA FirstIsOnTheCard ==
    ASSUME NEW list \in Seq(FeeComponent), NEW type, NEW method, Matching(list, type, method) # {}
    PROVE  First(list, Matching(list, type, method)) \in FeeComponent
<1>1. Matching(list, type, method) \subseteq DOMAIN list /\ DOMAIN list = 1..Len(list) /\ DOMAIN list \subseteq Nat
  BY DEF Matching
<1>2. Min(Matching(list, type, method)) \in DOMAIN list
  <2>1. IsFiniteSet(1..Len(list)) /\ DOMAIN list \subseteq Int
    BY <1>1, FS_Interval
  <2>2. IsFiniteSet(Matching(list, type, method)) /\ Matching(list, type, method) \in SUBSET Int
    BY <1>1, <2>1, FS_Subset
  <2> QED
    BY <1>1, <2>2, MinIsLeast
<1>3. \A i \in DOMAIN list : list[i] \in FeeComponent
  OBVIOUS
<1> QED
  BY <1>2, <1>3 DEF First

\* What a gateway's fee is of a larger amount is at least as much, and never negative.
LEMMA GrossUpGrows ==
    ASSUME NEW m \in Nat, NEW n \in Nat, m <= n, NEW rate \in 0..Unit, NEW fixed \in Nat, NEW halves \in 0..2
    PROVE  /\ GrossUp(m, rate, fixed, halves) \in Nat
           /\ GrossUp(m, rate, fixed, halves) <= GrossUp(n, rate, fixed, halves)
<1>1. Unit \in Nat \ {0} /\ rate \in Nat
  BY PricingConstants
<1>2. PICK r \in Nat : r = fixed * Unit
  BY <1>1
<1>3. PICK p \in Nat : p = m * rate + r
  BY <1>1, ProductGrows
<1>4. PICK q \in Nat : q = n * rate + r /\ p <= q
  BY <1>1, <1>3, ProductGrows
<1>5. PICK divisor \in Int : divisor = 2 * Unit - rate * halves
  <2>1. \A k \in Nat, l \in 0..2 : k * l \in Int
    OBVIOUS
  <2>2. rate * halves \in Int /\ 2 * Unit \in Int
    BY <1>1, <2>1
  <2> QED
    BY <2>2
<1>6. CASE divisor <= 0
  <2>1. Rounded(p, Unit) \in Nat /\ Rounded(p, Unit) <= Rounded(q, Unit)
    BY <1>1, <1>4, RoundedNat, RoundedGrows
  <2> QED
    BY <1>2, <1>3, <1>4, <1>5, <1>6, <2>1 DEF GrossUp
<1>7. CASE divisor > 0
  <2>1. divisor \in Nat \ {0} /\ 2 * p \in Nat /\ 2 * q \in Nat /\ 2 * p <= 2 * q
    BY <1>4, <1>7
  <2>2. Rounded(2 * p, divisor) \in Nat /\ Rounded(2 * p, divisor) <= Rounded(2 * q, divisor)
    BY <2>1, RoundedNat, RoundedGrows
  <2> QED
    BY <1>2, <1>3, <1>4, <1>5, <1>7, <2>2 DEF GrossUp
<1> QED
  BY <1>5, <1>6, <1>7

\* The limits of a fee keep its order.
LEMMA ClampGrows ==
    ASSUME NEW m \in Nat, NEW n \in Nat, m <= n, NEW c \in FeeComponent
    PROVE  ClampFee(m, c) \in Nat /\ ClampFee(m, c) <= ClampFee(n, c)
<1>1. c.min \in Nat \cup {NoFee} /\ c.max \in Nat \cup {NoFee}
  BY DEF FeeComponent
<1> QED
  BY <1>1 DEF ClampFee

LEMMA GatewayCostGrows ==
    ASSUME NEW m \in Nat, NEW n \in Nat, m <= n, NEW list \in Seq(FeeComponent), NEW b \in Purchase,
           NEW halves \in 0..2
    PROVE  /\ GatewayCost(m, list, b, halves) \in Nat
           /\ GatewayCost(m, list, b, halves) <= GatewayCost(n, list, b, halves)
<1>1. PICK found : found = Matching(list, "PAYMENT_PROCESSING_FEE", b.method)
  OBVIOUS
<1>2. CASE b.cash
  BY <1>2 DEF GatewayCost
<1>3. CASE ~b.cash /\ found # {}
  <2>1. PICK c \in FeeComponent : c = First(list, found)
    BY <1>1, <1>3, FirstIsOnTheCard
  <2>2. c.rate \in 0..Unit /\ c.fixed \in Nat
    BY DEF FeeComponent
  <2>3. PICK p \in Nat : p = GrossUp(m, c.rate, c.fixed, halves)
    BY <2>2, GrossUpGrows
  <2>4. PICK q \in Nat : q = GrossUp(n, c.rate, c.fixed, halves)
    <3>1. n <= n
      OBVIOUS
    <3>2. GrossUp(n, c.rate, c.fixed, halves) \in Nat
      BY <2>2, <3>1, GrossUpGrows
    <3> QED
      BY <3>2
  <2>5. p <= q
    BY <2>2, <2>3, <2>4, GrossUpGrows
  <2>6. ClampFee(p, c) \in Nat /\ ClampFee(p, c) <= ClampFee(q, c)
    BY <2>5, ClampGrows
  <2> QED
    BY <1>1, <1>3, <2>1, <2>3, <2>4, <2>6 DEF GatewayCost
<1>4. CASE ~b.cash /\ found = {}
  <2>1. /\ GrossUp(m, DefaultRate, 0, halves) \in Nat
        /\ GrossUp(m, DefaultRate, 0, halves) <= GrossUp(n, DefaultRate, 0, halves)
    BY PricingConstants, GrossUpGrows
  <2> QED
    BY <1>1, <1>4, <2>1 DEF GatewayCost
<1> QED
  BY <1>2, <1>3, <1>4

LEMMA BuyerPlatformFeeNat ==
    ASSUME NEW n \in Nat, NEW list \in Seq(FeeComponent)
    PROVE  BuyerPlatformFee(n, list) \in Nat
<1>1. PICK found : found = Matching(list, "BUYER_TRANSACTION_FEE", AnyMethod)
  OBVIOUS
<1>2. CASE found = {}
  BY <1>1, <1>2 DEF BuyerPlatformFee
<1>3. CASE found # {}
  <2>1. PICK c \in FeeComponent : c = First(list, found)
    BY <1>1, <1>3, FirstIsOnTheCard
  <2>2. c.rate \in Nat /\ c.fixed \in Nat /\ Unit \in Nat \ {0}
    BY PricingConstants DEF FeeComponent
  <2>3. PICK bill \in Nat : bill = n * c.rate + c.fixed * Unit
    BY <2>2
  <2>4. PICK fee \in Nat : fee = Rounded(bill, Unit)
    BY <2>2, RoundedNat
  <2>5. ClampFee(fee, c) \in Nat
    BY ClampGrows
  <2> QED
    BY <1>1, <1>3, <2>1, <2>3, <2>4, <2>5 DEF BuyerPlatformFee
<1> QED
  BY <1>2, <1>3

LEMMA SellerCommissionNat ==
    ASSUME NEW n \in Nat, NEW list \in Seq(FeeComponent)
    PROVE  SellerCommission(n, list) \in Nat
<1>1. PICK found : found = Matching(list, "SELLER_MARKETPLACE_FEE", AnyMethod)
  OBVIOUS
<1>2. PICK rate : rate = IF found # {} /\ First(list, found).rate # 0 THEN First(list, found).rate ELSE DefaultRate
  OBVIOUS
<1>3. rate \in Nat /\ Unit \in Nat \ {0}
  <2>1. found # {} => First(list, found) \in FeeComponent
    BY <1>1, FirstIsOnTheCard
  <2>2. found # {} => First(list, found).rate \in 0..Unit
    BY <2>1 DEF FeeComponent
  <2> QED
    BY <1>2, <2>2, PricingConstants
<1>4. n * rate \in Nat
  BY <1>3
<1>5. Rounded(n * rate, Unit) \in Nat
  BY <1>3, <1>4, RoundedNat
<1> QED
  BY <1>1, <1>2, <1>5 DEF SellerCommission

\* The seller's part of a larger gateway fee is at least as much, and within the fee.
LEMMA DeductionGrows ==
    ASSUME NEW m \in Nat, NEW n \in Nat, m <= n, NEW policy \in Policies
    PROVE  /\ SellerDeduction(policy, m) \in 0..m
           /\ SellerDeduction(policy, m) <= SellerDeduction(policy, n)
<1>1. \A k \in Nat : Rounded(k, 2) = (k + 1) \div 2
  BY DEF Rounded
<1> QED
  BY <1>1 DEF SellerDeduction, Policies

-----------------------------------------------------------------------------
(* Prices: every centavo of an order                                       *)

\* What is cut off at zero.
LEMMA CutOff == \A n \in Int : /\ AtLeastZero(n) \in Nat
                               /\ n >= 0 => AtLeastZero(n) = n
                               /\ n <= 0 => AtLeastZero(n) = 0
BY DEF AtLeastZero

\* A priced order, and the parts of its price.
Priced(policy, list, b) ==
    [pc |-> "priced", basket |-> b, list |-> list, result |-> PriceWith(policy, list, b)]

\* What the parts of a price are, and how they add up.
LEMMA PartsOfPrice ==
    ASSUME NEW p \in Policies, NEW list \in Seq(FeeComponent), NEW b \in Purchase, NEW r,
           r = PriceWith(p, list, b)
    PROVE  /\ r.policy \in Policies
           /\ r.policy = IF b.policy # "NONE" THEN b.policy ELSE p
           /\ r.order = AtLeastZero(b.subtotal - b.discount - b.voucher) /\ r.order \in Nat
           /\ r.cost = GatewayCost(r.order, list, b, BuyerHalves[r.policy]) /\ r.cost \in Nat
           /\ BuyerHalves[r.policy] \in 0..2
           /\ r.deduction = SellerDeduction(r.policy, r.cost) /\ r.deduction \in 0..r.cost
           /\ r.commission = SellerCommission(CommissionBase(b), list) /\ r.commission \in Nat
           /\ CommissionBase(b) \in Nat
           /\ r.buyerFee \in Nat /\ r.buyerTotal = r.order + r.buyerFee
           /\ r.sellerNet = AtLeastZero(b.subtotal - b.discount - r.commission - r.deduction)
           /\ r.platformNet = r.commission + r.buyerFee - (r.cost - r.deduction)
<1>1. b.subtotal \in Nat /\ b.discount \in Nat /\ b.voucher \in Nat /\ b.policy \in Policies \cup {"NONE"}
  BY DEF Purchase
<1>2. PICK policy \in Policies : policy = IF b.policy # "NONE" THEN b.policy ELSE p
  BY <1>1
<1>3. PICK order \in Nat : order = AtLeastZero(b.subtotal - b.discount - b.voucher)
  BY <1>1 DEF AtLeastZero
<1>4. BuyerHalves[policy] \in 0..2
  BY <1>2 DEF BuyerHalves, Policies
<1>5. PICK cost \in Nat : cost = GatewayCost(order, list, b, BuyerHalves[policy])
  <2>1. order <= order
    OBVIOUS
  <2>2. GatewayCost(order, list, b, BuyerHalves[policy]) \in Nat
    BY <1>4, <2>1, GatewayCostGrows
  <2> QED
    BY <2>2
<1>6. PICK fee \in Nat : fee = BuyerPlatformFee(order, list)
  BY BuyerPlatformFeeNat
<1>7. PICK deduction \in 0..cost : deduction = SellerDeduction(policy, cost)
  <2>1. cost <= cost
    OBVIOUS
  <2>2. SellerDeduction(policy, cost) \in 0..cost
    BY <2>1, DeductionGrows
  <2> QED
    BY <2>2
<1>8. PICK base \in Nat : base = CommissionBase(b)
  BY <1>1 DEF CommissionBase, AtLeastZero
<1>9. PICK commission \in Nat : commission = SellerCommission(base, list)
  BY SellerCommissionNat
<1>10. PICK part \in Nat :
          part = CASE policy = "BUYER" -> cost [] policy = "SHARED" -> Rounded(cost, 2) [] OTHER -> 0
  <2>1. Rounded(cost, 2) \in Nat
    BY RoundedNat
  <2> QED
    BY <2>1, <1>2 DEF Policies
<1>11. PriceWith(p, list, b) =
         [policy |-> policy, order |-> order, cost |-> cost, buyerFee |-> part + fee,
          buyerTotal |-> order + (part + fee), commission |-> commission, deduction |-> deduction,
          sellerNet |-> AtLeastZero(b.subtotal - b.discount - commission - deduction),
          platformNet |-> PlatformNet(commission, part + fee, cost, deduction)]
  BY <1>2, <1>3, <1>5, <1>6, <1>7, <1>8, <1>9, <1>10 DEF PriceWith
<1>12. AtLeastZero(cost - deduction) = cost - deduction
  BY <1>7 DEF AtLeastZero
<1>13. PlatformNet(commission, part + fee, cost, deduction) = commission + (part + fee) - (cost - deduction)
  BY <1>12 DEF PlatformNet
<1>14. part + fee \in Nat
  BY <1>6, <1>10
<1>15. /\ r.policy = policy /\ r.order = order /\ r.cost = cost /\ r.buyerFee = part + fee
       /\ r.buyerTotal = order + (part + fee) /\ r.commission = commission /\ r.deduction = deduction
       /\ r.sellerNet = AtLeastZero(b.subtotal - b.discount - commission - deduction)
       /\ r.platformNet = commission + (part + fee) - (cost - deduction)
  BY <1>11, <1>13
<1> HIDE <1>11
<1> QED
  BY <1>2, <1>3, <1>4, <1>5, <1>7, <1>8, <1>9, <1>14, <1>15

\* The columns a settlement is computed from say what the quote said.
LEMMA PriceBalances ==
    ASSUME NEW p \in Policies, NEW list \in Seq(FeeComponent), NEW b \in Purchase, NEW r,
           r = PriceWith(p, list, b)
    PROVE  /\ r.buyerTotal >= r.order
           /\ b.discount + b.voucher <= b.subtotal =>
                 r.buyerTotal + b.voucher + AtLeastZero(r.commission + r.deduction - CommissionBase(b))
                    = r.sellerNet + r.platformNet + r.cost
<1>1. b.subtotal \in Nat /\ b.discount \in Nat /\ b.voucher \in Nat
  BY DEF Purchase
<1>2. /\ r.order = AtLeastZero(b.subtotal - b.discount - b.voucher) /\ r.order \in Nat
      /\ r.cost \in Nat /\ r.deduction \in 0..r.cost /\ r.commission \in Nat
      /\ r.buyerFee \in Nat /\ r.buyerTotal = r.order + r.buyerFee
      /\ r.sellerNet = AtLeastZero(b.subtotal - b.discount - r.commission - r.deduction)
      /\ r.platformNet = r.commission + r.buyerFee - (r.cost - r.deduction)
  BY PartsOfPrice, SMTT(30)
<1>3. PICK order \in Nat, cost \in Nat, deduction \in Nat, commission \in Nat, fee \in Nat :
         /\ order = r.order /\ cost = r.cost /\ deduction = r.deduction /\ commission = r.commission
         /\ fee = r.buyerFee
  BY <1>2, SMTT(30)
<1>4. PICK sub \in Nat, d \in Nat, v \in Nat : sub = b.subtotal /\ d = b.discount /\ v = b.voucher
  BY <1>1
<1>5. r.buyerTotal >= r.order
  BY <1>2, <1>3
<1>6. ASSUME d + v <= sub
      PROVE  r.buyerTotal + b.voucher + AtLeastZero(r.commission + r.deduction - CommissionBase(b))
                = r.sellerNet + r.platformNet + r.cost
  <2>1. order = sub - d - v /\ CommissionBase(b) = sub - d
    <3>1. order = AtLeastZero(sub - d - v) /\ CommissionBase(b) = AtLeastZero(sub - d)
      BY <1>2, <1>3, <1>4 DEF CommissionBase
    <3>2. sub - d - v \in Int /\ sub - d - v >= 0 /\ sub - d \in Int /\ sub - d >= 0
      BY <1>6
    <3> QED
      BY <3>1, <3>2, CutOff
  <2>2. PICK left \in Int : left = sub - d - commission - deduction
    OBVIOUS
  <2>3. r.sellerNet = AtLeastZero(left)
    BY <1>2, <1>3, <1>4, <2>2
  <2>4. AtLeastZero(r.commission + r.deduction - CommissionBase(b)) = AtLeastZero(-left)
    <3>1. r.commission + r.deduction - CommissionBase(b) = -left
      <4>1. commission + deduction - (sub - d) = -left
        BY <2>2
      <4> QED
        BY <1>3, <2>1, <4>1
    <3> QED
      BY <3>1
  <2>5. PICK x \in Int, y \in Int : x = AtLeastZero(left) /\ y = AtLeastZero(-left) /\ x - y = left
    BY CutOff
  <2>6. r.buyerTotal = order + fee /\ r.platformNet = commission + fee - (cost - deduction)
    BY <1>2, <1>3
  <2>7. order + fee + v + y = x + (commission + fee - (cost - deduction)) + cost
    BY <2>1, <2>2, <2>5, SMTT(30)
  <2> QED
    BY <1>3, <1>4, <2>3, <2>4, <2>5, <2>6, <2>7
<1> QED
  BY <1>4, <1>5, <1>6

LEMMA SettlementFollowsPrice ==
    ASSUME NEW p \in Policies, NEW list \in Seq(FeeComponent), NEW b \in Purchase, NEW r,
           r = PriceWith(p, list, b), NEW kept, kept = SettlementRow(OrderRow(b, r), b.cash)
    PROVE  IF b.cash THEN kept.net = -r.commission /\ kept.paymentFee = 0
           ELSE /\ r.commission + r.deduction <= CommissionBase(b) => kept.paymentFee = r.deduction
                /\ kept.net = AtLeastZero(kept.base - kept.commission - r.deduction)
                /\ r.commission + r.deduction <= CommissionBase(b)
                      => kept.base = kept.commission + kept.paymentFee + kept.net
<1>1. b.subtotal \in Nat /\ b.discount \in Nat /\ b.voucher \in Nat /\ b.cash \in BOOLEAN
  BY DEF Purchase
<1>2. /\ r.cost \in Nat /\ r.deduction \in 0..r.cost /\ r.commission \in Nat
      /\ r.sellerNet = AtLeastZero(b.subtotal - b.discount - r.commission - r.deduction)
  BY PartsOfPrice
<1>3. PICK s \in Nat, d \in Nat, commission \in Nat, deduction \in Nat :
         s = b.subtotal /\ d = b.discount /\ commission = r.commission /\ deduction = r.deduction
  BY <1>1, <1>2
<1>4. PICK net \in Nat : net = r.sellerNet /\ net = AtLeastZero(s - d - commission - deduction)
  BY <1>2, <1>3 DEF AtLeastZero
<1>5. PICK base \in Nat : base = AtLeastZero(s - d)
  <2>1. s - d \in Int
    OBVIOUS
  <2> QED
    BY <2>1, CutOff
<1>6. PICK share \in Nat : share = AtLeastZero(base - commission - net)
  <2>1. base - commission - net \in Int
    OBVIOUS
  <2> QED
    BY <2>1, CutOff
<1>7. /\ kept.base = base /\ kept.commission = commission
      /\ kept.paymentFee = (IF b.cash THEN 0 ELSE share)
      /\ kept.net = (IF b.cash THEN -commission ELSE net)
  <2>1. /\ OrderRow(b, r).subtotal = s /\ OrderRow(b, r).discount = d
        /\ OrderRow(b, r).commission = commission /\ OrderRow(b, r).sellerNet = net
    BY <1>3, <1>4 DEF OrderRow
  <2> QED
    BY <1>5, <1>6, <2>1 DEF SettlementRow
<1>8. CommissionBase(b) = base
  BY <1>3, <1>5 DEF CommissionBase
<1>9. net = AtLeastZero(base - commission - deduction)
  BY <1>4, <1>5 DEF AtLeastZero
<1>10. commission + deduction <= base => share = deduction /\ base = commission + share + net
  BY <1>6, <1>9 DEF AtLeastZero
<1> QED
  BY <1>1, <1>3, <1>7, <1>8, <1>9, <1>10

\* A voucher makes the order cheaper, and so the gateway's fee.
SparesSeller(r, list, b) ==
    LET plain == PriceWith(r.policy, list, [b EXCEPT !.voucher = 0, !.policy = r.policy])
    IN  r.commission = plain.commission /\ r.sellerNet >= plain.sellerNet

LEMMA VoucherSpares ==
    ASSUME NEW p \in Policies, NEW list \in Seq(FeeComponent), NEW b \in Purchase, NEW r,
           r = PriceWith(p, list, b)
    PROVE  SparesSeller(r, list, b)
<1> SUFFICES ASSUME NEW plain,
                      plain = PriceWith(r.policy, list, [b EXCEPT !.voucher = 0, !.policy = r.policy])
               PROVE  r.commission = plain.commission /\ r.sellerNet >= plain.sellerNet
  BY DEF SparesSeller
<1>1. b.subtotal \in Nat /\ b.discount \in Nat /\ b.voucher \in Nat
  BY DEF Purchase
<1>2. PICK policy \in Policies : policy = r.policy
  BY PartsOfPrice
<1>3. PICK c \in Purchase : c = [b EXCEPT !.voucher = 0, !.policy = r.policy]
  BY <1>2 DEF Purchase
<1>4. /\ c.subtotal = b.subtotal /\ c.discount = b.discount /\ c.voucher = 0 /\ c.policy = policy
      /\ c.cash = b.cash /\ c.method = b.method
  BY <1>2, <1>3 DEF Purchase
<1>5. plain = PriceWith(policy, list, c)
  BY <1>2, <1>3
<1>6. /\ r.order = AtLeastZero(b.subtotal - b.discount - b.voucher) /\ r.order \in Nat
      /\ r.cost = GatewayCost(r.order, list, b, BuyerHalves[policy]) /\ r.cost \in Nat
      /\ BuyerHalves[policy] \in 0..2
      /\ r.deduction = SellerDeduction(policy, r.cost) /\ r.deduction \in 0..r.cost
      /\ r.commission = SellerCommission(CommissionBase(b), list) /\ r.commission \in Nat
      /\ r.sellerNet = AtLeastZero(b.subtotal - b.discount - r.commission - r.deduction)
  BY <1>2, PartsOfPrice
<1>7. /\ plain.policy = policy
      /\ plain.order = AtLeastZero(b.subtotal - b.discount - 0) /\ plain.order \in Nat
      /\ plain.cost = GatewayCost(plain.order, list, c, BuyerHalves[policy]) /\ plain.cost \in Nat
      /\ plain.deduction = SellerDeduction(policy, plain.cost) /\ plain.deduction \in 0..plain.cost
      /\ plain.commission = SellerCommission(CommissionBase(c), list)
      /\ plain.sellerNet = AtLeastZero(b.subtotal - b.discount - plain.commission - plain.deduction)
  <2>1. policy # "NONE"
    BY DEF Policies
  <2> QED
    BY <1>4, <1>5, <2>1, PartsOfPrice
<1>8. CommissionBase(c) = CommissionBase(b)
  BY <1>4 DEF CommissionBase
<1>9. GatewayCost(plain.order, list, c, BuyerHalves[policy]) = GatewayCost(plain.order, list, b, BuyerHalves[policy])
  BY <1>4 DEF GatewayCost
<1>10. r.order <= plain.order
  BY <1>1, <1>6, <1>7, SMTT(30) DEF AtLeastZero
<1>11. r.cost <= plain.cost
  <2>1. PICK m \in Nat, n \in Nat, halves \in 0..2 :
           m = r.order /\ n = plain.order /\ halves = BuyerHalves[policy] /\ m <= n
    BY <1>6, <1>7, <1>10
  <2>2. GatewayCost(m, list, b, halves) <= GatewayCost(n, list, b, halves)
    BY <2>1, GatewayCostGrows
  <2> QED
    BY <1>6, <1>7, <1>9, <2>1, <2>2
<1>12. r.deduction <= plain.deduction
  BY <1>6, <1>7, <1>11, DeductionGrows
<1>13. r.commission = plain.commission
  BY <1>6, <1>7, <1>8
<1>14. PICK x \in Nat, y \in Nat : x = r.deduction /\ y = plain.deduction /\ x <= y
  BY <1>6, <1>7, <1>12
<1>15. r.sellerNet >= plain.sellerNet
  BY <1>1, <1>6, <1>7, <1>13, <1>14, SMTT(30) DEF AtLeastZero
<1> QED
  BY <1>13, <1>15

\* Bounds on twice a number.
LEMMA TwiceTheBounds ==
    ASSUME NEW X \in Nat, NEW B \in Nat, NEW D \in Nat,
           2 * (2 * X) <= 2 * (2 * B) + 2 * D, 2 * (2 * B) < 2 * (2 * X) + 2 * D
    PROVE  2 * X <= 2 * B + D /\ 2 * B < 2 * X + D
OBVIOUS

\* Where the buyer carries the fee, he is charged what the gateway bills for all he pays.
CoversGateway(r, list, b) ==
    LET found == Matching(list, "PAYMENT_PROCESSING_FEE", b.method)
        c == First(list, found)
    IN  ~b.cash /\ r.policy = "BUYER" /\ found # {} /\ c.min = NoFee /\ c.max = NoFee /\ c.rate < Unit
           => Rounded((r.order + r.cost) * c.rate + c.fixed * Unit, Unit) = r.cost

LEMMA PriceCoversGateway ==
    ASSUME NEW p \in Policies, NEW list \in Seq(FeeComponent), NEW b \in Purchase, NEW r,
           r = PriceWith(p, list, b)
    PROVE  CoversGateway(r, list, b)
<1> SUFFICES ASSUME NEW found, found = Matching(list, "PAYMENT_PROCESSING_FEE", b.method),
                      ~b.cash, r.policy = "BUYER", found # {}, NEW c, c = First(list, found),
                      c.min = NoFee, c.max = NoFee, c.rate < Unit
               PROVE  Rounded((r.order + r.cost) * c.rate + c.fixed * Unit, Unit) = r.cost
  BY DEF CoversGateway
<1>1. c \in FeeComponent
  BY FirstIsOnTheCard
<1>2. PICK rate \in Nat, fixed \in Nat, U \in Nat \ {0} :
         rate = c.rate /\ fixed = c.fixed /\ U = Unit /\ rate < U
  BY <1>1, PricingConstants DEF FeeComponent
<1>3. PICK order \in Nat, cost \in Nat :
         order = r.order /\ cost = r.cost /\ cost = GatewayCost(order, list, b, BuyerHalves[r.policy])
  BY PartsOfPrice
<1>4. cost = GrossUp(order, rate, fixed, 2)
  <2>1. BuyerHalves[r.policy] = 2
    BY DEF BuyerHalves
  <2>2. cost = ClampFee(GrossUp(order, rate, fixed, 2), c)
    BY <1>2, <1>3, <2>1 DEF GatewayCost
  <2> QED
    BY <2>2 DEF ClampFee
<1>5. PICK B \in Nat : B = order * rate + fixed * U
  <2>1. order * rate + fixed * U \in Nat
    OBVIOUS
  <2> QED
    BY <2>1
<1>6. PICK D \in Nat \ {0} : D = U - rate /\ D <= U
  <2>1. U - rate \in Nat \ {0} /\ U - rate <= U
    BY <1>2
  <2> QED
    BY <2>1
<1>7. PICK X \in Nat, Y \in Nat : X = D * cost /\ Y = rate * cost
  <2>1. D * cost \in Nat /\ rate * cost \in Nat
    OBVIOUS
  <2> QED
    BY <2>1
<1>8. U * cost = X + Y
  <2>1. U = D + rate
    BY <1>6
  <2>2. (D + rate) * cost = D * cost + rate * cost
    OBVIOUS
  <2> QED
    BY <1>7, <2>1, <2>2
<1>9. 2 * X <= 2 * B + D /\ 2 * B < 2 * X + D
  <2>1. CASE rate = 0 /\ fixed = 0
    <3>1. cost = 0 /\ B = 0
      BY <1>4, <1>5, <2>1 DEF GrossUp
    <3>2. X = 0
      BY <1>7, <3>1
    <3> QED
      BY <3>1, <3>2
  <2>2. CASE ~(rate = 0 /\ fixed = 0)
    <3>1. ~(rate <= 0 /\ fixed <= 0)
      BY <2>2
    <3>2. PICK divisor \in Nat \ {0} : divisor = 2 * Unit - rate * 2 /\ divisor = 2 * D
      <4>1. 2 * D \in Nat \ {0}
        OBVIOUS
      <4>2. Unit = U /\ D = U - rate /\ U \in Int /\ rate \in Int
        BY <1>2, <1>6
      <4>3. 2 * U - rate * 2 = 2 * (U - rate)
        BY <4>2
      <4>4. 2 * Unit - rate * 2 = 2 * D
        BY <4>2, <4>3
      <4> QED
        BY <4>1, <4>4
    <3>3. cost = Rounded(2 * B, divisor)
      <4>1. ~(divisor <= 0) /\ order * rate + fixed * Unit = B
        BY <1>2, <1>5
      <4> QED
        BY <1>4, <3>1, <3>2, <4>1 DEF GrossUp
    <3>4. 2 * (divisor * cost) <= 2 * (2 * B) + divisor /\ 2 * (2 * B) < 2 * (divisor * cost) + divisor
      <4>1. 2 * B \in Int
        OBVIOUS
      <4> QED
        BY <3>3, <4>1, RoundedBounds
    <3>5. divisor * cost = 2 * X
      <4>1. (2 * D) * cost = 2 * (D * cost)
        OBVIOUS
      <4>2. divisor = 2 * D
        BY <3>2
      <4>3. X = D * cost
        BY <1>7
      <4>4. divisor * cost = (2 * D) * cost
        BY <4>2, Zenon
      <4>5. 2 * X = 2 * (D * cost)
        BY <4>3, Zenon
      <4> QED
        BY <4>1, <4>4, <4>5, Zenon
    <3>6. divisor = 2 * D
      BY <3>2
    <3>7. PICK P : P = divisor * cost
      OBVIOUS
    <3>8. P = 2 * X /\ 2 * P <= 2 * (2 * B) + divisor /\ 2 * (2 * B) < 2 * P + divisor
      BY <3>4, <3>5, <3>7, Zenon
    <3>9. 2 * (2 * X) <= 2 * (2 * B) + 2 * D /\ 2 * (2 * B) < 2 * (2 * X) + 2 * D
      BY <3>6, <3>8, Zenon
    <3>10. D \in Nat
      OBVIOUS
    <3> QED
      BY <3>9, <3>10, TwiceTheBounds, Zenon
  <2> QED
    BY <2>1, <2>2
<1>10. PICK N \in Nat : N = (order + cost) * rate + fixed * U /\ N = B + Y
  <2>1. (order + cost) * rate = order * rate + rate * cost /\ order * rate \in Nat /\ fixed * U \in Nat
    OBVIOUS
  <2>2. (order + cost) * rate + fixed * U = B + Y
    BY <1>5, <1>7, <2>1
  <2> QED
    BY <2>2
<1>11. 2 * (U * cost) <= 2 * N + U /\ 2 * N < 2 * (U * cost) + U
  BY <1>6, <1>8, <1>9, <1>10
<1>12. Rounded(N, U) = cost
  BY <1>11, RoundedOnly
<1> QED
  BY <1>2, <1>3, <1>10, <1>12

\* What two rows add up to, of those that are there.
LEMMA SumOfTwo ==
    ASSUME NEW D, NEW f \in [D -> Int], NEW x, NEW y, x # y, NEW S \in SUBSET D, S \subseteq {x, y}
    PROVE  SumFunctionOnSet(f, S) = (IF x \in S THEN f[x] ELSE 0) + (IF y \in S THEN f[y] ELSE 0)
<1>0. IsFiniteSet({}) /\ {} \in SUBSET D /\ SumFunctionOnSet(f, {}) = 0
  BY SumEmpty, FS_EmptySet
<1>1. \A z \in D : SumFunctionOnSet(f, {z}) = f[z] /\ f[z] \in Int
  <2> TAKE z \in D
  <2>1. SumFunctionOnSet(f, {} \cup {z}) = SumFunctionOnSet(f, {}) + f[z]
    BY <1>0, SumAdd
  <2>2. {} \cup {z} = {z} /\ f[z] \in Int
    OBVIOUS
  <2> QED
    BY <1>0, <2>1, <2>2
<1>2. CASE S = {}
  BY <1>0, <1>2
<1>3. CASE S = {x}
  BY <1>1, <1>3
<1>4. CASE S = {y}
  BY <1>1, <1>4
<1>5. CASE S = {x, y}
  <2>1. IsFiniteSet({x}) /\ {x} \in SUBSET D /\ y \in D /\ y \notin {x}
    BY <1>5, FS_Singleton
  <2>2. SumFunctionOnSet(f, {x} \cup {y}) = SumFunctionOnSet(f, {x}) + f[y]
    BY <2>1, SumAdd
  <2>3. {x} \cup {y} = S
    BY <1>5
  <2> QED
    BY <1>1, <1>5, <2>2, <2>3
<1> QED
  BY <1>2, <1>3, <1>4, <1>5

\* Rows x and y of m and n centavos, 0 for one that is not there, are all of S.
TwoRows(amount, S, x, m, y, n) == SumFunctionOnSet(amount, S) = m + n

\* What a party gets or pays by the rows of a kind or two.
LEMMA LedgerOfTwo ==
    ASSUME NEW rows, NEW amount \in [rows -> Int], \A c \in rows : amount[c] = c.amount,
           NEW x, NEW y, x # y, NEW S \in SUBSET rows, S \subseteq {x, y},
           NEW m \in Nat, NEW n \in Nat, x \in S => x.amount = m, x \notin S => m = 0,
           y \in S => y.amount = n, y \notin S => n = 0
    PROVE  TwoRows(amount, S, x, m, y, n)
<1>2. SumFunctionOnSet(amount, S) = (IF x \in S THEN amount[x] ELSE 0) + (IF y \in S THEN amount[y] ELSE 0)
  BY SumOfTwo
<1>3. (x \in S => amount[x] = m) /\ (y \in S => amount[y] = n)
  OBVIOUS
<1>4. (IF x \in S THEN amount[x] ELSE 0) = m /\ (IF y \in S THEN amount[y] ELSE 0) = n
  BY <1>3
<1> QED
  BY <1>2, <1>4 DEF TwoRows

\* The rows of an order say what it costs the buyer, brings the seller and leaves.
LEMMA ChargesTellThePrice ==
    ASSUME NEW p \in Policies, NEW list \in Seq(FeeComponent), NEW b \in Purchase, NEW r,
           r = PriceWith(p, list, b), NEW rows, rows = OrderCharges(b, r)
    PROVE  b.discount + b.voucher <= b.subtotal =>
              /\ OrderRow(b, r).payment = -LedgerNet("BUYER", rows)
              /\ OrderRow(b, r).sellerNet = LedgerNet("SELLER", rows) - r.deduction
                                               + AtLeastZero(r.commission + r.deduction - CommissionBase(b))
              /\ r.platformNet = LedgerNet("PLATFORM", rows) + b.voucher + r.deduction
<1>1. PICK sub \in Nat, d \in Nat, v \in Nat :
         sub = b.subtotal /\ d = b.discount /\ v = b.voucher
  BY DEF Purchase
<1>2. /\ r.order = AtLeastZero(b.subtotal - b.discount - b.voucher) /\ r.order \in Nat
      /\ r.cost \in Nat /\ r.deduction \in 0..r.cost /\ r.commission \in Nat
      /\ r.buyerFee \in Nat /\ r.buyerTotal = r.order + r.buyerFee
      /\ r.sellerNet = AtLeastZero(b.subtotal - b.discount - r.commission - r.deduction)
      /\ r.platformNet = r.commission + r.buyerFee - (r.cost - r.deduction)
  BY PartsOfPrice, SMTT(30)
<1>3. PICK order \in Nat, cost \in Nat, deduction \in Nat, commission \in Nat, fee \in Nat :
         /\ order = r.order /\ cost = r.cost /\ deduction = r.deduction /\ commission = r.commission
         /\ fee = r.buyerFee
  BY <1>2, SMTT(30)
<1> DEFINE P == Charge("PRODUCT", sub, "BUYER", "SELLER")
           F == Charge("BUYER_TRANSACTION_FEE", fee, "BUYER", "PLATFORM")
           M == Charge("SELLER_MARKETPLACE_FEE", commission, "SELLER", "PLATFORM")
           G == Charge("PAYMENT_PROCESSING_FEE", cost, "PLATFORM", "PAYMENT_PROVIDER")
           R == Charge("DISCOUNT", d, "SELLER", "BUYER")
           V == Charge("PLATFORM_SUBSIDY", v, "PLATFORM", "BUYER")
<1>4. /\ P.type = "PRODUCT" /\ P.amount = sub /\ P.payer = "BUYER" /\ P.beneficiary = "SELLER"
      /\ F.type = "BUYER_TRANSACTION_FEE" /\ F.amount = fee /\ F.payer = "BUYER" /\ F.beneficiary = "PLATFORM"
      /\ M.type = "SELLER_MARKETPLACE_FEE" /\ M.amount = commission /\ M.payer = "SELLER"
      /\ M.beneficiary = "PLATFORM"
      /\ G.type = "PAYMENT_PROCESSING_FEE" /\ G.amount = cost /\ G.payer = "PLATFORM"
      /\ G.beneficiary = "PAYMENT_PROVIDER"
      /\ R.type = "DISCOUNT" /\ R.amount = d /\ R.payer = "SELLER" /\ R.beneficiary = "BUYER"
      /\ V.type = "PLATFORM_SUBSIDY" /\ V.amount = v /\ V.payer = "PLATFORM" /\ V.beneficiary = "BUYER"
  BY DEF Charge
<1>5. rows = {P, F, M, G} \cup {c \in {R, V} : c.amount > 0}
  BY <1>1, <1>3 DEF OrderCharges
<1> HIDE DEF P, F, M, G, R, V
<1>6. PICK amount : amount = [c \in rows |-> c.amount]
  OBVIOUS
<1>7. amount \in [rows -> Int] /\ \A c \in rows : amount[c] = c.amount
  <2>1. \A c \in rows : c.amount \in Int
    BY <1>4, <1>5
  <2> QED
    BY <1>6, <2>1
<1>8. \A party : LedgerNet(party, rows) = SumFunctionOnSet(amount, {c \in rows : c.beneficiary = party})
                                          - SumFunctionOnSet(amount, {c \in rows : c.payer = party})
  BY <1>6 DEF LedgerNet
<1>9. LedgerNet("BUYER", rows) = (d + v) - (sub + fee)
  <2>1. PICK S : S = {c \in rows : c.beneficiary = "BUYER"}
    OBVIOUS
  <2>2. SumFunctionOnSet(amount, S) = d + v
    <3>1. R # V
      BY <1>4
    <3>2. S \subseteq {R, V} /\ S \in SUBSET rows
      BY <1>4, <1>5, <2>1
    <3>3. (R \in S => R.amount = d) /\ (R \notin S => d = 0)
      BY <1>4, <1>5, <2>1
    <3>4. (V \in S => V.amount = v) /\ (V \notin S => v = 0)
      BY <1>4, <1>5, <2>1
    <3>6. TwoRows(amount, S, R, d, V, v)
      BY <1>7, <3>1, <3>2, <3>3, <3>4, LedgerOfTwo, Zenon
    <3> QED
      BY <3>6 DEF TwoRows
  <2>3. PICK T : T = {c \in rows : c.payer = "BUYER"}
    OBVIOUS
  <2>4. SumFunctionOnSet(amount, T) = sub + fee
    <3>1. P # F
      BY <1>4
    <3>2. T \subseteq {P, F} /\ T \in SUBSET rows
      BY <1>4, <1>5, <2>3
    <3>3. (P \in T => P.amount = sub) /\ (P \notin T => sub = 0)
      BY <1>4, <1>5, <2>3
    <3>4. (F \in T => F.amount = fee) /\ (F \notin T => fee = 0)
      BY <1>4, <1>5, <2>3
    <3>6. TwoRows(amount, T, P, sub, F, fee)
      BY <1>7, <3>1, <3>2, <3>3, <3>4, LedgerOfTwo, Zenon
    <3> QED
      BY <3>6 DEF TwoRows
  <2> QED
    BY <1>8, <2>1, <2>2, <2>3, <2>4
<1>10. LedgerNet("SELLER", rows) = (sub + 0) - (commission + d)
  <2>1. PICK S : S = {c \in rows : c.beneficiary = "SELLER"}
    OBVIOUS
  <2>2. SumFunctionOnSet(amount, S) = sub + 0
    <3>1. P # F
      BY <1>4
    <3>2. S \subseteq {P, F} /\ S \in SUBSET rows
      BY <1>4, <1>5, <2>1
    <3>3. (P \in S => P.amount = sub) /\ (P \notin S => sub = 0)
      BY <1>4, <1>5, <2>1
    <3>4. (F \in S => F.amount = 0) /\ (F \notin S => 0 = 0)
      BY <1>4, <1>5, <2>1
    <3>5. 0 \in Nat
      OBVIOUS
    <3>6. TwoRows(amount, S, P, sub, F, 0)
      BY <1>7, <3>1, <3>2, <3>3, <3>4, <3>5, LedgerOfTwo, Zenon
    <3> QED
      BY <3>6 DEF TwoRows
  <2>3. PICK T : T = {c \in rows : c.payer = "SELLER"}
    OBVIOUS
  <2>4. SumFunctionOnSet(amount, T) = commission + d
    <3>1. M # R
      BY <1>4
    <3>2. T \subseteq {M, R} /\ T \in SUBSET rows
      BY <1>4, <1>5, <2>3
    <3>3. (M \in T => M.amount = commission) /\ (M \notin T => commission = 0)
      BY <1>4, <1>5, <2>3
    <3>4. (R \in T => R.amount = d) /\ (R \notin T => d = 0)
      BY <1>4, <1>5, <2>3
    <3>6. TwoRows(amount, T, M, commission, R, d)
      BY <1>7, <3>1, <3>2, <3>3, <3>4, LedgerOfTwo, Zenon
    <3> QED
      BY <3>6 DEF TwoRows
  <2> QED
    BY <1>8, <2>1, <2>2, <2>3, <2>4
<1>11. LedgerNet("PLATFORM", rows) = (fee + commission) - (cost + v)
  <2>1. PICK S : S = {c \in rows : c.beneficiary = "PLATFORM"}
    OBVIOUS
  <2>2. SumFunctionOnSet(amount, S) = fee + commission
    <3>1. F # M
      BY <1>4
    <3>2. S \subseteq {F, M} /\ S \in SUBSET rows
      BY <1>4, <1>5, <2>1
    <3>3. (F \in S => F.amount = fee) /\ (F \notin S => fee = 0)
      BY <1>4, <1>5, <2>1
    <3>4. (M \in S => M.amount = commission) /\ (M \notin S => commission = 0)
      BY <1>4, <1>5, <2>1
    <3>6. TwoRows(amount, S, F, fee, M, commission)
      BY <1>7, <3>1, <3>2, <3>3, <3>4, LedgerOfTwo, Zenon
    <3> QED
      BY <3>6 DEF TwoRows
  <2>3. PICK T : T = {c \in rows : c.payer = "PLATFORM"}
    OBVIOUS
  <2>4. SumFunctionOnSet(amount, T) = cost + v
    <3>1. G # V
      BY <1>4
    <3>2. T \subseteq {G, V} /\ T \in SUBSET rows
      BY <1>4, <1>5, <2>3
    <3>3. (G \in T => G.amount = cost) /\ (G \notin T => cost = 0)
      BY <1>4, <1>5, <2>3
    <3>4. (V \in T => V.amount = v) /\ (V \notin T => v = 0)
      BY <1>4, <1>5, <2>3
    <3>6. TwoRows(amount, T, G, cost, V, v)
      BY <1>7, <3>1, <3>2, <3>3, <3>4, LedgerOfTwo, Zenon
    <3> QED
      BY <3>6 DEF TwoRows
  <2> QED
    BY <1>8, <2>1, <2>2, <2>3, <2>4
<1>12. SUFFICES ASSUME d + v <= sub
                PROVE  /\ OrderRow(b, r).payment = -LedgerNet("BUYER", rows)
                       /\ OrderRow(b, r).sellerNet = LedgerNet("SELLER", rows) - r.deduction
                                            + AtLeastZero(r.commission + r.deduction - CommissionBase(b))
                       /\ r.platformNet = LedgerNet("PLATFORM", rows) + b.voucher + r.deduction
  BY <1>1
<1>21. order = sub - d - v /\ CommissionBase(b) = sub - d
  <2>1. order = AtLeastZero(sub - d - v) /\ CommissionBase(b) = AtLeastZero(sub - d)
    BY <1>1, <1>2, <1>3 DEF CommissionBase
  <2>2. sub - d - v \in Int /\ sub - d - v >= 0 /\ sub - d \in Int /\ sub - d >= 0
    BY <1>12
  <2> QED
    BY <2>1, <2>2, CutOff
<1>13. PICK left \in Int : left = sub - d - commission - deduction
  OBVIOUS
<1>14. PICK x \in Int, y \in Int : x = AtLeastZero(left) /\ y = AtLeastZero(-left) /\ x - y = left
  BY CutOff
<1>15. r.sellerNet = x /\ AtLeastZero(r.commission + r.deduction - CommissionBase(b)) = y
  <2>1. commission + deduction - (sub - d) = -left
    BY <1>13
  <2>2. r.commission + r.deduction - CommissionBase(b) = -left
    BY <1>3, <1>21, <2>1
  <2> QED
    BY <1>1, <1>2, <1>3, <1>13, <1>14, <2>2
<1>16. OrderRow(b, r).payment = order + fee /\ OrderRow(b, r).sellerNet = x
  BY <1>2, <1>3, <1>15 DEF OrderRow
<1>17. order + fee = -((d + v) - (sub + fee))
  BY <1>21
<1>18. x = (sub - (commission + d)) - deduction + y
  BY <1>13, <1>14
<1>19. r.platformNet = commission + fee - (cost - deduction)
  BY <1>2, <1>3
<1>20. commission + fee - (cost - deduction) = ((fee + commission) - (cost + v)) + v + deduction
  OBVIOUS
<1>22. OrderRow(b, r).payment = -LedgerNet("BUYER", rows)
  BY <1>9, <1>16, <1>17
<1>23. OrderRow(b, r).sellerNet = LedgerNet("SELLER", rows) - r.deduction
                                     + AtLeastZero(r.commission + r.deduction - CommissionBase(b))
  <2>1. PICK net \in Int : net = LedgerNet("SELLER", rows) /\ net = (sub + 0) - (commission + d)
    BY <1>10
  <2>2. x = net - deduction + y
    BY <1>18, <2>1, SMTT(30)
  <2> QED
    BY <1>3, <1>15, <1>16, <2>1, <2>2
<1>24. r.platformNet = LedgerNet("PLATFORM", rows) + b.voucher + r.deduction
  <2>1. PICK net \in Int : net = LedgerNet("PLATFORM", rows) /\ net = (fee + commission) - (cost + v)
    BY <1>11
  <2>2. r.platformNet = net + v + deduction
    BY <1>19, <1>20, <2>1
  <2> QED
    BY <1>1, <1>3, <2>1, <2>2
<1> QED
  BY <1>22, <1>23, <1>24

-----------------------------------------------------------------------------
(* Prices: cards, requests and quotes                                      *)

CardRow ==
    [status : {"DRAFT", "ACTIVE", "ARCHIVED"}, window : Windows, policy : Policies, list : Seq(FeeComponent)]
CardCallState ==
    [pc : {"idle", "valid", "replacing", "archiving"}, card : Cards \cup {NoCard}, incumbents : SUBSET Cards]

\* Rows and requests have the shapes the code gives them.
CardShape ==
    /\ card \in [Cards -> CardRow]
    /\ cardCall \in [CardRequests -> CardCallState]
    /\ \A c \in CardRequests : cardCall[c].pc # "idle" => cardCall[c].card \in Cards
    /\ edited \in [Cards -> BOOLEAN]
    /\ cardRaced \in BOOLEAN

\* A quote is the price of a basket by the fees of a card or by the built-in ones.
QuotesArePrices ==
    /\ quoting \in [Quoters -> Cards \cup {NoCard}]
    /\ DOMAIN quote = Quoters
    /\ \A q \in Quoters :
          \/ quote[q] = NoQuote
          \/ \E p \in Policies, list \in Seq(FeeComponent), b \in Baskets : quote[q] = Priced(p, list, b)

ActiveCards == {k \in Cards : card[k].status = "ACTIVE"}
Promoting(c) == cardCall[c].pc \in {"valid", "replacing"}

\* As long as no two requests overlapped: one card is ACTIVE at most; a request
\* that replaces it saw it; a card that is ACTIVE or becomes it was validated
\* as it is, if it was not edited since; and a card under archiving is not live.
CardsAreValidated ==
    ~cardRaced =>
       /\ \A j, k \in ActiveCards : j = k
       /\ \A c \in CardRequests :
             cardCall[c].pc = "replacing" => ActiveCards \ {cardCall[c].card} \subseteq cardCall[c].incumbents
       /\ \A k \in Cards :
             (k \in ActiveCards \/ \E c \in CardRequests : Promoting(c) /\ cardCall[c].card = k)
             /\ ~edited[k] => ~Errors(card[k])
       /\ \A c \in CardRequests : cardCall[c].pc = "archiving" => cardCall[c].card \notin ActiveCards

CardInv == CardShape /\ CardsAreValidated
PricingInv == CardInv /\ QuotesArePrices

LEMMA PricingInvInit == PricingInit => PricingInv
<1> SUFFICES ASSUME PricingInit PROVE PricingInv
  OBVIOUS
<1>1. NewCard \in CardRow /\ NewCard.status # "ACTIVE"
  BY DEF NewCard, Policies, CardRow, Windows
<1>2. CardShape
  BY <1>1 DEF PricingInit, CardShape, CardCallState
<1>3. CardsAreValidated
  BY <1>1 DEF PricingInit, CardsAreValidated, ActiveCards, Promoting
<1>4. QuotesArePrices
  BY DEF PricingInit, QuotesArePrices
<1> QED
  BY <1>2, <1>3, <1>4 DEF PricingInv, CardInv

\* An edit, or the end of a window, may leave a card in any state but says so.
LEMMA RowStep ==
    ASSUME CardInv, NEW k \in Cards, NEW row, card' = [card EXCEPT ![k] = row],
           row \in CardRow,
           row.status = card[k].status, edited' = [edited EXCEPT ![k] = TRUE], UNCHANGED <<cardCall, cardRaced>>
    PROVE  CardInv'
<1>1. CardShape /\ CardsAreValidated
  BY DEF CardInv
<1>2. CardShape'
  BY <1>1 DEF CardShape
<1>3. \A j \in Cards : card'[j].status = card[j].status /\ (~edited'[j] => j # k /\ card'[j] = card[j] /\ ~edited[j])
  BY <1>1 DEF CardShape
<1>4. ActiveCards' = ActiveCards
  BY <1>3 DEF ActiveCards
<1>5. \A c \in CardRequests : Promoting(c)' = Promoting(c)
  BY DEF Promoting
<1>6. CardsAreValidated'
  BY <1>1, <1>3, <1>4, <1>5 DEF CardsAreValidated
<1> QED
  BY <1>2, <1>6 DEF CardInv

LEMMA EditCardStep ==
    ASSUME CardInv, NEW k \in Cards, NEW list \in RateCards, NEW policy \in CardPolicies, EditCard(k, list, policy)
    PROVE  CardInv'
<1>1. card[k] \in CardRow /\ card \in [Cards -> CardRow]
  BY DEF CardInv, CardShape
<1>2. policy \in Policies /\ list \in Seq(FeeComponent)
  BY PricingConstants
<1>3. PICK row : row = [card[k] EXCEPT !.list = list, !.policy = policy]
  OBVIOUS
<1>4. /\ row \in CardRow
      /\ row.status = card[k].status
  BY <1>1, <1>2, <1>3 DEF CardRow
<1>5. card' = [card EXCEPT ![k] = row]
  BY <1>1, <1>3 DEF EditCard
<1> QED
  BY <1>4, <1>5, RowStep DEF EditCard

LEMMA CardWindowStep ==
    ASSUME CardInv, NEW k \in Cards, NEW window \in Windows, CardWindow(k, window)
    PROVE  CardInv'
<1>1. card[k] \in CardRow /\ card \in [Cards -> CardRow]
  BY DEF CardInv, CardShape
<1>2. PICK row : row = [card[k] EXCEPT !.window = window]
  OBVIOUS
<1>3. /\ row \in CardRow
      /\ row.status = card[k].status
  BY <1>1, <1>2 DEF CardRow
<1>4. card' = [card EXCEPT ![k] = row]
  BY <1>1, <1>2 DEF CardWindow
<1> QED
  BY <1>3, <1>4, RowStep DEF CardWindow

\* A card that begins to be live is the one that was validated.
LEMMA CardBeginsStep ==
    ASSUME CardInv, NEW k \in Cards, CardBegins(k)
    PROVE  /\ CardInv'
           /\ \A j \in Cards : LiveCard(j) => LiveCard(j)'
<1>1. CardShape /\ CardsAreValidated
  BY DEF CardInv
<1>2. card[k] \in CardRow /\ card \in [Cards -> CardRow] /\ card[k].window = "waiting"
  BY <1>1 DEF CardShape, CardBegins
<1>3. PICK row : row = [card[k] EXCEPT !.window = "open"]
  OBVIOUS
<1>4. /\ row \in CardRow /\ row.status = card[k].status /\ row.list = card[k].list
      /\ row.window = "open"
  BY <1>2, <1>3 DEF CardRow, Windows
<1>5. card' = [card EXCEPT ![k] = row] /\ UNCHANGED <<cardCall, edited, cardRaced>>
  BY <1>2, <1>3 DEF CardBegins
<1>6. card'[k] = row /\ \A j \in Cards \ {k} : card'[j] = card[j]
  BY <1>2, <1>5
<1>7. CardShape'
  BY <1>1, <1>4, <1>5 DEF CardShape
<1>8. ActiveCards' = ActiveCards
  BY <1>4, <1>6 DEF ActiveCards
<1>9. \A j \in Cards : ~Errors(card[j]) => ~Errors(card'[j])
  <2>1. ASSUME ~Errors(card[k]) PROVE ~Errors(row)
    BY <1>4, <2>1 DEF Errors
  <2> QED
    BY <1>6, <2>1
<1>10. \A c \in CardRequests : Promoting(c)' = Promoting(c)
  BY <1>5 DEF Promoting
<1>11. CardsAreValidated'
  BY <1>1, <1>5, <1>8, <1>9, <1>10 DEF CardsAreValidated
<1>12. \A j \in Cards : LiveCard(j) => LiveCard(j)'
  BY <1>4, <1>6 DEF LiveCard
<1> QED
  BY <1>7, <1>11, <1>12 DEF CardInv

LEMMA ValidateCardStep ==
    ASSUME CardInv, NEW c \in CardRequests, NEW k \in Cards, ValidateCard(c, k)
    PROVE  CardInv'
<1>1. CardShape /\ CardsAreValidated
  BY DEF CardInv
<1>2. cardCall' = [cardCall EXCEPT ![c].pc = "valid", ![c].card = k]
  BY DEF ValidateCard
<1>3. cardCall'[c].pc = "valid" /\ cardCall'[c].card = k /\ \A d \in CardRequests \ {c} : cardCall'[d] = cardCall[d]
  BY <1>1, <1>2 DEF CardShape
<1>4. /\ edited' = [edited EXCEPT ![k] = FALSE] /\ card' = card /\ cardRaced' = cardRaced /\ ~Errors(card[k])
      /\ ActiveCards' = ActiveCards
  BY DEF ValidateCard, ActiveCards
<1>5. CardShape'
  <2>1. cardCall' \in [CardRequests -> CardCallState]
    <3>1. PICK call \in CardCallState : call = cardCall[c]
      BY <1>1 DEF CardShape
    <3>2. PICK new : new = [call EXCEPT !.pc = "valid", !.card = k]
      OBVIOUS
    <3>3. new \in CardCallState
      BY <1>2, <3>2 DEF CardCallState
    <3>4. cardCall' = [cardCall EXCEPT ![c] = new]
      BY <1>1, <1>2, <3>1, <3>2 DEF CardShape
    <3> QED
      BY <1>1, <3>3, <3>4 DEF CardShape
  <2> QED
    BY <1>1, <1>3, <1>4, <2>1 DEF CardShape
<1>6. CardsAreValidated'
  <2>1. \A j \in Cards \ {k} : edited'[j] = edited[j]
    BY <1>1, <1>4 DEF CardShape
  <2>2. \A d \in CardRequests : Promoting(d)' => (Promoting(d) /\ cardCall'[d] = cardCall[d]) \/ d = c
    BY <1>3 DEF Promoting
  <2> QED
    BY <1>1, <1>3, <1>4, <2>1, <2>2 DEF CardsAreValidated
<1> QED
  BY <1>5, <1>6 DEF CardInv

LEMMA ArchiveOthersStep ==
    ASSUME CardInv, NEW c \in CardRequests, ArchiveOthers(c)
    PROVE  CardInv'
<1>1. CardShape /\ CardsAreValidated
  BY DEF CardInv
<1>2. PICK incumbents \in SUBSET Cards : incumbents = ActiveCards \ {cardCall[c].card}
  BY DEF ActiveCards
<1>3. cardCall' = [cardCall EXCEPT ![c].pc = "replacing", ![c].incumbents = incumbents]
  BY <1>2 DEF ArchiveOthers, ActiveCards
<1>4. /\ cardCall[c].pc = "valid" /\ cardCall'[c].pc = "replacing" /\ cardCall'[c].card = cardCall[c].card
      /\ cardCall'[c].incumbents = incumbents
      /\ \A d \in CardRequests \ {c} : cardCall'[d] = cardCall[d]
  BY <1>1, <1>3 DEF CardShape, CardCallState, ArchiveOthers
<1>5. edited' = edited /\ card' = card /\ cardRaced' = cardRaced /\ ActiveCards' = ActiveCards
  BY DEF ArchiveOthers, ActiveCards
<1>6. CardShape'
  <2>1. cardCall' \in [CardRequests -> CardCallState]
    <3>1. PICK call \in CardCallState : call = cardCall[c]
      BY <1>1 DEF CardShape
    <3>2. PICK new : new = [call EXCEPT !.pc = "replacing", !.incumbents = incumbents]
      OBVIOUS
    <3>3. new \in CardCallState
      BY <1>2, <3>2 DEF CardCallState
    <3>4. cardCall' = [cardCall EXCEPT ![c] = new]
      BY <1>1, <1>3, <3>1, <3>2 DEF CardShape
    <3> QED
      BY <1>1, <3>3, <3>4 DEF CardShape
  <2> QED
    BY <1>1, <1>4, <1>5, <2>1 DEF CardShape
<1>7. CardsAreValidated'
  <2>1. \A d \in CardRequests : Promoting(d)' = Promoting(d) /\ cardCall'[d].card = cardCall[d].card
    BY <1>4 DEF Promoting
  <2> QED
    BY <1>1, <1>2, <1>4, <1>5, <2>1 DEF CardsAreValidated
<1> QED
  BY <1>6, <1>7 DEF CardInv

LEMMA ArchiveReadStep ==
    ASSUME CardInv, NEW c \in CardRequests, NEW k \in Cards, ArchiveRead(c, k)
    PROVE  CardInv'
<1>1. CardShape /\ CardsAreValidated
  BY DEF CardInv
<1>2. cardCall' = [cardCall EXCEPT ![c].pc = "archiving", ![c].card = k]
  BY DEF ArchiveRead
<1>3. /\ cardCall'[c].pc = "archiving" /\ cardCall'[c].card = k
      /\ \A d \in CardRequests \ {c} : cardCall'[d] = cardCall[d]
  BY <1>1, <1>2 DEF CardShape
<1>4. /\ edited' = edited /\ card' = card /\ cardRaced' = cardRaced /\ ActiveCards' = ActiveCards
      /\ k \notin ActiveCards
  BY DEF ArchiveRead, ActiveCards, MayArchive
<1>5. CardShape'
  <2>1. cardCall' \in [CardRequests -> CardCallState]
    <3>1. PICK call \in CardCallState : call = cardCall[c]
      BY <1>1 DEF CardShape
    <3>2. PICK new : new = [call EXCEPT !.pc = "archiving", !.card = k]
      OBVIOUS
    <3>3. new \in CardCallState
      BY <1>2, <3>2 DEF CardCallState
    <3>4. cardCall' = [cardCall EXCEPT ![c] = new]
      BY <1>1, <1>2, <3>1, <3>2 DEF CardShape
    <3> QED
      BY <1>1, <3>3, <3>4 DEF CardShape
  <2> QED
    BY <1>1, <1>3, <1>4, <2>1 DEF CardShape
<1>6. CardsAreValidated'
  <2>1. \A d \in CardRequests : Promoting(d)' => Promoting(d) /\ d # c
    BY <1>3 DEF Promoting
  <2> QED
    BY <1>1, <1>3, <1>4, <2>1 DEF CardsAreValidated
<1> QED
  BY <1>5, <1>6 DEF CardInv

LEMMA CardRequestEnds ==
    ASSUME CardShape, NEW c \in CardRequests, CardIdle(c)
    PROVE  /\ cardCall' \in [CardRequests -> CardCallState]
           /\ cardCall'[c].pc = "idle" /\ \A d \in CardRequests \ {c} : cardCall'[d] = cardCall[d]
<1>1. PICK call \in CardCallState : call = cardCall[c]
  BY DEF CardShape
<1>2. PICK new : new = [call EXCEPT !.pc = "idle", !.card = NoCard, !.incumbents = {}]
  OBVIOUS
<1>3. new \in CardCallState /\ new.pc = "idle"
  BY <1>2 DEF CardCallState
<1>4. cardCall' = [cardCall EXCEPT ![c] = new]
  BY <1>1, <1>2 DEF CardShape, CardIdle
<1> QED
  BY <1>3, <1>4 DEF CardShape

\* What validation looks at.
LEMMA ErrorsAreOfFees ==
    ASSUME NEW r, NEW s, r.window = s.window, r.list = s.list
    PROVE  Errors(r) = Errors(s)
BY DEF Errors

\* A promotion leaves the promoted card ACTIVE, alone unless requests overlapped.
LEMMA PromoteCardStep ==
    ASSUME CardInv, NEW c \in CardRequests, PromoteCard(c)
    PROVE  /\ CardInv'
           /\ ~cardRaced' =>
                 \E k \in Cards : LiveCard(k)' \/ OutOfWindow(k)'
<1>1. CardShape /\ CardsAreValidated
  BY DEF CardInv
<1>2. PICK k \in Cards : k = cardCall[c].card
  BY <1>1 DEF CardShape, PromoteCard
<1>3. PICK retired : retired = {j \in cardCall[c].incumbents : card[j].status = "ACTIVE"}
  OBVIOUS
<1>4. card' = [j \in Cards |-> IF j = k THEN [card[j] EXCEPT !.status = "ACTIVE"]
                               ELSE IF j \in retired THEN [card[j] EXCEPT !.status = "ARCHIVED", !.window = "closed"]
                               ELSE card[j]]
  BY <1>2, <1>3 DEF PromoteCard
<1>5. card \in [Cards -> CardRow]
  BY <1>1 DEF CardShape
<1>6. /\ card'[k].status = "ACTIVE" /\ card'[k].window = card[k].window /\ card'[k].list = card[k].list
      /\ card'[k].window \in Windows
  <2>1. card[k] \in CardRow
    BY <1>5
  <2> QED
    BY <1>4, <2>1 DEF CardRow
<1>7. \A j \in Cards \ {k} : IF j \in retired THEN card'[j].status = "ARCHIVED" ELSE card'[j] = card[j]
  <2> TAKE j \in Cards \ {k}
  <2>1. card[j] \in CardRow
    BY <1>5
  <2> QED
    BY <1>4, <2>1 DEF CardRow
<1>8. card' \in [Cards -> CardRow]
  <2>1. \A j \in Cards : /\ [card[j] EXCEPT !.status = "ACTIVE"] \in CardRow
                         /\ [card[j] EXCEPT !.status = "ARCHIVED", !.window = "closed"] \in CardRow
                         /\ card[j] \in CardRow
    BY <1>5 DEF CardRow, Windows
  <2> QED
    BY <1>4, <2>1
<1>9. /\ cardCall' \in [CardRequests -> CardCallState]
      /\ cardCall'[c].pc = "idle" /\ \A d \in CardRequests \ {c} : cardCall'[d] = cardCall[d]
  BY <1>1, CardRequestEnds DEF PromoteCard
<1>10. /\ cardCall[c].pc = "replacing" /\ edited' = edited
       /\ cardRaced' = (cardRaced \/ \E d \in CardRequests \ {c} : cardCall[d].pc # "idle")
  BY DEF PromoteCard
<1>11. CardShape'
  <2>1. cardRaced' \in BOOLEAN
    BY <1>1, <1>10 DEF CardShape
  <2> QED
    BY <1>1, <1>8, <1>9, <1>10, <2>1 DEF CardShape
<1>12. ASSUME ~cardRaced'
       PROVE  /\ ~cardRaced /\ \A d \in CardRequests : cardCall'[d].pc = "idle"
              /\ ActiveCards' \subseteq {k}
              /\ ~edited'[k] => ~Errors(card'[k])
  <2>1. ~cardRaced /\ \A d \in CardRequests : cardCall'[d].pc = "idle"
    BY <1>9, <1>10, <1>12
  <2>2. ActiveCards \ {k} \subseteq retired
    BY <1>1, <1>2, <1>3, <1>10, <2>1 DEF CardsAreValidated, ActiveCards
  <2>3. \A j \in Cards \ {k} : card'[j].status # "ACTIVE"
    BY <1>7, <2>2 DEF ActiveCards
  <2>4. ~edited[k] => ~Errors(card[k])
    BY <1>1, <1>2, <1>10, <2>1 DEF CardsAreValidated, Promoting
  <2>5. Errors(card'[k]) = Errors(card[k])
    BY <1>6, ErrorsAreOfFees
  <2> QED
    BY <1>10, <2>1, <2>3, <2>4, <2>5 DEF ActiveCards
<1>13. CardsAreValidated'
  BY <1>12 DEF CardsAreValidated, Promoting
<1>14. ASSUME ~cardRaced', ~edited'[k] PROVE card'[k].window # "closed"
  BY <1>12, <1>14 DEF Errors
<1>15. ~cardRaced' => LiveCard(k)' \/ OutOfWindow(k)'
  BY <1>6, <1>14 DEF LiveCard, OutOfWindow, Windows
<1> QED
  BY <1>11, <1>13, <1>15 DEF CardInv

\* An archiving takes no card off that is live, unless requests overlapped.
LEMMA ArchiveWriteStep ==
    ASSUME CardInv, NEW c \in CardRequests, ArchiveWrite(c)
    PROVE  /\ CardInv'
           /\ ~cardRaced' => \A k \in Cards : LiveCard(k) => LiveCard(k)'
<1>1. CardShape /\ CardsAreValidated
  BY DEF CardInv
<1>2. PICK k \in Cards : k = cardCall[c].card
  BY <1>1 DEF CardShape, ArchiveWrite
<1>3. PICK row \in CardRow : row = card[k]
  BY <1>1 DEF CardShape
<1>4. PICK new : new = [row EXCEPT !.status = "ARCHIVED", !.window = "closed"]
  OBVIOUS
<1>5. new \in CardRow /\ new.status = "ARCHIVED"
  BY <1>4 DEF CardRow, Windows
<1>6. card' = [card EXCEPT ![k] = new]
  BY <1>1, <1>2, <1>3, <1>4 DEF ArchiveWrite, CardShape
<1>7. card'[k] = new /\ \A j \in Cards \ {k} : card'[j] = card[j]
  BY <1>1, <1>6 DEF CardShape
<1>8. /\ cardCall' \in [CardRequests -> CardCallState]
      /\ cardCall'[c].pc = "idle" /\ \A d \in CardRequests \ {c} : cardCall'[d] = cardCall[d]
  BY <1>1, CardRequestEnds DEF ArchiveWrite
<1>9. /\ cardCall[c].pc = "archiving" /\ edited' = edited
      /\ cardRaced' = (cardRaced \/ \E d \in CardRequests \ {c} : cardCall[d].card = k)
  BY <1>2 DEF ArchiveWrite
<1>10. CardShape'
  <2>1. cardRaced' \in BOOLEAN
    BY <1>1, <1>9 DEF CardShape
  <2> QED
    BY <1>1, <1>5, <1>6, <1>8, <1>9, <2>1 DEF CardShape
<1>11. ASSUME ~cardRaced'
       PROVE  ~cardRaced /\ k \notin ActiveCards /\ \A d \in CardRequests \ {c} : cardCall[d].card # k
  BY <1>1, <1>2, <1>9, <1>11 DEF CardsAreValidated
<1>12. ~cardRaced' => ActiveCards' = ActiveCards
  BY <1>5, <1>7, <1>11 DEF ActiveCards
<1>13. CardsAreValidated'
  <2> SUFFICES ASSUME ~cardRaced'
               PROVE  /\ \A i, j \in ActiveCards' : i = j
                      /\ \A d \in CardRequests : cardCall'[d].pc = "replacing"
                            => ActiveCards' \ {cardCall'[d].card} \subseteq cardCall'[d].incumbents
                      /\ \A j \in Cards :
                            (j \in ActiveCards' \/ \E d \in CardRequests : Promoting(d)' /\ cardCall'[d].card = j)
                            /\ ~edited'[j] => ~Errors(card'[j])
                      /\ \A d \in CardRequests : cardCall'[d].pc = "archiving" => cardCall'[d].card \notin ActiveCards'
    BY DEF CardsAreValidated
  <2>1. \A d \in CardRequests : cardCall'[d].pc # "idle" => d # c /\ cardCall'[d] = cardCall[d] /\ cardCall[d].card # k
    BY <1>8, <1>11
  <2>2. \A d \in CardRequests : Promoting(d)' => /\ Promoting(d) /\ cardCall'[d].card = cardCall[d].card
                                                  /\ cardCall'[d].card # k
    BY <2>1 DEF Promoting
  <2>3. ASSUME NEW j \in Cards, j \in ActiveCards' \/ \E d \in CardRequests : Promoting(d)' /\ cardCall'[d].card = j
        PROVE  j # k /\ card'[j] = card[j]
    BY <1>7, <1>11, <1>12, <2>2, <2>3
  <2>4. \A i, j \in ActiveCards' : i = j
    BY <1>1, <1>11, <1>12 DEF CardsAreValidated
  <2>5. \A d \in CardRequests : cardCall'[d].pc = "replacing"
           => ActiveCards' \ {cardCall'[d].card} \subseteq cardCall'[d].incumbents
    BY <1>1, <1>11, <1>12, <2>1 DEF CardsAreValidated
  <2>6. \A d \in CardRequests : cardCall'[d].pc = "archiving" => cardCall'[d].card \notin ActiveCards'
    BY <1>1, <1>11, <1>12, <2>1 DEF CardsAreValidated
  <2>7. ASSUME NEW j \in Cards, j \in ActiveCards' \/ \E d \in CardRequests : Promoting(d)' /\ cardCall'[d].card = j,
               ~edited'[j]
        PROVE  ~Errors(card'[j])
    <3>1. j \in ActiveCards \/ \E d \in CardRequests : Promoting(d) /\ cardCall[d].card = j
      BY <1>11, <1>12, <2>2, <2>7
    <3>2. ~Errors(card[j])
      BY <1>1, <1>9, <1>11, <2>7, <3>1 DEF CardsAreValidated
    <3> QED
      BY <2>3, <2>7, <3>2
  <2> QED
    BY <2>4, <2>5, <2>6, <2>7
<1>14. ASSUME ~cardRaced', NEW j \in Cards, LiveCard(j) PROVE LiveCard(j)'
  <2>1. j # k
    BY <1>11, <1>14 DEF LiveCard, ActiveCards
  <2> QED
    BY <1>7, <1>14, <2>1 DEF LiveCard
<1> QED
  BY <1>10, <1>13, <1>14 DEF CardInv

LEMMA CardInvStep ==
    ASSUME CardInv, [PricingNext]_cardVars
    PROVE  /\ CardInv'
           /\ (\E k \in Cards : LiveCard(k)) /\ ~cardRaced' =>
                 \E k \in Cards : LiveCard(k)' \/ OutOfWindow(k)'
<1>1. CardShape
  BY DEF CardInv
<1>2. ASSUME UNCHANGED <<card, cardCall, edited, cardRaced>>
      PROVE  CardInv' /\ \A k \in Cards : LiveCard(k) => LiveCard(k)'
  BY <1>2 DEF CardInv, CardShape, CardsAreValidated, ActiveCards, Promoting, LiveCard
<1>3. ASSUME NEW k \in Cards, NEW list \in RateCards, NEW policy \in CardPolicies, EditCard(k, list, policy)
      PROVE  CardInv' /\ \A j \in Cards : LiveCard(j) => LiveCard(j)'
  <2>1. \A j \in Cards : card'[j].status = card[j].status /\ card'[j].window = card[j].window
    BY <1>1, <1>3 DEF EditCard, CardShape, CardRow
  <2> QED
    BY <1>3, <2>1, EditCardStep DEF LiveCard
<1>4. ASSUME NEW k \in Cards, NEW window \in Windows, CardWindow(k, window), NEW j \in Cards, LiveCard(j)
      PROVE  LiveCard(j)' \/ OutOfWindow(j)'
  <2>1. card'[j].status = card[j].status /\ (j # k => card'[j] = card[j])
    BY <1>1, <1>4 DEF CardWindow, CardShape, CardRow
  <2>2. j = k => card'[j].window \in Windows /\ edited'[j]
    BY <1>1, <1>4 DEF CardWindow, CardShape, CardRow
  <2> QED
    BY <1>4, <2>1, <2>2 DEF LiveCard, OutOfWindow, Windows
<1>5. ASSUME NEW c \in CardRequests, PromoteCard(c) \/ ArchiveWrite(c)
      PROVE  /\ CardInv'
             /\ (\E k \in Cards : LiveCard(k)) /\ ~cardRaced' =>
                   \E k \in Cards : LiveCard(k)' \/ OutOfWindow(k)'
  BY <1>5, PromoteCardStep, ArchiveWriteStep
<1>6. ASSUME NEW c \in CardRequests, NEW k \in Cards, ArchiveOthers(c) \/ ValidateCard(c, k) \/ ArchiveRead(c, k)
      PROVE  CardInv' /\ \A j \in Cards : LiveCard(j) => LiveCard(j)'
  <2>1. card' = card
    BY <1>6 DEF ArchiveOthers, ValidateCard, ArchiveRead
  <2> QED
    BY <1>6, <2>1, ArchiveOthersStep, ValidateCardStep, ArchiveReadStep DEF LiveCard
<1>7. ASSUME NEW c \in CardRequests, ArchiveOthers(c)
      PROVE  CardInv' /\ \A j \in Cards : LiveCard(j) => LiveCard(j)'
  <2>1. card' = card
    BY <1>7 DEF ArchiveOthers
  <2> QED
    BY <1>7, <2>1, ArchiveOthersStep DEF LiveCard
<1>8. ASSUME NEW q \in Quoters, NEW b \in Baskets,
             ReadCard(q) \/ QuoteEnds(q) \/ PriceOrder(q, b) \/ PriceFallback(q, b)
      PROVE  UNCHANGED <<card, cardCall, edited, cardRaced>>
  BY <1>8 DEF ReadCard, QuoteEnds, PriceOrder, PriceFallback
<1>9. ASSUME NEW q \in Quoters, ReadCard(q) \/ QuoteEnds(q)
      PROVE  UNCHANGED <<card, cardCall, edited, cardRaced>>
  BY <1>9 DEF ReadCard, QuoteEnds
<1>10. CASE UNCHANGED <<card, cardCall, edited, cardRaced>>
  BY <1>2, <1>10
<1>11. CASE \E k \in Cards, list \in RateCards, policy \in CardPolicies : EditCard(k, list, policy)
  BY <1>3, <1>11
<1>12. CASE \E k \in Cards, window \in Windows : CardWindow(k, window)
  BY <1>4, <1>12, CardWindowStep
<1>15. CASE \E k \in Cards : CardBegins(k)
  BY <1>15, CardBeginsStep
<1>13. CASE \E c \in CardRequests : PromoteCard(c) \/ ArchiveWrite(c)
  BY <1>5, <1>13
<1>14. CASE \E c \in CardRequests : ArchiveOthers(c) \/ \E k \in Cards : ValidateCard(c, k) \/ ArchiveRead(c, k)
  BY <1>6, <1>7, <1>14, SMTT(30)
<1> QED
  BY <1>8, <1>9, <1>10, <1>11, <1>12, <1>13, <1>14, <1>15 DEF PricingNext, PricingStep, cardVars

LEMMA QuotesStep ==
    ASSUME CardInv, QuotesArePrices, [PricingNext]_cardVars
    PROVE  QuotesArePrices'
<1>1. CardShape
  BY DEF CardInv
<1>2. ASSUME UNCHANGED <<quoting, quote>> PROVE QuotesArePrices'
  BY <1>2 DEF QuotesArePrices
<1>3. ASSUME NEW q \in Quoters, ReadCard(q) PROVE QuotesArePrices'
  BY <1>3 DEF QuotesArePrices, ReadCard
<1>4. ASSUME NEW q \in Quoters, QuoteEnds(q) PROVE QuotesArePrices'
  BY <1>4 DEF QuotesArePrices, QuoteEnds
<1>5. ASSUME NEW q \in Quoters, NEW p \in Policies, NEW list \in Seq(FeeComponent), NEW b \in Baskets,
             quote' = [quote EXCEPT ![q] = Priced(p, list, b)], quoting' = quoting
      PROVE  QuotesArePrices'
  BY <1>5 DEF QuotesArePrices
<1>6. ASSUME NEW q \in Quoters, NEW b \in Baskets, PriceOrder(q, b) PROVE QuotesArePrices'
  <2>1. PICK k \in Cards : k = quoting[q]
    BY <1>6 DEF QuotesArePrices, PriceOrder
  <2>2. card[k].policy \in Policies /\ card[k].list \in Seq(FeeComponent)
    BY <1>1 DEF CardShape, CardRow
  <2>3. quote' = [quote EXCEPT ![q] = Priced(card[k].policy, card[k].list, b)] /\ quoting' = quoting
    BY <1>6, <2>1 DEF PriceOrder, Priced
  <2> QED
    BY <1>5, <2>2, <2>3
<1>7. ASSUME NEW q \in Quoters, NEW b \in Baskets, PriceFallback(q, b) PROVE QuotesArePrices'
  <2>1. "BUYER" \in Policies /\ <<>> \in Seq(FeeComponent)
    BY DEF Policies
  <2>2. quote' = [quote EXCEPT ![q] = Priced("BUYER", <<>>, b)] /\ quoting' = quoting
    BY <1>7 DEF PriceFallback, Priced
  <2> QED
    BY <1>5, <2>1, <2>2
<1> QED
  BY <1>2, <1>3, <1>4, <1>6, <1>7 DEF PricingNext, PricingStep, cardVars, EditCard, CardWindow, CardBegins, ArchiveOthers,
     PromoteCard, ArchiveWrite, ValidateCard, ArchiveRead

\* What a quote says of an order adds up.
LEMMA QuotesAddUp == PricingInv => PricesAddUp
<1> SUFFICES ASSUME PricingInv PROVE PricesAddUp
  OBVIOUS
<1>1. CardShape /\ QuotesArePrices
  BY DEF PricingInv, CardInv
<1>2. ASSUME NEW q \in Quoted
      PROVE  \E p \in Policies, list \in Seq(FeeComponent), b \in Purchase :
                quote[q].basket = b /\ quote[q].list = list /\ quote[q].result = PriceWith(p, list, b)
  <2>1. q \in Quoters /\ quote[q].pc = "priced"
    BY DEF Quoted
  <2>2. quote[q] # NoQuote
    BY <2>1 DEF NoQuote
  <2>3. PICK p \in Policies, list \in Seq(FeeComponent), b \in Baskets : quote[q] = Priced(p, list, b)
    BY <1>1, <2>1, <2>2 DEF QuotesArePrices
  <2>4. PICK r : r = PriceWith(p, list, b)
    OBVIOUS
  <2>5. quote[q].basket = b /\ quote[q].list = list /\ quote[q].result = r
    BY <2>3, <2>4 DEF Priced
  <2>6. b \in Purchase
    BY PricingConstants
  <2> QED
    BY <2>4, <2>5, <2>6
<1>3. PricingTypeOK
  <2>1. \A k \in Cards : card[k].status \in {"DRAFT", "ACTIVE", "ARCHIVED"} /\ card[k].policy \in Policies
    BY <1>1 DEF CardShape, CardRow
  <2>2. \A q \in Quoted : quote[q].result.buyerTotal >= quote[q].result.order
    BY <1>2, PriceBalances
  <2> QED
    BY <2>1, <2>2 DEF PricingTypeOK
<1>4. TheBooksBalance
  <2> SUFFICES ASSUME NEW q \in Quoted, NEW r, NEW b, r = quote[q].result, b = quote[q].basket,
                      b.discount + b.voucher <= b.subtotal
               PROVE  r.buyerTotal + b.voucher + AtLeastZero(r.commission + r.deduction - CommissionBase(b))
                         = r.sellerNet + r.platformNet + r.cost
    BY DEF TheBooksBalance
  <2> QED
    BY <1>2, PriceBalances
<1>5. ChargesTellTheTotals
  <2> SUFFICES ASSUME NEW q \in Quoted, NEW r, NEW b, NEW rows, r = quote[q].result, b = quote[q].basket,
                      rows = OrderCharges(b, r), b.discount + b.voucher <= b.subtotal
               PROVE  /\ OrderRow(b, r).payment = -LedgerNet("BUYER", rows)
                      /\ OrderRow(b, r).sellerNet = LedgerNet("SELLER", rows) - r.deduction
                                            + AtLeastZero(r.commission + r.deduction - CommissionBase(b))
                      /\ r.platformNet = LedgerNet("PLATFORM", rows) + b.voucher + r.deduction
    BY DEF ChargesTellTheTotals
  <2> QED
    BY <1>2, ChargesTellThePrice
<1>6. SettlementsFollowQuotes
  <2> SUFFICES ASSUME NEW q \in Quoted, NEW r, NEW b, NEW kept, r = quote[q].result, b = quote[q].basket,
                      kept = SettlementRow(OrderRow(b, r), b.cash)
               PROVE  IF b.cash THEN kept.net = -r.commission /\ kept.paymentFee = 0
                      ELSE /\ r.commission + r.deduction <= CommissionBase(b) => kept.paymentFee = r.deduction
                           /\ kept.net = AtLeastZero(kept.base - kept.commission - r.deduction)
                           /\ r.commission + r.deduction <= CommissionBase(b)
                                 => kept.base = kept.commission + kept.paymentFee + kept.net
    BY DEF SettlementsFollowQuotes
  <2> QED
    BY <1>2, SettlementFollowsPrice
<1>7. GatewayIsCovered
  <2> SUFFICES ASSUME NEW q \in Quoted, NEW r, r = quote[q].result
               PROVE  CoversGateway(r, quote[q].list, quote[q].basket)
    BY DEF GatewayIsCovered, CoversGateway
  <2> QED
    BY <1>2, PriceCoversGateway
<1>8. VouchersSpareTheSeller
  <2> SUFFICES ASSUME NEW q \in Quoted, NEW r, r = quote[q].result
               PROVE  SparesSeller(r, quote[q].list, quote[q].basket)
    BY DEF VouchersSpareTheSeller, SparesSeller
  <2> QED
    BY <1>2, VoucherSpares
<1> QED
  BY <1>3, <1>4, <1>5, <1>6, <1>7, <1>8 DEF PricesAddUp

LEMMA CardsAreSound == PricingInv => OneValidatedCard
<1> SUFFICES ASSUME PricingInv PROVE OneValidatedCard
  OBVIOUS
<1>1. CardShape /\ CardsAreValidated
  BY DEF PricingInv, CardInv
<1>2. ASSUME ~cardRaced PROVE Cardinality({k \in Cards : card[k].status = "ACTIVE"}) <= 1
  <2>1. \A j, k \in ActiveCards : j = k
    BY <1>1, <1>2 DEF CardsAreValidated
  <2>2. CASE ActiveCards = {}
    BY <2>2, FS_EmptySet DEF ActiveCards
  <2>3. CASE ActiveCards # {}
    <3>1. PICK k \in ActiveCards : ActiveCards = {k}
      BY <2>1, <2>3
    <3>2. Cardinality(ActiveCards) = 1
      BY <3>1, FS_Singleton
    <3> QED
      BY <3>2 DEF ActiveCards
  <2> QED
    BY <2>2, <2>3
<1>3. LiveCardsWereValidated
  BY <1>1 DEF CardsAreValidated, LiveCardsWereValidated, LiveCard, ActiveCards
<1> QED
  BY <1>2, <1>3 DEF OneValidatedCard, OneLiveCard

\* Every centavo of a price has an owner, in the quote, in the rows of the order and in its
\* settlement, for any baskets, cards and requests; one card is live, as it was validated;
\* and orders fall back to the built-in rates only when the ACTIVE card has not begun or
\* has ended, or requests about cards overlapped (getActivePricingConfiguration).
THEOREM PricesSound == PricingSpec => PricingIsSound
<1>1. PricingInit => PricingInv
  BY PricingInvInit
<1>2. PricingInv /\ [PricingNext]_cardVars => PricingInv'
  BY CardInvStep, QuotesStep DEF PricingInv
<1>3. PricingInv /\ [PricingNext]_cardVars =>
        [(\E k \in Cards : LiveCard(k)) /\ ~cardRaced' =>
            \E k \in Cards : LiveCard(k)' \/ OutOfWindow(k)']_cardVars
  BY CardInvStep DEF PricingInv
<1> QED
  BY <1>1, <1>2, <1>3, QuotesAddUp, CardsAreSound, PTL DEF PricingSpec, PricingIsSound, NoSilentFallback

-----------------------------------------------------------------------------
(* The cart                                                                *)

CartState == [store : {GoodsStore[g] : g \in Goods} \cup {NoRow}, items : [Goods -> 0..MaxQuantity]]

\* What a cart holds is of its store, and only an empty one has none.
OfOneStore(held) ==
    /\ \A g \in Goods : held.items[g] > 0 => held.store = GoodsStore[g]
    /\ CartEmpty(held.items) => held.store = NoRow

\* The carts that are stored and those that requests have read.
CartInv ==
    /\ cart \in CartState /\ OfOneStore(cart)
    /\ DOMAIN cartCall = CartRequests
    /\ \A c \in CartRequests :
          cartCall[c].pc = "read" => cartCall[c].seen \in CartState /\ OfOneStore(cartCall[c].seen)
    /\ BonusIsFree

LEMMA EmptyCart == NoCart \in CartState /\ OfOneStore(NoCart)
  BY BuyerConstants DEF NoCart, CartState, OfOneStore, CartEmpty

\* What a discount takes off is an amount.
LEMMA DiscountNat ==
    ASSUME NEW ad \in DiscountAd, ad.type = "BOGO" => ad.buy > 0 /\ ad.free > 0, NEW n \in Nat
    PROVE  DiscountForAd(ad, n) \in Int
<1>1. /\ ad.buy \in Nat /\ ad.free \in Nat /\ ad.value \in Nat
      /\ ad.type \in {"PERCENTAGE", "FIXED_AMOUNT", "BOGO"} /\ Price \in Nat
  BY BuyerConstants DEF DiscountAd
<1>2. PICK total \in Nat : total = n * Price
  BY <1>1
<1>3. CASE ad.type = "PERCENTAGE"
  <2>1. PICK value \in Nat : value = ad.value
    BY <1>1
  <2>2. total * value \in Nat
    OBVIOUS
  <2>3. (total * value) \div 100 \in Int
    BY <2>2
  <2> QED
    BY <1>2, <1>3, <2>1, <2>3 DEF DiscountForAd
<1>4. CASE ad.type = "FIXED_AMOUNT"
  <2>1. PICK cut \in Nat : cut = ad.value * n
    BY <1>1
  <2>2. Min({total, cut}) \in {total, cut}
    <3>1. IsFiniteSet({total, cut})
      BY TwoAreFinite
    <3> QED
      BY <3>1, MinIsLeast
  <2> QED
    BY <1>2, <1>4, <2>1, <2>2 DEF DiscountForAd
<1>5. CASE ad.type = "BOGO"
  <2>1. PICK size \in Nat \ {0}, free \in Nat : size = ad.buy + ad.free /\ free = ad.free
    BY <1>1, <1>5
  <2>2. PICK units \in Int : units = (n \div size) * free
    OBVIOUS
  <2>3. PICK least : least = Min({n, units}) /\ least \in {n, units}
    <3>1. IsFiniteSet({n, units})
      BY TwoAreFinite
    <3> QED
      BY <3>1, MinIsLeast
  <2>4. least * Price \in Int
    BY <1>1, <2>3
  <2> QED
    BY <1>5, <2>1, <2>2, <2>3, <2>4 DEF DiscountForAd
<1> QED
  BY <1>1, <1>3, <1>4, <1>5

\* An item is discounted by the best of its ads.
LEMMA BestDiscount ==
    ASSUME NEW ads \in AdSets, NEW n \in Nat
    PROVE  /\ ItemDiscount(ads, n) \in Nat
           /\ \A ad \in ads : DiscountForAd(ad, n) <= ItemDiscount(ads, n)
<1> DEFINE D == {0} \cup {DiscountForAd(ad, n) : ad \in ads}
<1>1. \A ad \in ads : DiscountForAd(ad, n) \in Int
  BY BuyerConstants, DiscountNat
<1>2. PICK cuts : cuts = {DiscountForAd(ad, n) : ad \in ads} /\ IsFiniteSet(cuts)
  <2>1. PICK f : f = [ad \in ads |-> DiscountForAd(ad, n)]
    OBVIOUS
  <2>2. IsFiniteSet({f[ad] : ad \in ads})
    BY <2>1, BuyerConstants, ValuesAreFinite
  <2>3. {f[ad] : ad \in ads} = {DiscountForAd(ad, n) : ad \in ads}
    BY <2>1
  <2> QED
    BY <2>2, <2>3
<1>3. IsFiniteSet(D) /\ D \in SUBSET Int /\ 0 \in D
  <2>1. IsFiniteSet({0} \cup cuts)
    BY <1>2, FS_Singleton, FS_Union
  <2> QED
    BY <1>1, <1>2, <2>1
<1>4. Max(D) \in D /\ \A x \in D : x <= Max(D)
  <2> HIDE DEF D
  <2> QED
    BY <1>3, MaxIsLargest
<1>5. ItemDiscount(ads, n) = Max(D)
  BY DEF ItemDiscount
<1> QED
  BY <1>1, <1>4, <1>5

\* The goods that one ad gives for a quantity that is paid for.
Bonus(ad, n) == (n \div ad.buy) * ad.free

\* Goods that were added with a bonus are discounted by their bonus.
LEMMA BonusIsDiscounted ==
    ASSUME NEW ad \in DiscountAd, ad.type = "BOGO", ad.buy > 0, ad.free > 0, NEW n \in Nat
    PROVE  /\ Bonus(ad, n) \in Nat
           /\ DiscountForAd(ad, n + Bonus(ad, n)) >= Bonus(ad, n) * Price
<1>1. PICK buy \in Nat \ {0}, free \in Nat \ {0}, price \in Nat :
         buy = ad.buy /\ free = ad.free /\ price = Price
  BY BuyerConstants DEF DiscountAd
<1>2. PICK bundles \in Nat : bundles = n \div buy /\ buy * bundles <= n
  <2>1. n \div buy \in Nat /\ buy * (n \div buy) <= n
    OBVIOUS
  <2> QED
    BY <2>1
<1>3. PICK bonus \in Nat : bonus = bundles * free /\ bonus = Bonus(ad, n)
  <2>1. bundles * free \in Nat
    OBVIOUS
  <2> QED
    BY <1>1, <1>2, <2>1 DEF Bonus
<1>4. PICK got \in Nat : got = (n + bonus) \div (buy + free) /\ got >= bundles
  <2>1. (buy + free) * bundles <= n + bonus
    <3>1. (buy + free) * bundles = buy * bundles + bundles * free
      OBVIOUS
    <3> QED
      BY <1>2, <1>3, <3>1
  <2>2. PICK size \in Nat \ {0}, all \in Nat : size = buy + free /\ all = n + bonus /\ size * bundles <= all
    BY <2>1
  <2>3. PICK q \in Nat : q = all \div size /\ all < size * q + size
    <3>1. all \div size \in Nat /\ all < size * (all \div size) + size
      OBVIOUS
    <3> QED
      BY <3>1
  <2>4. q >= bundles
    <3> SUFFICES ASSUME q < bundles PROVE FALSE
      OBVIOUS
    <3>1. PICK e \in Nat : bundles = q + 1 + e
      <4>1. bundles - q - 1 \in Nat /\ bundles = q + 1 + (bundles - q - 1)
        OBVIOUS
      <4> QED
        BY <4>1
    <3>2. size * bundles = size * q + size + size * e /\ size * e \in Nat
      BY <3>1
    <3> QED
      BY <2>2, <2>3, <3>2
  <2> QED
    BY <2>2, <2>3, <2>4
<1>5. PICK units \in Nat : units = got * free /\ units >= bonus
  <2>1. PICK e \in Nat : got = bundles + e
    <3>1. got - bundles \in Nat /\ got = bundles + (got - bundles)
      BY <1>4
    <3> QED
      BY <3>1
  <2>2. got * free = bundles * free + e * free /\ e * free \in Nat /\ got * free \in Nat
    BY <2>1
  <2> QED
    BY <1>3, <2>2
<1>6. PICK least \in Nat : least = Min({n + bonus, units}) /\ least >= bonus
  <2>1. PICK all \in Nat : all = n + bonus
    OBVIOUS
  <2>2. IsFiniteSet({all, units})
    BY TwoAreFinite
  <2>3. Min({all, units}) \in {all, units}
    BY <2>2, MinIsLeast
  <2> QED
    BY <1>5, <2>1, <2>3
<1>7. DiscountForAd(ad, n + bonus) = least * price
  BY <1>1, <1>4, <1>5, <1>6 DEF DiscountForAd
<1>8. least * price >= bonus * price
  <2>1. PICK e \in Nat : least = bonus + e
    <3>1. least - bonus \in Nat /\ least = bonus + (least - bonus)
      BY <1>6
    <3> QED
      BY <3>1
  <2>2. least * price = bonus * price + e * price /\ e * price \in Nat /\ bonus * price \in Nat
    BY <2>1
  <2> QED
    BY <2>2
<1> QED
  BY <1>1, <1>3, <1>7, <1>8

\* What is stored is what was asked for and the largest bonus, as far as the stock goes.
LEMMA StoredQuantity ==
    ASSUME NEW ads \in AdSets, NEW n \in Nat, NEW stock \in Nat, n <= stock,
           NEW total, total = BogoQuantity(ads, n, stock)
    PROVE  /\ total \in n..stock
           /\ total < stock => total * Price - ItemDiscount(ads, total) <= n * Price
<1> DEFINE bogos == {a \in ads : a.type = "BOGO"}
           gifts == {0} \cup {Bonus(ad, n) : ad \in bogos}
<1>1. \A ad \in bogos : ad \in ads /\ ad \in DiscountAd /\ ad.type = "BOGO" /\ ad.buy > 0 /\ ad.free > 0
  BY BuyerConstants
<1>2. \A ad \in bogos : Bonus(ad, n) \in Nat /\ DiscountForAd(ad, n + Bonus(ad, n)) >= Bonus(ad, n) * Price
  <2> HIDE DEF bogos
  <2> QED
    BY <1>1, BonusIsDiscounted
<1>3. PICK given : given = {Bonus(ad, n) : ad \in bogos} /\ IsFiniteSet(given)
  <2>1. IsFiniteSet(bogos)
    BY BuyerConstants, FS_Subset
  <2>2. PICK f : f = [ad \in bogos |-> Bonus(ad, n)]
    OBVIOUS
  <2> HIDE DEF bogos
  <2>3. IsFiniteSet({f[ad] : ad \in bogos})
    BY <2>1, <2>2, ValuesAreFinite
  <2>4. {f[ad] : ad \in bogos} = {Bonus(ad, n) : ad \in bogos}
    BY <2>2
  <2> QED
    BY <2>3, <2>4
<1>4. PICK most \in Nat : most \in gifts /\ most = Max(gifts)
  <2>1. IsFiniteSet({0} \cup given)
    BY <1>3, FS_Singleton, FS_Union
  <2>2. IsFiniteSet(gifts) /\ gifts \in SUBSET Nat /\ 0 \in gifts
    BY <1>2, <1>3, <2>1
  <2> HIDE DEF gifts
  <2>3. gifts \in SUBSET Int /\ gifts # {}
    BY <2>2
  <2> QED
    BY <2>2, <2>3, MaxIsLargest
<1>5. total = Min({stock, n + most})
  BY <1>4 DEF BogoQuantity, Bonus
<1>6. PICK all \in Nat : all = n + most
  <2> HIDE DEF gifts
  <2>1. n + most \in Nat
    BY <1>4
  <2> QED
    BY <2>1
<1>7. total \in {stock, all} /\ total <= stock /\ total <= all
  <2>1. IsFiniteSet({stock, all})
    BY TwoAreFinite
  <2>2. Min({stock, all}) \in {stock, all} /\ \A x \in {stock, all} : Min({stock, all}) <= x
    BY <2>1, MinIsLeast
  <2> QED
    BY <1>5, <1>6, <2>2
<1>8. total \in n..stock
  BY <1>4, <1>6, <1>7
<1>9. ASSUME total < stock PROVE total * Price - ItemDiscount(ads, total) <= n * Price
  <2>1. total = all
    BY <1>7, <1>9
  <2>2. PICK price \in Nat, cut \in Nat :
           /\ price = Price /\ cut = ItemDiscount(ads, all)
           /\ \A ad \in ads : DiscountForAd(ad, all) <= cut
    BY BuyerConstants, BestDiscount
  <2>3. cut >= most * price
    <3>1. CASE most = 0
      BY <3>1
    <3>2. CASE most # 0
      <4>1. PICK ad \in bogos : most = Bonus(ad, n)
        BY <1>4, <3>2
      <4>2. DiscountForAd(ad, all) >= most * price /\ DiscountForAd(ad, all) <= cut
        BY <1>1, <1>2, <1>6, <2>2, <4>1
      <4>3. PICK discount \in Int : discount = DiscountForAd(ad, all)
        BY <1>1, DiscountNat
      <4>4. most * price \in Nat
        BY <1>4
      <4> QED
        BY <4>2, <4>3, <4>4
    <3> QED
      BY <3>1, <3>2
  <2>4. all * price = n * price + most * price /\ n * price \in Nat /\ most * price \in Nat
    BY <1>4, <1>6
  <2>5. all * price - cut <= n * price
    BY <2>3, <2>4
  <2> QED
    BY <2>1, <2>2, <2>5
<1> QED
  BY <1>8, <1>9

LEMMA CartInvInit == CartInit => CartInv
<1> SUFFICES ASSUME CartInit PROVE CartInv
  OBVIOUS
<1>1. BonusIsFree
  BY DEF CartInit, BonusIsFree, NoSave
<1> QED
  BY <1>1, EmptyCart DEF CartInit, CartInv

\* A request that ends leaves the others what they have read.
LEMMA CartCallEnds ==
    ASSUME CartInv, NEW c \in CartRequests, CartEnds(c)
    PROVE  /\ DOMAIN cartCall' = CartRequests
           /\ \A d \in CartRequests : cartCall'[d].pc = "read" =>
                 cartCall'[d].seen \in CartState /\ OfOneStore(cartCall'[d].seen)
BY DEF CartInv, CartEnds

LEMMA AddToCartStep ==
    ASSUME CartInv, NEW c \in CartRequests, NEW g \in Goods, NEW n \in 1..MaxQuantity, NEW stock \in 1..MaxQuantity,
           NEW ads \in AdSets, AddToCart(c, g, n, stock, ads)
    PROVE  CartInv'
<1>1. PICK seen \in CartState : seen = cartCall[c].seen /\ OfOneStore(seen)
  BY DEF CartInv, AddToCart
<1>2. PICK total : total = BogoQuantity(ads, n, stock)
  OBVIOUS
<1>3. n \in Nat /\ stock \in Nat /\ n <= stock /\ n > 0 /\ stock <= MaxQuantity /\ MaxQuantity \in Nat
  BY BuyerConstants DEF AddToCart
<1>4. /\ total \in n..stock
      /\ total < stock => total * Price - ItemDiscount(ads, total) <= n * Price
  BY <1>2, <1>3, StoredQuantity
<1>5. total \in 0..MaxQuantity /\ total > 0
  BY <1>3, <1>4
<1>6. PICK new : /\ new = [store |-> GoodsStore[g], items |-> [seen.items EXCEPT ![g] = total]]
                 /\ cart' = new
  BY <1>1, <1>2 DEF AddToCart
<1>7. seen.items \in [Goods -> 0..MaxQuantity]
  BY DEF CartState
<1>8. new \in CartState
  BY <1>5, <1>6, <1>7 DEF CartState
<1>9. OfOneStore(new)
  <2>1. ASSUME NEW h \in Goods, new.items[h] > 0 PROVE new.store = GoodsStore[h]
    <3>1. CASE h = g
      BY <1>6, <3>1
    <3>2. CASE h # g
      <4>1. seen.items[h] > 0 /\ seen.items[h] \in Nat
        BY <1>6, <1>7, <2>1, <3>2
      <4>2. seen.store = GoodsStore[h]
        BY <1>1, <4>1 DEF OfOneStore
      <4>3. ~CartEmpty(seen.items) /\ seen.store # NoRow
        BY <4>1, <4>2, BuyerConstants DEF CartEmpty
      <4>4. StoreFits(seen, g)
        BY <1>1 DEF AddToCart
      <4> QED
        BY <1>6, <4>2, <4>3, <4>4 DEF StoreFits
    <3> QED
      BY <3>1, <3>2
  <2>2. ~CartEmpty(new.items)
    BY <1>5, <1>6, <1>7 DEF CartEmpty
  <2> QED
    BY <2>1, <2>2 DEF OfOneStore
<1>10. BonusIsFree'
  <2>1. saved' = [asked |-> n, stored |-> total, stock |-> stock, ads |-> ads]
    BY <1>2 DEF AddToCart
  <2> QED
    BY <1>4, <2>1 DEF BonusIsFree
<1>11. CartEnds(c)
  BY DEF AddToCart
<1> QED
  BY <1>6, <1>8, <1>9, <1>10, <1>11, CartCallEnds DEF CartInv

LEMMA RemoveItemsStep ==
    ASSUME CartInv, NEW c \in CartRequests, NEW gs \in SUBSET Goods, RemoveItems(c, gs)
    PROVE  CartInv'
<1>1. PICK seen \in CartState : seen = cartCall[c].seen /\ OfOneStore(seen)
  BY DEF CartInv, RemoveItems
<1>2. PICK left : left = [g \in Goods |-> IF g \in gs THEN 0 ELSE seen.items[g]]
  OBVIOUS
<1>3. PICK new : /\ new = [store |-> IF CartEmpty(left) THEN NoRow ELSE seen.store, items |-> left]
                 /\ cart' = new
  BY <1>1, <1>2 DEF RemoveItems
<1>4. seen.items \in [Goods -> 0..MaxQuantity] /\ 0 \in 0..MaxQuantity
  BY BuyerConstants DEF CartState
<1>5. new \in CartState
  BY <1>2, <1>3, <1>4 DEF CartState
<1>6. OfOneStore(new)
  <2>1. ASSUME NEW g \in Goods, new.items[g] > 0 PROVE new.store = GoodsStore[g]
    <3>1. left[g] > 0 /\ left[g] = seen.items[g]
      BY <1>2, <1>3, <2>1
    <3>2. seen.store = GoodsStore[g]
      BY <1>1, <3>1 DEF OfOneStore
    <3>3. ~CartEmpty(left)
      BY <3>1 DEF CartEmpty
    <3> QED
      BY <1>3, <3>2, <3>3
  <2> QED
    BY <1>3, <2>1 DEF OfOneStore
<1>7. CartEnds(c) /\ saved' = saved
  BY DEF RemoveItems
<1> QED
  BY <1>3, <1>5, <1>6, <1>7, CartCallEnds DEF CartInv, BonusIsFree

LEMMA CartInvStep == CartInv /\ [CartNext]_cartVars => CartInv'
<1> SUFFICES ASSUME CartInv, [CartNext]_cartVars PROVE CartInv'
  OBVIOUS
<1>1. CASE UNCHANGED cartVars
  BY <1>1 DEF CartInv, cartVars, BonusIsFree
<1>2. CASE ClearCart
  BY <1>2, EmptyCart DEF ClearCart, CartInv, BonusIsFree
<1>3. ASSUME NEW c \in CartRequests, CartRead(c) PROVE CartInv'
  <2>1. cart' = cart /\ saved' = saved /\ cartCall' = [cartCall EXCEPT ![c] = [pc |-> "read", seen |-> cart]]
    BY <1>3 DEF CartRead
  <2>2. cart \in CartState /\ OfOneStore(cart) /\ BonusIsFree
    BY DEF CartInv
  <2>3. \A d \in CartRequests : cartCall'[d].pc = "read" =>
           cartCall'[d].seen \in CartState /\ OfOneStore(cartCall'[d].seen)
    <3> TAKE d \in CartRequests
    <3>1. CASE d = c
      BY <2>1, <2>2, <3>1 DEF CartInv
    <3>2. CASE d # c
      BY <2>1, <3>2 DEF CartInv
    <3> QED
      BY <3>1, <3>2
  <2> QED
    BY <2>1, <2>2, <2>3 DEF CartInv, BonusIsFree
<1>4. ASSUME NEW c \in CartRequests, CartFails(c) PROVE CartInv'
  <2>1. CartEnds(c) /\ cart' = cart /\ saved' = saved
    BY <1>4 DEF CartFails
  <2> QED
    BY <2>1, CartCallEnds DEF CartInv, BonusIsFree
<1> QED
  BY <1>1, <1>2, <1>3, <1>4, AddToCartStep, RemoveItemsStep DEF CartNext

-----------------------------------------------------------------------------
(* The wishlist, the address book and the reviews. *)

\* Until two requests add the bare product at once, one at most does, and it found none.
BareAlone ==
    ~wishRaced =>
        /\ wished[NoRow] <= 1
        /\ AddingBare => wished[NoRow] = 0
        /\ \A c, d \in WishRequests : AddsBare(c) /\ AddsBare(d) => c = d

\* Counts are naturals, an addition under way is of something that can be saved, a product's
\* variant is saved once, and the bare product is unless additions of it overlapped.
WishInv ==
    /\ wished \in [Variants \cup {NoRow} -> Nat]
    /\ \A c \in WishRequests : Adding(c) => \E v \in Variants \cup {NoRow} : wishCall[c] = <<v>>
    /\ DOMAIN wishCall = WishRequests
    /\ wishRaced \in BOOLEAN
    /\ \A v \in Variants : wished[v] <= 1
    /\ BareAlone

LEMMA WishInvInit == WishInit => WishInv
<1> SUFFICES ASSUME WishInit PROVE WishInv
  OBVIOUS
<1>1. wished = [v \in Variants \cup {NoRow} |-> 0] /\ \A c \in WishRequests : ~Adding(c)
  BY DEF WishInit, Adding
<1>2. BareAlone
  BY <1>1 DEF BareAlone, AddingBare, AddsBare
<1>3. wished \in [Variants \cup {NoRow} -> Nat] /\ \A v \in Variants : wished[v] <= 1
  BY <1>1
<1>4. DOMAIN wishCall = WishRequests /\ wishRaced \in BOOLEAN
  BY DEF WishInit
<1> QED
  BY <1>1, <1>2, <1>3, <1>4 DEF WishInv

\* A request that found nothing adds the bare product alone, or its overlap is on record.
LEMMA WishFindStep ==
    ASSUME WishInv, NEW c \in WishRequests, NEW v \in DOMAIN wished, WishFind(c, v)
    PROVE  WishInv'
<1>1. v \in Variants \cup {NoRow}
  BY DEF WishInv
<1>2. /\ wished' = wished /\ wished[v] = 0 /\ wishCall' = [wishCall EXCEPT ![c] = <<v>>]
      /\ wishRaced' = (wishRaced \/ (v = NoRow /\ AddingBare))
  BY DEF WishFind
<1>3. wishCall'[c] = <<v>> /\ \A d \in WishRequests \ {c} : wishCall'[d] = wishCall[d]
  BY <1>2 DEF WishInv
<1>4. \A d \in WishRequests \ {c} : AddsBare(d)' <=> AddsBare(d)
  BY <1>3 DEF AddsBare, Adding
<1>5. BareAlone'
  <2> SUFFICES ASSUME ~wishRaced'
               PROVE  /\ wished'[NoRow] <= 1
                      /\ AddingBare' => wished'[NoRow] = 0
                      /\ \A d, e \in WishRequests : AddsBare(d)' /\ AddsBare(e)' => d = e
    BY DEF BareAlone
  <2>1. ~wishRaced /\ (v = NoRow => ~AddingBare)
    BY <1>2
  <2>2. CASE v = NoRow
    <3>1. \A d \in WishRequests \ {c} : ~AddsBare(d)'
      BY <1>4, <2>1, <2>2 DEF AddingBare
    <3> QED
      BY <1>2, <2>2, <3>1
  <2>3. CASE v # NoRow
    <3>1. ~AddsBare(c)'
      <4>1. <<v>> # <<NoRow>>
        BY <2>3
      <4> QED
        BY <1>3, <4>1 DEF AddsBare
    <3>2. \A d \in WishRequests : AddsBare(d)' => AddsBare(d)
      BY <1>4, <3>1
    <3>3. AddingBare' => AddingBare
      BY <3>2 DEF AddingBare
    <3> QED
      BY <1>2, <2>1, <3>2, <3>3 DEF WishInv, BareAlone
  <2> QED
    BY <2>2, <2>3
<1>6. \A d \in WishRequests : Adding(d)' => \E w \in Variants \cup {NoRow} : wishCall'[d] = <<w>>
  BY <1>1, <1>3 DEF WishInv, Adding
<1>7. wishRaced' \in BOOLEAN /\ DOMAIN wishCall' = WishRequests
  BY <1>2 DEF WishInv
<1> QED
  BY <1>2, <1>5, <1>6, <1>7 DEF WishInv

LEMMA WishCreateStep ==
    ASSUME WishInv, NEW c \in WishRequests, WishCreate(c)
    PROVE  WishInv'
<1>1. PICK v \in Variants \cup {NoRow} : wishCall[c] = <<v>>
  BY DEF WishInv, WishCreate
<1>2. /\ wished' = [wished EXCEPT ![v] = IF v = NoRow THEN @ + 1 ELSE 1]
      /\ wishCall' = [wishCall EXCEPT ![c] = NoRow] /\ wishRaced' = wishRaced /\ Adding(c)
  BY <1>1 DEF WishCreate
<1>3. wished' \in [Variants \cup {NoRow} -> Nat]
  BY <1>2 DEF WishInv
<1>4. \A w \in Variants : wished'[w] <= 1
  BY <1>2, BuyerConstants DEF WishInv
<1>5. ~Adding(c)' /\ \A d \in WishRequests \ {c} : wishCall'[d] = wishCall[d]
  BY <1>2 DEF WishInv, Adding
<1>6. \A d \in WishRequests : AddsBare(d)' => d # c /\ AddsBare(d)
  BY <1>5 DEF AddsBare, Adding
<1>7. BareAlone'
  <2> SUFFICES ASSUME ~wishRaced
               PROVE  /\ wished'[NoRow] <= 1
                      /\ AddingBare' => wished'[NoRow] = 0
                      /\ \A d, e \in WishRequests : AddsBare(d)' /\ AddsBare(e)' => d = e
    BY <1>2 DEF BareAlone
  <2>1. BareAlone
    BY DEF WishInv
  <2>2. CASE v = NoRow
    <3>1. AddsBare(c) /\ AddingBare
      BY <1>1, <1>2, <2>2 DEF AddsBare, AddingBare
    <3>2. wished[NoRow] = 0 /\ \A d \in WishRequests : AddsBare(d) => d = c
      BY <2>1, <3>1 DEF BareAlone
    <3>3. wished'[NoRow] = 1
      BY <1>2, <2>2, <3>2 DEF WishInv
    <3>4. \A d \in WishRequests : ~AddsBare(d)'
      BY <1>6, <3>2
    <3> QED
      BY <3>3, <3>4 DEF AddingBare
  <2>3. CASE v # NoRow
    <3>1. wished'[NoRow] = wished[NoRow]
      BY <1>2, <2>3 DEF WishInv
    <3>2. AddingBare' => AddingBare
      BY <1>6 DEF AddingBare
    <3> QED
      BY <1>6, <2>1, <3>1, <3>2 DEF BareAlone
  <2> QED
    BY <2>2, <2>3
<1>8. \A d \in WishRequests : Adding(d)' => \E w \in Variants \cup {NoRow} : wishCall'[d] = <<w>>
  BY <1>2 DEF WishInv, Adding
<1> QED
  BY <1>2, <1>3, <1>4, <1>7, <1>8 DEF WishInv

\* Once the bare product is removed with nobody adding it, nothing of an overlap is left.
LEMMA WishRemoveStep ==
    ASSUME WishInv, NEW vs, WishRemove(vs)
    PROVE  WishInv'
<1>1. /\ wished' = [v \in DOMAIN wished |-> IF v \in vs THEN 0 ELSE wished[v]]
      /\ wishRaced' = (wishRaced /\ (NoRow \in vs => AddingBare)) /\ wishCall' = wishCall
  BY DEF WishRemove
<1>2. wished' \in [Variants \cup {NoRow} -> Nat] /\ \A v \in Variants : wished'[v] <= 1
  BY <1>1 DEF WishInv
<1>3. \A d \in WishRequests : AddsBare(d)' <=> AddsBare(d)
  BY <1>1 DEF AddsBare, Adding
<1>4. BareAlone'
  <2>1. CASE wishRaced /\ ~wishRaced'
    <3>1. NoRow \in vs /\ ~AddingBare
      BY <1>1, <2>1
    <3>2. wished'[NoRow] = 0
      BY <1>1, <3>1 DEF WishInv
    <3>3. \A d \in WishRequests : ~AddsBare(d)'
      BY <1>3, <3>1 DEF AddingBare
    <3> QED
      BY <3>2, <3>3 DEF BareAlone, AddingBare
  <2>2. CASE ~wishRaced
    <3>1. wished'[NoRow] = 0 \/ wished'[NoRow] = wished[NoRow]
      BY <1>1 DEF WishInv
    <3>2. AddingBare' => AddingBare
      BY <1>3 DEF AddingBare
    <3> QED
      BY <1>3, <2>2, <3>1, <3>2 DEF WishInv, BareAlone
  <2>3. CASE wishRaced'
    BY <2>3 DEF BareAlone
  <2> QED
    BY <2>1, <2>2, <2>3
<1>5. wishRaced' \in BOOLEAN
  BY <1>1 DEF WishInv
<1> QED
  BY <1>1, <1>2, <1>4, <1>5 DEF WishInv, Adding

LEMMA WishInvStep == WishInv /\ [WishNext]_wishVars => WishInv'
<1> SUFFICES ASSUME WishInv, [WishNext]_wishVars PROVE WishInv'
  OBVIOUS
<1>1. CASE UNCHANGED wishVars
  BY <1>1 DEF WishInv, wishVars, BareAlone, AddingBare, AddsBare, Adding
<1> QED
  BY <1>1, WishFindStep, WishCreateStep, WishRemoveStep DEF WishNext

LEMMA WishInvSafe == WishInv => SavedOnce
BY DEF WishInv, BareAlone, SavedOnce

\* What a transaction on the address book has decided, given the addresses.
Agrees(call, kept, default) ==
    /\ call.pc = "adding" =>
          /\ call.id \notin kept
          /\ kept = {} => call.makeDefault /\ call.cleared = {}
          /\ call.makeDefault /\ kept # {} => call.cleared = default
          /\ ~call.makeDefault => kept # {} /\ call.cleared = {}
    /\ call.pc = "choosing" => call.id \in kept /\ call.cleared = default
    /\ call.pc = "removing" => call.id \in kept /\ (call.makeDefault <=> call.id \in default)

OneDefault(kept, default) == IF kept = {} THEN default = {} ELSE \E i \in kept : default = {i}

\* A default is kept; until two transactions overlap there is one, and those under
\* way still agree with the addresses.
AddressInv ==
    /\ addressCall \in [AddressRequests -> [pc : {"idle", "adding", "choosing", "removing"}, id : AddressIds \cup {0},
                                            makeDefault : BOOLEAN, cleared : SUBSET AddressIds]]
    /\ \A c \in AddressRequests : addressCall[c].pc # "idle" => addressCall[c].id \in AddressIds
    /\ addresses \in [kept : SUBSET AddressIds, default : SUBSET AddressIds]
    /\ IsFiniteSet(addresses.kept)
    /\ addresses.default \subseteq addresses.kept
    /\ addressRaced \in BOOLEAN
    /\ ~addressRaced =>
          /\ OneDefault(addresses.kept, addresses.default)
          /\ \A c \in AddressRequests : Agrees(addressCall[c], addresses.kept, addresses.default)

LEMMA AddressInvInit == AddressInit => AddressInv
<1> SUFFICES ASSUME AddressInit PROVE AddressInv
  OBVIOUS
<1>1. addresses.kept = {} /\ addresses.default = {} /\ addresses \in [kept : SUBSET AddressIds, default : SUBSET AddressIds]
  BY DEF AddressInit
<1>2. /\ AddressIdle \in [pc : {"idle", "adding", "choosing", "removing"}, id : AddressIds \cup {0},
                          makeDefault : BOOLEAN, cleared : SUBSET AddressIds]
      /\ AddressIdle.pc = "idle"
  BY DEF AddressIdle
<1>3. \A c \in AddressRequests : addressCall[c].pc = "idle"
  BY <1>2 DEF AddressInit
<1>4. IsFiniteSet(addresses.kept)
  BY <1>1, FS_EmptySet
<1>5. /\ OneDefault(addresses.kept, addresses.default)
      /\ \A c \in AddressRequests : Agrees(addressCall[c], addresses.kept, addresses.default)
  BY <1>1, <1>3 DEF OneDefault, Agrees
<1>6. addressCall \in [AddressRequests -> [pc : {"idle", "adding", "choosing", "removing"}, id : AddressIds \cup {0},
                                            makeDefault : BOOLEAN, cleared : SUBSET AddressIds]]
  BY <1>2 DEF AddressInit
<1> QED
  BY <1>1, <1>3, <1>4, <1>5, <1>6 DEF AddressInit, AddressInv

\* When a transaction ends and none overlapped, all are at rest.
LEMMA AddressCallEnds ==
    ASSUME AddressInv, NEW c \in AddressRequests, AddressEnds(c)
    PROVE  /\ addressCall' \in [AddressRequests -> [pc : {"idle", "adding", "choosing", "removing"},
                                  id : AddressIds \cup {0}, makeDefault : BOOLEAN, cleared : SUBSET AddressIds]]
           /\ \A d \in AddressRequests : addressCall'[d].pc # "idle" => addressCall'[d].id \in AddressIds
           /\ addressRaced' \in BOOLEAN
           /\ ~addressRaced' => ~addressRaced /\ \A d \in AddressRequests : addressCall'[d].pc = "idle"
<1>1. addressCall' = [addressCall EXCEPT ![c] = AddressIdle]
  BY DEF AddressEnds
<1>2. AddressIdle \in [pc : {"idle", "adding", "choosing", "removing"}, id : AddressIds \cup {0},
                       makeDefault : BOOLEAN, cleared : SUBSET AddressIds]
  BY DEF AddressIdle
<1>3. AddressIdle.pc = "idle"
  BY DEF AddressIdle
<1>4. addressRaced' = (addressRaced \/ \E d \in AddressRequests \ {c} : addressCall[d].pc # "idle")
  BY DEF AddressEnds
<1>5. addressRaced' \in BOOLEAN
  BY <1>4
<1>6. ~addressRaced' => ~addressRaced /\ \A d \in AddressRequests : addressCall'[d].pc = "idle"
  <2>1. ASSUME ~addressRaced', NEW d \in AddressRequests PROVE addressCall'[d].pc = "idle"
    <3>1. CASE d = c
      BY <1>1, <1>3, <3>1 DEF AddressInv
    <3>2. CASE d # c
      BY <1>1, <1>4, <2>1, <3>2 DEF AddressInv
    <3> QED
      BY <3>1, <3>2
  <2> QED
    BY <1>4, <2>1
<1>7. \A d \in AddressRequests : addressCall'[d].pc # "idle" => addressCall'[d].id \in AddressIds
  BY <1>1, <1>3 DEF AddressInv
<1> QED
  BY <1>1, <1>2, <1>5, <1>6, <1>7 DEF AddressInv

\* Reading changes no address and agrees with them.
LEMMA AddressReadKeeps ==
    ASSUME AddressInv, NEW c \in AddressRequests, UNCHANGED <<addresses, addressRaced>>,
           NEW call \in [pc : {"idle", "adding", "choosing", "removing"}, id : AddressIds \cup {0},
                         makeDefault : BOOLEAN, cleared : SUBSET AddressIds],
           call.id \in AddressIds, addressCall' = [addressCall EXCEPT ![c] = call],
           ~addressRaced => Agrees(call, addresses.kept, addresses.default)
    PROVE  AddressInv'
<1>1. \A d \in AddressRequests : addressCall'[d] = IF d = c THEN call ELSE addressCall[d]
  BY DEF AddressInv
<1>2. ~addressRaced => \A d \in AddressRequests : Agrees(addressCall'[d], addresses.kept, addresses.default)
  BY <1>1 DEF AddressInv
<1>3. addressCall' \in [AddressRequests -> [pc : {"idle", "adding", "choosing", "removing"}, id : AddressIds \cup {0},
                                            makeDefault : BOOLEAN, cleared : SUBSET AddressIds]]
  BY DEF AddressInv
<1>4. \A d \in AddressRequests : addressCall'[d].pc # "idle" => addressCall'[d].id \in AddressIds
  BY <1>1 DEF AddressInv
<1> QED
  BY <1>2, <1>3, <1>4 DEF AddressInv

LEMMA AddressReads ==
    ASSUME AddressInv, NEW c \in AddressRequests, NEW id \in AddressIds,
           \/ AddressDefaultRead(c, id) \/ AddressRemoveRead(c, id)
           \/ \E wanted \in BOOLEAN : AddressAddRead(c, id, wanted)
    PROVE  AddressInv'
<1>1. PICK kept \in SUBSET AddressIds, default \in SUBSET AddressIds :
         /\ kept = addresses.kept /\ default = addresses.default /\ default \subseteq kept
         /\ ~addressRaced => OneDefault(kept, default)
  BY DEF AddressInv
<1>2. CASE AddressDefaultRead(c, id)
  <2>1. PICK call : call = [pc |-> "choosing", id |-> id, makeDefault |-> TRUE, cleared |-> default]
    OBVIOUS
  <2>2. Agrees(call, kept, default)
    BY <1>1, <1>2, <2>1 DEF AddressDefaultRead, Agrees
  <2> QED
    BY <1>1, <1>2, <2>1, <2>2, AddressReadKeeps DEF AddressDefaultRead
<1>3. CASE AddressRemoveRead(c, id)
  <2>1. PICK call : call = [pc |-> "removing", id |-> id, makeDefault |-> id \in default, cleared |-> {}]
    OBVIOUS
  <2>2. Agrees(call, kept, default)
    BY <1>1, <1>3, <2>1 DEF AddressRemoveRead, Agrees
  <2>3. /\ call \in [pc : {"idle", "adding", "choosing", "removing"}, id : AddressIds \cup {0},
                      makeDefault : BOOLEAN, cleared : SUBSET AddressIds]
        /\ call.id \in AddressIds
    BY <2>1
  <2>4. UNCHANGED <<addresses, addressRaced>> /\ addressCall' = [addressCall EXCEPT ![c] = call]
    BY <1>1, <1>3, <2>1 DEF AddressRemoveRead
  <2> QED
    BY <1>1, <2>2, <2>3, <2>4, AddressReadKeeps
<1>4. ASSUME NEW wanted \in BOOLEAN, AddressAddRead(c, id, wanted) PROVE AddressInv'
  <2>1. PICK call : call = [pc |-> "adding", id |-> id, makeDefault |-> (kept = {}) \/ wanted,
                            cleared |-> IF (kept = {}) \/ ~wanted THEN {} ELSE default]
    OBVIOUS
  <2>2. Agrees(call, kept, default)
    BY <1>1, <1>4, <2>1 DEF AddressAddRead, Agrees
  <2>3. /\ call \in [pc : {"idle", "adding", "choosing", "removing"}, id : AddressIds \cup {0},
                      makeDefault : BOOLEAN, cleared : SUBSET AddressIds]
        /\ call.id \in AddressIds
    <3>1. call.makeDefault \in BOOLEAN
      BY <2>1
    <3> QED
      BY <1>1, <2>1, <3>1
  <2>4. UNCHANGED <<addresses, addressRaced>> /\ addressCall' = [addressCall EXCEPT ![c] = call]
    BY <1>1, <1>4, <2>1 DEF AddressAddRead
  <2> QED
    BY <1>1, <2>2, <2>3, <2>4, AddressReadKeeps
<1> QED
  BY <1>2, <1>3, <1>4

\* An address is added, alone or not.
LEMMA AddressAddStep ==
    ASSUME AddressInv, NEW c \in AddressRequests, AddressAddCommit(c)
    PROVE  AddressInv'
<1>1. PICK kept \in SUBSET AddressIds, default \in SUBSET AddressIds :
         /\ kept = addresses.kept /\ default = addresses.default /\ default \subseteq kept /\ IsFiniteSet(kept)
         /\ ~addressRaced => OneDefault(kept, default)
  BY DEF AddressInv
<1>2. PICK call \in [pc : {"idle", "adding", "choosing", "removing"}, id : AddressIds \cup {0},
                     makeDefault : BOOLEAN, cleared : SUBSET AddressIds] :
         /\ call = addressCall[c] /\ call.pc = "adding" /\ call.id \in AddressIds /\ call.id \notin kept
         /\ ~addressRaced => Agrees(call, kept, default)
  BY <1>1 DEF AddressInv, AddressAddCommit
<1>3. PICK more, chosen : /\ more = kept \cup {call.id}
                          /\ chosen = (default \ call.cleared) \cup {i \in {call.id} : call.makeDefault}
                          /\ addresses' = [kept |-> more, default |-> chosen]
  BY <1>1, <1>2 DEF AddressAddCommit
<1>4. AddressEnds(c)
  BY DEF AddressAddCommit
<1>5. /\ more \in SUBSET AddressIds /\ chosen \in SUBSET AddressIds /\ chosen \subseteq more
      /\ IsFiniteSet(more)
  BY <1>1, <1>2, <1>3, FS_AddElement
<1>6. ~addressRaced' => OneDefault(more, chosen)
  <2>1. SUFFICES ASSUME ~addressRaced PROVE OneDefault(more, chosen)
    BY <1>4, AddressCallEnds
  <2>2. Agrees(call, kept, default) /\ OneDefault(kept, default)
    BY <1>1, <1>2, <2>1
  <2>3. CASE call.makeDefault
    <3>1. default \ call.cleared = {}
      BY <1>2, <2>2, <2>3 DEF Agrees, OneDefault
    <3>2. chosen = {call.id}
      BY <1>3, <2>3, <3>1
    <3> QED
      BY <1>3, <3>2 DEF OneDefault
  <2>4. CASE ~call.makeDefault
    <3>1. chosen = default /\ kept # {}
      BY <1>2, <1>3, <2>2, <2>4 DEF Agrees
    <3> QED
      BY <1>3, <2>2, <3>1 DEF OneDefault
  <2> QED
    BY <2>3, <2>4
<1>7. addresses'.kept = more /\ addresses'.default = chosen
  BY <1>3
<1>8. addresses' \in [kept : SUBSET AddressIds, default : SUBSET AddressIds]
  BY <1>3, <1>5
<1> QED
  BY <1>4, <1>5, <1>6, <1>7, <1>8, AddressCallEnds DEF AddressInv, Agrees

\* Another address becomes the default.
LEMMA AddressDefaultStep ==
    ASSUME AddressInv, NEW c \in AddressRequests, AddressDefaultCommit(c)
    PROVE  AddressInv'
<1>1. PICK kept \in SUBSET AddressIds, default \in SUBSET AddressIds :
         /\ kept = addresses.kept /\ default = addresses.default /\ default \subseteq kept /\ IsFiniteSet(kept)
         /\ addresses = [kept |-> kept, default |-> default]
         /\ ~addressRaced => OneDefault(kept, default)
  BY DEF AddressInv
<1>2. PICK call \in [pc : {"idle", "adding", "choosing", "removing"}, id : AddressIds \cup {0},
                     makeDefault : BOOLEAN, cleared : SUBSET AddressIds] :
         /\ call = addressCall[c] /\ call.pc = "choosing" /\ call.id \in AddressIds
         /\ ~addressRaced => Agrees(call, kept, default)
  BY <1>1 DEF AddressInv, AddressDefaultCommit
<1>3. PICK chosen \in SUBSET AddressIds :
         chosen = IF call.id \in kept THEN (default \ call.cleared) \cup {call.id} ELSE default
  BY <1>1, <1>2
<1>4. AddressEnds(c)
  BY DEF AddressDefaultCommit
<1>5. addresses' = [kept |-> kept, default |-> chosen]
  <2>1. addresses' = IF call.id \in kept THEN [addresses EXCEPT !.default = (@ \ call.cleared) \cup {call.id}]
                     ELSE addresses
    BY <1>1, <1>2 DEF AddressDefaultCommit
  <2> QED
    BY <1>1, <1>3, <2>1
<1>6. chosen \subseteq kept
  BY <1>1, <1>3
<1>7. ~addressRaced' => OneDefault(kept, chosen)
  <2>1. SUFFICES ASSUME ~addressRaced PROVE OneDefault(kept, chosen)
    BY <1>4, AddressCallEnds
  <2>2. chosen = {call.id} /\ call.id \in kept
    BY <1>2, <1>3, <2>1 DEF Agrees
  <2> QED
    BY <2>2 DEF OneDefault
<1>8. addresses'.kept = kept /\ addresses'.default = chosen
  BY <1>5
<1>9. addresses' \in [kept : SUBSET AddressIds, default : SUBSET AddressIds]
  BY <1>5
<1> QED
  BY <1>1, <1>4, <1>6, <1>7, <1>8, <1>9, AddressCallEnds DEF AddressInv, Agrees

\* An address is removed, and the newest one left takes its place.
LEMMA AddressRemoveStep ==
    ASSUME AddressInv, NEW c \in AddressRequests, AddressRemoveCommit(c)
    PROVE  AddressInv'
<1>1. PICK kept \in SUBSET AddressIds, default \in SUBSET AddressIds :
         /\ kept = addresses.kept /\ default = addresses.default /\ default \subseteq kept /\ IsFiniteSet(kept)
         /\ addresses = [kept |-> kept, default |-> default]
         /\ ~addressRaced => OneDefault(kept, default)
  BY DEF AddressInv
<1>2. PICK call \in [pc : {"idle", "adding", "choosing", "removing"}, id : AddressIds \cup {0},
                     makeDefault : BOOLEAN, cleared : SUBSET AddressIds] :
         /\ call = addressCall[c] /\ call.pc = "removing" /\ call.id \in AddressIds
         /\ ~addressRaced => Agrees(call, kept, default)
  BY <1>1 DEF AddressInv, AddressRemoveCommit
<1>3. AddressEnds(c)
  BY DEF AddressRemoveCommit
<1>4. CASE call.id \notin kept
  <2>1. addresses' = addresses /\ addressRaced
    BY <1>1, <1>2, <1>4 DEF AddressRemoveCommit, Agrees
  <2> QED
    BY <1>3, <2>1, AddressCallEnds DEF AddressInv
<1>5. CASE call.id \in kept
  <2>1. PICK left \in SUBSET AddressIds : left = kept \ {call.id} /\ IsFiniteSet(left)
    <3>1. IsFiniteSet(kept \ {call.id})
      BY <1>1, FS_RemoveElement
    <3> QED
      BY <3>1
  <2>2. PICK next : next = Promoted(left, call.makeDefault)
    OBVIOUS
  <2>3. /\ next \subseteq left
        /\ call.makeDefault /\ left # {} => \E i \in left : next = {i}
        /\ ~call.makeDefault \/ left = {} => next = {}
    <3>1. CASE call.makeDefault /\ left # {}
      <4>1. left \in SUBSET Int
        BY BuyerConstants
      <4>2. Max(left) \in left
        BY <2>1, <3>1, <4>1, MaxIsLargest
      <4> QED
        BY <2>2, <3>1, <4>2 DEF Promoted
    <3>2. CASE ~(call.makeDefault /\ left # {})
      BY <2>2, <3>2 DEF Promoted
    <3> QED
      BY <3>1, <3>2
  <2>4. PICK chosen : chosen = (default \ {call.id}) \cup next
    OBVIOUS
  <2>5. addresses' = [kept |-> left, default |-> chosen]
    BY <1>1, <1>2, <1>5, <2>1, <2>2, <2>4 DEF AddressRemoveCommit
  <2>6. chosen \subseteq left /\ chosen \in SUBSET AddressIds
    BY <1>1, <2>1, <2>3, <2>4
  <2>7. ~addressRaced' => OneDefault(left, chosen)
    <3>1. SUFFICES ASSUME ~addressRaced PROVE OneDefault(left, chosen)
      BY <1>3, AddressCallEnds
    <3>2. PICK i \in kept : default = {i}
      BY <1>1, <1>5, <3>1 DEF OneDefault
    <3>3. call.makeDefault <=> call.id = i
      BY <1>2, <3>1, <3>2 DEF Agrees
    <3>4. CASE call.id = i
      <4>1. chosen = next
        BY <2>4, <3>2, <3>4
      <4> QED
        BY <2>3, <3>3, <3>4, <4>1 DEF OneDefault
    <3>5. CASE call.id # i
      <4>1. chosen = {i} /\ i \in left
        BY <2>1, <2>3, <2>4, <3>2, <3>3, <3>5
      <4> QED
        BY <4>1 DEF OneDefault
    <3> QED
      BY <3>4, <3>5
  <2>8. addresses'.kept = left /\ addresses'.default = chosen
    BY <2>5
  <2>9. addresses' \in [kept : SUBSET AddressIds, default : SUBSET AddressIds]
    BY <2>5, <2>6
  <2> QED
    BY <1>3, <2>1, <2>6, <2>7, <2>8, <2>9, AddressCallEnds DEF AddressInv, Agrees
<1> QED
  BY <1>4, <1>5

LEMMA AddressInvStep == AddressInv /\ [AddressNext]_addressVars => AddressInv'
<1> SUFFICES ASSUME AddressInv, [AddressNext]_addressVars PROVE AddressInv'
  OBVIOUS
<1>1. CASE UNCHANGED addressVars
  BY <1>1 DEF AddressInv, addressVars
<1> QED
  BY <1>1, AddressReads, AddressAddStep, AddressDefaultStep, AddressRemoveStep DEF AddressNext

\* The aggregate counts completed orders.
LEMMA AggregateCounts == Aggregate.count \in 0..Cardinality(Bought)
<1>1. Given \subseteq Bought
  BY DEF Given
<1>2. Cardinality(Given) \in Nat /\ Cardinality(Bought) \in Nat /\ Cardinality(Given) <= Cardinality(Bought)
  BY <1>1, BuyerConstants, FS_Subset, FS_CardinalityType
<1> QED
  BY <1>2 DEF Aggregate

\* What was read, and what is shown, counts completed orders; what was read is still
\* true unless a review was written since.
ReviewInv ==
    /\ DOMAIN reviewCall = ReviewRequests
    /\ rating.count \in 0..Cardinality(Bought)
    /\ \A c \in ReviewRequests : reviewCall[c].pc = "read" =>
          /\ reviewCall[c].seen.count \in 0..Cardinality(Bought)
          /\ reviewCall[c].seen = Aggregate \/ reviewCall[c].overtaken = TRUE
          /\ "overtaken" \in DOMAIN reviewCall[c]
    /\ RatingFollowsReviews

LEMMA ReviewInvInit == ReviewInit => ReviewInv
<1> SUFFICES ASSUME ReviewInit PROVE ReviewInv
  OBVIOUS
<1>1. Given = {}
  BY DEF ReviewInit, Given
<1>2. Aggregate = [sum |-> 0, count |-> 0]
  <2>1. SumFunctionOnSet(reviews, {}) = 0
    BY SumEmpty
  <2>2. Cardinality({}) = 0
    BY FS_EmptySet
  <2> QED
    BY <1>1, <2>1, <2>2 DEF Aggregate
<1>3. rating = Aggregate
  BY <1>2 DEF ReviewInit
<1>4. rating.count \in 0..Cardinality(Bought)
  BY <1>3, AggregateCounts
<1>5. \A c \in ReviewRequests : reviewCall[c].pc = "idle"
  BY DEF ReviewInit, ReviewIdle
<1> QED
  BY <1>3, <1>4, <1>5 DEF ReviewInit, ReviewInv, RatingFollowsReviews

LEMMA ReviewInvStep == ReviewInv /\ [ReviewNext]_reviewVars => ReviewInv'
<1> SUFFICES ASSUME ReviewInv, [ReviewNext]_reviewVars PROVE ReviewInv'
  OBVIOUS
<1>1. CASE UNCHANGED reviewVars
  BY <1>1 DEF ReviewInv, reviewVars, RatingFollowsReviews, Aggregate, Given
<1>2. ASSUME NEW c \in ReviewRequests, RefreshRead(c) PROVE ReviewInv'
  <2>1. PICK seen : seen = Aggregate /\ seen.count \in 0..Cardinality(Bought)
    BY AggregateCounts
  <2>2. /\ reviewCall' = [reviewCall EXCEPT ![c] = [pc |-> "read", seen |-> seen, overtaken |-> FALSE]]
        /\ rating' = rating /\ reviews' = reviews
    BY <1>2, <2>1 DEF RefreshRead
  <2>3. \A d \in ReviewRequests : reviewCall'[d] = 
           IF d = c THEN [pc |-> "read", seen |-> seen, overtaken |-> FALSE] ELSE reviewCall[d]
    BY <2>2 DEF ReviewInv
  <2>4. reviewCall'[c].pc # "idle"
    BY <2>3
  <2>5. RatingFollowsReviews'
    BY <2>4 DEF RatingFollowsReviews
  <2>6. DOMAIN reviewCall' = ReviewRequests
    BY <2>2 DEF ReviewInv
  <2>7. Aggregate' = Aggregate
    BY <2>2 DEF Aggregate, Given
  <2>8. \A d \in ReviewRequests : reviewCall'[d].pc = "read" =>
           /\ reviewCall'[d].seen.count \in 0..Cardinality(Bought)
           /\ reviewCall'[d].seen = Aggregate' \/ reviewCall'[d].overtaken = TRUE
           /\ "overtaken" \in DOMAIN reviewCall'[d]
    BY <2>1, <2>3, <2>7 DEF ReviewInv
  <2> QED
    BY <2>2, <2>5, <2>6, <2>8 DEF ReviewInv
<1>3. ASSUME NEW c \in ReviewRequests, RefreshWrite(c) PROVE ReviewInv'
  <2>1. /\ rating' = reviewCall[c].seen /\ rating'.count \in 0..Cardinality(Bought)
        /\ reviewCall' = [reviewCall EXCEPT ![c] = ReviewIdle]
        /\ reviews' = reviews /\ reviewRaced' = reviewCall[c].overtaken
        /\ reviewCall[c].seen = Aggregate \/ reviewCall[c].overtaken = TRUE
    BY <1>3 DEF ReviewInv, RefreshWrite
  <2>2. Aggregate' = Aggregate
    BY <2>1 DEF Aggregate, Given
  <2>3. RatingFollowsReviews'
    BY <2>1, <2>2 DEF RatingFollowsReviews
  <2>4. ReviewIdle.pc # "read"
    BY DEF ReviewIdle
  <2> QED
    BY <2>1, <2>2, <2>3, <2>4 DEF ReviewInv
<1>4. ASSUME NEW c \in ReviewRequests, ReviewDies(c) PROVE ReviewInv'
  <2>1. /\ rating' = rating /\ reviewRaced' = TRUE /\ Aggregate' = Aggregate
        /\ reviewCall' = [reviewCall EXCEPT ![c] = ReviewIdle]
    BY <1>4 DEF ReviewDies, Aggregate, Given
  <2>2. ReviewIdle.pc # "read"
    BY DEF ReviewIdle
  <2>3. \A d \in ReviewRequests : reviewCall'[d].pc = "read" => d # c /\ reviewCall'[d] = reviewCall[d]
    BY <2>1, <2>2 DEF ReviewInv
  <2>4. RatingFollowsReviews'
    BY <2>1 DEF RatingFollowsReviews
  <2>5. DOMAIN reviewCall' = ReviewRequests
    BY <2>1 DEF ReviewInv
  <2> QED
    BY <2>1, <2>3, <2>4, <2>5 DEF ReviewInv
<1>5. ASSUME NEW c \in ReviewRequests, NEW o \in Bought,
             DeleteReview(c, o) \/ \E stars \in Ratings : UpsertReview(c, o, stars)
      PROVE  ReviewInv'
  <2>1. rating' = rating /\ ReviewWritten(c)
    BY <1>5 DEF DeleteReview, UpsertReview
  <2>2. reviewCall'[c].pc = "written" /\ DOMAIN reviewCall' = ReviewRequests
    BY <2>1 DEF ReviewWritten, ReviewIdle
  <2>3. ASSUME NEW d \in ReviewRequests, reviewCall'[d].pc = "read"
        PROVE  /\ reviewCall'[d].seen.count \in 0..Cardinality(Bought)
               /\ reviewCall'[d].overtaken = TRUE
               /\ "overtaken" \in DOMAIN reviewCall'[d]
    <3>1. d # c
      BY <2>2, <2>3
    <3>2. reviewCall'[d] = [reviewCall[d] EXCEPT !.overtaken = @ \/ reviewCall[d].pc = "read"]
      BY <2>1, <3>1 DEF ReviewWritten
    <3>3. reviewCall[d].pc = "read" /\ reviewCall'[d].seen = reviewCall[d].seen
      BY <2>3, <3>2
    <3> QED
      BY <3>2, <3>3 DEF ReviewInv
  <2>4. RatingFollowsReviews'
    BY <2>2 DEF RatingFollowsReviews
  <2> QED
    BY <2>1, <2>2, <2>3, <2>4 DEF ReviewInv
<1> QED
  BY <1>1, <1>2, <1>3, <1>4, <1>5 DEF ReviewNext

-----------------------------------------------------------------------------
BuyerInv == CartInv /\ WishInv /\ AddressInv /\ ReviewInv

LEMMA BuyerInvInit == BuyerInit => BuyerInv
BY CartInvInit, WishInvInit, AddressInvInit, ReviewInvInit DEF BuyerInit, BuyerInv

LEMMA BuyerInvStep ==
    BuyerInv /\ [CartNext]_cartVars /\ [WishNext]_wishVars /\ [AddressNext]_addressVars /\ [ReviewNext]_reviewVars
        => BuyerInv'
BY CartInvStep, WishInvStep, AddressInvStep, ReviewInvStep DEF BuyerInv

LEMMA BuyerInvSound == BuyerInv => BuyerDataIsSound
<1> SUFFICES ASSUME BuyerInv PROVE BuyerDataIsSound
  OBVIOUS
<1>1. CartIsOfOneStore /\ BonusIsFree /\ \A g \in Goods : cart.items[g] \in 0..MaxQuantity
  BY DEF BuyerInv, CartInv, CartState, OfOneStore, CartIsOfOneStore
<1>2. SavedOnce
  BY WishInvSafe DEF BuyerInv
<1>3. OneDefaultAddress /\ addresses.default \subseteq addresses.kept
  <2>1. ASSUME NEW i, addresses.default = {i} PROVE Cardinality(addresses.default) = 1
    BY <2>1, FS_Singleton
  <2> QED
    BY <2>1 DEF BuyerInv, AddressInv, OneDefault, OneDefaultAddress
<1>4. RatingFollowsReviews /\ rating.count \in 0..Cardinality(Bought)
  BY DEF BuyerInv, ReviewInv
<1> QED
  BY <1>1, <1>2, <1>3, <1>4 DEF BuyerDataIsSound, BuyerTypeOK

-----------------------------------------------------------------------------
(* The catalogue. *)

\* A request about a row that it names.
EditTyped(call) ==
    /\ call.pc \in {"idle", "creating", "hiding", "deleting", "adding", "refiling"}
    /\ call.pc \in {"creating", "hiding", "deleting"} => call.on \in Categories
    /\ call.pc = "creating" => call.to \in Categories \cup {NoCategory}
    /\ call.pc \in {"adding", "refiling"} => call.on \in Articles /\ call.to \in Categories

\* What a request has found is so: the row it deletes has nothing under it.
Founded(call, rows, filed) ==
    call.pc = "deleting" =>
       /\ \A d \in Categories : rows[d].state = "live" => rows[d].parent # call.on
       /\ \A a \in Articles : filed[a].category # call.on

\* A row that is created is not there, and nobody else creates it.
CreatedOnce(calls, rows) ==
    /\ \A e \in Editors : calls[e].pc = "creating" => rows[calls[e].on].state = "absent"
    /\ \A e, f \in Editors : e # f /\ calls[e].pc = "creating" /\ calls[f].pc = "creating" =>
          calls[e].on # calls[f].on

\* The categories are a forest: each can be given a rank above its parent's.
Forest(rows) ==
    \E rank \in [Categories -> Nat] :
       \A c \in Categories : rows[c].parent # NoCategory => rank[rows[c].parent] < rank[c]

\* Rows as they are typed, references to rows that exist, no category above itself, and, until two requests
\* overlap, at most one under way, that has found what still is.
CatalogueInv ==
    /\ category \in [Categories -> [state : {"absent", "live", "deleted"}, parent : Categories \cup {NoCategory}]]
    /\ article \in [Articles -> [state : {"absent", "active", "inactive"}, category : Categories \cup {NoCategory}]]
    /\ CatalogueTypeOK
    /\ DOMAIN edit = Editors
    /\ \A e \in Editors : EditTyped(edit[e])
    /\ catalogueRaced \in BOOLEAN
    /\ CreatedOnce(edit, category)
    /\ Forest(category)
    /\ ~catalogueRaced =>
          /\ \A e, f \in Editors : e # f => edit[e].pc = "idle" \/ edit[f].pc = "idle"
          /\ \A e \in Editors : Founded(edit[e], category, article)

\* The body of NothingIsDetached.
DetachesNothing ==
    ~catalogueRaced' =>
          /\ \A a \in Articles : article[a].category # NoCategory => article'[a].category # NoCategory
          /\ \A c \in LiveCategories : c \in LiveCategories' => category'[c].parent = category[c].parent

LEMMA CatalogueInvInit == CatalogueInit => CatalogueInv
<1> SUFFICES ASSUME CatalogueInit PROVE CatalogueInv
  OBVIOUS
<1>1. \A e \in Editors : edit[e].pc = "idle"
  BY DEF CatalogueInit, Resting
<1>2. \A e \in Editors : EditTyped(edit[e]) /\ Founded(edit[e], category, article)
  BY <1>1 DEF EditTyped, Founded
<1>3. CatalogueTypeOK
  BY DEF CatalogueInit, CatalogueTypeOK
<1>4. CreatedOnce(edit, category)
  BY <1>1 DEF CreatedOnce
<1>5. Forest(category)
  <2>1. PICK rank \in [Categories -> Nat] : rank = [c \in Categories |-> 0]
    OBVIOUS
  <2>2. \A c \in Categories : category[c].parent = NoCategory
    BY DEF CatalogueInit
  <2> QED
    BY <2>1, <2>2 DEF Forest
<1> QED
  BY <1>1, <1>2, <1>3, <1>4, <1>5 DEF CatalogueInit, CatalogueInv

\* A request that reads is alone, or the catalogue counts as raced.
LEMMA CatalogueReads ==
    ASSUME CatalogueInv, NEW e \in Editors, NEW pc, NEW on, NEW to, Reads(e, pc, on, to),
           NEW call, call = [pc |-> pc, on |-> on, to |-> to],
           EditTyped(call), Founded(call, category, article),
           pc = "creating" => category[on].state = "absent" /\ \A f \in Editors : edit[f].on # on
    PROVE  CatalogueInv' /\ DetachesNothing
<1>1. /\ edit' = [edit EXCEPT ![e] = call] /\ category' = category /\ article' = article
      /\ catalogueRaced' = (catalogueRaced \/ \E f \in Editors \ {e} : edit[f].pc # "idle")
  BY DEF Reads
<1>2. \A f \in Editors : edit'[f] = IF f = e THEN call ELSE edit[f]
  BY <1>1 DEF CatalogueInv
<1>3. \A f \in Editors : EditTyped(edit'[f])
  BY <1>2 DEF CatalogueInv
<1>4. CatalogueTypeOK'
  BY <1>1 DEF CatalogueInv, CatalogueTypeOK, Rows
<1>5. ASSUME ~catalogueRaced'
      PROVE  /\ \A f, g \in Editors : f # g => edit'[f].pc = "idle" \/ edit'[g].pc = "idle"
             /\ \A f \in Editors : Founded(edit'[f], category, article)
  <2>1. ~catalogueRaced /\ \A f \in Editors \ {e} : edit[f].pc = "idle"
    BY <1>1, <1>5
  <2>2. \A f, g \in Editors : f # g => edit'[f].pc = "idle" \/ edit'[g].pc = "idle"
    BY <1>2, <2>1
  <2>3. \A f \in Editors : Founded(edit'[f], category, article)
    BY <1>2, <2>1 DEF CatalogueInv
  <2> QED
    BY <2>2, <2>3
<1>6. catalogueRaced' \in BOOLEAN /\ DOMAIN edit' = Editors
  BY <1>1 DEF CatalogueInv
<1>7. DetachesNothing
  BY <1>1 DEF DetachesNothing
<1>8. CreatedOnce(edit', category)
  BY <1>2 DEF CatalogueInv, CreatedOnce
<1> QED
  BY <1>1, <1>3, <1>4, <1>5, <1>6, <1>7, <1>8 DEF CatalogueInv

\* A request that ends leaves none under way, or the catalogue counts as raced.
LEMMA CatalogueCallEnds ==
    ASSUME CatalogueInv, NEW e \in Editors, Ends(e), edit[e].pc # "idle"
    PROVE  /\ DOMAIN edit' = Editors /\ \A f \in Editors : EditTyped(edit'[f])
           /\ catalogueRaced' = catalogueRaced
           /\ ~catalogueRaced => \A f \in Editors : edit'[f].pc = "idle"
           /\ \A f \in Editors : edit'[f].pc # "idle" => f # e /\ edit'[f] = edit[f]
<1>1. edit' = [edit EXCEPT ![e] = Resting] /\ catalogueRaced' = catalogueRaced
  BY DEF Ends
<1>2. EditTyped(Resting) /\ Resting.pc = "idle"
  BY DEF EditTyped, Resting
<1>3. \A f \in Editors : edit'[f] = IF f = e THEN Resting ELSE edit[f]
  BY <1>1 DEF CatalogueInv
<1>4. ~catalogueRaced => \A f \in Editors \ {e} : edit[f].pc = "idle"
  BY DEF CatalogueInv
<1> QED
  BY <1>1, <1>2, <1>3, <1>4 DEF CatalogueInv

\* The invariant after a write, from the rows it leaves.
LEMMA CatalogueWrites ==
    ASSUME CatalogueInv, NEW e \in Editors, Ends(e), edit[e].pc # "idle",
           category' \in [Categories -> [state : {"absent", "live", "deleted"}, parent : Categories \cup {NoCategory}]],
           article' \in [Articles -> [state : {"absent", "active", "inactive"}, category : Categories \cup {NoCategory}]],
           CatalogueTypeOK', Forest(category'),
           \A d \in Categories : category[d].state = "absent" =>
              category'[d].state = "absent" \/ (edit[e].pc = "creating" /\ d = edit[e].on)
    PROVE  CatalogueInv'
<1>1. /\ DOMAIN edit' = Editors /\ \A f \in Editors : EditTyped(edit'[f])
      /\ catalogueRaced' = catalogueRaced
      /\ ~catalogueRaced => \A f \in Editors : edit'[f].pc = "idle"
      /\ \A f \in Editors : edit'[f].pc # "idle" => f # e /\ edit'[f] = edit[f]
  BY CatalogueCallEnds
<1>2. ~catalogueRaced => \A f \in Editors : Founded(edit'[f], category', article')
  BY <1>1 DEF Founded
<1>3. CreatedOnce(edit', category')
  <2>1. ASSUME NEW f \in Editors, edit'[f].pc = "creating" PROVE category'[edit'[f].on].state = "absent"
    <3>1. f # e /\ edit'[f] = edit[f] /\ edit[f].on \in Categories
      BY <1>1, <2>1 DEF EditTyped
    <3> QED
      BY <2>1, <3>1 DEF CatalogueInv, CreatedOnce
  <2>2. \A f, g \in Editors : f # g /\ edit'[f].pc = "creating" /\ edit'[g].pc = "creating" =>
           edit'[f].on # edit'[g].on
    BY <1>1 DEF CatalogueInv, CreatedOnce
  <2> QED
    BY <2>1, <2>2 DEF CreatedOnce
<1> QED
  BY <1>1, <1>2, <1>3 DEF CatalogueInv

\* Rows whose parents are fewer are a forest still.
LEMMA ForestKept ==
    ASSUME NEW rows, NEW next, Forest(rows),
           \A c \in Categories : next[c].parent = rows[c].parent \/ next[c].parent = NoCategory
    PROVE  Forest(next)
BY DEF Forest

\* What a request that writes found, when no other overlapped it.
LEMMA WhatWasFound ==
    ASSUME CatalogueInv, NEW e \in Editors
    PROVE  EditTyped(edit[e]) /\ (~catalogueRaced => Founded(edit[e], category, article))
BY DEF CatalogueInv

LEMMA CreateCategoryStep ==
    ASSUME CatalogueInv, NEW e \in Editors, CreateCategoryWrite(e)
    PROVE  CatalogueInv' /\ DetachesNothing
<1>1. PICK c \in Categories, parent \in Categories \cup {NoCategory} :
         c = edit[e].on /\ parent = edit[e].to /\ category[c].state = "absent"
  BY WhatWasFound DEF EditTyped, CatalogueInv, CreatedOnce, CreateCategoryWrite
<1>2. Ends(e) /\ edit[e].pc # "idle" /\ article' = article /\ catalogueRaced' = catalogueRaced
  BY DEF CreateCategoryWrite, Ends
<1>3. CASE category' = category
  <2>1. CatalogueTypeOK' /\ DetachesNothing
    BY <1>2, <1>3 DEF CatalogueInv, CatalogueTypeOK, Rows, DetachesNothing
  <2> QED
    BY <1>2, <1>3, <2>1, CatalogueWrites DEF CatalogueInv
<1>4. CASE /\ parent \in Rows \cup {NoCategory}
           /\ category' = [category EXCEPT ![c] = [state |-> "live", parent |-> parent]]
  <2>1. \A d \in Categories : category'[d] = IF d = c THEN [state |-> "live", parent |-> parent] ELSE category[d]
    BY <1>4 DEF CatalogueInv
  <2>2. category' \in [Categories -> [state : {"absent", "live", "deleted"}, parent : Categories \cup {NoCategory}]]
    BY <1>4 DEF CatalogueInv
  <2>3. Rows \subseteq Rows'
    BY <2>1 DEF Rows
  <2>4. CatalogueTypeOK'
    BY <1>2, <1>4, <2>1, <2>3 DEF CatalogueInv, CatalogueTypeOK
  <2>5. DetachesNothing
    BY <1>1, <1>2, <2>1 DEF DetachesNothing, LiveCategories
  <2>6. Forest(category')
    <3>1. PICK rank \in [Categories -> Nat] :
             \A d \in Categories : category[d].parent # NoCategory => rank[category[d].parent] < rank[d]
      BY DEF CatalogueInv, Forest
    <3>2. \A d \in Categories : category[d].parent # c
      BY <1>1, CatalogueConstants DEF CatalogueInv, CatalogueTypeOK, Rows
    <3>3. parent # c
      BY <1>1, <1>4, CatalogueConstants DEF Rows
    <3>4. PICK base \in Nat : base = IF parent = NoCategory THEN 0 ELSE rank[parent] + 1
      BY <1>1, <3>1
    <3>5. PICK next \in [Categories -> Nat] : next = [rank EXCEPT ![c] = base]
      BY <1>1, <3>1
    <3>6. ASSUME NEW d \in Categories, category'[d].parent # NoCategory PROVE next[category'[d].parent] < next[d]
      <4>1. CASE d = c
        <5>1. category'[d].parent = parent /\ parent # NoCategory /\ parent \in Categories
          BY <1>1, <2>1, <3>6, <4>1
        <5>2. next[parent] = rank[parent] /\ next[d] = rank[parent] + 1 /\ rank[parent] \in Nat
          BY <3>1, <3>3, <3>4, <3>5, <4>1, <5>1
        <5> QED
          BY <5>1, <5>2
      <4>2. CASE d # c
        <5>1. category'[d].parent = category[d].parent /\ category[d].parent # c
          BY <2>1, <3>2, <4>2
        <5>2. category[d].parent \in Categories
          BY <3>6, <5>1 DEF CatalogueInv
        <5>3. next[category[d].parent] = rank[category[d].parent] /\ next[d] = rank[d]
          BY <3>5, <4>2, <5>1, <5>2
        <5> QED
          BY <3>1, <3>6, <5>1, <5>3
      <4> QED
        BY <4>1, <4>2
    <3> QED
      BY <3>6 DEF Forest
  <2> QED
    BY <1>1, <1>2, <2>1, <2>2, <2>4, <2>5, <2>6, CatalogueWrites DEF CatalogueInv, CreateCategoryWrite
<1> QED
  BY <1>1, <1>3, <1>4 DEF CreateCategoryWrite

LEMMA HideCategoryStep ==
    ASSUME CatalogueInv, NEW e \in Editors, HideCategory(e)
    PROVE  CatalogueInv' /\ DetachesNothing
<1>1. PICK c \in Categories : c = edit[e].on
  BY WhatWasFound DEF EditTyped, HideCategory
<1>2. Ends(e) /\ edit[e].pc # "idle" /\ article' = article /\ catalogueRaced' = catalogueRaced
  BY DEF HideCategory, Ends
<1>3. CASE category' = category
  <2>1. CatalogueTypeOK' /\ DetachesNothing
    BY <1>2, <1>3 DEF CatalogueInv, CatalogueTypeOK, Rows, DetachesNothing
  <2> QED
    BY <1>2, <1>3, <2>1, CatalogueWrites DEF CatalogueInv
<1>4. CASE c \in Rows /\ category' = [category EXCEPT ![c].state = "deleted"]
  <2>1. category' \in [Categories -> [state : {"absent", "live", "deleted"}, parent : Categories \cup {NoCategory}]]
    BY <1>4 DEF CatalogueInv
  <2>2. \A d \in Categories : /\ category'[d].parent = category[d].parent
                              /\ category'[d].state = IF d = c THEN "deleted" ELSE category[d].state
    BY <1>4 DEF CatalogueInv
  <2>3. Rows \subseteq Rows'
    BY <2>2 DEF Rows
  <2>4. CatalogueTypeOK'
    BY <1>2, <2>2, <2>3 DEF CatalogueInv, CatalogueTypeOK
  <2>5. DetachesNothing
    BY <1>2, <2>2 DEF DetachesNothing, LiveCategories
  <2>6. Forest(category')
    BY <2>2, ForestKept DEF CatalogueInv
  <2>7. category[c].state # "absent"
    BY <1>4 DEF Rows
  <2> QED
    BY <1>2, <2>1, <2>2, <2>4, <2>5, <2>6, <2>7, CatalogueWrites DEF CatalogueInv
<1> QED
  BY <1>1, <1>3, <1>4 DEF HideCategory

\* A deletion detaches what its request did not see.
LEMMA DeleteCategoryStep ==
    ASSUME CatalogueInv, NEW e \in Editors, DeleteCategory(e)
    PROVE  CatalogueInv' /\ DetachesNothing
<1>1. PICK c \in Categories : c = edit[e].on
  BY WhatWasFound DEF EditTyped, DeleteCategory
<1>2. Ends(e) /\ edit[e].pc = "deleting" /\ catalogueRaced' = catalogueRaced
  BY DEF DeleteCategory, Ends
<1>3. /\ category' = [d \in Categories |->
                        IF d = c THEN [state |-> "absent", parent |-> NoCategory]
                        ELSE [category[d] EXCEPT !.parent = IF @ = c THEN NoCategory ELSE @]]
      /\ article' = [a \in Articles |-> [article[a] EXCEPT !.category = IF @ = c THEN NoCategory ELSE @]]
  BY <1>1 DEF DeleteCategory
<1>4. /\ category' \in [Categories -> [state : {"absent", "live", "deleted"}, parent : Categories \cup {NoCategory}]]
      /\ article' \in [Articles -> [state : {"absent", "active", "inactive"}, category : Categories \cup {NoCategory}]]
  BY <1>3 DEF CatalogueInv
<1>5. /\ \A d \in Categories :
            /\ category'[d].state = IF d = c THEN "absent" ELSE category[d].state
            /\ category'[d].parent = IF d = c \/ category[d].parent = c THEN NoCategory ELSE category[d].parent
      /\ \A a \in Articles :
            /\ article'[a].state = article[a].state
            /\ article'[a].category = IF article[a].category = c THEN NoCategory ELSE article[a].category
  BY <1>3 DEF CatalogueInv
<1>6. Rows' = Rows \ {c}
  BY <1>5 DEF Rows
<1>7. CatalogueTypeOK'
  BY <1>4, <1>5, <1>6 DEF CatalogueInv, CatalogueTypeOK
<1>8. ASSUME ~catalogueRaced PROVE /\ \A d \in Categories : category[d].state = "live" => category[d].parent # c
                                   /\ \A a \in Articles : article[a].category # c
  BY <1>1, <1>2, <1>8, WhatWasFound DEF Founded
<1>9. DetachesNothing
  BY <1>2, <1>5, <1>8 DEF DetachesNothing, LiveCategories
<1>10. Forest(category')
  BY <1>5, ForestKept DEF CatalogueInv
<1> QED
  BY <1>2, <1>4, <1>5, <1>7, <1>9, <1>10, CatalogueWrites

\* A product is filed in a category that is there, or stays where it was.
LEMMA FilingStep ==
    ASSUME CatalogueInv, NEW e \in Editors, AddWrite(e) \/ RefileWrite(e)
    PROVE  CatalogueInv' /\ DetachesNothing
<1>1. PICK a \in Articles, c \in Categories : a = edit[e].on /\ c = edit[e].to
  BY WhatWasFound DEF EditTyped, AddWrite, RefileWrite
<1>2. Ends(e) /\ edit[e].pc # "idle" /\ category' = category /\ catalogueRaced' = catalogueRaced
  BY DEF AddWrite, RefileWrite, Ends
<1>3. PICK state \in {"absent", "active", "inactive"} :
         article' = IF c \in Rows THEN [article EXCEPT ![a] = [state |-> state, category |-> c]] ELSE article
  <2>1. CASE AddWrite(e)
    BY <1>1, <2>1 DEF AddWrite, Connect
  <2>2. CASE RefileWrite(e)
    <3>1. article[a].state \in {"absent", "active", "inactive"}
      BY DEF CatalogueInv, CatalogueTypeOK
    <3> QED
      BY <1>1, <2>2, <3>1 DEF RefileWrite, Connect
  <2> QED
    BY <2>1, <2>2
<1>4. Rows' = Rows /\ LiveCategories' = LiveCategories
  BY <1>2 DEF Rows, LiveCategories
<1>5. CASE article' = article
  <2>1. CatalogueTypeOK' /\ DetachesNothing
    BY <1>2, <1>4, <1>5 DEF CatalogueInv, CatalogueTypeOK, DetachesNothing
  <2> QED
    BY <1>2, <1>5, <2>1, CatalogueWrites DEF CatalogueInv
<1>6. CASE c \in Rows /\ article' = [article EXCEPT ![a] = [state |-> state, category |-> c]]
  <2>1. article' \in [Articles -> [state : {"absent", "active", "inactive"}, category : Categories \cup {NoCategory}]]
    BY <1>6 DEF CatalogueInv
  <2>2. \A b \in Articles : article'[b] = IF b = a THEN [state |-> state, category |-> c] ELSE article[b]
    BY <1>6 DEF CatalogueInv
  <2>3. CatalogueTypeOK'
    BY <1>2, <1>4, <1>6, <2>2 DEF CatalogueInv, CatalogueTypeOK
  <2>4. c # NoCategory
    BY CatalogueConstants
  <2>5. DetachesNothing
    BY <1>2, <2>2, <2>4 DEF DetachesNothing
  <2> QED
    BY <1>2, <2>1, <2>3, <2>5, CatalogueWrites DEF CatalogueInv
<1> QED
  BY <1>3, <1>5, <1>6

LEMMA ToggleArticleStep ==
    ASSUME CatalogueInv, NEW a \in Articles, ToggleArticle(a)
    PROVE  CatalogueInv' /\ DetachesNothing
<1>1. /\ UNCHANGED <<category, edit, catalogueRaced>>
      /\ article' = [article EXCEPT ![a].state = IF @ = "active" THEN "inactive" ELSE "active"]
  BY DEF ToggleArticle
<1>2. article' \in [Articles -> [state : {"absent", "active", "inactive"}, category : Categories \cup {NoCategory}]]
  BY <1>1 DEF CatalogueInv
<1>3. \A b \in Articles : article'[b].category = article[b].category
  BY <1>1 DEF CatalogueInv
<1>4. Rows' = Rows /\ LiveCategories' = LiveCategories
  BY <1>1 DEF Rows, LiveCategories
<1>5. CatalogueTypeOK' /\ DetachesNothing
  BY <1>1, <1>2, <1>3, <1>4 DEF CatalogueInv, CatalogueTypeOK, DetachesNothing
<1>6. ASSUME NEW e \in Editors, Founded(edit[e], category, article) PROVE Founded(edit[e], category, article')
  BY <1>3, <1>6 DEF Founded
<1> QED
  BY <1>1, <1>2, <1>5, <1>6, ZenonT(60) DEF CatalogueInv

LEMMA CatalogueInvStep ==
    CatalogueInv /\ [CatalogueNext]_catalogueVars => CatalogueInv' /\ DetachesNothing
<1> SUFFICES ASSUME CatalogueInv, [CatalogueNext]_catalogueVars PROVE CatalogueInv' /\ DetachesNothing
  OBVIOUS
<1>1. CASE UNCHANGED catalogueVars
  <2>1. CatalogueTypeOK' /\ DetachesNothing
    BY <1>1 DEF catalogueVars, CatalogueInv, CatalogueTypeOK, Rows, DetachesNothing
  <2> QED
    BY <1>1, <2>1 DEF catalogueVars, CatalogueInv
<1>2. ASSUME NEW e \in Editors, NEW c \in Categories, DeleteCategoryRead(e, c)
      PROVE  CatalogueInv' /\ DetachesNothing
  <2>1. PICK pc, call : /\ pc = IF HasDependencies(c) THEN "hiding" ELSE "deleting"
                        /\ call = [pc |-> pc, on |-> c, to |-> NoCategory]
    OBVIOUS
  <2>2. EditTyped(call)
    BY <2>1 DEF EditTyped
  <2>3. Founded(call, category, article)
    BY <2>1 DEF Founded, HasDependencies, LiveChildren, LiveCategories
  <2> QED
    BY <1>2, <2>1, <2>2, <2>3, CatalogueReads DEF DeleteCategoryRead
<1>3. ASSUME NEW e \in Editors, NEW c \in Categories, NEW p \in Categories \cup {NoCategory}, CreateCategoryRead(e, c, p)
      PROVE  CatalogueInv' /\ DetachesNothing
  <2>1. PICK call : call = [pc |-> "creating", on |-> c, to |-> p]
    OBVIOUS
  <2>2. EditTyped(call) /\ Founded(call, category, article)
    BY <1>3, <2>1 DEF EditTyped, Founded, CreateCategoryRead
  <2> QED
    BY <1>3, <2>1, <2>2, CatalogueReads DEF CreateCategoryRead
<1>4. ASSUME NEW e \in Editors, NEW c \in Categories, NEW a \in Articles, AddRead(e, a, c) \/ RefileRead(e, a, c)
      PROVE  CatalogueInv' /\ DetachesNothing
  <2>1. PICK pc \in {"adding", "refiling"} : Reads(e, pc, a, c)
    BY <1>4 DEF AddRead, RefileRead
  <2>2. PICK call : call = [pc |-> pc, on |-> a, to |-> c]
    OBVIOUS
  <2>3. EditTyped(call) /\ Founded(call, category, article)
    BY <2>2 DEF EditTyped, Founded
  <2> QED
    BY <2>1, <2>2, <2>3, CatalogueReads
<1> QED
  BY <1>1, <1>2, <1>3, <1>4, CreateCategoryStep, HideCategoryStep, DeleteCategoryStep, FilingStep, ToggleArticleStep
  DEF CatalogueNext, CatalogueStep

-----------------------------------------------------------------------------
(* The tree and the listings *)

\* What holds at first and is kept by every round holds in all of them.
LEMMA RoundByRound ==
    ASSUME NEW N \in Nat, NEW T, 0 \in T, \A n \in 1..N : n - 1 \in T => n \in T
    PROVE  \A n \in 0..N : n \in T
<1> DEFINE missing == {n \in 0..N : n \notin T}
<1> SUFFICES ASSUME missing # {} PROVE FALSE
  OBVIOUS
<1>1. PICK n \in missing : \A k \in missing : n <= k
  <2>1. missing \in SUBSET Nat
    OBVIOUS
  <2> HIDE DEF missing
  <2> QED
    BY <2>1, LeastNatural
<1>2. n \in 1..N /\ n - 1 \in 0..N
  BY <1>1
<1>3. n - 1 \notin missing
  BY <1>1, <1>2
<1> QED
  BY <1>1, <1>2, <1>3

RoundsOf(g, S, F, x, N) ==
    g \in [0..N -> S] /\ g[0] = x /\ \A n \in 1..N : g[n] = F[g[n - 1]]

\* A recursion that takes its values in S has a solution.
LEMMA RoundsExist ==
    ASSUME NEW S, NEW F, NEW x, F \in [S -> S], x \in S, NEW N \in Nat
    PROVE  \E g : RoundsOf(g, S, F, x, N)
<1> DEFINE T == {m \in 0..N : \E g \in [0..m -> S] : g[0] = x /\ \A n \in 1..m : g[n] = F[g[n - 1]]}
<1>1. 0 \in T
  <2>1. PICK g \in [0..0 -> S] : g = [n \in 0..0 |-> x]
    OBVIOUS
  <2>2. g[0] = x /\ \A n \in 1..0 : g[n] = F[g[n - 1]]
    BY <2>1
  <2> QED
    BY <2>2
<1>2. ASSUME NEW m \in 1..N, m - 1 \in T PROVE m \in T
  <2>1. PICK h \in [0..(m - 1) -> S] : h[0] = x /\ \A n \in 1..(m - 1) : h[n] = F[h[n - 1]]
    BY <1>2
  <2>2. m \in Nat /\ m - 1 \in 0..(m - 1) /\ m > 0
    OBVIOUS
  <2>3. PICK last \in S : last = F[h[m - 1]]
    BY <2>1, <2>2
  <2>4. \A n \in 0..m : n # m => n \in 0..(m - 1)
    OBVIOUS
  <2>5. PICK g : g = [n \in 0..m |-> IF n = m THEN last ELSE h[n]]
    OBVIOUS
  <2>6. g \in [0..m -> S]
    BY <2>1, <2>3, <2>4, <2>5
  <2>7. g[0] = x
    BY <2>1, <2>2, <2>5
  <2>8. ASSUME NEW n \in 1..m PROVE g[n] = F[g[n - 1]]
    <3>1. n - 1 \in 0..m /\ n - 1 # m /\ n \in 0..m
      OBVIOUS
    <3>2. g[n - 1] = h[n - 1]
      BY <2>5, <3>1
    <3>3. CASE n = m
      BY <2>3, <2>5, <3>1, <3>2, <3>3
    <3>4. CASE n # m
      <4>1. n \in 1..(m - 1)
        BY <3>4
      <4> QED
        BY <2>1, <2>5, <3>1, <3>2, <3>4, <4>1
    <3> QED
      BY <3>3, <3>4
  <2> QED
    BY <2>6, <2>7, <2>8
<1>3. \A n \in 0..N : n \in T
  <2> HIDE DEF T
  <2> QED
    BY <1>1, <1>2, RoundByRound
<1>4. N \in T
  BY <1>3
<1> QED
  BY <1>4 DEF RoundsOf

\* The rounds of getDescendantCategoryIds from every category at once.
Reaches(reach, N) ==
    /\ reach \in [0..N -> [Categories -> SUBSET Categories]]
    /\ \A c \in Categories : reach[0][c] = {c}
    /\ \A c \in Categories, n \in 1..N : reach[n][c] = reach[n - 1][c] \cup LiveChildren(reach[n - 1][c])

LEMMA DescendantRounds ==
    ASSUME NEW c \in Categories, NEW N \in Nat, N = Cardinality(Categories)
    PROVE  \E f \in [0..N -> SUBSET Categories] :
              /\ f[0] = {c} /\ \A n \in 1..N : f[n] = f[n - 1] \cup LiveChildren(f[n - 1])
              /\ Descendants(c) = f[N]
<1> DEFINE Rounds(f) == f = [n \in 0..N |-> IF n = 0 THEN {c} ELSE f[n - 1] \cup LiveChildren(f[n - 1])]
           below == CHOOSE f : Rounds(f)
<1>1. \A s \in SUBSET Categories : LiveChildren(s) \in SUBSET Categories
  BY DEF LiveChildren, LiveCategories
<1>2. PICK F \in [SUBSET Categories -> SUBSET Categories] : F = [s \in SUBSET Categories |-> s \cup LiveChildren(s)]
  BY <1>1
<1>3. PICK g \in [0..N -> SUBSET Categories] : g[0] = {c} /\ \A n \in 1..N : g[n] = F[g[n - 1]]
  <2>1. PICK S, x : S = SUBSET Categories /\ x = {c}
    OBVIOUS
  <2>2. x \in S /\ F \in [S -> S]
    BY <2>1
  <2>3. \E g : RoundsOf(g, S, F, x, N)
    BY <2>2, RoundsExist
  <2> QED
    BY <2>1, <2>3 DEF RoundsOf
<1>4. \A n \in 1..N : n - 1 \in 0..N
  OBVIOUS
<1>5. Rounds(g)
  <2>1. ASSUME NEW n \in 0..N PROVE g[n] = IF n = 0 THEN {c} ELSE g[n - 1] \cup LiveChildren(g[n - 1])
    <3>1. CASE n = 0
      BY <1>3, <3>1
    <3>2. CASE n # 0
      <4>1. n \in 1..N
        BY <3>2
      <4>2. g[n - 1] \in SUBSET Categories
        BY <1>4, <4>1
      <4> QED
        BY <1>2, <1>3, <3>2, <4>1, <4>2
    <3> QED
      BY <3>1, <3>2
  <2> QED
    BY <1>3, <2>1
<1>6. Rounds(below)
  BY <1>5
<1>7. Descendants(c) = below[N]
  BY DEF Descendants
<1>8. PICK f : f = below
  OBVIOUS
<1> HIDE DEF below
<1>9. DOMAIN f = 0..N /\ f[0] = {c} /\ \A n \in 1..N : f[n] = f[n - 1] \cup LiveChildren(f[n - 1])
  <2>1. f = [n \in 0..N |-> IF n = 0 THEN {c} ELSE f[n - 1] \cup LiveChildren(f[n - 1])]
    BY <1>6, <1>8
  <2>2. \A n \in 0..N : f[n] = IF n = 0 THEN {c} ELSE f[n - 1] \cup LiveChildren(f[n - 1])
    BY <2>1
  <2>3. 0 \in 0..N /\ \A n \in 1..N : n \in 0..N /\ n # 0
    OBVIOUS
  <2> HIDE DEF Rounds
  <2> QED
    BY <2>1, <2>2, <2>3
<1>10. \A n \in 0..N : f[n] \in SUBSET Categories
  <2> DEFINE T == {n \in 0..N : f[n] \in SUBSET Categories}
  <2>1. 0 \in T
    BY <1>9
  <2>2. \A n \in 1..N : n - 1 \in T => n \in T
    BY <1>1, <1>9
  <2>3. \A n \in 0..N : n \in T
    <3> HIDE DEF T
    <3> QED
      BY <2>1, <2>2, RoundByRound
  <2> QED
    BY <2>3
<1>11. f \in [0..N -> SUBSET Categories]
  <2>1. f = [n \in 0..N |-> f[n]]
    BY <1>6, <1>8
  <2> QED
    BY <1>10, <2>1
<1> QED
  BY <1>7, <1>8, <1>9, <1>11

LEMMA ReachExists ==
    ASSUME NEW N \in Nat, N = Cardinality(Categories)
    PROVE  \E reach : Reaches(reach, N) /\ \A c \in Categories : Descendants(c) = reach[N][c]
<1> DEFINE Fits(f, c) == /\ f \in [0..N -> SUBSET Categories]
                         /\ f[0] = {c} /\ \A n \in 1..N : f[n] = f[n - 1] \cup LiveChildren(f[n - 1])
                         /\ Descendants(c) = f[N]
           D(c) == CHOOSE f : Fits(f, c)
<1>1. \A c \in Categories : Fits(D(c), c)
  BY DescendantRounds
<1>2. PICK rounds : rounds = [c \in Categories |-> D(c)]
  OBVIOUS
<1>3. \A c \in Categories : Fits(rounds[c], c)
  <2> HIDE DEF D, Fits
  <2> QED
    BY <1>1, <1>2
<1> HIDE DEF D
<1>4. PICK reach : reach = [n \in 0..N |-> [c \in Categories |-> rounds[c][n]]]
  OBVIOUS
<1>5. \A n \in 0..N, c \in Categories : reach[n][c] = rounds[c][n]
  BY <1>4
<1>6. reach \in [0..N -> [Categories -> SUBSET Categories]]
  BY <1>3, <1>4
<1>7. \A n \in 1..N : n \in 0..N /\ n - 1 \in 0..N
  OBVIOUS
<1>8. 0 \in 0..N /\ N \in 0..N
  OBVIOUS
<1>9. \A c \in Categories, n \in 1..N : reach[n][c] = reach[n - 1][c] \cup LiveChildren(reach[n - 1][c])
  BY <1>3, <1>5, <1>7
<1>10. \A c \in Categories : reach[0][c] = {c} /\ Descendants(c) = reach[N][c]
  BY <1>3, <1>5, <1>8
<1> QED
  BY <1>6, <1>9, <1>10 DEF Reaches

\* One round more is one round from every live child.
LEMMA ReachesThroughChildren ==
    ASSUME NEW N \in Nat, NEW reach, Reaches(reach, N)
    PROVE  \A n \in 1..N : \A c \in Categories :
              reach[n][c] = {c} \cup UNION {reach[n - 1][k] : k \in LiveChildren({c})}
<1> DEFINE T == {n \in 0..N : n > 0 => \A c \in Categories :
                   reach[n][c] = {c} \cup UNION {reach[n - 1][k] : k \in LiveChildren({c})}}
<1>1. \A s : LiveChildren(s) = UNION {LiveChildren({c}) : c \in s} /\ LiveChildren(s) \subseteq Categories
  BY DEF LiveChildren, LiveCategories
<1>2. \A k : k \in Categories => /\ reach[0][k] = {k}
                                 /\ \A n \in 1..N : reach[n][k] = reach[n - 1][k] \cup LiveChildren(reach[n - 1][k])
  BY DEF Reaches
<1>3. ASSUME NEW n \in 1..N, n - 1 \in T PROVE n \in T
  <2>1. SUFFICES ASSUME NEW c \in Categories
                 PROVE  reach[n][c] = {c} \cup UNION {reach[n - 1][k] : k \in LiveChildren({c})}
    OBVIOUS
  <2>2. reach[n][c] = reach[n - 1][c] \cup LiveChildren(reach[n - 1][c])
    BY <1>2
  <2>3. CASE n = 1
    <3>1. reach[n - 1][c] = {c}
      BY <1>2, <2>3
    <3>2. \A k \in LiveChildren({c}) : reach[n - 1][k] = {k}
      BY <1>1, <1>2, <2>3
    <3>3. UNION {reach[n - 1][k] : k \in LiveChildren({c})} = LiveChildren({c})
      BY <3>2
    <3> QED
      BY <2>2, <3>1, <3>3
  <2>4. CASE n # 1
    <3>1. n - 1 \in 1..N /\ n - 1 > 0 /\ (n - 1) - 1 = n - 2
      BY <2>4
    <3>2. reach[n - 1][c] = {c} \cup UNION {reach[n - 2][k] : k \in LiveChildren({c})}
      BY <1>3, <3>1
    <3>3. \A k \in LiveChildren({c}) : reach[n - 1][k] = reach[n - 2][k] \cup LiveChildren(reach[n - 2][k])
      BY <1>1, <1>2, <3>1
    <3>4. \A k \in LiveChildren({c}) : k \in reach[n - 1][k]
      <4> DEFINE U == {m \in 0..N : \A k \in Categories : k \in reach[m][k]}
      <4>1. 0 \in U
        BY <1>2
      <4>2. \A m \in 1..N : m - 1 \in U => m \in U
        BY <1>2
      <4>3. \A m \in 0..N : m \in U
        <5> HIDE DEF U
        <5> QED
          BY <4>1, <4>2, RoundByRound
      <4> QED
        BY <1>1, <3>1, <4>3
    <3>5. LiveChildren(reach[n - 1][c])
            = LiveChildren({c}) \cup UNION {LiveChildren(reach[n - 2][k]) : k \in LiveChildren({c})}
      <4>1. \A x : x \in reach[n - 1][c] <=> x = c \/ \E k \in LiveChildren({c}) : x \in reach[n - 2][k]
        BY <3>2
      <4> QED
        BY <4>1 DEF LiveChildren
    <3>6. \A x : x \in reach[n][c] <=> x = c \/ \E k \in LiveChildren({c}) : x \in reach[n - 1][k]
      <4> TAKE x
      <4>1. x \in reach[n][c] <=> x \in reach[n - 1][c] \/ x \in LiveChildren(reach[n - 1][c])
        BY <2>2
      <4>2. x \in reach[n - 1][c] <=> x = c \/ \E k \in LiveChildren({c}) : x \in reach[n - 2][k]
        BY <3>2
      <4>3. x \in LiveChildren(reach[n - 1][c]) <=>
               x \in LiveChildren({c}) \/ \E k \in LiveChildren({c}) : x \in LiveChildren(reach[n - 2][k])
        BY <3>5
      <4>4. \A k \in LiveChildren({c}) :
               x \in reach[n - 1][k] <=> x \in reach[n - 2][k] \/ x \in LiveChildren(reach[n - 2][k])
        BY <3>3
      <4> QED
        BY <3>4, <4>1, <4>2, <4>3, <4>4
    <3> QED
      BY <3>6
  <2> QED
    BY <2>3, <2>4
<1>4. 0 \in T
  OBVIOUS
<1>5. \A n \in 0..N : n \in T
  <2> HIDE DEF T
  <2> QED
    BY <1>3, <1>4, RoundByRound
<1> QED
  BY <1>5

\* What is reached is the category itself or something live whose parent is reached.
LEMMA ReachesDown ==
    ASSUME NEW N \in Nat, NEW reach, Reaches(reach, N)
    PROVE  \A n \in 0..N : \A c \in Categories : \A x \in reach[n][c] :
              /\ x \in Categories
              /\ x # c => x \in LiveCategories /\ category[x].parent \in reach[n][c]
<1> DEFINE T == {n \in 0..N : \A c \in Categories : \A x \in reach[n][c] :
                   x \in Categories /\ (x # c => x \in LiveCategories /\ category[x].parent \in reach[n][c])}
<1>1. 0 \in T
  BY DEF Reaches
<1>2. ASSUME NEW n \in 1..N, n - 1 \in T PROVE n \in T
  <2>1. SUFFICES ASSUME NEW c \in Categories, NEW x \in reach[n][c]
                 PROVE  x \in Categories /\ (x # c => x \in LiveCategories /\ category[x].parent \in reach[n][c])
    OBVIOUS
  <2>2. reach[n][c] = reach[n - 1][c] \cup LiveChildren(reach[n - 1][c])
    BY DEF Reaches
  <2>3. CASE x \in reach[n - 1][c]
    BY <1>2, <2>2, <2>3
  <2>4. CASE x \in LiveChildren(reach[n - 1][c])
    BY <2>2, <2>4 DEF LiveChildren, LiveCategories
  <2> QED
    BY <2>1, <2>2, <2>3, <2>4
<1>3. \A n \in 0..N : n \in T
  <2> HIDE DEF T
  <2> QED
    BY <1>1, <1>2, RoundByRound
<1> QED
  BY <1>3

Ranks(rank) ==
    /\ rank \in [Categories -> Nat]
    /\ \A c \in Categories : category[c].parent # NoCategory => rank[category[c].parent] < rank[c]

\* What is reached and is not the category itself is ranked below it.
LEMMA ReachesLower ==
    ASSUME NEW N \in Nat, NEW reach, Reaches(reach, N), NEW rank, Ranks(rank)
    PROVE  \A n \in 0..N : \A c \in Categories : \A x \in reach[n][c] : x = c \/ rank[c] < rank[x]
<1> DEFINE T == {n \in 0..N : \A c \in Categories : \A x \in reach[n][c] : x = c \/ rank[c] < rank[x]}
<1>1. 0 \in T
  BY DEF Reaches
<1>2. ASSUME NEW n \in 1..N, n - 1 \in T PROVE n \in T
  <2>1. SUFFICES ASSUME NEW c \in Categories, NEW x \in reach[n][c] PROVE x = c \/ rank[c] < rank[x]
    OBVIOUS
  <2>2. reach[n][c] = reach[n - 1][c] \cup LiveChildren(reach[n - 1][c])
    BY DEF Reaches
  <2>3. CASE x \in reach[n - 1][c]
    BY <1>2, <2>3
  <2>4. CASE x \in LiveChildren(reach[n - 1][c])
    <3>1. PICK p \in reach[n - 1][c] : x \in Categories /\ category[x].parent = p
      BY <2>4 DEF LiveChildren, LiveCategories
    <3>2. p \in Categories
      <4>1. n - 1 \in 0..N
        OBVIOUS
      <4> QED
        BY <3>1, <4>1 DEF Reaches
    <3>3. rank[p] < rank[x]
      BY <3>1, <3>2, CatalogueConstants DEF Ranks
    <3>4. p = c \/ rank[c] < rank[p]
      BY <1>2, <3>1
    <3>5. rank[p] \in Nat /\ rank[x] \in Nat /\ rank[c] \in Nat
      BY <3>1, <3>2 DEF Ranks
    <3> QED
      BY <3>3, <3>4, <3>5
  <2> QED
    BY <2>1, <2>2, <2>3, <2>4
<1>3. \A n \in 0..N : n \in T
  <2> HIDE DEF T
  <2> QED
    BY <1>1, <1>2, RoundByRound
<1> QED
  BY <1>3

\* Siblings reach nothing in common, and none reaches their parent.
LEMMA SiblingsApart ==
    ASSUME NEW N \in Nat, NEW reach, Reaches(reach, N), NEW rank, Ranks(rank),
           NEW n \in 0..N, NEW d \in Categories
    PROVE  /\ \A k \in LiveChildren({d}) : d \notin reach[n][k]
           /\ \A k, j \in LiveChildren({d}) : k # j => reach[n][k] \cap reach[n][j] = {}
<1>1. \A k \in LiveChildren({d}) : k \in Categories /\ category[k].parent = d /\ rank[d] < rank[k]
  BY CatalogueConstants DEF LiveChildren, LiveCategories, Ranks
<1>2. \A c \in Categories : \A x \in reach[n][c] :
         /\ x \in Categories /\ (x = c \/ rank[c] < rank[x])
         /\ x # c => category[x].parent \in reach[n][c]
  BY ReachesLower, ReachesDown
<1>3. \A c \in Categories : rank[c] \in Nat
  BY DEF Ranks
<1>4. ASSUME NEW k \in LiveChildren({d}), d \in reach[n][k] PROVE FALSE
  <2>1. d = k \/ rank[k] < rank[d]
    BY <1>1, <1>2, <1>4
  <2> QED
    BY <1>1, <1>3, <2>1
<1>5. ASSUME NEW k \in LiveChildren({d}), NEW j \in LiveChildren({d}), k # j, reach[n][k] \cap reach[n][j] # {} PROVE FALSE
  <2>1. PICK both : both = reach[n][k] \cap reach[n][j]
    OBVIOUS
  <2>2. PICK levels : levels = {rank[x] : x \in both}
    OBVIOUS
  <2>3. levels \in SUBSET Nat /\ levels # {}
    <3>1. \A x \in both : rank[x] \in Nat
      BY <1>1, <1>2, <1>3, <2>1
    <3> QED
      BY <1>5, <2>1, <2>2, <3>1
  <2>4. PICK m \in levels : \A l \in levels : m <= l
    BY <2>3, LeastNatural
  <2>5. PICK x \in both : m = rank[x]
    BY <2>2
  <2>6. x \in Categories /\ x \in reach[n][k] /\ x \in reach[n][j]
    BY <1>1, <1>2, <2>1, <2>5
  <2>7. CASE x = k
    <3>1. category[x].parent = d /\ category[x].parent \in reach[n][j]
      BY <1>1, <1>2, <1>5, <2>6, <2>7
    <3> QED
      BY <1>4, <3>1
  <2>8. CASE x = j
    <3>1. category[x].parent = d /\ category[x].parent \in reach[n][k]
      BY <1>1, <1>2, <1>5, <2>6, <2>8
    <3> QED
      BY <1>4, <3>1
  <2>9. CASE x # k /\ x # j
    <3>1. PICK p \in both : p = category[x].parent
      BY <1>1, <1>2, <2>1, <2>6, <2>9
    <3>2. p \in Categories
      BY <1>1, <1>2, <2>1, <3>1
    <3>3. rank[p] < rank[x]
      BY <2>6, <3>1, <3>2, CatalogueConstants DEF Ranks
    <3>4. m <= rank[p]
      BY <2>2, <2>4, <3>1
    <3> QED
      BY <1>3, <2>5, <2>6, <3>2, <3>3, <3>4
  <2> QED
    BY <2>7, <2>8, <2>9
<1> QED
  BY <1>4, <1>5

\* The products on sale that are filed in some categories.
Filed(s) == {a \in Articles : article[a].state = "active" /\ article[a].category \in s}

\* Entries that are the numbers of elements of disjoint sets add up to the number of all.
LEMMA SumCountsUnion ==
    ASSUME NEW D, NEW f \in [D -> Nat], NEW S \in SUBSET D, IsFiniteSet(S), NEW V, NEW U, IsFiniteSet(U),
           \A x \in S : V[x] \subseteq U /\ f[x] = Cardinality(V[x]),
           \A x, y \in S : x # y => V[x] \cap V[y] = {}
    PROVE  SumFunctionOnSet(f, S) = Cardinality(UNION {V[x] : x \in S})
<1> DEFINE C == {T \in SUBSET S : SumFunctionOnSet(f, T) # Cardinality(UNION {V[x] : x \in T})}
<1> SUFFICES ASSUME C # {} PROVE FALSE
  OBVIOUS
<1>1. PICK T \in C : \A W \in C : ~ (W \subseteq T /\ W # T)
  <2>1. C \in SUBSET (SUBSET S)
    OBVIOUS
  <2> HIDE DEF C
  <2> QED
    BY <2>1, LeastSubset
<1>2. T \in SUBSET S /\ SumFunctionOnSet(f, T) # Cardinality(UNION {V[x] : x \in T})
  BY <1>1
<1>3. \A W \in SUBSET T : W # T => SumFunctionOnSet(f, W) = Cardinality(UNION {V[x] : x \in W})
  BY <1>1
<1> HIDE DEF C
<1>4. CASE T = {}
  <2>1. UNION {V[x] : x \in T} = {}
    BY <1>4
  <2>2. SumFunctionOnSet(f, T) = 0
    BY <1>4, SumEmpty
  <2> QED
    BY <1>2, <2>1, <2>2, FS_EmptySet
<1>5. CASE T # {}
  <2>1. PICK x \in T : TRUE
    BY <1>5
  <2>2. PICK W : W = T \ {x}
    OBVIOUS
  <2>3. W \in SUBSET T /\ W # T /\ x \notin W
    BY <2>1, <2>2
  <2>4. IsFiniteSet(T) /\ T \in SUBSET D /\ x \in D
    BY <1>2, <2>1, FS_Subset
  <2>5. PICK rest, own : rest = UNION {V[y] : y \in W} /\ own = V[x]
    OBVIOUS
  <2>6. rest \in SUBSET U /\ own \in SUBSET U /\ rest \cap own = {}
    BY <1>2, <2>1, <2>3, <2>5
  <2>7. /\ IsFiniteSet(rest) /\ IsFiniteSet(own)
        /\ Cardinality(rest) \in Nat /\ Cardinality(own) \in Nat
    BY <2>6, FS_Subset, FS_CardinalityType
  <2>8. Cardinality(rest \cup own) = Cardinality(rest) + Cardinality(own)
    <3>1. Cardinality(rest \cup own) = Cardinality(rest) + Cardinality(own) - Cardinality(rest \cap own)
      BY <2>7, FS_Union
    <3>2. Cardinality(rest \cap own) = 0
      BY <2>6, FS_EmptySet
    <3> QED
      BY <2>7, <3>1, <3>2
  <2>9. UNION {V[y] : y \in T} = rest \cup own
    BY <2>1, <2>2, <2>5
  <2>10. SumFunctionOnSet(f, T) = f[x] + SumFunctionOnSet(f, W)
    <3>1. f \in [D -> Int]
      OBVIOUS
    <3> QED
      BY <2>1, <2>2, <2>4, <3>1, SumRemove
  <2>11. SumFunctionOnSet(f, W) = Cardinality(rest)
    BY <1>3, <2>3, <2>5
  <2>12. f[x] = Cardinality(own)
    BY <1>2, <2>1, <2>5
  <2>13. SumFunctionOnSet(f, T) = Cardinality(rest \cup own)
    BY <2>7, <2>8, <2>10, <2>11, <2>12
  <2> QED
    BY <1>2, <2>9, <2>13
<1> QED
  BY <1>4, <1>5

\* Every set of products is counted.
LEMMA FiledFinite == \A s : IsFiniteSet(Filed(s)) /\ Cardinality(Filed(s)) \in Nat /\ Filed(s) \subseteq Articles
<1> TAKE s
<1>1. Filed(s) \in SUBSET Articles
  BY DEF Filed
<1> QED
  BY <1>1, CatalogueConstants, FS_Subset, FS_CardinalityType

\* The nodes of the tree: the used categories that are live, and the live ones above.
LEMMA NodesClosed ==
    /\ Nodes \in SUBSET LiveCategories
    /\ \A a \in Articles : article[a].state = "active" /\ article[a].category \in LiveCategories => article[a].category \in Nodes
    /\ \A c \in Nodes : category[c].parent \in LiveCategories => category[c].parent \in Nodes
<1>1. PICK N \in Nat : N = Cardinality(Categories)
  BY CatalogueConstants, FS_CardinalityType
<1>2. PICK ids : ids = {article[a].category : a \in {b \in Articles : article[b].state = "active"}}
  OBVIOUS
<1>3. PICK live : live = LiveCategories /\ live \in SUBSET Categories
  BY DEF LiveCategories
<1>4. PICK up : up = [s \in SUBSET live |-> s \cup {p \in live : \E c \in s : category[c].parent = p}]
  OBVIOUS
<1> DEFINE Rounds(f) == f = [n \in 0..N |-> IF n = 0 THEN ids \cap live
                                           ELSE f[n - 1] \cup {p \in live : \E c \in f[n - 1] : category[c].parent = p}]
           above == CHOOSE f : Rounds(f)
<1>5. \E f : Rounds(f)
  <2>1. PICK S, x : S = SUBSET live /\ x = ids \cap live
    OBVIOUS
  <2>2. x \in S /\ up \in [S -> S]
    BY <1>4, <2>1
  <2>3. PICK g : RoundsOf(g, S, up, x, N)
    BY <2>2, RoundsExist
  <2>4. g \in [0..N -> SUBSET live] /\ g[0] = ids \cap live /\ \A n \in 1..N : g[n] = up[g[n - 1]]
    BY <2>1, <2>3 DEF RoundsOf
  <2>5. ASSUME NEW n \in 0..N
        PROVE  g[n] = IF n = 0 THEN ids \cap live
                      ELSE g[n - 1] \cup {p \in live : \E c \in g[n - 1] : category[c].parent = p}
    <3>1. CASE n = 0
      BY <2>4, <3>1
    <3>2. CASE n # 0
      <4>1. n \in 1..N /\ n - 1 \in 0..N
        BY <3>2
      <4>2. g[n - 1] \in SUBSET live
        BY <2>4, <4>1
      <4> QED
        BY <1>4, <2>4, <3>2, <4>1, <4>2
    <3> QED
      BY <3>1, <3>2
  <2> QED
    BY <2>4, <2>5
<1>6. Rounds(above)
  BY <1>5
<1>7. Nodes = above[N]
  BY <1>1, <1>2, <1>3 DEF Nodes, AncestorClosure
<1>8. PICK f : f = above
  OBVIOUS
<1> HIDE DEF above
<1>9. f[0] = ids \cap live /\ \A n \in 1..N : f[n] = f[n - 1] \cup {p \in live : \E c \in f[n - 1] : category[c].parent = p}
  <2>1. f = [n \in 0..N |-> IF n = 0 THEN ids \cap live
                            ELSE f[n - 1] \cup {p \in live : \E c \in f[n - 1] : category[c].parent = p}]
    BY <1>6, <1>8
  <2>2. \A n \in 0..N : f[n] = IF n = 0 THEN ids \cap live
                              ELSE f[n - 1] \cup {p \in live : \E c \in f[n - 1] : category[c].parent = p}
    BY <2>1
  <2>3. 0 \in 0..N /\ \A n \in 1..N : n \in 0..N /\ n # 0
    OBVIOUS
  <2> QED
    BY <2>2, <2>3
<1> HIDE DEF Rounds
<1> DEFINE Closed(s) == \A c \in s : category[c].parent \in live => category[c].parent \in s
           T == {n \in 0..N : /\ f[n] \in SUBSET live /\ ids \cap live \subseteq f[n]
                              /\ Closed(f[n]) \/ n <= Cardinality(f[n])}
<1>10. \A s \in SUBSET live : IsFiniteSet(s) /\ Cardinality(s) \in Nat
  BY <1>3, CatalogueConstants, FS_Subset, FS_CardinalityType
<1>11. 0 \in T
  BY <1>9, <1>10
<1>12. ASSUME NEW n \in 1..N, n - 1 \in T PROVE n \in T
  <2>1. f[n] = f[n - 1] \cup {p \in live : \E c \in f[n - 1] : category[c].parent = p}
    BY <1>9
  <2>2. f[n - 1] \in SUBSET live /\ ids \cap live \subseteq f[n - 1] /\ (Closed(f[n - 1]) \/ n - 1 <= Cardinality(f[n - 1]))
    BY <1>12
  <2>3. f[n] \in SUBSET live /\ ids \cap live \subseteq f[n]
    BY <2>1, <2>2
  <2>4. CASE Closed(f[n - 1])
    <3>1. f[n] = f[n - 1]
      BY <2>1, <2>2, <2>4
    <3> QED
      BY <2>3, <2>4, <3>1
  <2>5. CASE ~Closed(f[n - 1])
    <3>1. f[n - 1] # f[n] /\ f[n - 1] \in SUBSET f[n]
      BY <2>1, <2>5
    <3>2. /\ Cardinality(f[n - 1]) <= Cardinality(f[n])
          /\ Cardinality(f[n]) # Cardinality(f[n - 1])
      BY <1>10, <2>3, <3>1, FS_Subset
    <3>3. Cardinality(f[n - 1]) \in Nat /\ Cardinality(f[n]) \in Nat
      BY <1>10, <2>2, <2>3
    <3>4. n <= Cardinality(f[n])
      BY <2>2, <2>5, <3>2, <3>3
    <3> QED
      BY <2>3, <3>4
  <2> QED
    BY <2>4, <2>5
<1>13. N \in T
  <2>1. \A n \in 0..N : n \in T
    <3> HIDE DEF T
    <3> QED
      BY <1>11, <1>12, RoundByRound
  <2> QED
    BY <2>1
<1>14. f[N] \in SUBSET live /\ ids \cap live \subseteq f[N] /\ Closed(f[N])
  <2>1. f[N] \in SUBSET live /\ ids \cap live \subseteq f[N] /\ (Closed(f[N]) \/ N <= Cardinality(f[N]))
    BY <1>13
  <2>2. CASE N <= Cardinality(f[N])
    <3>1. f[N] \in SUBSET Categories
      BY <1>3, <2>1
    <3>2. Cardinality(f[N]) = N
      BY <1>1, <1>10, <2>1, <2>2, <3>1, CatalogueConstants, FS_Subset
    <3>3. f[N] = Categories
      BY <1>1, <3>1, <3>2, CatalogueConstants, FS_Subset
    <3> QED
      BY <1>3, <2>1, <3>3
  <2> QED
    BY <2>1, <2>2
<1> QED
  BY <1>2, <1>3, <1>7, <1>8, <1>14

Kids(d) == {k \in Nodes : category[k].parent = d}

\* The rounds of the roll-up: the products of a node and what its sub-nodes have had.
RollsUp(total, N) ==
    /\ total \in [0..N -> [Nodes -> Nat]]
    /\ \A d \in Nodes : total[0][d] = DirectCount(d)
    /\ \A d \in Nodes, n \in 1..N : total[n][d] = DirectCount(d) + SumFunctionOnSet(total[n - 1], Kids(d))

LEMMA NodesFinite ==
    /\ Nodes \in SUBSET Categories /\ IsFiniteSet(Nodes)
    /\ \A d : IsFiniteSet(Kids(d)) /\ Kids(d) \in SUBSET Nodes
<1>1. Nodes \in SUBSET Categories
  BY NodesClosed DEF LiveCategories
<1>2. IsFiniteSet(Nodes)
  BY <1>1, CatalogueConstants, FS_Subset
<1>3. ASSUME NEW d PROVE IsFiniteSet(Kids(d)) /\ Kids(d) \in SUBSET Nodes
  <2>1. Kids(d) \in SUBSET Nodes
    BY DEF Kids
  <2> QED
    BY <1>2, <2>1, FS_Subset
<1> QED
  BY <1>1, <1>2, <1>3

LEMMA DirectIsNat == \A d : DirectCount(d) \in Nat /\ DirectCount(d) = Cardinality(Filed({d}))
<1> TAKE d
<1>1. DirectCount(d) = Cardinality(Filed({d}))
  <2>1. {a \in Articles : article[a].state = "active" /\ article[a].category = d} = Filed({d})
    BY DEF Filed
  <2> QED
    BY <2>1 DEF DirectCount
<1> QED
  BY <1>1, FiledFinite

LEMMA RollUpExists ==
    ASSUME NEW N \in Nat, N = Cardinality(Categories)
    PROVE  \E total : RollsUp(total, N) /\ \A c \in Nodes : TotalCount(c) = total[N][c]
<1> DEFINE Rounds(f) == f = [n \in 0..N |-> [d \in Nodes |-> DirectCount(d) +
                               IF n = 0 THEN 0 ELSE SumFunctionOnSet(f[n - 1], {k \in Nodes : category[k].parent = d})]]
           rolled == CHOOSE f : Rounds(f)
<1>1. PICK S : S = [Nodes -> Nat]
  OBVIOUS
<1>2. \A d : \A r \in S : SumFunctionOnSet(r, Kids(d)) \in Nat
  <2> TAKE d
  <2> TAKE r \in S
  <2>1. r \in [Nodes -> Nat]
    BY <1>1
  <2> QED
    BY <2>1, NodesFinite, SumNat
<1>3. PICK F : F = [r \in S |-> [d \in Nodes |-> DirectCount(d) + SumFunctionOnSet(r, Kids(d))]]
  OBVIOUS
<1>4. F \in [S -> S]
  <2>1. ASSUME NEW r \in S PROVE [d \in Nodes |-> DirectCount(d) + SumFunctionOnSet(r, Kids(d))] \in S
    <3>1. \A d \in Nodes : DirectCount(d) + SumFunctionOnSet(r, Kids(d)) \in Nat
      BY <1>2, DirectIsNat
    <3> QED
      BY <1>1, <3>1
  <2> QED
    BY <1>3, <2>1
<1>5. PICK x : x = [d \in Nodes |-> DirectCount(d)] /\ x \in S
  <2>1. [d \in Nodes |-> DirectCount(d)] \in S
    BY <1>1, DirectIsNat
  <2> QED
    BY <2>1
<1>6. PICK g : RoundsOf(g, S, F, x, N)
  BY <1>4, <1>5, RoundsExist
<1>7. g \in [0..N -> S] /\ g[0] = x /\ \A n \in 1..N : g[n] = F[g[n - 1]]
  BY <1>6 DEF RoundsOf
<1>8. Rounds(g)
  <2>1. ASSUME NEW n \in 0..N
        PROVE  g[n] = [d \in Nodes |-> DirectCount(d) +
                         IF n = 0 THEN 0 ELSE SumFunctionOnSet(g[n - 1], {k \in Nodes : category[k].parent = d})]
    <3>1. CASE n = 0
      <4>1. \A d \in Nodes : DirectCount(d) + 0 = DirectCount(d)
        BY DirectIsNat
      <4> QED
        BY <1>5, <1>7, <3>1, <4>1
    <3>2. CASE n # 0
      <4>1. n \in 1..N /\ n - 1 \in 0..N
        BY <3>2
      <4>2. g[n - 1] \in S
        BY <1>7, <4>1
      <4>3. g[n] = [d \in Nodes |-> DirectCount(d) + SumFunctionOnSet(g[n - 1], Kids(d))]
        BY <1>3, <1>7, <4>1, <4>2
      <4> QED
        BY <3>2, <4>3 DEF Kids
    <3> QED
      BY <3>1, <3>2
  <2> QED
    BY <1>7, <2>1
<1>9. Rounds(rolled)
  BY <1>8
<1>10. \A c \in Nodes : TotalCount(c) = rolled[N][c]
  BY DEF TotalCount
<1>11. PICK f : f = rolled
  OBVIOUS
<1> HIDE DEF rolled
<1>12. \A n \in 0..N : f[n] = [d \in Nodes |-> DirectCount(d) +
                                IF n = 0 THEN 0 ELSE SumFunctionOnSet(f[n - 1], {k \in Nodes : category[k].parent = d})]
  <2>1. f = [n \in 0..N |-> [d \in Nodes |-> DirectCount(d) +
                               IF n = 0 THEN 0 ELSE SumFunctionOnSet(f[n - 1], {k \in Nodes : category[k].parent = d})]]
    BY <1>9, <1>11
  <2> HIDE DEF Rounds
  <2> QED
    BY <2>1
<1>13. f = [n \in 0..N |-> f[n]]
  <2>1. f = [n \in 0..N |-> [d \in Nodes |-> DirectCount(d) +
                               IF n = 0 THEN 0 ELSE SumFunctionOnSet(f[n - 1], {k \in Nodes : category[k].parent = d})]]
    BY <1>9, <1>11
  <2> HIDE DEF Rounds
  <2> QED
    BY <2>1
<1> HIDE DEF Rounds
<1>14. \A d \in Nodes : f[0][d] = DirectCount(d)
  <2> TAKE d \in Nodes
  <2>0. 0 \in 0..N
    OBVIOUS
  <2>1. f[0][d] = DirectCount(d) + 0
    BY <1>12, <2>0
  <2> QED
    BY <2>1, DirectIsNat
<1>15. \A d \in Nodes, n \in 1..N : f[n][d] = DirectCount(d) + SumFunctionOnSet(f[n - 1], Kids(d))
  <2> TAKE d \in Nodes, n \in 1..N
  <2>1. n \in 0..N /\ n # 0
    OBVIOUS
  <2> QED
    BY <1>12, <2>1 DEF Kids
<1>16. \A n \in 0..N : f[n] \in S
  <2> DEFINE T == {n \in 0..N : f[n] \in S}
  <2>1. 0 \in T
    <3>1. \A d \in Nodes : DirectCount(d) + 0 \in Nat
      BY DirectIsNat
    <3>2. f[0] = [d \in Nodes |-> DirectCount(d) + 0]
      BY <1>12
    <3> QED
      BY <1>1, <3>1, <3>2
  <2>2. ASSUME NEW n \in 1..N, n - 1 \in T PROVE n \in T
    <3>1. n \in 0..N /\ n # 0 /\ f[n - 1] \in S
      BY <2>2
    <3>2. f[n] = [d \in Nodes |-> DirectCount(d) + SumFunctionOnSet(f[n - 1], Kids(d))]
      BY <1>12, <3>1 DEF Kids
    <3>3. \A d \in Nodes : DirectCount(d) + SumFunctionOnSet(f[n - 1], Kids(d)) \in Nat
      BY <1>2, <3>1, DirectIsNat
    <3> QED
      BY <1>1, <3>1, <3>2, <3>3
  <2>3. \A n \in 0..N : n \in T
    <3> HIDE DEF T
    <3> QED
      BY <2>1, <2>2, RoundByRound
  <2> QED
    BY <2>3
<1>17. f \in [0..N -> [Nodes -> Nat]]
  BY <1>1, <1>13, <1>16
<1> QED
  BY <1>10, <1>11, <1>14, <1>15, <1>17 DEF RollsUp

\* A live category under which a product on sale is reached is a node of the tree.
LEMMA ReachedIsNode ==
    ASSUME NEW N \in Nat, NEW reach, Reaches(reach, N), NEW rank, Ranks(rank),
           NEW n \in 0..N, NEW k \in LiveCategories, Filed(reach[n][k]) # {}
    PROVE  k \in Nodes
<1>1. k \in Categories
  BY DEF LiveCategories
<1>2. \A x \in reach[n][k] : /\ x \in Categories /\ (x = k \/ rank[k] < rank[x])
                             /\ x \in LiveCategories
                             /\ x # k => category[x].parent \in reach[n][k]
  BY <1>1, ReachesLower, ReachesDown
<1>3. PICK above : above = reach[n][k] \cap Nodes
  OBVIOUS
<1>4. above # {}
  <2>1. PICK a \in Articles : article[a].state = "active" /\ article[a].category \in reach[n][k]
    BY DEF Filed
  <2>2. article[a].category \in Nodes
    BY <1>2, <2>1, NodesClosed
  <2> QED
    BY <1>3, <2>1, <2>2
<1>5. \A c \in Categories : rank[c] \in Nat
  BY DEF Ranks
<1>6. PICK levels : levels = {rank[x] : x \in above}
  OBVIOUS
<1>7. levels \in SUBSET Nat /\ levels # {}
  <2>1. \A x \in above : rank[x] \in Nat
    BY <1>2, <1>3, <1>5
  <2> QED
    BY <1>4, <1>6, <2>1
<1>8. PICK m \in levels : \A l \in levels : m <= l
  BY <1>7, LeastNatural
<1>9. PICK x \in above : m = rank[x]
  BY <1>6
<1>10. x \in Categories /\ x \in reach[n][k] /\ x \in Nodes
  BY <1>2, <1>3, <1>9
<1>11. CASE x = k
  BY <1>10, <1>11
<1>12. CASE x # k
  <2>1. PICK p : p = category[x].parent /\ p \in reach[n][k] /\ p \in LiveCategories /\ p \in Categories
    BY <1>2, <1>10, <1>12
  <2>2. p \in above
    BY <1>3, <1>10, <2>1, NodesClosed
  <2>3. rank[p] < rank[x]
    BY <1>10, <2>1, CatalogueConstants DEF Ranks
  <2>4. m <= rank[p]
    BY <1>6, <1>8, <2>2
  <2> QED
    BY <1>5, <1>9, <1>10, <2>1, <2>3, <2>4
<1> QED
  BY <1>11, <1>12

\* Round by round the roll-up counts what the walk down reaches.
LEMMA RollUpCounts ==
    ASSUME NEW N \in Nat, NEW reach, Reaches(reach, N), NEW rank, Ranks(rank), NEW total, RollsUp(total, N)
    PROVE  \A n \in 0..N : \A d \in Nodes : total[n][d] = Cardinality(Filed(reach[n][d]))
<1> DEFINE T == {n \in 0..N : \A d \in Nodes : total[n][d] = Cardinality(Filed(reach[n][d]))}
<1>1. 0 \in T
  <2>1. ASSUME NEW d \in Nodes PROVE total[0][d] = Cardinality(Filed(reach[0][d]))
    <3>1. reach[0][d] = {d}
      BY NodesFinite DEF Reaches
    <3>2. total[0][d] = DirectCount(d)
      BY DEF RollsUp
    <3> QED
      BY <3>1, <3>2, DirectIsNat
  <2> QED
    BY <2>1
<1>2. ASSUME NEW n \in 1..N, n - 1 \in T PROVE n \in T
  <2>1. SUFFICES ASSUME NEW d \in Nodes PROVE total[n][d] = Cardinality(Filed(reach[n][d]))
    OBVIOUS
  <2>2. PICK m \in 0..N : m = n - 1
    OBVIOUS
  <2>3. d \in Categories
    BY NodesFinite
  <2>4. PICK f \in [Nodes -> Nat] : f = total[m]
    BY DEF RollsUp
  <2>5. \A k \in Nodes : f[k] = Cardinality(Filed(reach[m][k]))
    BY <1>2, <2>2, <2>4
  <2>6. total[n][d] = DirectCount(d) + SumFunctionOnSet(f, Kids(d))
    BY <2>2, <2>4 DEF RollsUp
  <2>7. PICK V : V = [k \in Nodes |-> Filed(reach[m][k])]
    OBVIOUS
  <2>8. PICK K \in SUBSET Nodes : K = Kids(d) /\ IsFiniteSet(K)
    BY NodesFinite
  <2>9. \A k \in K : k \in LiveChildren({d}) /\ k \in Nodes
    BY <2>8, NodesClosed DEF Kids, LiveChildren, LiveCategories
  <2>10. \A k \in K : V[k] \subseteq Articles /\ f[k] = Cardinality(V[k])
    BY <2>5, <2>7, <2>9, FiledFinite
  <2>11. \A k, j \in K : k # j => V[k] \cap V[j] = {}
    <3>1. \A k, j \in LiveChildren({d}) : k # j => reach[m][k] \cap reach[m][j] = {}
      BY <2>3, SiblingsApart
    <3> QED
      BY <2>7, <2>9, <3>1 DEF Filed
  <2>12. PICK below : below = UNION {V[k] : k \in K}
    OBVIOUS
  <2>13. SumFunctionOnSet(f, K) = Cardinality(below)
    BY <2>8, <2>10, <2>11, <2>12, CatalogueConstants, SumCountsUnion
  <2>14. below = Filed(UNION {reach[m][k] : k \in LiveChildren({d})})
    <3>1. ASSUME NEW a \in below PROVE a \in Filed(UNION {reach[m][k] : k \in LiveChildren({d})})
      <4>1. PICK k \in K : a \in V[k]
        BY <2>12
      <4>2. k \in LiveChildren({d}) /\ a \in Filed(reach[m][k])
        BY <2>7, <2>9, <4>1
      <4> QED
        BY <4>2 DEF Filed
    <3>2. ASSUME NEW a \in Filed(UNION {reach[m][k] : k \in LiveChildren({d})}) PROVE a \in below
      <4>1. PICK k \in LiveChildren({d}) : a \in Filed(reach[m][k])
        BY <3>2 DEF Filed
      <4>2. k \in LiveCategories /\ category[k].parent = d
        BY DEF LiveChildren
      <4>3. k \in Nodes
        BY <4>1, <4>2, ReachedIsNode
      <4> QED
        BY <2>7, <2>8, <2>12, <4>1, <4>2, <4>3 DEF Kids
    <3> QED
      BY <3>1, <3>2
  <2>15. reach[n][d] = {d} \cup UNION {reach[m][k] : k \in LiveChildren({d})}
    BY <2>2, <2>3, ReachesThroughChildren
  <2>16. PICK own : own = Filed({d})
    OBVIOUS
  <2>17. Filed(reach[n][d]) = own \cup below
    BY <2>14, <2>15, <2>16 DEF Filed
  <2>18. own \cap below = {}
    <3>1. \A k \in LiveChildren({d}) : d \notin reach[m][k]
      BY <2>3, SiblingsApart
    <3> QED
      BY <2>14, <2>16, <3>1 DEF Filed
  <2>19. /\ IsFiniteSet(own) /\ IsFiniteSet(below)
         /\ Cardinality(own) \in Nat /\ Cardinality(below) \in Nat
    BY <2>14, <2>16, FiledFinite
  <2>20. Cardinality(own \cup below) = Cardinality(own) + Cardinality(below)
    <3>1. Cardinality(own \cup below) = Cardinality(own) + Cardinality(below) - Cardinality(own \cap below)
      BY <2>19, FS_Union
    <3>2. Cardinality(own \cap below) = 0
      BY <2>18, FS_EmptySet
    <3> QED
      BY <2>19, <3>1, <3>2
  <2>21. DirectCount(d) = Cardinality(own)
    BY <2>16, DirectIsNat
  <2> QED
    BY <2>6, <2>8, <2>13, <2>17, <2>20, <2>21
<1>3. \A n \in 0..N : n \in T
  <2> HIDE DEF T
  <2> QED
    BY <1>1, <1>2, RoundByRound
<1> QED
  BY <1>3

\* The totals and the listings agree in every forest.
LEMMA CountsAgree == Forest(category) => CountsMatchListings
<1> SUFFICES ASSUME Forest(category) PROVE CountsMatchListings
  OBVIOUS
<1>1. PICK N \in Nat : N = Cardinality(Categories)
  BY CatalogueConstants, FS_CardinalityType
<1>2. PICK rank : Ranks(rank)
  BY DEF Forest, Ranks
<1>3. PICK reach : Reaches(reach, N) /\ \A c \in Categories : Descendants(c) = reach[N][c]
  BY <1>1, ReachExists
<1>4. PICK total : RollsUp(total, N) /\ \A c \in Nodes : TotalCount(c) = total[N][c]
  BY <1>1, RollUpExists
<1>5. \A d \in Nodes : total[N][d] = Cardinality(Filed(reach[N][d]))
  <2>1. N \in 0..N
    BY <1>1
  <2> QED
    BY <1>2, <1>3, <1>4, <2>1, RollUpCounts
<1>6. \A c \in Nodes : Listing(c) = Filed(reach[N][c])
  BY <1>3, NodesFinite DEF Listing, Filed
<1> QED
  BY <1>4, <1>5, <1>6 DEF CountsMatchListings

LEMMA CatalogueInvSafe == CatalogueInv => CatalogueAgrees
BY CountsAgree DEF CatalogueInv, CatalogueAgrees

\* Whatever requests overlap, references name rows that exist and the number beside a
\* category is that of the products its listing shows; a deletion that no other request
\* overlaps detaches nothing (getMyCategories, getMyProducts, hardDeleteCategory).
THEOREM CatalogueKept == CatalogueSpec => []CatalogueAgrees /\ NothingIsDetached
<1> QED
  BY CatalogueInvInit, CatalogueInvStep, CatalogueInvSafe, PTL DEF CatalogueSpec, NothingIsDetached, DetachesNothing

-----------------------------------------------------------------------------
(* Cash on pickup                                                          *)

\* A request whose typed code is the one that completes the order.
Redeems(c) == confirm[c].pc \in {"matched", "consumed"}

\* The lock belongs to the request inside it, unless it lapsed under one.
LockIsHeld == ~lapsed => \A c \in Confirmers : Inside(c) => lockHolder = c

\* Codes are random values: what is stored, matched or spent was shown before.
CodesWereShown ==
    /\ code # NoCode => code \in shown
    /\ \A k \in Codes : spent[k] > 0 => k \in shown
    /\ \A c \in Confirmers : /\ Inside(c) => confirm[c].typed \in Codes
                             /\ Redeems(c) => confirm[c].typed \in shown

\* A code that completed the order, or is about to, is not stored; nor does it complete the
\* order again until a lock lapses.
SpentCodesAreGone ==
    /\ \A k \in Codes : spent[k] > 0 => code # k
    /\ \A c \in Confirmers : confirm[c].pc = "consumed" => code # confirm[c].typed
    /\ ~lapsed =>
          /\ \A k \in Codes : spent[k] <= 1
          /\ \A c \in Confirmers : Redeems(c) => spent[confirm[c].typed] = 0

\* CodeSpentOnce alone is not inductive: that a second completion does not follow
\* needs the lock, the consumed code and the freshness of the next one.
CodesInv == PickupTypeOK /\ LockIsHeld /\ CodesWereShown /\ SpentCodesAreGone

Completes(c) == confirm[c].pc = "consumed"
Spent == {k \in Codes : spent[k] > 0}

\* A code was spent on the order, or is about to be.
Redeemed == Spent # {} \/ \E c \in Confirmers : Completes(c)

\* From the consumption of a code on, every other code that could still complete the order
\* was asked for before the confirmation ended, unless a lock lapsed.
HandedOver ==
    /\ Spent # {} => pickup = "COMPLETED"
    /\ ~lapsed =>
          /\ \A k, l \in Spent \ crossed : k = l
          /\ Redeemed => /\ code # NoCode => code \in crossed
                         /\ \A c \in Confirmers : confirm[c].pc = "matched" => confirm[c].typed \in crossed
                         /\ drawn \ shown \subseteq crossed
          /\ Spent # {} => \A c \in Confirmers : Completes(c) => confirm[c].typed \in crossed

PickupInv == CodesInv /\ HandedOver

\* A request takes one step on its own; what the others know is as it was.
LEMMA ConfirmStep ==
    ASSUME PickupTypeOK, NEW c \in Confirmers,
           NEW pc \in {"idle", "locked", "matched", "consumed", "finally", "ended"},
           confirm' = [confirm EXCEPT ![c].pc = pc]
    PROVE  /\ confirm' \in [Confirmers ->
                 [pc : {"idle", "locked", "matched", "consumed", "finally", "ended"},
                  typed : Codes \cup {NoCode}]]
           /\ confirm'[c].pc = pc /\ confirm'[c].typed = confirm[c].typed
           /\ \A d \in Confirmers : d # c => confirm'[d] = confirm[d]
BY DEF PickupTypeOK

\* Every Redis command, completion, expiry and death keeps the invariant.
LEMMA CodesInvStep == CodesInv /\ [PickupNext]_pickupVars => CodesInv'
<1> SUFFICES ASSUME CodesInv, [PickupNext]_pickupVars PROVE CodesInv'
  OBVIOUS
<1> USE PickupConstants DEF CodesInv, codeVars
<1>0. ASSUME NEW k \in Codes, GenerateRead(k) PROVE CodesInv'
  <2>1. PickupTypeOK'
    BY <1>0 DEF PickupTypeOK, GenerateRead
  <2> QED
    BY <1>0, <2>1 DEF GenerateRead, LockIsHeld, CodesWereShown, SpentCodesAreGone, Inside, Redeems
<1>1. ASSUME NEW k \in Codes, GenerateWrite(k) PROVE CodesInv'
  <2>1. PickupTypeOK'
    BY <1>1 DEF PickupTypeOK, GenerateWrite
  <2>2. k \notin shown /\ spent[k] = 0
    BY <1>1 DEF PickupTypeOK, CodesWereShown, GenerateWrite
  <2>3. \A c \in Confirmers : confirm[c].pc = "consumed" => confirm[c].typed # k
    BY <2>2 DEF CodesWereShown, Redeems
  <2>4. LockIsHeld' /\ CodesWereShown'
    BY <1>1 DEF GenerateWrite, LockIsHeld, CodesWereShown, Inside, Redeems
  <2>5. SpentCodesAreGone'
    BY <1>1, <2>2, <2>3 DEF GenerateWrite, SpentCodesAreGone, Redeems
  <2> QED
    BY <2>1, <2>4, <2>5
<1>2. ASSUME CodeExpires PROVE CodesInv'
  <2>1. PickupTypeOK'
    BY <1>2 DEF PickupTypeOK, CodeExpires
  <2>2. LockIsHeld' /\ CodesWereShown'
    BY <1>2 DEF CodeExpires, LockIsHeld, CodesWereShown, Inside, Redeems
  <2>3. \A c \in Confirmers : Redeems(c) => confirm[c].typed \in Codes
    BY DEF CodesWereShown, Inside, Redeems
  <2>4. SpentCodesAreGone'
    BY <1>2, <2>3 DEF CodeExpires, SpentCodesAreGone, Redeems
  <2> QED
    BY <2>1, <2>2, <2>4
<1>3. ASSUME LockExpires PROVE CodesInv'
  <2>1. PickupTypeOK'
    BY <1>3 DEF PickupTypeOK, LockExpires
  <2>2. LockIsHeld'
    BY <1>3 DEF LockExpires, LockIsHeld, Inside
  <2>3. CodesWereShown'
    BY <1>3 DEF LockExpires, CodesWereShown, Inside, Redeems
  <2>4. SpentCodesAreGone'
    BY <1>3 DEF LockExpires, SpentCodesAreGone, Redeems
  <2> QED
    BY <2>1, <2>2, <2>3, <2>4
<1>4. ASSUME NEW c \in Confirmers, NEW k \in Codes, Lock(c, k) PROVE CodesInv'
  <2>1. /\ confirm' \in [Confirmers ->
                 [pc : {"idle", "locked", "matched", "consumed", "finally", "ended"},
                  typed : Codes \cup {NoCode}]]
        /\ confirm'[c] = [pc |-> "locked", typed |-> k]
        /\ \A d \in Confirmers : d # c => confirm'[d] = confirm[d]
    BY <1>4 DEF PickupTypeOK, Lock
  <2>2. PickupTypeOK'
    BY <1>4, <2>1 DEF PickupTypeOK, Lock
  <2>3. ~lapsed => \A d \in Confirmers : ~Inside(d)
    BY <1>4 DEF LockIsHeld, Lock
  <2>4. LockIsHeld'
    BY <1>4, <2>1, <2>3 DEF LockIsHeld, Lock, Inside
  <2>5. CodesWereShown'
    BY <1>4, <2>1 DEF CodesWereShown, Lock, Inside, Redeems
  <2>6. SpentCodesAreGone'
    BY <1>4, <2>1 DEF SpentCodesAreGone, Lock, Redeems
  <2> QED
    BY <2>2, <2>4, <2>5, <2>6
<1>5. ASSUME NEW c \in Confirmers, Compare(c) PROVE CodesInv'
  <2> DEFINE pc == IF code = confirm[c].typed THEN "matched" ELSE "finally"
  <2>0. /\ confirm[c].pc = "locked" /\ confirm' = [confirm EXCEPT ![c].pc = pc]
        /\ UNCHANGED <<pickup, code, lockHolder, codeVars, spent, lapsed>>
    BY <1>5 DEF Compare
  <2>1. /\ confirm' \in [Confirmers ->
                 [pc : {"idle", "locked", "matched", "consumed", "finally", "ended"},
                  typed : Codes \cup {NoCode}]]
        /\ confirm'[c].pc = pc /\ confirm'[c].typed = confirm[c].typed
        /\ \A d \in Confirmers : d # c => confirm'[d] = confirm[d]
    BY <2>0, ConfirmStep
  <2>2. PickupTypeOK'
    BY <2>0, <2>1 DEF PickupTypeOK
  <2>3. LockIsHeld'
    BY <2>0, <2>1 DEF LockIsHeld, Inside
  <2>4. confirm[c].typed \in Codes
    BY <2>0 DEF CodesWereShown, Inside
  <2>5. pc = "matched" => code = confirm[c].typed /\ code \in shown
    BY <2>4 DEF CodesWereShown
  <2>6. CodesWereShown'
    BY <2>0, <2>1, <2>4, <2>5 DEF CodesWereShown, Inside, Redeems
  <2>7. pc = "matched" => spent[confirm[c].typed] = 0
    BY <2>4, <2>5 DEF SpentCodesAreGone, PickupTypeOK
  <2>8. SpentCodesAreGone'
    BY <2>0, <2>1, <2>7 DEF SpentCodesAreGone, Redeems
  <2> QED
    BY <2>2, <2>3, <2>6, <2>8
<1>6. ASSUME NEW c \in Confirmers, Consume(c) PROVE CodesInv'
  <2>0. /\ confirm[c].pc = "matched" /\ confirm' = [confirm EXCEPT ![c].pc = "consumed"]
        /\ code' = NoCode /\ crossed' = crossed \cup (drawn \ shown)
        /\ UNCHANGED <<pickup, lockHolder, drawn, shown, spent, lapsed>>
    BY <1>6 DEF Consume
  <2>1. /\ confirm' \in [Confirmers ->
                 [pc : {"idle", "locked", "matched", "consumed", "finally", "ended"},
                  typed : Codes \cup {NoCode}]]
        /\ confirm'[c].pc = "consumed" /\ confirm'[c].typed = confirm[c].typed
        /\ \A d \in Confirmers : d # c => confirm'[d] = confirm[d]
    BY <2>0, ConfirmStep
  <2>2. PickupTypeOK'
    BY <2>0, <2>1 DEF PickupTypeOK
  <2>3. LockIsHeld' /\ CodesWereShown'
    BY <2>0, <2>1 DEF LockIsHeld, CodesWereShown, Inside, Redeems
  <2>4. \A d \in Confirmers : Redeems(d) => confirm[d].typed \in Codes
    BY DEF CodesWereShown, Inside, Redeems
  <2>5. \A d \in Confirmers : Redeems(d)' => Redeems(d) /\ confirm'[d].typed = confirm[d].typed
    BY <2>0, <2>1 DEF Redeems
  <2>6. \A d \in Confirmers : confirm'[d].pc = "consumed" => Redeems(d)'
    BY DEF Redeems
  <2>7. SpentCodesAreGone'
    BY <2>0, <2>4, <2>5, <2>6 DEF SpentCodesAreGone
  <2> QED
    BY <2>2, <2>3, <2>7
<1>7. ASSUME NEW c \in Confirmers, CompletePickup(c) PROVE CodesInv'
  <2>0. /\ confirm[c].pc = "consumed" /\ confirm' = [confirm EXCEPT ![c].pc = "finally"]
        /\ UNCHANGED <<code, lockHolder, codeVars, lapsed>>
        /\ \/ pickup' = "COMPLETED" /\ spent' = [spent EXCEPT ![confirm[c].typed] = @ + 1]
           \/ UNCHANGED <<pickup, spent>>
    BY <1>7 DEF CompletePickup
  <2>1. /\ confirm' \in [Confirmers ->
                 [pc : {"idle", "locked", "matched", "consumed", "finally", "ended"},
                  typed : Codes \cup {NoCode}]]
        /\ confirm'[c].pc = "finally" /\ confirm'[c].typed = confirm[c].typed
        /\ \A d \in Confirmers : d # c => confirm'[d] = confirm[d]
    BY <2>0, ConfirmStep
  <2>2. PICK k \in Codes : k = confirm[c].typed
    BY <2>0 DEF CodesWereShown, Inside
  <2>3. /\ spent \in [Codes -> Nat] /\ spent' \in [Codes -> Nat]
        /\ \A j \in Codes : j # k => spent'[j] = spent[j]
        /\ spent'[k] \in {spent[k], spent[k] + 1}
    BY <2>0, <2>2 DEF PickupTypeOK
  <2>4. PickupTypeOK'
    BY <2>0, <2>1, <2>3 DEF PickupTypeOK
  <2>5. LockIsHeld'
    BY <2>0, <2>1 DEF LockIsHeld, Inside
  <2>6. k \in shown
    BY <2>0, <2>2 DEF CodesWereShown, Redeems
  <2>7. CodesWereShown'
    <3>1. \A j \in Codes : spent'[j] > 0 => j \in shown
      BY <2>3, <2>6 DEF CodesWereShown
    <3> QED
      BY <2>0, <2>1, <3>1 DEF CodesWereShown, Inside, Redeems
  <2>8. SpentCodesAreGone'
    <3>1. code # k
      BY <2>0, <2>2 DEF SpentCodesAreGone
    <3>2. \A j \in Codes : spent'[j] > 0 => code # j
      BY <2>3, <3>1 DEF SpentCodesAreGone
    <3>3. \A d \in Confirmers : confirm'[d].pc = "consumed" => code # confirm'[d].typed
      BY <2>1 DEF SpentCodesAreGone
    <3>4. ASSUME ~lapsed
          PROVE  /\ \A j \in Codes : spent'[j] <= 1
                 /\ \A d \in Confirmers : ~Redeems(d)'
      <4>1. spent[k] = 0
        BY <2>0, <2>2, <3>4 DEF SpentCodesAreGone, Redeems
      <4>2. \A j \in Codes : spent'[j] <= 1
        BY <2>3, <3>4, <4>1 DEF SpentCodesAreGone
      <4>3. \A d \in Confirmers : Inside(d) => d = c
        BY <2>0, <3>4 DEF LockIsHeld, Inside
      <4> QED
        BY <2>1, <4>2, <4>3 DEF Redeems, Inside
    <3> QED
      BY <2>0, <3>2, <3>3, <3>4 DEF SpentCodesAreGone
  <2> QED
    BY <2>4, <2>5, <2>7, <2>8
<1>8. ASSUME NEW c \in Confirmers, Unlock(c) \/ ConfirmerDies(c) PROVE CodesInv'
  <2>0. /\ Inside(c) /\ confirm' = [confirm EXCEPT ![c].pc = "ended"]
        /\ UNCHANGED <<pickup, code, codeVars, spent, lapsed>>
        /\ lockHolder' \in {lockHolder, NoCode}
    BY <1>8 DEF Unlock, ConfirmerDies, Inside
  <2>1. /\ confirm' \in [Confirmers ->
                 [pc : {"idle", "locked", "matched", "consumed", "finally", "ended"},
                  typed : Codes \cup {NoCode}]]
        /\ confirm'[c].pc = "ended" /\ confirm'[c].typed = confirm[c].typed
        /\ \A d \in Confirmers : d # c => confirm'[d] = confirm[d]
    BY <2>0, ConfirmStep
  <2>2. PickupTypeOK'
    BY <2>0, <2>1 DEF PickupTypeOK
  <2>3. LockIsHeld'
    <3>1. ~lapsed => \A d \in Confirmers : Inside(d) => d = c
      BY <2>0 DEF LockIsHeld
    <3> QED
      BY <2>0, <2>1, <3>1 DEF LockIsHeld, Inside
  <2>4. CodesWereShown'
    BY <2>0, <2>1 DEF CodesWereShown, Inside, Redeems
  <2>5. SpentCodesAreGone'
    BY <2>0, <2>1 DEF SpentCodesAreGone, Redeems
  <2> QED
    BY <2>2, <2>3, <2>4, <2>5
<1>9. CASE UNCHANGED pickupVars
  BY <1>9 DEF pickupVars, PickupTypeOK, LockIsHeld, CodesWereShown, SpentCodesAreGone,
              Inside, Redeems
<1> QED
  BY <1>0, <1>1, <1>2, <1>3, <1>4, <1>5, <1>6, <1>7, <1>8, <1>9 DEF PickupNext

\* The order is handed over by one code: a code stored after its confirmation was asked for
\* before that one ended.
LEMMA HandedOverStep ==
    ASSUME PickupInv, [PickupNext]_pickupVars
    PROVE  HandedOver'
<1> USE PickupConstants
<1>1. CodesInv /\ HandedOver /\ PickupTypeOK /\ LockIsHeld /\ CodesWereShown
  BY DEF PickupInv, CodesInv
<1>2. ASSUME UNCHANGED <<pickup, spent, codeVars>>, code' \in {code, NoCode}, lapsed => lapsed',
             \A c \in Confirmers :
                /\ confirm'[c].pc = "consumed" => confirm[c].pc = "consumed" /\ confirm'[c].typed = confirm[c].typed
                /\ confirm'[c].pc = "matched" =>
                      \/ confirm[c].pc = "matched" /\ confirm'[c].typed = confirm[c].typed
                      \/ code # NoCode /\ confirm'[c].typed = code
      PROVE  HandedOver'
  <2>1. Spent' = Spent /\ (Redeemed' => Redeemed)
    BY <1>2 DEF Spent, Redeemed, Completes
  <2>2. drawn' = drawn /\ shown' = shown /\ crossed' = crossed
    BY <1>2 DEF codeVars
  <2> QED
    BY <1>1, <1>2, <2>1, <2>2 DEF HandedOver, Completes
<1>3. ASSUME NEW k \in Codes, GenerateRead(k) PROVE HandedOver'
  <2>1. Spent' = Spent /\ Spent = {} /\ UNCHANGED <<pickup, code, confirm, shown, lapsed>>
    BY <1>1, <1>3 DEF GenerateRead, Spent, HandedOver
  <2>2. drawn' = drawn \cup {k} /\ crossed \subseteq crossed'
    BY <1>3 DEF GenerateRead
  <2>3. Redeemed' => Redeemed /\ k \in crossed'
    BY <1>3, <2>1 DEF Redeemed, Completes, GenerateRead
  <2> QED
    BY <1>1, <2>1, <2>2, <2>3 DEF HandedOver
<1>4. ASSUME NEW k \in Codes, GenerateWrite(k) PROVE HandedOver'
  <2>1. Spent' = Spent /\ UNCHANGED <<pickup, confirm, drawn, crossed, lapsed>> /\ (Redeemed' => Redeemed)
    BY <1>4 DEF GenerateWrite, Spent, Redeemed, Completes
  <2>2. k \in drawn \ shown /\ code' = k /\ shown' = shown \cup {k}
    BY <1>4 DEF GenerateWrite
  <2> QED
    BY <1>1, <2>1, <2>2 DEF HandedOver, Completes
<1>5. ASSUME CodeExpires \/ LockExpires PROVE HandedOver'
  BY <1>2, <1>5 DEF CodeExpires, LockExpires
<1>6. ASSUME NEW c \in Confirmers, NEW k \in Codes, Lock(c, k) PROVE HandedOver'
  <2>1. confirm' = [confirm EXCEPT ![c] = [pc |-> "locked", typed |-> k]]
    BY <1>6 DEF Lock
  <2>2. \A d \in Confirmers : IF d = c THEN confirm'[d].pc = "locked" ELSE confirm'[d] = confirm[d]
    BY <1>1, <2>1 DEF PickupTypeOK
  <2> QED
    BY <1>2, <1>6, <2>2 DEF Lock
<1>7. ASSUME NEW c \in Confirmers, Compare(c) PROVE HandedOver'
  <2> DEFINE pc == IF code = confirm[c].typed THEN "matched" ELSE "finally"
  <2>1. confirm[c].typed \in Codes
    BY <1>1, <1>7 DEF CodesWereShown, Inside, Compare
  <2>2. /\ confirm'[c].pc = pc /\ confirm'[c].typed = confirm[c].typed
        /\ \A d \in Confirmers : d # c => confirm'[d] = confirm[d]
    BY <1>1, <1>7, ConfirmStep DEF Compare
  <2> QED
    BY <1>2, <1>7, <2>1, <2>2 DEF Compare
<1>8. ASSUME NEW c \in Confirmers, Consume(c) PROVE HandedOver'
  <2>1. /\ confirm[c].pc = "matched" /\ confirm'[c].pc = "consumed" /\ confirm'[c].typed = confirm[c].typed
        /\ \A d \in Confirmers : d # c => confirm'[d] = confirm[d]
    BY <1>1, <1>8, ConfirmStep DEF Consume
  <2>2. /\ Spent' = Spent /\ UNCHANGED <<pickup, drawn, shown, lapsed>> /\ code' = NoCode
        /\ crossed' = crossed \cup (drawn \ shown)
    BY <1>8 DEF Consume, Spent
  <2>3. ~lapsed => \A d \in Confirmers : Inside(d) => d = c
    BY <1>1, <2>1 DEF LockIsHeld, Inside
  <2>4. ~lapsed => \A d \in Confirmers : confirm'[d].pc # "matched" /\ (Completes(d)' => d = c)
    BY <2>1, <2>3 DEF Inside, Completes
  <2>5. ~lapsed /\ Spent # {} => confirm[c].typed \in crossed
    BY <1>1, <2>1 DEF HandedOver, Redeemed
  <2> QED
    BY <1>1, <2>1, <2>2, <2>4, <2>5 DEF HandedOver
<1>9. ASSUME NEW c \in Confirmers, CompletePickup(c) PROVE HandedOver'
  <2>1. PICK k \in Codes : k = confirm[c].typed
    BY <1>1, <1>9 DEF CodesWereShown, Inside, CompletePickup
  <2>2. confirm[c].pc = "consumed" /\ UNCHANGED <<code, lockHolder, codeVars, lapsed>>
    BY <1>9 DEF CompletePickup
  <2>3. \A d \in Confirmers : IF d = c THEN confirm'[d].pc = "finally" ELSE confirm'[d] = confirm[d]
    BY <1>1, <1>9, ConfirmStep DEF CompletePickup
  <2>4. CASE UNCHANGED <<pickup, spent>>
    BY <1>2, <2>2, <2>3, <2>4
  <2>5. CASE pickup' = "COMPLETED" /\ spent' = [spent EXCEPT ![k] = @ + 1]
    <3>1. Spent' = Spent \cup {k}
      BY <1>1, <2>5 DEF PickupTypeOK, Spent
    <3>2. drawn' = drawn /\ shown' = shown /\ crossed' = crossed /\ code' = code /\ lapsed' = lapsed
      BY <2>2 DEF codeVars
    <3>3. Redeemed
      BY <2>2 DEF Redeemed, Completes
    <3>4. Spent = {} \/ lapsed = TRUE \/ k \in crossed
      <4>1. lapsed \in BOOLEAN
        BY <1>1 DEF PickupTypeOK
      <4> QED
        BY <1>1, <2>1, <2>2, <4>1 DEF HandedOver, Completes
    <3>5. ~lapsed => \A d \in Confirmers : ~Completes(d)' /\ confirm'[d].pc # "matched"
      BY <1>1, <2>2, <2>3 DEF LockIsHeld, Inside, Completes
    <3> QED
      BY <1>1, <2>5, <3>1, <3>2, <3>3, <3>4, <3>5 DEF HandedOver
  <2> QED
    BY <1>9, <2>1, <2>4, <2>5 DEF CompletePickup
<1>10. ASSUME NEW c \in Confirmers, Unlock(c) \/ ConfirmerDies(c) PROVE HandedOver'
  <2>1. confirm' = [confirm EXCEPT ![c].pc = "ended"]
    BY <1>10 DEF Unlock, ConfirmerDies
  <2>2. \A d \in Confirmers : IF d = c THEN confirm'[d].pc = "ended" ELSE confirm'[d] = confirm[d]
    BY <1>1, <2>1, ConfirmStep
  <2> QED
    BY <1>2, <1>10, <2>2 DEF Unlock, ConfirmerDies
<1>11. CASE UNCHANGED pickupVars
  BY <1>2, <1>11 DEF pickupVars
<1> QED
  BY <1>3, <1>4, <1>5, <1>6, <1>7, <1>8, <1>9, <1>10, <1>11 DEF PickupNext

LEMMA PickupInvStep == PickupInv /\ [PickupNext]_pickupVars => PickupInv'
BY CodesInvStep, HandedOverStep DEF PickupInv

\* No code was shown and nobody confirms at first.
LEMMA PickupInvInit == PickupInit => PickupInv
<1>1. ASSUME PickupInit PROVE PickupInv
  <2>1. /\ confirm \in [Confirmers -> [pc : {"idle"}, typed : {NoCode}]]
        /\ spent \in [Codes -> {0}]
        /\ \A c \in Confirmers : confirm[c].pc = "idle"
    BY <1>1 DEF PickupInit
  <2>2. PickupTypeOK
    BY <1>1, <2>1 DEF PickupInit, PickupTypeOK
  <2>3. LockIsHeld /\ CodesWereShown /\ SpentCodesAreGone
    BY <1>1, <2>1 DEF PickupInit, LockIsHeld, CodesWereShown, SpentCodesAreGone, Inside, Redeems
  <2>4. HandedOver
    BY <1>1, <2>1 DEF PickupInit, HandedOver, Redeemed, Spent, Completes
  <2> QED
    BY <2>2, <2>3, <2>4 DEF PickupInv, CodesInv
<1> QED
  BY <1>1

\* The lock and the codes that are gone make a second completion impossible.
LEMMA PickupInvSafe == PickupInv => PickupIsSafe
<1> SUFFICES ASSUME PickupInv PROVE PickupIsSafe
  OBVIOUS
<1>1. CodesInv /\ HandedOver
  BY DEF PickupInv
<1>2. PickupTypeOK /\ OneConfirmationInside /\ CodeSpentOnce
  BY <1>1, PickupConstants DEF CodesInv, OneConfirmationInside, CodeSpentOnce, LockIsHeld, SpentCodesAreGone
<1>3. RedeemedCodesAreDead
  <2>1. code # NoCode => code \in Codes /\ spent[code] \in Nat
    BY <1>2 DEF PickupTypeOK
  <2> QED
    BY <1>1, <2>1 DEF CodesInv, SpentCodesAreGone, RedeemedCodesAreDead
<1>4. OneHandover
  BY <1>1 DEF HandedOver, OneHandover, Spent
<1> QED
  BY <1>2, <1>3, <1>4 DEF PickupIsSafe

\* Of any number of confirmations of one order, retried, dying or typing a wrong code, one
\* is inside at a time and each code completes the order at most once, as long as no lock
\* runs out under a request that is still working; no other code completes it then, unless
\* the seller asked for one before the confirmation ended. A code that completed the order
\* is gone in any case (confirmCashPickup, generateCashPickupCode).
THEOREM PickupSafe == PickupSpec => []PickupIsSafe
<1> QED
  BY PickupInvInit, PickupInvStep, PickupInvSafe, PTL DEF PickupSpec

-----------------------------------------------------------------------------
(* Refunds at the gateway                                                  *)

Requests == Askers \cup Claimers
Stages == {"idle", "read", "sending", "answered", "failed"}
References == {"none", "payment request", "session", "checkout session", "payment",
               "payment intent"}
Numbers == 1..MaxCalls

\* RefundTypeOK for every variable.
RefundShape ==
    /\ took \in RefundGateways
    /\ stored \in References
    /\ payState \in {"PENDING", "COMPLETED", "REFUND_PENDING", "REFUNDED"}
    /\ noted \in 0..MaxCalls /\ keyed \in 0..MaxCalls
    /\ asking \in [Requests -> [pc : Stages, target : References, refund : 0..MaxCalls]]
    /\ made \in [Numbers -> {"none", "pending", "succeeded", "failed"}]
    /\ losses \in [answers : Nat, deaths : Nat, bounces : Nat]
    /\ excess \in BOOLEAN /\ refundRaced \in BOOLEAN

\* Whoever asks for a refund does so of a recorded payment, by a reference of the
\* gateway that took it.
ReferencesFit ==
    /\ stored \in ReferencesOf(took) \cup {"none"}
    /\ payState # "PENDING" => stored # "none"
    /\ \A r \in Requests : asking[r].pc # "idle" =>
          /\ payState # "PENDING"
          /\ asking[r].target \in ReferencesOf(took)

\* Stripe's key stands for the only refund that it may have made.
KeyNamesTheRefund ==
    /\ keyed # 0 => made[keyed] # "none"
    /\ took = "STRIPE" => ~excess /\ \A n \in Numbers : made[n] # "none" => n = keyed

\* An answer, and what is recorded of it, names a refund that was made; one that
\* was made and has not failed is on its way to the buyer.
AnswersAreMade ==
    /\ \A r \in Requests : asking[r].pc = "answered" =>
          asking[r].refund \in Numbers /\ made[asking[r].refund] # "none"
    /\ payState = "REFUNDED" => noted \in Numbers /\ made[noted] # "none"
    /\ losses.bounces = 0 => \A n \in Numbers : made[n] # "failed"

\* No answer was lost, no process died and no two requests overlapped.
Calm == losses.answers = 0 /\ losses.deaths = 0 /\ ~refundRaced

\* Then the one request under way, and the payment when there is none, know
\* whether the money is back.
CalmRefund ==
    Calm =>
       /\ \A r, s \in Requests : asking[r].pc # "idle" /\ asking[s].pc # "idle" => r = s
       /\ payState \in {"PENDING", "COMPLETED"} => Returned = {}
       /\ \A r \in Requests : asking[r].pc \in {"read", "sending", "failed"} => Returned = {}
       /\ \A r \in Requests :
             asking[r].pc \in {"sending", "answered", "failed"} => payState = "REFUND_PENDING"

\* What a payment's status says of its money depends on what the requests still
\* under way know of it, and on what the gateway remembers.
RefundInv == RefundShape /\ ReferencesFit /\ KeyNamesTheRefund /\ AnswersAreMade /\ CalmRefund

\* A gateway that has room numbers its next refund with the least free number.
LEMMA LeastExists ==
    ASSUME NEW n \in Nat, NEW S \in SUBSET (1..n), S # {}
    PROVE  \E r \in S : \A q \in S : r <= q
<1> DEFINE R == StrictSubsetOrdering(1..n)
           T == {1..(r - 1) : r \in S}
<1>1. T \subseteq SUBSET (1..n) /\ T # {}
  <2>1. \A r \in S : r \in 1..n /\ 1..(r - 1) \in SUBSET (1..n)
    OBVIOUS
  <2>2. \E r \in S : TRUE
    OBVIOUS
  <2> QED
    BY <2>1, <2>2
<1>2. IsWellFoundedOn(R, SUBSET (1..n))
  <2>1. IsFiniteSet(1..n)
    BY FS_Interval
  <2> QED
    BY <2>1, FS_StrictSubsetOrderingWellFounded, FS_FiniteSubsetsOfFinite
<1> HIDE DEF R
<1>3. \E x \in T : \A y \in T : ~ (<<y, x>> \in R)
  <2> HIDE DEF T
  <2> QED
    BY <1>1, <1>2, WFMin
<1>4. PICK r \in S : \A y \in T : <<y, 1..(r - 1)>> \notin R
  BY <1>3
<1>5. ASSUME NEW q \in S, q < r PROVE FALSE
  <2>1. /\ 1..(q - 1) \in T
        /\ 1..(q - 1) \subseteq 1..(r - 1)
        /\ q \in 1..(r - 1) /\ q \notin 1..(q - 1)
    BY <1>5
  <2>2. <<1..(q - 1), 1..(r - 1)>> \in R
    BY <2>1 DEF R, StrictSubsetOrdering
  <2> QED
    BY <1>4, <2>1, <2>2
<1> QED
  BY <1>5

\* A request moves to another stage and keeps what it has read.
LEMMA AskStep ==
    ASSUME RefundShape, NEW r \in Requests, NEW pc \in Stages, Asks(r, pc)
    PROVE  /\ asking' \in [Requests -> [pc : Stages, target : References, refund : 0..MaxCalls]]
           /\ asking'[r].pc = pc /\ asking'[r].target = asking[r].target
           /\ \A s \in Requests : s # r => asking'[s] = asking[s]
BY DEF RefundShape, Asks

\* A request that ends is as if it had never asked.
LEMMA EndStep ==
    ASSUME RefundShape, NEW r \in Requests, EndAsking(r)
    PROVE  /\ asking' \in [Requests -> [pc : Stages, target : References, refund : 0..MaxCalls]]
           /\ asking'[r].pc = "idle"
           /\ \A s \in Requests : s # r => asking'[s] = asking[s]
<1>1. /\ [pc |-> "idle", target |-> "none", refund |-> 0]
            \in [pc : Stages, target : References, refund : 0..MaxCalls]
      /\ 0 \in 0..MaxCalls
  BY RefundConstants DEF Stages, References
<1> QED
  BY <1>1 DEF RefundShape, EndAsking

\* What an adapter's references are called.
LEMMA ReferencesKnown == \A g : ReferencesOf(g) \subseteq References \ {"none"}
BY DEF ReferencesOf, References, XenditReferences, PayMongoReferences, StripeReferences

\* The answer to a call names the refund, or is lost.
LEMMA RespondStep ==
    ASSUME RefundShape, NEW r \in Requests, NEW n \in Numbers, Respond(r, n)
    PROVE  /\ asking' \in [Requests -> [pc : Stages, target : References, refund : 0..MaxCalls]]
           /\ asking'[r].target = asking[r].target
           /\ \A s \in Requests : s # r => asking'[s] = asking[s]
           /\ \/ asking'[r].pc = "answered" /\ asking'[r].refund = n /\ losses' = losses
              \/ asking'[r].pc = "failed" /\ losses'.answers # 0
           /\ losses' \in [answers : Nat, deaths : Nat, bounces : Nat]
           /\ losses'.bounces = losses.bounces /\ losses'.deaths = losses.deaths
           /\ losses.answers # 0 => losses'.answers # 0
<1>1. CASE asking' = [asking EXCEPT ![r].pc = "answered", ![r].refund = n] /\ UNCHANGED losses
  <2>1. n \in 0..MaxCalls /\ "answered" \in Stages
    BY RefundConstants DEF Numbers, Stages
  <2> QED
    BY <1>1, <2>1 DEF RefundShape
<1>2. CASE Asks(r, "failed") /\ losses' = [losses EXCEPT !.answers = @ + 1]
  <2>1. "failed" \in Stages
    BY DEF Stages
  <2>2. /\ losses' \in [answers : Nat, deaths : Nat, bounces : Nat]
        /\ losses'.answers = losses.answers + 1
        /\ losses'.bounces = losses.bounces /\ losses'.deaths = losses.deaths
    BY <1>2 DEF RefundShape
  <2>3. losses.answers \in Nat /\ losses'.answers # 0
    BY <2>2 DEF RefundShape
  <2> QED
    BY <1>2, <2>1, <2>2, <2>3, AskStep
<1> QED
  BY <1>1, <1>2 DEF Respond

\* Every reading, call, answer, loss and death keeps the invariant.
LEMMA RefundInvStep == RefundInv /\ [RefundNext]_refundVars => RefundInv'
<1> SUFFICES ASSUME RefundInv, [RefundNext]_refundVars PROVE RefundInv'
  OBVIOUS
<1> USE RefundConstants DEF RefundInv
<1>0. /\ \A pc \in {"idle", "read", "sending", "answered", "failed"} : pc \in Stages
      /\ Stages = {"idle", "read", "sending", "answered", "failed"}
      /\ Requests = Askers \cup Claimers /\ Numbers = 1..MaxCalls
  BY DEF Stages, Requests, Numbers
<1>1. ASSUME NEW ref \in ReferencesOf(took), MoneyRecorded(ref) PROVE RefundInv'
  <2>0. /\ payState = "PENDING" /\ payState' = "COMPLETED" /\ stored' = ref
        /\ UNCHANGED <<took, noted, asking, made, keyed, losses, excess, refundRaced>>
    BY <1>1 DEF MoneyRecorded
  <2>1. ref \in References /\ ref # "none"
    BY ReferencesKnown
  <2>2. RefundShape'
    BY <2>0, <2>1 DEF RefundShape
  <2>3. \A r \in Requests : asking[r].pc = "idle"
    BY <2>0 DEF ReferencesFit
  <2>4. ReferencesFit'
    BY <2>0, <2>1, <2>3 DEF ReferencesFit
  <2>5. KeyNamesTheRefund' /\ AnswersAreMade'
    BY <2>0 DEF KeyNamesTheRefund, AnswersAreMade
  <2>6. CalmRefund'
    BY <2>0, <2>3 DEF CalmRefund, Calm, Returned
  <2> QED
    BY <2>2, <2>4, <2>5, <2>6
<1>2. ASSUME NEW n \in Numbers, GatewaySettles(n) PROVE RefundInv'
  <2>0. /\ made[n] = "pending"
        /\ UNCHANGED <<took, stored, payState, noted, asking, keyed, excess, refundRaced>>
    BY <1>2 DEF GatewaySettles
  <2>1. /\ made' \in [Numbers -> {"none", "pending", "succeeded", "failed"}]
        /\ made'[n] \in {"succeeded", "failed"}
        /\ made'[n] = "failed" => losses'.bounces # 0
        /\ losses.bounces # 0 => losses'.bounces # 0
        /\ losses' \in [answers : Nat, deaths : Nat, bounces : Nat]
        /\ losses'.answers = losses.answers /\ losses'.deaths = losses.deaths
        /\ \A m \in Numbers : m # n => made'[m] = made[m]
    BY <1>2 DEF GatewaySettles, RefundShape
  <2>2. RefundShape'
    BY <2>0, <2>1 DEF RefundShape
  <2>3. ReferencesFit'
    BY <2>0 DEF ReferencesFit
  <2>4. KeyNamesTheRefund'
    <3>1. keyed # 0 => keyed \in Numbers
      BY <1>0 DEF RefundShape
    <3>2. keyed # 0 => made'[keyed] # "none"
      BY <2>1, <3>1 DEF KeyNamesTheRefund
    <3>3. took = "STRIPE" => \A m \in Numbers : made'[m] # "none" => m = keyed
      BY <2>0, <2>1 DEF KeyNamesTheRefund
    <3> QED
      BY <2>0, <3>2, <3>3 DEF KeyNamesTheRefund
  <2>5. AnswersAreMade'
    <3>1. \A m \in Numbers : made[m] # "none" => made'[m] # "none"
      BY <2>1
    <3>2. losses'.bounces = 0 => \A m \in Numbers : made'[m] # "failed"
      BY <2>1 DEF AnswersAreMade
    <3> QED
      BY <2>0, <3>1, <3>2 DEF AnswersAreMade
  <2>6. CalmRefund'
    <3>1. Calm' = Calm
      BY <2>0, <2>1 DEF Calm
    <3>2. n \in Returned
      BY <2>0, <1>0 DEF Returned
    <3> QED
      BY <2>0, <3>1, <3>2 DEF CalmRefund
  <2> QED
    BY <2>2, <2>3, <2>4, <2>5, <2>6
<1>3. ASSUME NEW r \in Requests, RefundRead(r) PROVE RefundInv'
  <2>0. /\ asking[r].pc = "idle" /\ payState = "COMPLETED"
        /\ payState' \in {"COMPLETED", "REFUND_PENDING"}
        /\ refundRaced' = (refundRaced \/ UnderWay # {})
        /\ UNCHANGED <<took, stored, noted, made, keyed, losses, excess>>
    BY <1>3 DEF RefundRead
  <2>1. stored \in ReferencesOf(took) /\ stored \in References
    BY <2>0 DEF ReferencesFit, RefundShape
  <2>2. /\ asking' \in [Requests -> [pc : Stages, target : References, refund : 0..MaxCalls]]
        /\ asking'[r].target = stored
        /\ \/ asking'[r].pc = "sending" /\ payState' = "REFUND_PENDING"
           \/ asking'[r].pc = "read"
        /\ \A s \in Requests : s # r => asking'[s] = asking[s]
    BY <1>3, <1>0, <2>1 DEF RefundRead, RefundShape
  <2>3. RefundShape'
    BY <2>0, <2>2 DEF RefundShape
  <2>4. ReferencesFit'
    BY <2>0, <2>1, <2>2 DEF ReferencesFit
  <2>5. KeyNamesTheRefund' /\ AnswersAreMade'
    <3>1. \A s \in Requests : asking'[s].pc = "answered" => asking'[s] = asking[s]
      BY <2>2
    <3>2. payState' # "REFUNDED"
      BY <2>0
    <3> QED
      BY <2>0, <3>1, <3>2 DEF KeyNamesTheRefund, AnswersAreMade
  <2>6. CalmRefund'
    <3>1. Calm' => Calm /\ \A s \in Requests : asking[s].pc = "idle"
      BY <2>0, <1>0 DEF Calm, UnderWay, RefundShape
    <3>2. Calm => Returned = {}
      BY <2>0 DEF CalmRefund
    <3>3. Returned' = Returned
      BY <2>0 DEF Returned
    <3>4. Calm' => \A s \in Requests : asking'[s].pc # "idle" => s = r
      BY <2>2, <3>1
    <3> QED
      BY <2>0, <2>2, <3>1, <3>2, <3>3, <3>4 DEF CalmRefund
  <2> QED
    BY <2>3, <2>4, <2>5, <2>6
<1>4. ASSUME NEW r \in Requests, RefundMark(r) PROVE RefundInv'
  <2>0. /\ asking[r].pc = "read" /\ payState' = "REFUND_PENDING" /\ Asks(r, "sending")
        /\ UNCHANGED <<took, stored, noted, made, keyed, losses, excess, refundRaced>>
    BY <1>4 DEF RefundMark
  <2>1. /\ asking' \in [Requests -> [pc : Stages, target : References, refund : 0..MaxCalls]]
        /\ asking'[r].pc = "sending" /\ asking'[r].target = asking[r].target
        /\ \A s \in Requests : s # r => asking'[s] = asking[s]
    BY <1>0, <2>0, AskStep
  <2>2. RefundShape'
    BY <2>0, <2>1 DEF RefundShape
  <2>3. ReferencesFit'
    BY <2>0, <2>1 DEF ReferencesFit
  <2>4. KeyNamesTheRefund' /\ AnswersAreMade'
    <3>1. \A s \in Requests : asking'[s].pc = "answered" => asking'[s] = asking[s]
      BY <2>1
    <3> QED
      BY <2>0, <3>1 DEF KeyNamesTheRefund, AnswersAreMade
  <2>5. CalmRefund'
    <3>1. /\ Calm' = Calm /\ Returned' = Returned
      BY <2>0 DEF Calm, Returned
    <3>2. Calm => Returned = {} /\ \A s \in Requests : asking[s].pc # "idle" => s = r
      BY <2>0 DEF CalmRefund
    <3>3. Calm => \A s \in Requests : asking'[s].pc # "idle" => s = r
      BY <2>1, <3>2
    <3> QED
      BY <2>0, <3>1, <3>2, <3>3 DEF CalmRefund
  <2> QED
    BY <2>2, <2>3, <2>4, <2>5
<1>5. ASSUME NEW r \in Requests, LookUpSession(r) PROVE RefundInv'
  <2>0. /\ asking[r].pc = "sending" /\ took = "XENDIT"
        /\ UNCHANGED <<took, stored, payState, noted, made, keyed, losses, excess, refundRaced>>
    BY <1>5 DEF LookUpSession, NeedsLookUp
  <2>1. "payment request" \in ReferencesOf(took) /\ "payment request" \in References
    BY <2>0 DEF ReferencesOf, XenditReferences, References
  <2>2. /\ asking' \in [Requests -> [pc : Stages, target : References, refund : 0..MaxCalls]]
        /\ asking'[r].pc \in {"sending", "failed"}
        /\ asking'[r].target \in {asking[r].target, "payment request"}
        /\ \A s \in Requests : s # r => asking'[s] = asking[s]
    <3>1. CASE Asks(r, "failed")
      BY <1>0, <3>1, AskStep
    <3>2. CASE asking' = [asking EXCEPT ![r].target = "payment request"]
      BY <2>0, <2>1, <3>2 DEF RefundShape
    <3> QED
      BY <1>5, <3>1, <3>2 DEF LookUpSession
  <2>3. RefundShape'
    BY <2>0, <2>2 DEF RefundShape
  <2>4. ReferencesFit'
    BY <2>0, <2>1, <2>2 DEF ReferencesFit
  <2>5. KeyNamesTheRefund' /\ AnswersAreMade'
    <3>1. \A s \in Requests : asking'[s].pc = "answered" => asking'[s] = asking[s]
      BY <2>2
    <3> QED
      BY <2>0, <3>1 DEF KeyNamesTheRefund, AnswersAreMade
  <2>6. CalmRefund'
    <3>1. /\ Calm' = Calm /\ Returned' = Returned
      BY <2>0 DEF Calm, Returned
    <3>2. Calm => /\ Returned = {} /\ payState = "REFUND_PENDING"
                  /\ \A s \in Requests : asking[s].pc # "idle" => s = r
      BY <2>0 DEF CalmRefund
    <3>3. Calm => \A s \in Requests : asking'[s].pc # "idle" => s = r
      BY <2>2, <3>2
    <3> QED
      BY <2>0, <3>1, <3>2, <3>3 DEF CalmRefund
  <2> QED
    BY <2>3, <2>4, <2>5, <2>6
<1>6. ASSUME NEW r \in Requests, GatewayMakes(r) PROVE RefundInv'
  <2>0. /\ asking[r].pc = "sending" /\ keyed = 0 /\ Returned = {} /\ Unused # {}
        /\ UNCHANGED <<took, stored, payState, noted, excess, refundRaced>>
    BY <1>6 DEF GatewayMakes, Calls
  <2>1. PICK n \in Unused : n = CHOOSE k \in Unused : \A j \in Unused : k <= j
    <3>1. \E k \in Unused : \A j \in Unused : k <= j
      <4>1. Unused \in SUBSET (1..MaxCalls)
        BY DEF Unused
      <4> QED
        BY <2>0, <4>1, LeastExists
    <3> QED
      BY <3>1
  <2>2. /\ n \in Numbers /\ made[n] = "none" /\ keyed' = KeptKey(took, n) /\ Respond(r, n)
        /\ \E state \in {"pending", "succeeded"} : made' = [made EXCEPT ![n] = state]
    BY <1>6, <1>0, <2>1 DEF GatewayMakes, Unused
  <2>3. /\ made' \in [Numbers -> {"none", "pending", "succeeded", "failed"}]
        /\ made'[n] \in {"pending", "succeeded"}
        /\ \A m \in Numbers : m # n => made'[m] = made[m]
    BY <2>2 DEF RefundShape
  <2>4. /\ asking' \in [Requests -> [pc : Stages, target : References, refund : 0..MaxCalls]]
        /\ asking'[r].target = asking[r].target
        /\ \A s \in Requests : s # r => asking'[s] = asking[s]
        /\ \/ asking'[r].pc = "answered" /\ asking'[r].refund = n /\ losses' = losses
           \/ asking'[r].pc = "failed" /\ losses'.answers # 0
        /\ losses' \in [answers : Nat, deaths : Nat, bounces : Nat]
        /\ losses'.bounces = losses.bounces /\ losses'.deaths = losses.deaths
        /\ losses.answers # 0 => losses'.answers # 0
    BY <2>2, RespondStep
  <2>5. keyed' = (IF took = "STRIPE" THEN n ELSE 0) /\ keyed' \in 0..MaxCalls
    BY <2>0, <2>2, <1>0 DEF KeptKey
  <2>6. RefundShape'
    BY <2>0, <2>3, <2>4, <2>5 DEF RefundShape
  <2>7. ReferencesFit'
    BY <2>0, <2>4 DEF ReferencesFit
  <2>8. KeyNamesTheRefund'
    <3>1. 0 \notin Numbers
      BY <1>0
    <3>2. took = "STRIPE" => \A m \in Numbers : made[m] = "none"
      BY <2>0, <3>1 DEF KeyNamesTheRefund
    <3>3. took = "STRIPE" => \A m \in Numbers : made'[m] # "none" => m = n
      BY <2>3, <3>2
    <3>4. took = "STRIPE" => ~excess'
      BY <2>0 DEF KeyNamesTheRefund
    <3> QED
      BY <2>0, <2>3, <2>5, <3>3, <3>4 DEF KeyNamesTheRefund
  <2>9. AnswersAreMade'
    <3>1. \A m \in Numbers : made[m] # "none" => made'[m] # "none"
      BY <2>3
    <3>2. losses'.bounces = 0 => \A m \in Numbers : made'[m] # "failed"
      BY <2>3, <2>4 DEF AnswersAreMade
    <3>3. \A s \in Requests : asking'[s].pc = "answered" =>
             asking'[s].refund \in Numbers /\ made'[asking'[s].refund] # "none"
      BY <2>2, <2>3, <2>4, <3>1 DEF AnswersAreMade
    <3> QED
      BY <2>0, <3>1, <3>2, <3>3 DEF AnswersAreMade
  <2>10. CalmRefund'
    <3>1. Calm' => Calm /\ asking'[r].pc = "answered"
      BY <2>0, <2>4 DEF Calm
    <3>2. Calm => /\ payState = "REFUND_PENDING"
                  /\ \A s \in Requests : asking[s].pc # "idle" => s = r
      BY <2>0 DEF CalmRefund
    <3>3. Calm => \A s \in Requests : asking'[s].pc # "idle" => s = r
      BY <2>4, <3>2
    <3> QED
      BY <2>0, <3>1, <3>2, <3>3 DEF CalmRefund
  <2> QED
    BY <2>6, <2>7, <2>8, <2>9, <2>10
<1>7. ASSUME NEW r \in Requests, GatewayRepeats(r) PROVE RefundInv'
  <2>0. /\ asking[r].pc = "sending" /\ keyed # 0 /\ Respond(r, keyed)
        /\ UNCHANGED <<took, stored, payState, noted, made, keyed, excess, refundRaced>>
    BY <1>7 DEF GatewayRepeats, Calls
  <2>1. keyed \in Numbers /\ made[keyed] # "none"
    BY <2>0, <1>0 DEF RefundShape, KeyNamesTheRefund
  <2>2. /\ asking' \in [Requests -> [pc : Stages, target : References, refund : 0..MaxCalls]]
        /\ asking'[r].target = asking[r].target
        /\ \A s \in Requests : s # r => asking'[s] = asking[s]
        /\ \/ asking'[r].pc = "answered" /\ asking'[r].refund = keyed /\ losses' = losses
           \/ asking'[r].pc = "failed" /\ losses'.answers # 0
        /\ losses' \in [answers : Nat, deaths : Nat, bounces : Nat]
        /\ losses'.bounces = losses.bounces /\ losses'.deaths = losses.deaths
        /\ losses.answers # 0 => losses'.answers # 0
    BY <2>0, <2>1, RespondStep
  <2>3. RefundShape'
    BY <2>0, <2>2 DEF RefundShape
  <2>4. ReferencesFit'
    BY <2>0, <2>2 DEF ReferencesFit
  <2>5. KeyNamesTheRefund'
    BY <2>0 DEF KeyNamesTheRefund
  <2>6. AnswersAreMade'
    <3>1. \A s \in Requests : asking'[s].pc = "answered" =>
             asking'[s].refund \in Numbers /\ made[asking'[s].refund] # "none"
      BY <2>1, <2>2 DEF AnswersAreMade
    <3> QED
      BY <2>0, <2>2, <3>1 DEF AnswersAreMade
  <2>7. CalmRefund'
    <3>1. Calm' => Calm /\ asking'[r].pc = "answered"
      BY <2>0, <2>2 DEF Calm
    <3>2. Calm => /\ payState = "REFUND_PENDING"
                  /\ \A s \in Requests : asking[s].pc # "idle" => s = r
      BY <2>0 DEF CalmRefund
    <3>3. Calm => \A s \in Requests : asking'[s].pc # "idle" => s = r
      BY <2>2, <3>2
    <3> QED
      BY <2>0, <3>1, <3>2, <3>3 DEF CalmRefund
  <2> QED
    BY <2>3, <2>4, <2>5, <2>6, <2>7
<1>8. ASSUME NEW r \in Requests, GatewayRefuses(r) PROVE RefundInv'
  <2>0. /\ asking[r].pc = "sending" /\ keyed = 0 /\ Asks(r, "failed")
        /\ excess' = (excess \/ (asking[r].target \in RefundableAt(took) /\ Returned # {}))
        /\ UNCHANGED <<took, stored, payState, noted, made, keyed, losses, refundRaced>>
    BY <1>8 DEF GatewayRefuses, Calls
  <2>1. /\ asking' \in [Requests -> [pc : Stages, target : References, refund : 0..MaxCalls]]
        /\ asking'[r].pc = "failed" /\ asking'[r].target = asking[r].target
        /\ \A s \in Requests : s # r => asking'[s] = asking[s]
    BY <1>0, <2>0, AskStep
  <2>2. RefundShape'
    BY <2>0, <2>1 DEF RefundShape
  <2>3. ReferencesFit'
    BY <2>0, <2>1 DEF ReferencesFit
  <2>4. KeyNamesTheRefund'
    <3>1. 0 \notin Numbers
      BY <1>0
    <3>2. took = "STRIPE" => Returned = {}
      BY <2>0, <3>1, <1>0 DEF KeyNamesTheRefund, Returned
    <3> QED
      BY <2>0, <3>2 DEF KeyNamesTheRefund
  <2>5. AnswersAreMade'
    <3>1. \A s \in Requests : asking'[s].pc = "answered" => asking'[s] = asking[s]
      BY <2>1
    <3> QED
      BY <2>0, <3>1 DEF AnswersAreMade
  <2>6. CalmRefund'
    <3>1. /\ Calm' = Calm /\ Returned' = Returned
      BY <2>0 DEF Calm, Returned
    <3>2. Calm => /\ Returned = {} /\ payState = "REFUND_PENDING"
                  /\ \A s \in Requests : asking[s].pc # "idle" => s = r
      BY <2>0 DEF CalmRefund
    <3>3. Calm => \A s \in Requests : asking'[s].pc # "idle" => s = r
      BY <2>1, <3>2
    <3> QED
      BY <2>0, <3>1, <3>2, <3>3 DEF CalmRefund
  <2> QED
    BY <2>2, <2>3, <2>4, <2>5, <2>6
<1>9. ASSUME NEW r \in Requests, EndAsking(r), asking[r].pc # "idle",
             RefundRestore(r) \/ RefundRecord(r) \/ RefundDies(r)
      PROVE  RefundInv'
  <2>0. UNCHANGED <<took, stored, made, keyed, excess, refundRaced>>
    BY <1>9 DEF RefundRestore, RefundRecord, RefundDies
  <2>1. /\ asking' \in [Requests -> [pc : Stages, target : References, refund : 0..MaxCalls]]
        /\ asking'[r].pc = "idle"
        /\ \A s \in Requests : s # r => asking'[s] = asking[s]
    BY <1>9, EndStep
  <2>2. \/ payState' = "COMPLETED" /\ noted' = noted /\ asking[r].pc = "failed" /\ losses' = losses
        \/ /\ payState' = "REFUNDED" /\ noted' = asking[r].refund
           /\ asking[r].pc = "answered" /\ losses' = losses
        \/ /\ UNCHANGED <<payState, noted>>
           /\ losses' = [losses EXCEPT !.deaths = @ + 1]
    BY <1>9 DEF RefundRestore, RefundRecord, RefundDies
  <2>3. /\ losses' \in [answers : Nat, deaths : Nat, bounces : Nat]
        /\ losses'.bounces = losses.bounces /\ losses'.answers = losses.answers
        /\ losses' # losses => losses'.deaths # 0
    <3>1. losses.deaths + 1 \in Nat /\ losses.deaths + 1 # 0
      BY DEF RefundShape
    <3> QED
      BY <2>2, <3>1 DEF RefundShape
  <2>4. noted' \in 0..MaxCalls
    BY <2>2 DEF RefundShape
  <2>5. RefundShape'
    BY <2>0, <2>1, <2>2, <2>3, <2>4 DEF RefundShape
  <2>6. ReferencesFit'
    BY <1>9, <2>0, <2>1, <2>2 DEF ReferencesFit
  <2>7. KeyNamesTheRefund'
    BY <2>0 DEF KeyNamesTheRefund
  <2>8. AnswersAreMade'
    <3>1. \A s \in Requests : asking'[s].pc = "answered" => asking'[s] = asking[s]
      BY <2>1
    <3>2. payState' = "REFUNDED" => noted' \in Numbers /\ made[noted'] # "none"
      BY <2>2 DEF AnswersAreMade
    <3> QED
      BY <2>0, <2>3, <3>1, <3>2 DEF AnswersAreMade
  <2>9. CalmRefund'
    <3>1. Calm' => Calm /\ losses' = losses
      <4>1. Calm' => losses' = losses
        BY <2>3 DEF Calm
      <4> QED
        BY <2>0, <4>1 DEF Calm
    <3>2. Returned' = Returned
      BY <2>0 DEF Returned
    <3>3. Calm' => \A s \in Requests : asking'[s].pc = "idle"
      <4>1. Calm => \A s \in Requests : asking[s].pc # "idle" => s = r
        BY <1>9 DEF CalmRefund
      <4> QED
        BY <2>1, <3>1, <4>1
    <3>4. Calm' => \/ payState' = "COMPLETED" /\ Returned = {}
                   \/ payState' = "REFUNDED"
      <4>1. losses' = losses => ~ (losses' = [losses EXCEPT !.deaths = @ + 1])
        BY DEF RefundShape
      <4>2. Calm /\ asking[r].pc = "failed" => Returned = {}
        BY DEF CalmRefund
      <4> QED
        BY <2>2, <3>1, <4>1, <4>2
    <3> QED
      BY <3>2, <3>3, <3>4 DEF CalmRefund
  <2> QED
    BY <2>5, <2>6, <2>7, <2>8, <2>9
<1>10. CASE UNCHANGED refundVars
  BY <1>10 DEF refundVars, RefundShape, ReferencesFit, KeyNamesTheRefund, AnswersAreMade,
               CalmRefund, Calm, Returned
<1>11. ASSUME NEW r \in Requests, RefundRestore(r) \/ RefundRecord(r) \/ RefundDies(r)
       PROVE  EndAsking(r) /\ asking[r].pc # "idle"
  BY <1>11 DEF RefundRestore, RefundRecord, RefundDies
<1> QED
  BY <1>0, <1>1, <1>2, <1>3, <1>4, <1>5, <1>6, <1>7, <1>8, <1>9, <1>10, <1>11 DEF RefundNext

\* Nothing is asked for at first, and the gateway has returned nothing.
LEMMA RefundInvInit == RefundInit => RefundInv
<1> USE RefundConstants
<1>1. ASSUME RefundInit PROVE RefundInv
  <2>1. \A r \in Requests : asking[r].pc = "idle"
    BY <1>1 DEF RefundInit, Requests
  <2>2. RefundShape
    <3>1. asking \in [Requests -> [pc : Stages, target : References, refund : 0..MaxCalls]]
      BY <1>1 DEF RefundInit, Requests, Stages, References
    <3>2. /\ made \in [Numbers -> {"none", "pending", "succeeded", "failed"}]
          /\ losses \in [answers : Nat, deaths : Nat, bounces : Nat]
          /\ 0 \in 0..MaxCalls
      BY <1>1 DEF RefundInit, Numbers
    <3> QED
      BY <1>1, <3>1, <3>2 DEF RefundInit, RefundShape, References
  <2>3. ReferencesFit /\ AnswersAreMade
    BY <1>1, <2>1 DEF RefundInit, ReferencesFit, AnswersAreMade, Numbers
  <2>4. KeyNamesTheRefund
    BY <1>1 DEF RefundInit, KeyNamesTheRefund, Numbers
  <2>5. CalmRefund
    BY <1>1, <2>1 DEF RefundInit, CalmRefund, Returned
  <2> QED
    BY <2>2, <2>3, <2>4, <2>5 DEF RefundInv
<1> QED
  BY <1>1

\* What the requests and the gateway know is enough for what the status says.
LEMMA RefundInvSafe == RefundInv => RefundsAreSafe
<1> USE RefundConstants
<1>2. ASSUME RefundInv PROVE RefundsAreSafe
  <2> USE <1>2 DEF RefundInv
  <2>1. RefundTypeOK
    BY DEF RefundTypeOK, RefundShape, ReferencesFit, Requests
  <2>2. RefundsNameAPayment
    BY DEF RefundsNameAPayment, ReferencesFit, RefundShape, Requests, Calls, NeedsLookUp,
           ReferencesOf, RefundableAt, XenditReferences, StripeReferences
  <2>3. RetriesFindTheFirst
    BY DEF RetriesFindTheFirst, KeyNamesTheRefund
  <2>4. RefundedMeansReturned
    BY DEF RefundedMeansReturned, AnswersAreMade, RefundShape, Returned, Numbers
  <2>5. CompletedMeansKept
    BY DEF CompletedMeansKept, CalmRefund, Calm
  <2> QED
    BY <2>1, <2>2, <2>3, <2>4, <2>5 DEF RefundsAreSafe
<1> QED
  BY <1>2

\* Of any number of refund requests that overlap, are retried, lose an answer or
\* die: a payment recorded as REFUNDED has its money back, a payment offered for
\* refund has not been returned unless one of these got in between, and Stripe
\* answers a retry with the first refund.
THEOREM RefundSafe == RefundSpec => []RefundsAreSafe
<1> QED
  BY RefundInvInit, RefundInvStep, RefundInvSafe, PTL DEF RefundSpec
=================================================================================
