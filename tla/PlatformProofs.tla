------------------------------- MODULE PlatformProofs -------------------------------
(***************************************************************************)
(* The composition of all that requests alone drive, and no job finishes.   *)
(* Each of its steps is one of a component or leaves it alone, so what      *)
(* AccessProofs and ShopProofs show of the components holds beside the      *)
(* others too.                                                              *)
(***************************************************************************)
EXTENDS MCPlatform, AccessProofs, ShopProofs

\* A step of the composition is one of each component or leaves it alone.
LEMMA PlatformSteps ==
    [PlatformNext]_platformVars =>
       /\ [AuthNext]_authVars /\ [PickupNext]_pickupVars /\ [RefundNext]_refundVars
       /\ [AccessNext]_accessVars /\ [OrgNext]_orgVars
       /\ [AppReleaseNext]_releaseVars /\ [RateNext]_rateVars
<1> SUFFICES ASSUME [PlatformNext]_platformVars
             PROVE  /\ [AuthNext]_authVars /\ [PickupNext]_pickupVars /\ [RefundNext]_refundVars
                    /\ [AccessNext]_accessVars /\ [OrgNext]_orgVars
                    /\ [AppReleaseNext]_releaseVars /\ [RateNext]_rateVars
  OBVIOUS
<1>1. ASSUME AuthStep(Registrants, SignIns, {i1}) \/ AuthStep({}, {q1}, Issuers) PROVE AuthNext
  <2>1. {i1} \subseteq Issuers /\ {q1} \subseteq SignIns
    BY PlatformConstants
  <2> QED
    BY <1>1, <2>1 DEF AuthStep, AuthNext
<1>2. ASSUME \/ OrgStep(OrgRequests, {Helper}, {s1})
             \/ OrgStep({c1}, {Helper}, OrgStores \ {s2})
             \/ OrgStep({c1}, Hires, {})
      PROVE  OrgNext
  <2>1. {Helper} \subseteq Hires /\ {c1} \subseteq OrgRequests /\ {s1} \subseteq OrgStores
    BY PlatformConstants
  <2> QED
    BY <1>2, <2>1 DEF OrgStep, OrgNext, OrgRequestStep
<1> QED
  BY <1>1, <1>2 DEF PlatformNext, platformVars, AccessNext

LEMMA PlatformShopSteps ==
    [PlatformNext]_platformVars =>
       /\ [CheckoutNext]_checkoutVars /\ [FeeNext]_feeVars /\ [PricingNext]_cardVars
       /\ [CartNext]_cartVars /\ [WishNext]_wishVars /\ [AddressNext]_addressVars
       /\ [ReviewNext]_reviewVars /\ [CatalogueNext]_catalogueVars
<1> SUFFICES ASSUME [PlatformNext]_platformVars
             PROVE  /\ [CheckoutNext]_checkoutVars /\ [FeeNext]_feeVars /\ [PricingNext]_cardVars
                    /\ [CartNext]_cartVars /\ [WishNext]_wishVars /\ [AddressNext]_addressVars
                    /\ [ReviewNext]_reviewVars /\ [CatalogueNext]_catalogueVars
  OBVIOUS
<1>1. ASSUME PricingStep(Cards, CardRequests, {}) \/ PricingStep({k1}, {c1}, Quoters) PROVE PricingNext
  <2>1. {k1} \subseteq Cards /\ {c1} \subseteq CardRequests
    BY PlatformConstants
  <2> QED
    BY <1>1, <2>1 DEF PricingStep, PricingNext
<1>2. ASSUME CatalogueStep({e1}, Categories) \/ CatalogueStep(Editors, {g1, g2}) PROVE CatalogueNext
  <2>1. {e1} \subseteq Editors /\ {g1, g2} \subseteq Categories
    BY PlatformConstants
  <2> QED
    BY <1>2, <2>1 DEF CatalogueStep, CatalogueNext
<1> QED
  BY <1>1, <1>2 DEF PlatformNext, platformVars

LEMMA PlatformInits ==
    PlatformInit => /\ AuthInit /\ PickupInit /\ RefundInit /\ AccessInit /\ OrgInit
                    /\ ReleaseInit /\ RateInit
                    /\ GatewayInit /\ PricingInit /\ BuyerInit /\ CatalogueInit
BY DEF PlatformInit

\* In the composition of all that requests drive, sessions, stored passwords, codes and
\* photos are as AccountsSafe states them.
THEOREM PlatformKeepsAccounts == PlatformSpec => []AccountsAreSafe
<1> QED
  BY AuthInvInit, AuthInvStep, AuthInvSafe, PlatformSteps, PlatformInits, PTL DEF PlatformSpec

\* In that composition a pickup code completes the order once and is gone, and no other
\* code completes it, with the exceptions of PickupSafe.
THEOREM PlatformKeepsPickups == PlatformSpec => []PickupIsSafe
<1> QED
  BY PickupInvInit, PickupInvStep, PickupInvSafe, PlatformSteps, PlatformInits, PTL DEF PlatformSpec

\* In that composition the status of a payment says where its money is.
THEOREM PlatformKeepsRefunds == PlatformSpec => []RefundsAreSafe
<1> QED
  BY RefundInvInit, RefundInvStep, RefundInvSafe, PlatformSteps, PlatformInits, PTL DEF PlatformSpec

\* In that composition invitations, grants and the review of sellers do what was
\* last decided.
THEOREM PlatformKeepsGrants == PlatformSpec => GrantsAreIntended
<1>1. PlatformSpec => []AccessInv
  BY AccessInvInit, AccessInvStep, PlatformSteps, PlatformInits, PTL DEF PlatformSpec
<1>2. PlatformSpec => RevokedGrantsNothing
  BY <1>1, TokensStayRevoked, PlatformSteps, PTL DEF PlatformSpec, RevokedGrantsNothing
<1>3. PlatformSpec => AcceptanceIsFinal
  BY <1>1, AcceptedStays, PlatformSteps, PTL DEF PlatformSpec, AcceptanceIsFinal
<1>4. PlatformSpec => GrantsAreTheLastList /\ DecidedOnce
  BY <1>1, ListsAndDecisions, PlatformSteps, PTL DEF PlatformSpec, GrantsAreTheLastList, DecidedOnce
<1> QED
  BY <1>1, <1>2, <1>3, <1>4, AccessInvSafe, PTL DEF GrantsAreIntended

\* In that composition staff reach what their seller gave them.
THEOREM PlatformKeepsStaff == PlatformSpec => StaffStayInside
<1>1. PlatformSpec => []OrgInv
  BY OrgInvInit, OrgInvStep, PlatformSteps, PlatformInits, PTL DEF PlatformSpec
<1>2. PlatformSpec => PruningTakesOnlyTheDeleted
  BY <1>1, PruningStep, PlatformSteps, PTL DEF PlatformSpec, PruningTakesOnlyTheDeleted
<1> QED
  BY <1>1, <1>2, OrgInvSafe, PTL DEF StaffStayInside

\* In that composition one release is downloaded and attempts are limited.
THEOREM PlatformKeepsOperations == PlatformSpec => OperationsAreGuarded
<1>1. PlatformSpec => []ReleaseInv
  BY ReleaseInvInit, ReleaseInvStep, PlatformSteps, PlatformInits, PTL DEF PlatformSpec
<1>2. ReleaseInv /\ [PlatformNext]_platformVars =>
         [~releaseRaced' => \A b \in Builds : release[b] = "FAILED" => release'[b] = "FAILED"]_releaseVars
  BY PlatformSteps, ReleaseMoves
<1>3. ReleaseInv /\ [PlatformNext]_platformVars =>
         [~releaseRaced' /\ Served # {} /\ Served' = {}
             => \A b \in Builds : release'[b] # "ACTIVE"]_releaseVars
  BY PlatformSteps, ReleaseMoves
<1>4. PlatformSpec => ReleasesAreSafe
  BY <1>1, <1>2, <1>3, ReleaseInvSafe, PTL
     DEF PlatformSpec, ReleasesAreSafe, PulledStaysPulled, ServiceContinues
<1>5. PlatformSpec => []RateInv
  BY RateInvInit, RateInvStep, PlatformSteps, PlatformInits, PTL DEF PlatformSpec
<1> QED
  BY <1>4, <1>5, RateInvSafe, PTL DEF OperationsAreGuarded

\* In that composition checkouts lead to a page to pay on, only money received completes
\* a payment in production with PayMongo's webhook secret set, refunds find the money and
\* a degraded gateway rests.
THEOREM PlatformKeepsCheckouts == PlatformSpec => CheckoutsAreSafe
<1>1. PlatformInit => CheckoutInv /\ FeeInv
  BY PlatformInits, CheckoutInvInit, FeeInvInit
<1>2. CheckoutInv /\ FeeInv /\ [PlatformNext]_platformVars => (CheckoutInv /\ FeeInv)'
  BY PlatformShopSteps, CheckoutInvStep, FeeInvStep
<1>3. CheckoutInv /\ [PlatformNext]_platformVars =>
        [\A c \in Checkouts, g \in Gateways :
          checkout'[c].pc = "calling" /\ checkout'[c].at = g
          /\ ~(checkout[c].pc = "calling" /\ checkout[c].at = g)
          /\ degraded'[g] > gwClock
          => \A h \in Gateways \ {g} : ~Healthy(h, degraded')]_checkoutVars
  BY PlatformShopSteps, ChosenRests
<1> QED
  BY <1>1, <1>2, <1>3, CheckoutInvSafe, PTL DEF PlatformSpec, CheckoutsAreSafe, DegradedGatewaysRest

\* In that composition every centavo of a price has an owner and one validated card is
\* live, until its window or its successor's leaves the orders to the fallback rates.
THEOREM PlatformKeepsPrices == PlatformSpec => PricingIsSound
<1>1. PlatformInit => PricingInv
  BY PlatformInits, PricingInvInit
<1>2. PricingInv /\ [PlatformNext]_platformVars => PricingInv'
  BY PlatformShopSteps, CardInvStep, QuotesStep DEF PricingInv
<1>3. PricingInv /\ [PlatformNext]_platformVars =>
        [(\E k \in Cards : LiveCard(k)) /\ ~cardRaced' =>
            \E k \in Cards : LiveCard(k)' \/ OutOfWindow(k)']_cardVars
  BY PlatformShopSteps, CardInvStep DEF PricingInv
<1> QED
  BY <1>1, <1>2, <1>3, QuotesAddUp, CardsAreSound, PTL DEF PlatformSpec, PricingIsSound, NoSilentFallback

\* In that composition what a shopper has kept and is shown stays consistent: carts,
\* wishlists, addresses and ratings, and the categories with their products.
THEOREM PlatformKeepsShoppers == PlatformSpec => ShoppersSeeConsistentData
<1>1. PlatformSpec => []BuyerInv
  <2>1. PlatformInit => BuyerInv
    BY PlatformInits, BuyerInvInit
  <2>2. BuyerInv /\ [PlatformNext]_platformVars => BuyerInv'
    BY PlatformShopSteps, BuyerInvStep
  <2> QED
    BY <2>1, <2>2, PTL DEF PlatformSpec
<1>2. PlatformSpec => []CatalogueInv /\ NothingIsDetached
  <2>1. PlatformInit => CatalogueInv
    BY PlatformInits, CatalogueInvInit
  <2>2. CatalogueInv /\ [PlatformNext]_platformVars => CatalogueInv' /\ DetachesNothing
    BY PlatformShopSteps, CatalogueInvStep
  <2> QED
    BY <2>1, <2>2, PTL DEF PlatformSpec, NothingIsDetached, DetachesNothing
<1> QED
  BY <1>1, <1>2, BuyerInvSound, CatalogueInvSafe, PTL DEF ShoppersSeeConsistentData
===================================================================================
