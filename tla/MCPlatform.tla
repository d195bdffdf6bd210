------------------------------- MODULE MCPlatform -------------------------------
(***************************************************************************)
(* The components that are driven by requests alone, with small instances.  *)
(* Nothing they keep is shared, so they are checked side by side: `scope`   *)
(* says which of them a behaviour is about.                                 *)
(***************************************************************************)
EXTENDS AuthSessions, SellerOrganization, AdminAccess, Pricing, BuyerData, PaymentGateway,
        CashPickup, AppReleases, RateLimiter, Catalogue, GatewayRefunds, TLC

CONSTANTS
    o1, o2, m1, m2, s1, s2, s3, f1, \* organizations, people, stores and a feature
    k1, c1,                     \* a rate card and a request about it
    ga, gb,                     \* products of two stores
    i1, q1,                     \* a request for a reset code and a sign-in
    e1, g1, g2                  \* a request about the catalogue, and two categories

VARIABLE scope

platformVars == <<scope, authVars, orgVars, accessVars, cardVars, cartVars, wishVars, addressVars,
                  reviewVars, checkoutVars, feeVars, pickupVars, releaseVars, rateVars, catalogueVars,
                  refundVars>>

-----------------------------------------------------------------------------
(* Values of the constants.                                                  *)

MCOwnerOf == o1 :> m1 @@ o2 :> m1
MCStoreOrg == s1 :> o1 @@ s2 :> o2 @@ s3 :> o1
Body(role, stores, permissions) == [role |-> role, stores |-> stores, permissions |-> permissions]
Helper == Body("SELLER_MEMBER", {s1, s3}, Unset)
MCHires == {Helper, Body("SELLER_MEMBER", {s2}, {f1})}
MCPatches == {Body("SELLER_ADMIN", Unset, Unset), Body(Unset, {s1}, {f1})}
Fee(type, rate, fixed, min, max, method) ==
    [type |-> type, rate |-> rate, fixed |-> fixed, min |-> min, max |-> max, scope |-> method]
Gateway(rate, fixed, method) == Fee("PAYMENT_PROCESSING_FEE", rate, fixed, NoFee, NoFee, method)
MCRateCards ==
    {<<Gateway(3125, 1339, "card"), Gateway(2230, 0, AnyMethod),
       Fee("SELLER_MARKETPLACE_FEE", 2000, 0, NoFee, NoFee, AnyMethod)>>,
     <<Fee("PAYMENT_PROCESSING_FEE", 2500, 0, 1500, 2500, AnyMethod),
       Fee("BUYER_TRANSACTION_FEE", 230, 0, NoFee, NoFee, AnyMethod)>>,
     <<>>}
Basket(subtotal, discount, voucher, method, cash, policy) ==
    [subtotal |-> subtotal, discount |-> discount, voucher |-> voucher, method |-> method,
     cash |-> cash, policy |-> policy]
MCBaskets ==
    {Basket(s, d, v, m, FALSE, "NONE") :
        s \in {1000, 99999}, d \in {0, 333}, v \in {0, 500}, m \in {"card", "gcash"}}
    \cup {Basket(5000, 0, 0, "card", TRUE, "NONE"), Basket(5001, 0, 0, "card", FALSE, "SHARED"),
          Basket(500, 700, 0, "card", FALSE, "SELLER"), Basket(5001, 0, 0, "card", FALSE, "PLATFORM"),
          Basket(1001, 0, 100, "card", FALSE, "SELLER")}
MCGoodsStore == ga :> "sa" @@ gb :> "sb"
Bogo(buy, free) == [type |-> "BOGO", buy |-> buy, free |-> free, value |-> 0]
Cut(type, value) == [type |-> type, buy |-> 0, free |-> 0, value |-> value]
MCAdSets ==
    {{}, {Bogo(1, 2), Bogo(2, 1)},
     {Cut("PERCENTAGE", 25), Cut("FIXED_AMOUNT", 30), Bogo(2, 1)}}
MCKeySets == {{"XENDIT"}, {"PAYMONGO"}, {"XENDIT", "STRIPE"}}
MCSecretSets == {{"PAYMONGO", "XENDIT", "STRIPE"}, {}}
MCTries == {<<"XENDIT", "GCASH">>, <<"STRIPE", "CARD">>}
MCLimits == [credential |-> [normal |-> 2, emergency |-> 1], failures |-> [normal |-> 1, emergency |-> 1]]

-----------------------------------------------------------------------------
\* What a scope picks is among what the components are given.
ASSUME PlatformConstants ==
    /\ i1 \in Issuers /\ q1 \in SignIns
    /\ c1 \in OrgRequests /\ Helper \in Hires /\ s1 \in OrgStores
    /\ k1 \in Cards /\ c1 \in CardRequests
    /\ e1 \in Editors /\ {g1, g2} \subseteq Categories

PlatformScopes == {"sign-ins", "reset codes", "staff", "closures", "two employers", "invites", "grants",
                   "sellers", "rate cards", "quotes", "carts", "wishlists", "addresses", "reviews", "checkouts",
                   "gateway fees", "refunds", "pickups", "releases", "rate limits", "categories", "editors"}

\* Choices of the initial state that matter in one scope are fixed in the others.
PlatformInit ==
    /\ scope \in PlatformScopes
    /\ AuthInit /\ OrgInit /\ AccessInit /\ PricingInit /\ BuyerInit /\ GatewayInit /\ PickupInit
    /\ ReleaseInit /\ RateInit /\ CatalogueInit /\ RefundInit
    /\ rlRedis # "down" /\ (scope # "rate limits" => rlRedis = "up")
    /\ scope # "refunds" => took = "STRIPE"
    /\ \/ env = [keys |-> {"XENDIT"}, secrets |-> {"PAYMONGO", "XENDIT", "STRIPE"}, production |-> TRUE]
       \/ scope = "checkouts" /\ (env.production \/ env.keys = {"XENDIT"})
    /\ scope \notin {"sign-ins", "reset codes"} => \A u \in Addresses : authUser[u].status = "NONE"

\* Where cards are only edited and activated, the lists that pass the validation are one.
ListsDiffer == \A k \in Cards : Len(card'[k].list) # 2

\* Two sign-ins race each other with one code issued, and two codes are issued with
\* one sign-in; staff requests race each other and the deletion of a store, one request races
\* the deletions of two, and one request at a time hires for two organizations; cards are
\* edited and activated at once, and one is while baskets are priced; a tree of three
\* categories is changed by one request, one of two by two at once.
PlatformNext ==
    /\ UNCHANGED scope
    /\ \/ /\ \/ scope = "sign-ins" /\ AuthStep(Registrants, SignIns, {i1})
             \/ scope = "reset codes" /\ AuthStep({}, {q1}, Issuers)
          /\ UNCHANGED <<orgVars, accessVars, cardVars, cartVars, wishVars, addressVars,
                         reviewVars, checkoutVars, feeVars, refundVars, pickupVars,
                         releaseVars, rateVars, catalogueVars>>
       \/ /\ \/ scope = "staff" /\ OrgStep(OrgRequests, {Helper}, {s1})
             \/ scope = "closures" /\ OrgStep({c1}, {Helper}, OrgStores \ {s2})
             \/ scope = "two employers" /\ OrgStep({c1}, Hires, {})
          /\ UNCHANGED <<authVars, accessVars, cardVars, cartVars, wishVars, addressVars,
                         reviewVars, checkoutVars, feeVars, refundVars, pickupVars,
                         releaseVars, rateVars, catalogueVars>>
       \/ /\ \/ scope = "invites" /\ InviteNext
             \/ scope = "grants" /\ GrantNext
             \/ scope = "sellers" /\ SellerReviewNext
          /\ UNCHANGED <<authVars, orgVars, cardVars, cartVars, wishVars, addressVars,
                         reviewVars, checkoutVars, feeVars, refundVars, pickupVars,
                         releaseVars, rateVars, catalogueVars>>
       \/ /\ \/ scope = "rate cards" /\ PricingStep(Cards, CardRequests, {}) /\ ListsDiffer
             \/ scope = "quotes" /\ PricingStep({k1}, {c1}, Quoters)
          /\ UNCHANGED <<authVars, orgVars, accessVars, cartVars, wishVars, addressVars,
                         reviewVars, checkoutVars, feeVars, refundVars, pickupVars,
                         releaseVars, rateVars, catalogueVars>>
       \/ /\ scope = "carts" /\ CartNext
          /\ UNCHANGED <<authVars, orgVars, accessVars, cardVars, wishVars, addressVars,
                         reviewVars, checkoutVars, feeVars, refundVars, pickupVars,
                         releaseVars, rateVars, catalogueVars>>
       \/ /\ scope = "wishlists" /\ WishNext
          /\ UNCHANGED <<authVars, orgVars, accessVars, cardVars, cartVars, addressVars,
                         reviewVars, checkoutVars, feeVars, refundVars, pickupVars,
                         releaseVars, rateVars, catalogueVars>>
       \/ /\ scope = "addresses" /\ AddressNext
          /\ UNCHANGED <<authVars, orgVars, accessVars, cardVars, cartVars, wishVars,
                         reviewVars, checkoutVars, feeVars, refundVars, pickupVars,
                         releaseVars, rateVars, catalogueVars>>
       \/ /\ scope = "reviews" /\ ReviewNext
          /\ UNCHANGED <<authVars, orgVars, accessVars, cardVars, cartVars, wishVars,
                         addressVars, checkoutVars, feeVars, refundVars, pickupVars,
                         releaseVars, rateVars, catalogueVars>>
       \/ /\ scope = "checkouts" /\ CheckoutNext
          /\ UNCHANGED <<authVars, orgVars, accessVars, cardVars, cartVars, wishVars,
                         addressVars, reviewVars, feeVars, refundVars, pickupVars,
                         releaseVars, rateVars, catalogueVars>>
       \/ /\ scope = "gateway fees" /\ FeeNext
          /\ UNCHANGED <<authVars, orgVars, accessVars, cardVars, cartVars, wishVars,
                         addressVars, reviewVars, checkoutVars, refundVars, pickupVars,
                         releaseVars, rateVars, catalogueVars>>
       \/ /\ scope = "refunds" /\ RefundNext
          /\ UNCHANGED <<authVars, orgVars, accessVars, cardVars, cartVars, wishVars,
                         addressVars, reviewVars, checkoutVars, feeVars, pickupVars,
                         releaseVars, rateVars, catalogueVars>>
       \/ /\ scope = "pickups" /\ PickupNext
          /\ UNCHANGED <<authVars, orgVars, accessVars, cardVars, cartVars, wishVars,
                         addressVars, reviewVars, checkoutVars, feeVars, refundVars,
                         releaseVars, rateVars, catalogueVars>>
       \/ /\ scope = "releases" /\ AppReleaseNext
          /\ UNCHANGED <<authVars, orgVars, accessVars, cardVars, cartVars, wishVars,
                         addressVars, reviewVars, checkoutVars, feeVars, refundVars,
                         pickupVars, rateVars, catalogueVars>>
       \/ /\ scope = "rate limits" /\ RateNext
          /\ UNCHANGED <<authVars, orgVars, accessVars, cardVars, cartVars, wishVars,
                         addressVars, reviewVars, checkoutVars, feeVars, refundVars,
                         pickupVars, releaseVars, catalogueVars>>
       \/ /\ \/ scope = "categories" /\ CatalogueStep({e1}, Categories)
             \/ scope = "editors" /\ CatalogueStep(Editors, {g1, g2})
          /\ UNCHANGED <<authVars, orgVars, accessVars, cardVars, cartVars, wishVars,
                         addressVars, reviewVars, checkoutVars, feeVars, refundVars,
                         pickupVars, releaseVars, rateVars>>

PlatformSpec == PlatformInit /\ [][PlatformNext]_platformVars

-----------------------------------------------------------------------------
(* Properties.                                                               *)

\* What a shopper is shown and has kept is consistent: cart, wishlist, addresses,
\* ratings, and the categories with their products.
ShoppersSeeConsistentData == [](BuyerDataIsSound /\ CatalogueAgrees) /\ NothingIsDetached

\* What keeps the platform itself in order: the release that is downloaded and the
\* limits on attempts.
OperationsAreGuarded == ReleasesAreSafe /\ []LimitsHold
=============================================================================
