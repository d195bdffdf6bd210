-------------------------------- MODULE BuyerData --------------------------------
(***************************************************************************)
(* What the platform keeps for a buyer besides orders: the cart in Redis,   *)
(* the wishlist, the address book and the product reviews. The four share   *)
(* no state and are explored one at a time.                                 *)
(*                                                                          *)
(* The cart is read, changed and written back whole; the others are rows    *)
(* that are read in one statement and written in a later one. A transaction *)
(* at READ COMMITTED commits what its statements saw when each began.       *)
(***************************************************************************)
EXTENDS Integers, FiniteSets, Functions, FiniteSetsExt

CONSTANTS
    Goods,          \* products
    GoodsStore,     \* Products.storeId
    AdSets,         \* the sets of discount ads that may be live for a product
    Price,          \* a product's price
    MaxQuantity,    \* bound on quantities and stock
    CartRequests, WishRequests, AddressRequests, ReviewRequests,
    Variants,       \* product variants; NoRow is the product itself
    AddressIds,     \* BuyerAddresses rows, numbered by creation
    Bought,         \* completed orders of the reviewed product
    Ratings,        \* ratings given
    NoRow

\* A discount ad; one that gives goods names how many are bought and how many are free.
DiscountAd == [type : {"PERCENTAGE", "FIXED_AMOUNT", "BOGO"}, buy : Nat, free : Nat, value : Nat]

ASSUME BuyerConstants ==
    /\ MaxQuantity \in Nat /\ Price \in Nat
    /\ \A ads \in AdSets : IsFiniteSet(ads) /\ ads \subseteq DiscountAd
    /\ \A ads \in AdSets : \A ad \in ads : ad.type = "BOGO" => ad.buy > 0 /\ ad.free > 0
    /\ \A g \in Goods : GoodsStore[g] # NoRow
    /\ AddressIds \subseteq Nat /\ Ratings \subseteq 1..5
    /\ IsFiniteSet(Bought) /\ NoRow \notin Variants

VARIABLES
    cart,           \* the Redis value
    cartCall, saved,    \* the carts requests have read; ghost: the last addition
    wished, wishCall, wishRaced,        \* WishlistItems; ghost: additions of the bare product
                    \* overlapped since it was last removed
    addresses, addressCall, addressRaced,   \* BuyerAddresses; ghost: transactions overlapped
    reviews, rating, reviewCall, reviewRaced   \* ProductReviews, Products.rating*; ghost

cartVars == <<cart, cartCall, saved>>
wishVars == <<wished, wishCall, wishRaced>>
addressVars == <<addresses, addressCall, addressRaced>>
reviewVars == <<reviews, rating, reviewCall, reviewRaced>>
buyerVars == <<cartVars, wishVars, addressVars, reviewVars>>

-----------------------------------------------------------------------------
(* Discounts of an item (pricing.util.ts). *)

\* discountForAd
DiscountForAd(ad, quantity) ==
    LET total == quantity * Price
    IN  CASE ad.type = "PERCENTAGE" -> (total * ad.value) \div 100
          [] ad.type = "FIXED_AMOUNT" -> Min({total, ad.value * quantity})
          [] OTHER -> Min({quantity, (quantity \div (ad.buy + ad.free)) * ad.free}) * Price

\* computeItemDiscount: the best of the live ads
ItemDiscount(ads, quantity) == Max({0} \cup {DiscountForAd(ad, quantity) : ad \in ads})

\* applyBogoBonus: the quantity that is stored for the quantity the buyer asks for
BogoQuantity(ads, quantity, stock) ==
    Min({stock, quantity + Max({0} \cup {(quantity \div ad.buy) * ad.free :
                                            ad \in {a \in ads : a.type = "BOGO"}})})

-----------------------------------------------------------------------------
(* The cart. *)

NoCart == [store |-> NoRow, items |-> [g \in Goods |-> 0]]
CartEmpty(items) == \A g \in Goods : items[g] = 0
NoSave == [asked |-> 0, stored |-> 0, stock |-> 0, ads |-> {}]

CartInit ==
    /\ cart = NoCart
    /\ cartCall = [c \in CartRequests |-> [pc |-> "idle", seen |-> NoCart]]
    /\ saved = NoSave

\* getCart
CartRead(c) ==
    /\ cartCall[c].pc = "idle"
    /\ cartCall' = [cartCall EXCEPT ![c] = [pc |-> "read", seen |-> cart]]
    /\ UNCHANGED <<cart, saved>>

CartEnds(c) == cartCall' = [cartCall EXCEPT ![c] = [pc |-> "idle", seen |-> NoCart]]

\* One store at a time.
StoreFits(seen, g) == seen.store = NoRow \/ seen.store = GoodsStore[g] \/ CartEmpty(seen.items)

\* addToCart after getCart: the store, the product, its free stock and its live ads
\* are read (InventoryStock and AdSchedule own them), and the cart is written back.
AddToCart(c, g, n, stock, ads) ==
    LET seen == cartCall[c].seen
        stored == BogoQuantity(ads, n, stock)
    IN  /\ cartCall[c].pc = "read"
        /\ StoreFits(seen, g) /\ n <= stock
        /\ cart' = [store |-> GoodsStore[g], items |-> [seen.items EXCEPT ![g] = stored]]
        /\ saved' = [asked |-> n, stored |-> stored, stock |-> stock, ads |-> ads]
        /\ CartEnds(c)

\* addToCart with quantity 0, and removeItems: an empty cart has no store.
RemoveItems(c, gs) ==
    LET seen == cartCall[c].seen
        left == [g \in Goods |-> IF g \in gs THEN 0 ELSE seen.items[g]]
    IN  /\ cartCall[c].pc = "read"
        /\ cart' = [store |-> IF CartEmpty(left) THEN NoRow ELSE seen.store, items |-> left]
        /\ CartEnds(c)
        /\ UNCHANGED saved

\* clearCart, and the key's expiry after seven days
ClearCart ==
    /\ cart # NoCart
    /\ cart' = NoCart
    /\ UNCHANGED <<cartCall, saved>>

\* A refused addition, or a process that dies
CartFails(c) == cartCall[c].pc = "read" /\ CartEnds(c) /\ UNCHANGED <<cart, saved>>

CartNext ==
    \/ \E c \in CartRequests :
          \/ CartRead(c) \/ CartFails(c)
          \/ \E g \in Goods, n \in 1..MaxQuantity, stock \in 1..MaxQuantity, ads \in AdSets :
                AddToCart(c, g, n, stock, ads)
          \/ \E gs \in SUBSET Goods : RemoveItems(c, gs)
    \/ ClearCart

-----------------------------------------------------------------------------
(* The wishlist. *)

WishInit ==
    /\ wished = [v \in Variants \cup {NoRow} |-> 0]
    /\ wishCall = [c \in WishRequests |-> NoRow]
    /\ wishRaced = FALSE

Adding(c) == wishCall[c] # NoRow
AddsBare(c) == Adding(c) /\ wishCall[c] = <<NoRow>>
AddingBare == \E d \in WishRequests : AddsBare(d)

\* addItem: nothing to do when it is there ...
WishFind(c, v) ==
    /\ ~Adding(c) /\ wished[v] = 0
    /\ wishCall' = [wishCall EXCEPT ![c] = <<v>>]
    /\ wishRaced' = (wishRaced \/ (v = NoRow /\ AddingBare))
    /\ UNCHANGED wished

\* ... else it is created; the unique key does not bind rows without a variant.
WishCreate(c) ==
    LET v == wishCall[c][1]
    IN  /\ Adding(c)
        /\ wished' = [wished EXCEPT ![v] = IF v = NoRow THEN @ + 1 ELSE 1]
        /\ wishCall' = [wishCall EXCEPT ![c] = NoRow]
        /\ UNCHANGED wishRaced

\* removeItem (without a variant: all of them), clear
WishRemove(vs) ==
    /\ \E v \in vs : wished[v] > 0
    /\ wished' = [v \in DOMAIN wished |-> IF v \in vs THEN 0 ELSE wished[v]]
    /\ wishRaced' = (wishRaced /\ (NoRow \in vs => AddingBare))
    /\ UNCHANGED wishCall

WishNext ==
    \/ \E c \in WishRequests : WishCreate(c) \/ \E v \in DOMAIN wished : WishFind(c, v)
    \/ \E vs \in {{v} : v \in Variants} \cup {DOMAIN wished} : WishRemove(vs)

-----------------------------------------------------------------------------
(* The address book. *)

AddressIdle == [pc |-> "idle", id |-> 0, makeDefault |-> FALSE, cleared |-> {}]

AddressInit ==
    /\ addresses = [kept |-> {}, default |-> {}]
    /\ addressCall = [c \in AddressRequests |-> AddressIdle]
    /\ addressRaced = FALSE

\* A transaction ends; it overlapped when another had begun.
AddressEnds(c) ==
    /\ addressCall' = [addressCall EXCEPT ![c] = AddressIdle]
    /\ addressRaced' = (addressRaced \/ \E d \in AddressRequests \ {c} : addressCall[d].pc # "idle")

\* addForBuyer: the first address is the default, another one when it asks to be.
AddressAddRead(c, id, wanted) ==
    LET first == addresses.kept = {}
    IN  /\ addressCall[c].pc = "idle" /\ id \notin addresses.kept
        /\ \A other \in addresses.kept : other < id
        /\ \A d \in AddressRequests : addressCall[d].id # id
        /\ addressCall' = [addressCall EXCEPT ![c] =
              [pc |-> "adding", id |-> id, makeDefault |-> first \/ wanted,
               cleared |-> IF first \/ ~wanted THEN {} ELSE addresses.default]]
        /\ UNCHANGED <<addresses, addressRaced>>

AddressAddCommit(c) ==
    LET call == addressCall[c]
    IN  /\ call.pc = "adding"
        /\ call.id \notin addresses.kept
        /\ addresses' = [kept |-> addresses.kept \cup {call.id},
                         default |-> (addresses.default \ call.cleared) \cup {i \in {call.id} : call.makeDefault}]
        /\ AddressEnds(c)

\* setDefault, update with isDefault, and addForBuyer of an address that exists:
\* clearDefault sees the defaults of its moment ...
AddressDefaultRead(c, id) ==
    /\ addressCall[c].pc = "idle" /\ id \in addresses.kept
    /\ addressCall' = [addressCall EXCEPT ![c] =
          [pc |-> "choosing", id |-> id, makeDefault |-> TRUE, cleared |-> addresses.default]]
    /\ UNCHANGED <<addresses, addressRaced>>

\* ... and the transaction fails as a whole when the address is gone.
AddressDefaultCommit(c) ==
    LET call == addressCall[c]
    IN  /\ call.pc = "choosing"
        /\ addresses' = IF call.id \in addresses.kept
                        THEN [addresses EXCEPT !.default = (@ \ call.cleared) \cup {call.id}]
                        ELSE addresses
        /\ AddressEnds(c)

\* remove reads whether the address is the default ...
AddressRemoveRead(c, id) ==
    /\ addressCall[c].pc = "idle" /\ id \in addresses.kept
    /\ addressCall' = [addressCall EXCEPT ![c] =
          [pc |-> "removing", id |-> id, makeDefault |-> id \in addresses.default, cleared |-> {}]]
    /\ UNCHANGED <<addresses, addressRaced>>

\* Variant of Promoted: nothing is promoted.
Promoted_None(left, wasDefault) == {}

\* The newest one left becomes the default when the default was removed.
Promoted(left, wasDefault) == IF wasDefault /\ left # {} THEN {Max(left)} ELSE {}

\* ... and deletes it.
AddressRemoveCommit(c) ==
    LET call == addressCall[c]
        left == addresses.kept \ {call.id}
    IN  /\ call.pc = "removing"
        /\ addresses' = IF call.id \in addresses.kept
                        THEN [kept |-> left,
                              default |-> (addresses.default \ {call.id}) \cup Promoted(left, call.makeDefault)]
                        ELSE addresses
        /\ AddressEnds(c)

AddressNext ==
    \E c \in AddressRequests :
        \/ AddressAddCommit(c) \/ AddressDefaultCommit(c) \/ AddressRemoveCommit(c)
        \/ \E id \in AddressIds :
              \/ AddressDefaultRead(c, id) \/ AddressRemoveRead(c, id)
              \/ \E wanted \in BOOLEAN : AddressAddRead(c, id, wanted)

-----------------------------------------------------------------------------
(* Product reviews and the rating the catalogue shows. *)

Given == {o \in Bought : reviews[o] > 0}
Aggregate == [sum |-> SumFunctionOnSet(reviews, Given), count |-> Cardinality(Given)]
ReviewIdle == [pc |-> "idle", seen |-> [sum |-> 0, count |-> 0], overtaken |-> FALSE]

ReviewInit ==
    /\ reviews = [o \in Bought |-> 0]
    /\ rating = [sum |-> 0, count |-> 0]
    /\ reviewCall = [c \in ReviewRequests |-> ReviewIdle]
    /\ reviewRaced = FALSE

\* A review is written: a refresh that has read the aggregate is overtaken.
ReviewWritten(c) ==
    reviewCall' = [d \in ReviewRequests |->
        IF d = c THEN [ReviewIdle EXCEPT !.pc = "written"]
        ELSE [reviewCall[d] EXCEPT !.overtaken = @ \/ reviewCall[d].pc = "read"]]

\* upsertProductReview, for a completed purchase
UpsertReview(c, o, stars) ==
    /\ reviewCall[c].pc = "idle"
    /\ reviews' = [reviews EXCEPT ![o] = stars]
    /\ ReviewWritten(c)
    /\ UNCHANGED <<rating, reviewRaced>>

\* deleteProductReview, one's own
DeleteReview(c, o) ==
    /\ reviewCall[c].pc = "idle" /\ reviews[o] > 0
    /\ reviews' = [reviews EXCEPT ![o] = 0]
    /\ ReviewWritten(c)
    /\ UNCHANGED <<rating, reviewRaced>>

\* refreshProductRating: the aggregate is read ...
RefreshRead(c) ==
    /\ reviewCall[c].pc = "written"
    /\ reviewCall' = [reviewCall EXCEPT ![c] = [pc |-> "read", seen |-> Aggregate, overtaken |-> FALSE]]
    /\ UNCHANGED <<reviews, rating, reviewRaced>>

\* ... and written to the product.
RefreshWrite(c) ==
    /\ reviewCall[c].pc = "read"
    /\ rating' = reviewCall[c].seen
    /\ reviewCall' = [reviewCall EXCEPT ![c] = ReviewIdle]
    /\ reviewRaced' = reviewCall[c].overtaken
    /\ UNCHANGED reviews

\* The process dies before the rating is refreshed.
ReviewDies(c) ==
    /\ reviewCall[c].pc # "idle"
    /\ reviewCall' = [reviewCall EXCEPT ![c] = ReviewIdle]
    /\ reviewRaced' = TRUE
    /\ UNCHANGED <<reviews, rating>>

ReviewNext ==
    \E c \in ReviewRequests :
        \/ RefreshRead(c) \/ RefreshWrite(c) \/ ReviewDies(c)
        \/ \E o \in Bought : DeleteReview(c, o) \/ \E stars \in Ratings : UpsertReview(c, o, stars)

BuyerInit == CartInit /\ WishInit /\ AddressInit /\ ReviewInit

-----------------------------------------------------------------------------
(* Properties. *)

\* Values and rows have the shapes the code gives them.
BuyerTypeOK ==
    /\ \A g \in Goods : cart.items[g] \in 0..MaxQuantity
    /\ addresses.default \subseteq addresses.kept
    /\ rating.count \in 0..Cardinality(Bought)

\* A cart holds the goods of one store, whatever additions and removals overlap and
\* overwrite each other (addToCart, removeItems).
CartIsOfOneStore ==
    /\ \A g \in Goods : cart.items[g] > 0 => cart.store = GoodsStore[g]
    /\ CartEmpty(cart.items) => cart.store = NoRow

\* The bonus of a buy-some-get-some ad is free: when the stock holds all of it, the
\* buyer pays for no more than was asked for, whatever ads compete, and never more
\* than the stock is stored (applyBogoBonus and computeItemDiscount agree).
BonusIsFree ==
    /\ saved.stored \in saved.asked..saved.stock
    /\ saved.stored < saved.stock =>
          saved.stored * Price - ItemDiscount(saved.ads, saved.stored) <= saved.asked * Price

\* Saving twice is saving once, except for a product without a variant, saved by
\* two requests at the same time.
SavedOnce == \A v \in DOMAIN wished : wished[v] > 1 => v = NoRow /\ wishRaced

\* A buyer with addresses has exactly one default, as long as no two transactions
\* on the address book overlapped.
OneDefaultAddress ==
    ~addressRaced => IF addresses.kept = {} THEN addresses.default = {} ELSE Cardinality(addresses.default) = 1

\* Once no review is under way the product's rating is the average of its reviews,
\* unless a review was written between the last refresh's read and its write, or a
\* process died before its refresh (refreshProductRating).
RatingFollowsReviews ==
    (\A c \in ReviewRequests : reviewCall[c].pc = "idle") /\ ~reviewRaced => rating = Aggregate

\* What is kept for a buyer stays consistent through overlapping requests.
BuyerDataIsSound ==
    BuyerTypeOK /\ CartIsOfOneStore /\ BonusIsFree /\ SavedOnce /\ OneDefaultAddress
    /\ RatingFollowsReviews
=============================================================================
