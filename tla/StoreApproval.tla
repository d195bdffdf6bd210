------------------------------ MODULE StoreApproval ------------------------------
(***************************************************************************)
(* A store's way through review: administrators claim, release, approve,    *)
(* reject and reopen it, its seller edits, resubmits and deletes it, and    *)
(* the hourly sweep deletes what stayed rejected for too long.              *)
(*                                                                          *)
(* A request reads the store, decides, and writes later in a transaction;   *)
(* the status it decided against is part of the transition's WHERE clause.  *)
(* Every request may be of any administrator or of the seller's staff; who  *)
(* may call which endpoint is the subject of SellerOrganization.            *)
(***************************************************************************)
EXTENDS Integers, FiniteSets

CONSTANTS
    Shops,          \* Stores rows
    Admins,         \* administrators
    Decisions,      \* transition and claim requests
    ShopEdits,      \* PATCH /stores/:id requests
    Purgers,        \* processes that run purgeExpiredRejectedStores
    MaxEdits,       \* bound on the edits of a store
    Nobody

ASSUME ShopConstants ==
    /\ IsFiniteSet(Shops)
    /\ MaxEdits \in Nat
    /\ Nobody \notin Admins \cup Shops

VARIABLES
    shop,           \* Stores rows
    shopDocs,       \* DocumentVerifications.verificationStatus of a store
    shopLog,        \* AuditLogs of a store: where its transitions have led, deletions
    shopCall,       \* the progress of decisions and edits
    purge,          \* the stores a sweep has read and not yet deleted
    judged,         \* ghost: the content the review in progress began with
    liveToggle,     \* ghost: isActive of a live store when it was pulled into review
    shopRaced       \* ghost: which checks of a store were overtaken before the write

shopRows == <<shop, shopDocs, shopLog>>
shopGhosts == <<judged, liveToggle, shopRaced>>
shopVars == <<shopRows, shopCall, purge, shopGhosts>>

-----------------------------------------------------------------------------
Statuses == {"PENDING", "UNDER_REVIEW", "NEEDS_REVISION", "ACTIVE", "REJECTED"}

AllowedTransitions ==
    [PENDING        |-> {"UNDER_REVIEW"},
     UNDER_REVIEW   |-> {"PENDING", "ACTIVE", "NEEDS_REVISION", "REJECTED"},
     NEEDS_REVISION |-> {"PENDING"},
     ACTIVE         |-> {"UNDER_REVIEW", "REJECTED"},
     REJECTED       |-> {"UNDER_REVIEW"}]

EditableStatuses == {"NEEDS_REVISION", "ACTIVE"}

ShopIdle == [pc |-> "idle", shop |-> Nobody, admin |-> Nobody, from |-> "NONE", to |-> "NONE",
             active |-> FALSE, parked |-> "unset"]

NoShop == [status |-> "NONE", active |-> FALSE, parked |-> "unset", claimedBy |-> Nobody,
           stale |-> FALSE, window |-> "none", deleted |-> FALSE, content |-> 0]

Toggle(b) == IF b THEN "open" ELSE "closed"

EndCall(c) == shopCall' = [shopCall EXCEPT ![c] = ShopIdle]

Overtaken(s, tag, when) == shopRaced' = [shopRaced EXCEPT ![s] = @ \cup {t \in {tag} : when}]

ShopInit ==
    /\ shop = [s \in Shops |-> NoShop]
    /\ shopDocs = [s \in Shops |-> "NONE"]
    /\ shopLog = [s \in Shops |-> [last |-> "PENDING", gaps |-> 0, deletions |-> 0]]
    /\ shopCall = [c \in Decisions \cup ShopEdits |-> ShopIdle]
    /\ purge = [w \in Purgers |-> {}]
    /\ judged = [s \in Shops |-> 0]
    /\ liveToggle = [s \in Shops |-> "unset"]
    /\ shopRaced = [s \in Shops |-> {}]

-----------------------------------------------------------------------------
\* createStoreWithDocuments
CreateShop(s) ==
    /\ shop[s].status = "NONE"
    /\ shop' = [shop EXCEPT ![s].status = "PENDING"]
    /\ shopDocs' = [shopDocs EXCEPT ![s] = "PENDING"]
    /\ UNCHANGED <<shopLog, shopCall, purge, shopGhosts>>

-----------------------------------------------------------------------------
(* The state machine. *)

\* transition() up to its write: the store is read and the move validated.
TransitionRead(c, s, a, to) ==
    /\ shopCall[c].pc = "idle"
    /\ shop[s].status \in Statuses /\ ~shop[s].deleted
    /\ to \in AllowedTransitions[shop[s].status]
    /\ shopCall' = [shopCall EXCEPT ![c] =
          [pc |-> "deciding", shop |-> s, admin |-> a, from |-> shop[s].status, to |-> to,
           active |-> shop[s].active, parked |-> shop[s].parked]]
    /\ UNCHANGED <<shopRows, purge, shopGhosts>>

\* dataFor: the columns each transition writes, some from what was read.
DataFor(row, call) ==
    LET unclaimed == [row EXCEPT !.status = call.to, !.claimedBy = Nobody, !.stale = FALSE,
                                 !.window = "none"]
    IN  CASE call.to = "UNDER_REVIEW" ->
               [unclaimed EXCEPT !.claimedBy = call.admin,
                  !.active = IF call.from = "ACTIVE" THEN FALSE ELSE @,
                  !.parked = IF call.from = "ACTIVE" THEN Toggle(call.active) ELSE @]
          [] call.to = "PENDING" -> unclaimed
          [] call.to = "ACTIVE" ->
               [unclaimed EXCEPT !.active = call.parked # "closed", !.parked = "unset"]
          [] OTHER ->
               [unclaimed EXCEPT !.active = FALSE, !.parked = "unset",
                  !.window = IF call.to = "REJECTED" THEN "open" ELSE "none"]

\* What the documents become with a decision.
DocsAfter(s, to) ==
    CASE to = "ACTIVE" -> "APPROVED" [] to = "REJECTED" -> "REJECTED" [] OTHER -> shopDocs[s]

\* The audit entry: `from` is what was decided against, so it must follow on the last.
Logged(s, from, to) ==
    shopLog' = [shopLog EXCEPT ![s] =
      [last |-> to, deletions |-> shopLog[s].deletions,
       gaps |-> IF shopLog[s].gaps > 0 \/ from # shopLog[s].last THEN 1 ELSE 0]]

Committed(s, call) ==
    /\ shop' = [shop EXCEPT ![s] = DataFor(@, call)]
    /\ shopDocs' = [shopDocs EXCEPT ![s] = DocsAfter(s, call.to)]
    /\ Logged(s, call.from, call.to)
    /\ judged' = [judged EXCEPT ![s] =
          IF call.to = "UNDER_REVIEW" THEN shop[s].content ELSE @]
    /\ liveToggle' = [liveToggle EXCEPT ![s] =
          IF call.to = "UNDER_REVIEW" /\ call.from = "ACTIVE" THEN Toggle(shop[s].active)
          ELSE IF call.to \in {"UNDER_REVIEW", "PENDING"} THEN @ ELSE "unset"]
    /\ shopRaced' = [shopRaced EXCEPT ![s] = @
          \cup {t \in {"toggle"} : call.active # shop[s].active \/ call.parked # shop[s].parked}
          \cup {t \in {"reopen"} : shop[s].deleted}
          \cup {t \in {"sweep"} : \E w \in Purgers : s \in purge[w]}]

\* Variant of TransitionWrite: update by id, as findUnique then update did.
TransitionWrite_NoCompare(c) ==
    LET call == shopCall[c]
    IN  /\ call.pc = "deciding"
        /\ Committed(call.shop, call)
        /\ EndCall(c)
        /\ UNCHANGED purge

\* The compare-and-set, the audit entry and the documents, in one transaction.
\* deletedAt is not compared.
TransitionWrite(c) ==
    LET call == shopCall[c]
    IN  /\ call.pc = "deciding"
        /\ IF shop[call.shop].status = call.from
             THEN Committed(call.shop, call)
             ELSE UNCHANGED <<shopRows, shopGhosts>>
        /\ EndCall(c)
        /\ UNCHANGED purge

HeldByOther(s, a) == shop[s].claimedBy \notin {Nobody, a} /\ ~shop[s].stale

\* claim() of a store that is under review already: refused, or a takeover.
ShopClaimRead(c, s, a, force) ==
    /\ shopCall[c].pc = "idle"
    /\ shop[s].status = "UNDER_REVIEW" /\ ~shop[s].deleted
    /\ force \/ ~HeldByOther(s, a)
    /\ shopCall' = [shopCall EXCEPT ![c] = [ShopIdle EXCEPT !.pc = "claiming", !.shop = s, !.admin = a]]
    /\ UNCHANGED <<shopRows, purge, shopGhosts>>

ShopClaimWrite(c) ==
    LET s == shopCall[c].shop
    IN  /\ shopCall[c].pc = "claiming"
        /\ IF shop[s].status = "UNDER_REVIEW"
             THEN /\ shop' = [shop EXCEPT ![s].claimedBy = shopCall[c].admin, ![s].stale = FALSE]
                  /\ Logged(s, "UNDER_REVIEW", "UNDER_REVIEW")
             ELSE UNCHANGED <<shop, shopLog>>
        /\ EndCall(c)
        /\ UNCHANGED <<shopDocs, purge, shopGhosts>>

-----------------------------------------------------------------------------
(* The seller. *)

ShopEditRead(c, s) ==
    /\ shopCall[c].pc = "idle"
    /\ shop[s].status \in EditableStatuses /\ ~shop[s].deleted
    /\ shop[s].content < MaxEdits
    /\ shopCall' = [shopCall EXCEPT ![c] =
          [ShopIdle EXCEPT !.pc = "editing", !.shop = s, !.from = shop[s].status]]
    /\ UNCHANGED <<shopRows, purge, shopGhosts>>

\* The update is by id: nothing compares the status again.
ShopEditWrite(c, active) ==
    LET s == shopCall[c].shop
    IN  /\ shopCall[c].pc = "editing"
        /\ shop' = [shop EXCEPT ![s].content = @ + 1, ![s].active = active]
        /\ Overtaken(s, "edit", shopCall[c].from # shop[s].status)
        /\ EndCall(c)
        /\ UNCHANGED <<shopDocs, shopLog, purge, judged, liveToggle>>

\* deleteRejectedStore compares both columns, so its read adds nothing.
DeleteShop(s) ==
    /\ shop[s].status = "REJECTED" /\ ~shop[s].deleted
    /\ shop' = [shop EXCEPT ![s].deleted = TRUE, ![s].active = FALSE]
    /\ shopLog' = [shopLog EXCEPT ![s].deletions = @ + 1]
    /\ UNCHANGED <<shopDocs, shopCall, purge, shopGhosts>>

-----------------------------------------------------------------------------
(* The sweep. *)

PurgeRead(w) ==
    LET due == {s \in Shops : shop[s].status = "REJECTED" /\ ~shop[s].deleted
                                /\ shop[s].window = "over"}
    IN  /\ purge[w] = {} /\ due # {}
        /\ purge' = [purge EXCEPT ![w] = due]
        /\ UNCHANGED <<shopRows, shopCall, shopGhosts>>

StillRejected(s) == shop[s].status = "REJECTED" /\ ~shop[s].deleted

\* One updateMany; when it matched a store, a deletion is logged for every store read.
PurgeWrite(w) ==
    LET hit == {s \in purge[w] : StillRejected(s)}
    IN  /\ purge[w] # {}
        /\ shop' = [s \in Shops |-> IF s \in hit
              THEN [shop[s] EXCEPT !.deleted = TRUE, !.active = FALSE] ELSE shop[s]]
        /\ shopLog' = [s \in Shops |-> IF hit # {} /\ s \in purge[w]
              THEN [shopLog[s] EXCEPT !.deletions = @ + 1] ELSE shopLog[s]]
        /\ shopRaced' = [s \in Shops |-> shopRaced[s] \cup
              {t \in {"sweep"} : s \in purge[w] /\ (shop[s].deleted \/ shop[s].window # "over")}]
        /\ purge' = [purge EXCEPT ![w] = {}]
        /\ UNCHANGED <<shopDocs, shopCall, judged, liveToggle>>

-----------------------------------------------------------------------------
(* What buyers are shown; none of it changes state. *)

Present == {s \in Shops : shop[s].status # "NONE" /\ ~shop[s].deleted}

\* getNearbyStores, when the viewport is not cached.
MapView == {s \in Present : shop[s].active /\ shop[s].status = "ACTIVE"}

\* getStoreById
DetailView == {s \in Present : shop[s].status = "ACTIVE" /\ shop[s].active}

\* getStoreProducts: the products of a store that is switched off can be listed.
ShelfView == {s \in Present : shop[s].status = "ACTIVE"}

\* getPublicSitemapStores
SitemapView == {s \in Present : shop[s].status = "ACTIVE" /\ shop[s].active}

-----------------------------------------------------------------------------
(* Time: REJECTED_STORE_TTL_MS and STALE_CLAIM_MS. *)

WindowEnds(s) ==
    /\ shop[s].window = "open"
    /\ shop' = [shop EXCEPT ![s].window = "over"]
    /\ UNCHANGED <<shopDocs, shopLog, shopCall, purge, shopGhosts>>

ClaimGoesStale(s) ==
    /\ shop[s].claimedBy # Nobody /\ ~shop[s].stale
    /\ shop' = [shop EXCEPT ![s].stale = TRUE]
    /\ UNCHANGED <<shopDocs, shopLog, shopCall, purge, shopGhosts>>

ShopStep(decisions, edits) ==
    \/ \E s \in Shops : CreateShop(s) \/ DeleteShop(s) \/ WindowEnds(s) \/ ClaimGoesStale(s)
    \/ \E c \in decisions, s \in Shops, a \in Admins, to \in Statuses : TransitionRead(c, s, a, to)
    \/ \E c \in decisions, s \in Shops, a \in Admins, f \in BOOLEAN : ShopClaimRead(c, s, a, f)
    \/ \E c \in decisions : TransitionWrite(c) \/ ShopClaimWrite(c)
    \/ \E c \in edits, s \in Shops : ShopEditRead(c, s)
    \/ \E c \in edits, active \in BOOLEAN : ShopEditWrite(c, active)
    \/ \E w \in Purgers : PurgeRead(w) \/ PurgeWrite(w)

ShopNext == ShopStep(Decisions, ShopEdits)

\* The sweep runs every hour, and the window of a rejected store ends.
ShopFairness ==
    /\ \A s \in Shops : WF_shopVars(WindowEnds(s))
    /\ \A w \in Purgers : WF_shopVars(PurgeRead(w)) /\ WF_shopVars(PurgeWrite(w))

ShopSpec == ShopInit /\ [][ShopNext]_shopVars /\ ShopFairness

-----------------------------------------------------------------------------
(* Properties. *)

\* Rows, requests and audit entries keep their types.
ShopTypeOK ==
    /\ shop \in [Shops -> [status : Statuses \cup {"NONE"}, active : BOOLEAN,
          parked : {"unset", "open", "closed"}, claimedBy : Admins \cup {Nobody},
          stale : BOOLEAN, window : {"none", "open", "over"}, deleted : BOOLEAN,
          content : Nat]]
    /\ shopDocs \in [Shops -> {"NONE", "PENDING", "APPROVED", "REJECTED"}]
    /\ purge \in [Purgers -> SUBSET Shops]

\* A store that buyers find on the map, in the sitemap or by its link, or whose
\* products they can list, has approved documents and nobody reviewing it, however
\* decisions, edits and deletions interleave ("isActive is the seller's own
\* open/closed toggle ... a store sent back for revision could self-activate",
\* store.repository.ts:128), and no pin leads to a page that does not load.
VisibleShopsAreVetted ==
    /\ \A s \in MapView \cup SitemapView \cup DetailView \cup ShelfView :
          shopDocs[s] = "APPROVED" /\ shop[s].claimedBy = Nobody
    /\ MapView \cup SitemapView \subseteq DetailView \cap ShelfView

\* "A logged transition always corresponds to one that actually landed": the
\* entries of a store form one chain that ends in its status.
HistoryIsAChain ==
    \A s \in Shops :
      shop[s].status # "NONE" => shopLog[s].gaps = 0 /\ shopLog[s].last = shop[s].status

\* "The reviewer always judges the submission they were handed"
\* (store.service.ts:370): a store under review has the content it had when the
\* review began, unless an edit checked the status before and wrote after.
ReviewedContentIsFrozen ==
    \A s \in Shops :
      shop[s].status = "UNDER_REVIEW" /\ "edit" \notin shopRaced[s]
        => shop[s].content = judged[s]

\* Re-approval restores the toggle the live store had, unless the seller
\* switched it between the read and the write of a decision.
ToggleComesBack ==
    [][\A s \in Shops :
         shop[s].status = "UNDER_REVIEW" /\ shop'[s].status = "ACTIVE"
           /\ liveToggle[s] # "unset" /\ "toggle" \notin shopRaced'[s]
         => Toggle(shop'[s].active) = liveToggle[s]]_shopVars

\* Only a rejected store is deleted; one that is reopened at the same time is
\* found deleted only when the reopening had read it before.  A deletion in the
\* audit log happened, unless the store moved on under the sweep that logged it.
DeletionsAreOfRejectedShops ==
    \A s \in Shops :
      /\ shop[s].deleted => shop[s].status = "REJECTED" \/ "reopen" \in shopRaced[s]
      /\ shopLog[s].deletions > 0 /\ "sweep" \notin shopRaced[s] => shop[s].deleted

\* A store that stays rejected is deleted: its window ends and the sweep takes it.
RejectedShopsGo ==
    \A s \in Shops :
      []<>(shop[s].deleted \/ shop[s].status # "REJECTED")

\* The review of stores as a whole: what buyers see was vetted, what reviewers judge
\* is frozen, what was logged happened, and a store comes back as it was.
ReviewIsSound ==
    /\ [](ShopTypeOK /\ VisibleShopsAreVetted /\ HistoryIsAChain
          /\ ReviewedContentIsFrozen /\ DeletionsAreOfRejectedShops)
    /\ ToggleComesBack
=============================================================================
