--------------------------- MODULE SellerOrganization ---------------------------
(***************************************************************************)
(* A seller's organization: who belongs to it, which stores and features a  *)
(* member reaches, and the pruning of the assignment lists when a store is  *)
(* deleted.                                                                *)
(*                                                                          *)
(* A request authenticates (its organization context is a snapshot), then   *)
(* reads what it is to change, then writes; the three are separate steps.   *)
(***************************************************************************)
EXTENDS Integers, FiniteSets

CONSTANTS
    Orgs,           \* Sellers rows: the seller is the organization
    People,         \* users
    OrgStores,      \* Stores rows
    OwnerOf,        \* Sellers.userId
    StoreOrg,       \* Stores.sellerId
    Features,       \* SELLER_FEATURES
    ManagerDefault, \* DEFAULT_PERMISSIONS_BY_ROLE of a manager
    MemberDefault,  \*   and of a plain member
    Newcomers,      \* people without an account at first
    OrgRequests,    \* member-management requests
    Hires, Patches, \* the bodies of create and update requests: role, stores, permissions
    Unset           \* a field the caller left out

OrgRoles == {"SELLER_ADMIN", "SELLER_MANAGER", "SELLER_MEMBER"}

\* The schemas of the routes: a hire names its role and stores, a patch what it likes.
ASSUME OrgConstants ==
    /\ OwnerOf \in [Orgs -> People \ Newcomers]
    /\ StoreOrg \in [OrgStores -> Orgs]
    /\ ManagerDefault \subseteq Features /\ MemberDefault \subseteq Features
    /\ Unset \notin Orgs \cup People \cup OrgRoles
    /\ \A list \in SUBSET Features : list # Unset
    /\ \A h \in Hires : /\ h.role \in OrgRoles /\ h.stores \subseteq OrgStores
                        /\ h.permissions \in {Unset} \cup SUBSET Features
    /\ \A p \in Patches : /\ p.role \in {Unset} \cup OrgRoles
                          /\ p.stores \in {Unset} \cup SUBSET OrgStores
                          /\ p.permissions \in {Unset} \cup SUBSET Features

VARIABLES
    member,         \* SellerOrganizationMembers
    accounts,       \* users that exist
    gone,           \* Stores.deletedAt is set
    orgCall,        \* the progress of member-management requests
    prune,          \* afterStoreRemoved of a store: the lists it has read
    mixed           \* ghost: rows written from a read another write had overtaken

orgRows == <<member, accounts, gone>>
orgVars == <<orgRows, orgCall, prune, mixed>>

-----------------------------------------------------------------------------
NoMember == [role |-> "NONE", permissions |-> {}, stores |-> {}]
OrgIdle == [pc |-> "idle", org |-> Unset, actor |-> Unset, target |-> Unset, role |-> Unset,
            stores |-> Unset, permissions |-> Unset, overtaken |-> FALSE, lost |-> FALSE]
NoPrune == [pc |-> "none", lists |-> [u \in People |-> {}], overtaken |-> {}]

\* normalizePermissions
NormalizePermissions(role, requested) ==
    IF role = "SELLER_ADMIN" THEN {}
    ELSE IF requested # Unset THEN requested
    ELSE IF role = "SELLER_MANAGER" THEN ManagerDefault ELSE MemberDefault

\* Variant of OrgContexts: the features of every membership, whichever is chosen.
OrgContexts_AnyFeature(u) ==
    LET joined == {o \in Orgs : member[o][u].role # "NONE"}
    IN  {[org |-> o, admin |-> member[o][u].role = "SELLER_ADMIN", stores |-> member[o][u].stores,
          features |-> UNION {member[p][u].permissions : p \in joined}] : o \in joined}

\* resolveOrgContext and buildContext: an administrator's membership outranks the
\* others; which one of several equals comes first is the database's choice.
OrgContexts(u) ==
    LET joined == {o \in Orgs : member[o][u].role # "NONE"}
        administered == {o \in joined : member[o][u].role = "SELLER_ADMIN"}
        chosenFrom == IF administered # {} THEN administered ELSE joined
        owned == {o \in Orgs : OwnerOf[o] = u}
        admin(o) == joined = {} \/ o \in administered
    IN  {[org |-> o, admin |-> admin(o), stores |-> member[o][u].stores,
          features |-> IF admin(o) THEN Features ELSE member[o][u].permissions] :
            o \in IF joined # {} THEN chosenFrom ELSE owned}

\* storeScopeWhere
StoreScope(ctx) ==
    {s \in OrgStores : /\ StoreOrg[s] = ctx.org
                       /\ ~gone[s]
                       /\ ctx.admin \/ s \in ctx.stores}

\* resolveAccessibleStoreIds: the scope and the stores of the caller's own seller row.
Accessible(u, ctx) ==
    StoreScope(ctx) \cup {s \in OrgStores : OwnerOf[StoreOrg[s]] = u /\ ~gone[s]}

\* requireStoreInScope, on the store that extractStoreId finds in the request
RouteScope(ctx) ==
    {s \in OrgStores : ~gone[s] /\ StoreOrg[s] = ctx.org /\ (ctx.admin \/ s \in ctx.stores)}

\* ProductService.assertStoreInOrgScope reads the store whether it is deleted or not.
ProductScope(ctx) ==
    {s \in OrgStores : StoreOrg[s] = ctx.org /\ (ctx.admin \/ s \in ctx.stores)}

\* requireSellerFeature: an administrator holds every feature. (The legacy owner of
\* its comment is one: a seller's own row is an organization to resolveOrgContext.)
MayUse(ctx, feature) == ctx.admin \/ feature \in ctx.features

\* assertStoresInOrg: deleted stores pass.
StoresInOrg(o, ids) == \A s \in ids : StoreOrg[s] = o

OrgInit ==
    /\ member = [o \in Orgs |-> [u \in People |->
          IF u = OwnerOf[o] THEN [NoMember EXCEPT !.role = "SELLER_ADMIN"] ELSE NoMember]]
    /\ accounts = People \ Newcomers
    /\ gone = [s \in OrgStores |-> FALSE]
    /\ orgCall = [c \in OrgRequests |-> OrgIdle]
    /\ prune = [s \in OrgStores |-> NoPrune]
    /\ mixed = {}

EndOrgCall(c) == orgCall' = [orgCall EXCEPT ![c] = OrgIdle]

\* The writes of a row that others have read: their reads are overtaken, or,
\* when the row is deleted, the id they hold is lost.
AfterWrite(c, o, u, deleted) ==
    /\ orgCall' = [d \in OrgRequests |->
          IF d = c THEN OrgIdle
          ELSE IF orgCall[d].org = o /\ orgCall[d].target = u
               THEN [orgCall[d] EXCEPT !.overtaken = TRUE, !.lost = @ \/ deleted]
               ELSE orgCall[d]]
    /\ prune' = [s \in OrgStores |->
          IF prune[s].pc = "writing" /\ StoreOrg[s] = o
          THEN [prune[s] EXCEPT !.overtaken = @ \cup {u},
                                !.lists[u] = IF deleted THEN {} ELSE @]
          ELSE prune[s]]

-----------------------------------------------------------------------------
(* Member management. *)

\* requireSellerOrg and requireSellerOrgAdmin, on the user as authenticate read it
Admit(c, u) ==
    /\ orgCall[c] = OrgIdle /\ u \in accounts
    /\ \E ctx \in OrgContexts(u) :
          /\ ctx.admin
          /\ orgCall' = [orgCall EXCEPT ![c] = [OrgIdle EXCEPT !.pc = "admitted", !.org = ctx.org,
                                                               !.actor = u]]
    /\ UNCHANGED <<orgRows, prune, mixed>>

\* createMember up to its insert, and createStaffAccount up to its transaction: the
\* first is for a user with an account, the second for an address without one.
CreateMemberRead(c, t, role, stores, permissions) ==
    LET o == orgCall[c].org
        kept == IF role = "SELLER_ADMIN" THEN {} ELSE stores
    IN  /\ orgCall[c].pc = "admitted"
        /\ member[o][t].role = "NONE"
        /\ StoresInOrg(o, kept)
        /\ orgCall' = [orgCall EXCEPT ![c].pc = IF t \in accounts THEN "adding" ELSE "hiring",
                          ![c].target = t, ![c].role = role, ![c].stores = kept,
                          ![c].permissions = NormalizePermissions(role, permissions)]
        /\ UNCHANGED <<orgRows, prune, mixed>>

\* The insert: the unique key (sellerId, userId), or users.email, refuses a second one.
CreateMemberWrite(c) ==
    LET o == orgCall[c].org
        t == orgCall[c].target
    IN  /\ orgCall[c].pc \in {"adding", "hiring"}
        /\ IF member[o][t].role = "NONE" /\ (orgCall[c].pc = "hiring" => t \notin accounts)
           THEN /\ member' = [member EXCEPT ![o][t] =
                      [role |-> orgCall[c].role, permissions |-> orgCall[c].permissions,
                       stores |-> orgCall[c].stores]]
                /\ accounts' = accounts \cup {t}
                /\ mixed' = mixed \ {<<o, t>>}
           ELSE UNCHANGED <<member, accounts, mixed>>
        /\ EndOrgCall(c)
        /\ UNCHANGED <<gone, prune>>

\* loadManagedMember
Managed(o, t) == member[o][t].role # "NONE" /\ OwnerOf[o] # t

\* updateMember up to its write: what it writes depends on the role it read.
UpdateMemberRead(c, t, role, stores, permissions) ==
    LET o == orgCall[c].org
        current == member[o][t].role
        kept == IF role = "SELLER_ADMIN" THEN {} ELSE stores
        roleChanged == role # Unset /\ role # current
    IN  /\ orgCall[c].pc = "admitted"
        /\ Managed(o, t)
        /\ kept # Unset => StoresInOrg(o, kept)
        /\ orgCall' = [orgCall EXCEPT ![c].pc = "updating", ![c].target = t, ![c].role = role,
                          ![c].stores = kept,
                          ![c].permissions =
                             IF permissions # Unset \/ roleChanged
                             THEN NormalizePermissions(IF role = Unset THEN current ELSE role, permissions)
                             ELSE Unset]
        /\ UNCHANGED <<orgRows, prune, mixed>>

\* OrganizationRepository.updateMember: only the fields that are given.
Patched(row, call) ==
    [role |-> IF call.role = Unset THEN row.role ELSE call.role,
     permissions |-> IF call.permissions = Unset THEN row.permissions ELSE call.permissions,
     stores |-> IF call.stores = Unset THEN row.stores ELSE call.stores]

UpdateMemberWrite(c) ==
    LET o == orgCall[c].org
        t == orgCall[c].target
    IN  /\ orgCall[c].pc = "updating"
        /\ IF orgCall[c].lost
           THEN EndOrgCall(c) /\ UNCHANGED <<member, prune, mixed>>
           ELSE /\ member' = [member EXCEPT ![o][t] = Patched(@, orgCall[c])]
                /\ mixed' = mixed \cup {x \in {<<o, t>>} : orgCall[c].overtaken}
                /\ AfterWrite(c, o, t, FALSE)
        /\ UNCHANGED <<accounts, gone>>

\* deleteMember: not the owner and not the caller.
DeleteMemberRead(c, t) ==
    /\ orgCall[c].pc = "admitted"
    /\ Managed(orgCall[c].org, t) /\ t # orgCall[c].actor
    /\ orgCall' = [orgCall EXCEPT ![c].pc = "deleting", ![c].target = t]
    /\ UNCHANGED <<orgRows, prune, mixed>>

DeleteMemberWrite(c) ==
    LET o == orgCall[c].org
        t == orgCall[c].target
    IN  /\ orgCall[c].pc = "deleting"
        /\ IF orgCall[c].lost
           THEN EndOrgCall(c) /\ UNCHANGED <<member, prune, mixed>>
           ELSE /\ member' = [member EXCEPT ![o][t] = NoMember]
                /\ mixed' = mixed \ {<<o, t>>}
                /\ AfterWrite(c, o, t, TRUE)
        /\ UNCHANGED <<accounts, gone>>

\* A check refuses the request, the database fails it, or its process dies.
OrgRequestEnds(c) ==
    /\ orgCall[c] # OrgIdle
    /\ EndOrgCall(c)
    /\ UNCHANGED <<orgRows, prune, mixed>>

-----------------------------------------------------------------------------
(* The deletion of a store, and what it leaves to clean up. *)

StoreDeleted(s) ==
    /\ ~gone[s]
    /\ gone' = [gone EXCEPT ![s] = TRUE]
    /\ prune' = [prune EXCEPT ![s].pc = "due"]
    /\ UNCHANGED <<member, accounts, orgCall, mixed>>

\* afterStoreRemoved reads the lists that name the store ...
PruneRead(s) ==
    /\ prune[s].pc = "due"
    /\ prune' = [prune EXCEPT ![s] =
          [pc |-> "writing", overtaken |-> {},
           lists |-> [u \in People |-> {x \in member[StoreOrg[s]][u].stores :
                                           s \in member[StoreOrg[s]][u].stores}]]]
    /\ UNCHANGED <<orgRows, orgCall, mixed>>

\* ... and writes each one back without the store, from what it read, which
\* overtakes the pruning of another store of that organization.
PruneWrite(s, u) ==
    /\ prune[s].pc = "writing" /\ prune[s].lists[u] # {}
    /\ member' = [member EXCEPT ![StoreOrg[s]][u].stores = prune[s].lists[u] \ {s}]
    /\ mixed' = mixed \cup {x \in {<<StoreOrg[s], u>>} : u \in prune[s].overtaken}
    /\ prune' = [t \in OrgStores |->
          IF t = s THEN [prune[s] EXCEPT !.lists[u] = {}]
          ELSE IF prune[t].pc = "writing" /\ StoreOrg[t] = StoreOrg[s]
               THEN [prune[t] EXCEPT !.overtaken = @ \cup {u}]
               ELSE prune[t]]
    /\ UNCHANGED <<accounts, gone, orgCall>>

\* The rest is left: everything is written, or the database failed and it is logged.
PruneEnds(s) ==
    /\ prune[s].pc \in {"due", "writing"}
    /\ prune' = [prune EXCEPT ![s] = NoPrune]
    /\ UNCHANGED <<orgRows, orgCall, mixed>>

-----------------------------------------------------------------------------
OrgRequestStep(c, hires) ==
    \/ \E u \in People : Admit(c, u)
    \/ \E t \in People, h \in hires : CreateMemberRead(c, t, h.role, h.stores, h.permissions)
    \/ CreateMemberWrite(c)
    \/ \E t \in People, p \in Patches : UpdateMemberRead(c, t, p.role, p.stores, p.permissions)
    \/ UpdateMemberWrite(c)
    \/ \E t \in People : DeleteMemberRead(c, t)
    \/ DeleteMemberWrite(c) \/ OrgRequestEnds(c)

StoreRemovalStep(s) ==
    \/ StoreDeleted(s) \/ PruneRead(s) \/ PruneEnds(s)
    \/ \E u \in People : PruneWrite(s, u)

OrgStep(requests, hires, stores) ==
    \/ \E c \in requests : OrgRequestStep(c, hires)
    \/ \E s \in stores : StoreRemovalStep(s)

OrgNext == OrgStep(OrgRequests, Hires, OrgStores)

OrgSpec == OrgInit /\ [][OrgNext]_orgVars

-----------------------------------------------------------------------------
(* Properties. *)

\* Rows, snapshots and requests have the shapes the code gives them.
OrgTypeOK ==
    /\ \A o \in Orgs, u \in People :
          /\ member[o][u].role \in OrgRoles \cup {"NONE"}
          /\ member[o][u].permissions \subseteq Features
          /\ member[o][u].stores \subseteq OrgStores
          /\ member[o][u].role # "NONE" => u \in accounts
    /\ \A s \in OrgStores : prune[s].pc # "none" => gone[s]

\* The owner of an organization administers it whatever its members do to each
\* other concurrently (loadManagedMember, createMember's key).
OwnerKeepsTheOrganization ==
    \A o \in Orgs : member[o][OwnerOf[o]].role = "SELLER_ADMIN"

\* No request reaches a store of an organization its caller neither joined nor
\* owns, by any of the three ways the code scopes one, nor a deleted store but for
\* the product routes, although assignment lists are not kept in step with deletions
\* and hold whatever an update wrote (storeScopeWhere, requireStoreInScope).
NoStoreOutsideTheScope ==
    \A u \in People : \A ctx \in OrgContexts(u) :
        /\ \A s \in Accessible(u, ctx) \cup RouteScope(ctx) : ~gone[s]
        /\ \A s \in Accessible(u, ctx) \cup RouteScope(ctx) \cup ProductScope(ctx) :
              OwnerOf[StoreOrg[s]] = u \/ member[StoreOrg[s]][u].role # "NONE"

\* A feature is used on a store by who holds it there: the store's owner, or its
\* organization's administrator or a member whose own row has it. A person who works
\* for two sellers does not carry the one's features into the other's stores
\* (requireSellerFeature looks at one membership, the scope of stores at another query).
FeaturesFollowTheStore ==
    \A u \in People : \A ctx \in OrgContexts(u), f \in Features :
        MayUse(ctx, f) => \A s \in Accessible(u, ctx) :
            \/ OwnerOf[StoreOrg[s]] = u
            \/ member[StoreOrg[s]][u].role = "SELLER_ADMIN"
            \/ f \in member[StoreOrg[s]][u].permissions

\* Assignment lists never name another seller's store (assertStoresInOrg), through
\* every overlap of updates, inserts and prunings.
AssignmentsStayInside ==
    \A o \in Orgs, u \in People : \A s \in member[o][u].stores : StoreOrg[s] = o

\* An administrator's row carries no list of features, which would come back to
\* life on demotion, unless it was written from an overtaken read. (Stores it may
\* carry: an update without a role assigns them to an administrator as well.)
AdministratorsHoldNoList ==
    \A o \in Orgs, u \in People :
        member[o][u].role = "SELLER_ADMIN" /\ <<o, u>> \notin mixed
            => member[o][u].permissions = {}

\* Pruning a deleted store takes no other store from a member, unless the list
\* was changed after the pruning had read it (afterStoreRemoved).
PruningTakesOnlyTheDeleted ==
    [][\A s \in OrgStores, u \in People :
          (PruneWrite(s, u) /\ u \notin prune[s].overtaken)
              => member'[StoreOrg[s]][u].stores = member[StoreOrg[s]][u].stores \ {s}]_orgVars

\* Staff reach what their seller gave them, and the owner keeps the organization.
StaffStayInside ==
    /\ [](OrgTypeOK /\ OwnerKeepsTheOrganization /\ NoStoreOutsideTheScope
          /\ FeaturesFollowTheStore /\ AssignmentsStayInside /\ AdministratorsHoldNoList)
    /\ PruningTakesOnlyTheDeleted
=============================================================================
