------------------------------- MODULE AdminAccess -------------------------------
(***************************************************************************)
(* How somebody becomes an administrator and what a role may do: invitations*)
(* (created, regenerated, validated, revoked, accepted), direct role        *)
(* changes, the permissions of a role, and the review of a seller.          *)
(*                                                                          *)
(* Each endpoint reads, decides and writes in separate statements; only the *)
(* acceptance is a transaction, and it decides before it.                   *)
(***************************************************************************)
EXTENDS Integers, FiniteSets

CONSTANTS
    Invitees,       \* email addresses
    InviteRoles,    \* INVITABLE_ADMIN_ROLES
    Grants,         \* Permissions rows
    Inviters, Revokers, Accepters,   \* concurrent requests, by endpoint
    RoleEditors, Assessors,          \*   (updateRolePermissions, seller review)
    MaxTokens,      \* bound on the invitations ever sent to one address
    None

ASSUME AccessConstants == MaxTokens \in Nat /\ None \notin InviteRoles \cup Invitees

VARIABLES
    invite,         \* AdminInvites of an address: status, token, role, expired
    roles,          \* Users.roles of an address
    grants,         \* RolePermissions
    sellerStatus,   \* Sellers.applicationStatus of one seller
    accessCall,     \* the progress of requests
    used,           \* ghost: how often each token of an address was accepted
    revokedTokens,  \* ghost: tokens of an address that were revoked or replaced
    accessRaced     \* ghost: addresses and roles whose check was overtaken

accessRows == <<invite, roles, grants, sellerStatus>>
accessGhosts == <<used, revokedTokens, accessRaced>>
accessVars == <<accessRows, accessCall, accessGhosts>>

-----------------------------------------------------------------------------
AccessCalls == Inviters \cup Revokers \cup Accepters \cup RoleEditors \cup Assessors
AccessIdle == [pc |-> "idle", key |-> None, token |-> 0, role |-> None, set |-> {}, overtaken |-> FALSE]
NoInvite == [status |-> "NONE", token |-> 0, role |-> None, expired |-> FALSE]

AccessInit ==
    /\ invite = [e \in Invitees |-> NoInvite]
    /\ roles = [e \in Invitees |-> {}]
    /\ grants = [r \in InviteRoles |-> Grants]
    /\ sellerStatus = "PENDING"
    /\ accessCall = [c \in AccessCalls |-> AccessIdle]
    /\ used = [e \in Invitees |-> [n \in 1..MaxTokens |-> 0]]
    /\ revokedTokens = [e \in Invitees |-> {}]
    /\ accessRaced = {}

\* c moves on or ends; the requests that decided on the key have been overtaken.
Overtake(c, key, next) ==
    accessCall' = [d \in AccessCalls |->
        IF d = c THEN next
        ELSE IF key # None /\ accessCall[d].key = key THEN [accessCall[d] EXCEPT !.overtaken = TRUE]
        ELSE accessCall[d]]

Waits(c, call) == accessCall' = [accessCall EXCEPT ![c] = call]

-----------------------------------------------------------------------------
(* Invitations. *)

\* createInvite: nobody is invited to a role they have ...
CreateInviteRead(c, e, role) ==
    /\ accessCall[c] = AccessIdle
    /\ role \notin roles[e]
    /\ invite[e].token < MaxTokens
    /\ Waits(c, [AccessIdle EXCEPT !.pc = "inviting", !.key = e, !.role = role])
    /\ UNCHANGED <<accessRows, accessGhosts>>

\* ... and the upsert by email replaces the token of an earlier invitation.
CreateInviteWrite(c) ==
    LET e == accessCall[c].key
    IN  /\ accessCall[c].pc = "inviting" /\ invite[e].token < MaxTokens
        /\ invite' = [invite EXCEPT ![e] = [status |-> "PENDING", token |-> @.token + 1,
                                            role |-> accessCall[c].role, expired |-> FALSE]]
        /\ revokedTokens' = [revokedTokens EXCEPT ![e] = @ \cup ({invite[e].token} \ {0})]
        /\ Overtake(c, e, AccessIdle)
        /\ UNCHANGED <<roles, grants, sellerStatus, used, accessRaced>>

\* Time passes expiresAt.
InviteExpires(e) ==
    /\ invite[e].status = "PENDING" /\ ~invite[e].expired
    /\ invite' = [invite EXCEPT ![e].expired = TRUE]
    /\ UNCHANGED <<roles, grants, sellerStatus, accessCall, accessGhosts>>

\* revokeInvite: what is accepted stays; decided on a read, written by id later.
RevokeRead(c, e) ==
    /\ accessCall[c] = AccessIdle
    /\ invite[e].status \notin {"NONE", "ACCEPTED"}
    /\ Waits(c, [AccessIdle EXCEPT !.pc = "revoking", !.key = e, !.token = invite[e].token])
    /\ UNCHANGED <<accessRows, accessGhosts>>

RevokeWrite(c) ==
    LET e == accessCall[c].key
    IN  /\ accessCall[c].pc = "revoking"
        /\ invite' = [invite EXCEPT ![e].status = "REVOKED"]
        /\ revokedTokens' = [revokedTokens EXCEPT ![e] = @ \cup {invite[e].token}]
        /\ accessRaced' = accessRaced \cup {x \in {<<"revoked", e>>} : accessCall[c].overtaken}
        /\ Overtake(c, e, AccessIdle)
        /\ UNCHANGED <<roles, grants, sellerStatus, used>>

\* Variant of Acceptable: an invitation that was revoked can still be accepted.
Acceptable_Known(e, n) == invite[e].token = n /\ invite[e].status \in {"PENDING", "REVOKED"} /\ ~invite[e].expired

\* The checks acceptInvite and validateInvite make on the invitation with the token.
Acceptable(e, n) == invite[e].token = n /\ invite[e].status = "PENDING" /\ ~invite[e].expired

\* acceptInvite up to its transaction: the password is hashed in between.
AcceptRead(c, e, n) ==
    /\ accessCall[c] = AccessIdle /\ n > 0
    /\ Acceptable(e, n)
    /\ Waits(c, [AccessIdle EXCEPT !.pc = "accepting", !.key = e, !.token = n, !.role = invite[e].role])
    /\ UNCHANGED <<accessRows, accessGhosts>>

\* validateInvite and acceptInvite find an expired one and mark it, by id, later.
ExpireRead(c, e) ==
    /\ accessCall[c] = AccessIdle
    /\ invite[e].status = "PENDING" /\ invite[e].expired
    /\ Waits(c, [AccessIdle EXCEPT !.pc = "expiring", !.key = e, !.token = invite[e].token])
    /\ UNCHANGED <<accessRows, accessGhosts>>

ExpireWrite(c) ==
    LET e == accessCall[c].key
    IN  /\ accessCall[c].pc = "expiring"
        /\ invite' = [invite EXCEPT ![e].status = "EXPIRED"]
        /\ accessRaced' = accessRaced \cup {x \in {<<"expired", e>>} : accessCall[c].overtaken}
        /\ Overtake(c, e, AccessIdle)
        /\ UNCHANGED <<roles, grants, sellerStatus, used, revokedTokens>>

\* acceptInvite's transaction: the account, its role, and the invitation by id.
AcceptCommit(c) ==
    LET e == accessCall[c].key
    IN  /\ accessCall[c].pc = "accepting"
        /\ roles' = [roles EXCEPT ![e] = @ \cup {accessCall[c].role}]
        /\ invite' = [invite EXCEPT ![e].status = "ACCEPTED"]
        /\ used' = [used EXCEPT ![e][accessCall[c].token] = @ + 1]
        /\ accessRaced' = accessRaced \cup {x \in {<<"accepted", e>>} : accessCall[c].overtaken}
        /\ Overtake(c, e, AccessIdle)
        /\ UNCHANGED <<grants, sellerStatus, revokedTokens>>

-----------------------------------------------------------------------------
(* Roles and their permissions. *)

\* assignRole, setUserRoles: an administrator changes the roles of an account.
SetUserRoles(e, names) ==
    /\ roles' = [roles EXCEPT ![e] = names]
    /\ UNCHANGED <<invite, grants, sellerStatus, accessCall, accessGhosts>>

\* updateRolePermissions deletes the rows of the role ...
ClearRolePermissions(c, r, codes) ==
    /\ accessCall[c] = AccessIdle
    /\ grants' = [grants EXCEPT ![r] = {}]
    /\ accessRaced' = accessRaced \ {<<"grants", r>>}
    /\ Overtake(c, r, [AccessIdle EXCEPT !.pc = "granting", !.key = r, !.set = codes])
    /\ UNCHANGED <<invite, roles, sellerStatus, used, revokedTokens>>

\* ... and inserts the new ones in a second statement; the primary key refuses
\* the whole insert when another request has inserted one of them meanwhile.
AssignPermissions(c) ==
    LET r == accessCall[c].key
    IN  /\ accessCall[c].pc = "granting"
        /\ grants' = [grants EXCEPT ![r] = IF @ \cap accessCall[c].set = {} THEN @ \cup accessCall[c].set ELSE @]
        /\ accessRaced' = accessRaced \cup {x \in {<<"grants", r>>} : accessCall[c].overtaken}
        /\ Overtake(c, r, AccessIdle)
        /\ UNCHANGED <<invite, roles, sellerStatus, used, revokedTokens>>

\* A request fails or its process dies between two statements.
AccessDies(c) ==
    /\ accessCall[c] # AccessIdle
    /\ Waits(c, AccessIdle)
    /\ accessRaced' = accessRaced \cup {x \in {<<"grants", accessCall[c].key>>} : accessCall[c].pc = "granting"}
    /\ UNCHANGED <<accessRows, used, revokedTokens>>

-----------------------------------------------------------------------------
(* The review of a seller. *)

\* SellerService.review, first read: whatever the status is.
ReviewRead(c, decision) ==
    /\ accessCall[c] = AccessIdle
    /\ Waits(c, [AccessIdle EXCEPT !.pc = "reviewing", !.role = decision])
    /\ UNCHANGED <<accessRows, accessGhosts>>

\* recordDecision: PENDING is part of the WHERE clause.
RecordDecision(c) ==
    /\ accessCall[c].pc = "reviewing"
    /\ sellerStatus' = IF sellerStatus = "PENDING" THEN accessCall[c].role ELSE sellerStatus
    /\ Waits(c, AccessIdle)
    /\ UNCHANGED <<invite, roles, grants, accessGhosts>>

-----------------------------------------------------------------------------
InviteNext ==
    \/ \E c \in Inviters : CreateInviteWrite(c) \/ \E e \in Invitees, r \in InviteRoles : CreateInviteRead(c, e, r)
    \/ \E c \in Revokers : RevokeWrite(c) \/ \E e \in Invitees : RevokeRead(c, e)
    \/ \E c \in Accepters :
          \/ ExpireWrite(c) \/ AcceptCommit(c)
          \/ \E e \in Invitees : ExpireRead(c, e) \/ \E n \in 1..MaxTokens : AcceptRead(c, e, n)
    \/ \E e \in Invitees : InviteExpires(e) \/ \E names \in SUBSET InviteRoles : SetUserRoles(e, names)
    \/ \E c \in Inviters \cup Revokers \cup Accepters : AccessDies(c)

GrantNext ==
    \E c \in RoleEditors :
        \/ AssignPermissions(c) \/ AccessDies(c)
        \/ \E r \in InviteRoles, codes \in SUBSET Grants : ClearRolePermissions(c, r, codes)

SellerReviewNext ==
    \E c \in Assessors :
        \/ RecordDecision(c) \/ AccessDies(c)
        \/ \E d \in {"APPROVED", "REJECTED"} : ReviewRead(c, d)

\* The three parts share no row; a run may explore them one at a time.
AccessNext == InviteNext \/ GrantNext \/ SellerReviewNext

AccessSpec == AccessInit /\ [][AccessNext]_accessVars

-----------------------------------------------------------------------------
(* Properties. *)

\* Invitations, roles and requests have the shapes the code gives them.
AccessTypeOK ==
    /\ \A e \in Invitees :
          /\ invite[e].status \in {"NONE", "PENDING", "ACCEPTED", "REVOKED", "EXPIRED"}
          /\ invite[e].status = "NONE" <=> invite[e].token = 0
          /\ roles[e] \subseteq InviteRoles
    /\ grants \in [InviteRoles -> SUBSET Grants]
    /\ sellerStatus \in {"PENDING", "APPROVED", "REJECTED"}

\* An invitation is accepted once, unless two acceptances, or an acceptance and
\* another write to it, overlapped between the read and the transaction.
AcceptedOnce ==
    \A e \in Invitees : (\E n \in 1..MaxTokens : used[e][n] > 1) => <<"accepted", e>> \in accessRaced

\* A token that was revoked or replaced grants nothing any more, unless its
\* acceptance had passed the check before (acceptInvite, hashPassword in between).
RevokedGrantsNothing ==
    [][\A e \in Invitees, n \in 1..MaxTokens :
          used'[e][n] > used[e][n] /\ n \in revokedTokens[e]
              => \E c \in Accepters : accessCall[c].key = e /\ accessCall[c].overtaken]_accessVars

\* An accepted invitation is final until the address is invited anew, except for
\* a revocation or an expiry that decided before the acceptance.
AcceptanceIsFinal ==
    [][\A e \in Invitees :
          invite[e].status = "ACCEPTED" /\ invite'[e] # invite[e]
              => invite'[e].token > invite[e].token
                 \/ \E c \in AccessCalls : accessCall[c].key = e /\ accessCall[c].overtaken]_accessVars

\* The permissions of a role are a list an administrator asked for, unless the
\* two statements were interrupted or interleaved with another update's: when no
\* update is under way nothing of an older list is left (updateRolePermissions).
GrantsAreTheLastList ==
    [][\A c \in RoleEditors :
          AssignPermissions(c) /\ ~accessCall[c].overtaken
              => grants'[accessCall[c].key] = accessCall[c].set]_accessVars

\* A seller's application is decided once, by the first of concurrent reviews.
DecidedOnce == [][sellerStatus # "PENDING" => sellerStatus' = sellerStatus]_accessVars

\* Administrators, roles and sellers are admitted by a decision that still stood.
GrantsAreIntended ==
    /\ [](AccessTypeOK /\ AcceptedOnce)
    /\ RevokedGrantsNothing /\ AcceptanceIsFinal /\ GrantsAreTheLastList /\ DecidedOnce
=============================================================================
