------------------------------ MODULE AuthSessions ------------------------------
(***************************************************************************)
(* Accounts, sign-in, sessions and password resets.                         *)
(*                                                                          *)
(* Only a registration and a completed reset run in a transaction; every    *)
(* other operation is a chain of separate statements, each a step here.     *)
(* Passwords are values, so hashing keeps who knows what and whether a hash *)
(* is of the legacy kind.  An address has one spelling.  The user: cache    *)
(* entries the services write are never read and are left out.              *)
(*                                                                          *)
(* No step is fair: a request that stops half-way is one whose process died.*)
(***************************************************************************)
EXTENDS Integers, FiniteSets, Sequences

CONSTANTS
    Addresses,      \* email addresses, each the id of the user row that has it
    OldPasswords,   \* passwords of accounts that predate Better Auth
    NewPasswords,   \* passwords users choose now
    Providers,      \* google, facebook
    Registrants,    \* register requests
    SignIns,        \* email and social sign-in requests, each the session it makes
    Issuers,        \* forgot-password requests, each the code it issues
    Resetters,      \* reset-password requests
    MaxAttempts,    \* MAX_RESET_ATTEMPTS
    MaxUnderWay,    \* bound on the requests under way at once
    NoPassword,
    NoOne

ASSUME AuthConstants ==
    /\ IsFiniteSet(Registrants) /\ IsFiniteSet(SignIns)
    /\ IsFiniteSet(Issuers) /\ IsFiniteSet(Resetters)
    /\ MaxAttempts \in Nat \ {0} /\ MaxUnderWay \in Nat
    /\ NoPassword \notin OldPasswords \cup NewPasswords /\ NoOne \notin Addresses

VARIABLES
    authUser,       \* Users row with its credential AuthAccount
    linked,         \* provider AuthAccounts of a user
    sessions,       \* AuthSession rows
    codes,          \* PasswordResetTokens of a user, in order of creation
    photos,         \* ID photos in the object store, by registration
    photoRows,      \* BuyerIdVerifications rows, by registration
    authCall,       \* the progress of every request
    resets,         \* ghost: completed resets of a user
    chosen,         \* ghost: the password registration or a reset set last
    issuesRaced,    \* ghost: users with two code requests under way at once
    rehashRaced     \* ghost: users reset while a sign-in was about to rehash

storedVars == <<authUser, linked, sessions, codes, photos, photoRows>>
ghostVars  == <<resets, chosen, issuesRaced, rehashRaced>>
authVars   == <<storedVars, authCall, ghostVars>>

-----------------------------------------------------------------------------
Passwords == OldPasswords \cup NewPasswords

AuthRequests == Registrants \cup SignIns \cup Issuers \cup Resetters

AuthIdle == [pc |-> "idle", user |-> NoOne, password |-> NoPassword, code |-> 0]

Go(c, pc) == authCall' = [authCall EXCEPT ![c].pc = pc]

Start(c, pc, u, pw, k) ==
    /\ authCall[c].pc = "idle"
    /\ Cardinality({d \in AuthRequests : authCall[d].pc \notin {"idle", "done"}}) < MaxUnderWay
    /\ authCall' = [authCall EXCEPT ![c] = [pc |-> pc, user |-> u, password |-> pw, code |-> k]]

\* A request is answered, or fails, and is not made again.
Answer(c) == authCall' = [authCall EXCEPT ![c] = [AuthIdle EXCEPT !.pc = "done"]]

\* findUserByEmail and findUserById see ACTIVE accounts only.
FindUser(u) == authUser[u].status = "ACTIVE"

SessionsOf(u) == {s \in sessions : s.user = u}

AuthInit ==
    /\ authUser \in [Addresses ->
         {[status |-> "NONE", password |-> NoPassword, legacy |-> FALSE]} \cup
         [status : {"ACTIVE"}, password : OldPasswords, legacy : {TRUE}]]
    /\ linked = [u \in Addresses |-> {}]
    /\ sessions = {}
    /\ codes = [u \in Addresses |-> << >>]
    /\ photos = {} /\ photoRows = {}
    /\ authCall = [c \in AuthRequests |-> AuthIdle]
    /\ resets = [u \in Addresses |-> 0]
    /\ chosen = [u \in Addresses |-> authUser[u].password]
    /\ issuesRaced = {} /\ rehashRaced = {}

-----------------------------------------------------------------------------
(* Registration. *)

\* The address is checked and the ID photo stored before the transaction.
RegisterRead(c, u, pw) ==
    /\ ~FindUser(u)
    /\ Start(c, "registering", u, pw, 0)
    /\ photos' = photos \cup {c}
    /\ UNCHANGED <<authUser, linked, sessions, codes, photoRows, ghostVars>>

\* AgentService.registerSeller: no photo, a temporary password.
AgentRegister(c, u, pw) ==
    /\ ~FindUser(u)
    /\ Start(c, "registering", u, pw, 0)
    /\ UNCHANGED <<storedVars, ghostVars>>

\* The transaction: user, credential account, profile and photo row, or a
\* violation of the unique address and nothing.
RegisterWrite(c) ==
    LET u == authCall[c].user
        pw == authCall[c].password
    IN  /\ authCall[c].pc = "registering"
        /\ IF authUser[u].status = "NONE"
             THEN /\ authUser' = [authUser EXCEPT ![u] =
                       [status |-> "ACTIVE", password |-> pw, legacy |-> FALSE]]
                  /\ photoRows' = photoRows \cup ({c} \cap photos)
                  /\ chosen' = [chosen EXCEPT ![u] = pw]
                  /\ Answer(c)
             ELSE /\ Go(c, "undoing")
                  /\ UNCHANGED <<authUser, photoRows, chosen>>
        /\ UNCHANGED <<linked, sessions, codes, photos, resets, issuesRaced, rehashRaced>>

\* The catch block deletes the photo of a registration that failed.
RegisterUndo(c) ==
    /\ authCall[c].pc = "undoing"
    /\ photos' = photos \ {c}
    /\ Answer(c)
    /\ UNCHANGED <<authUser, linked, sessions, codes, photoRows, ghostVars>>

-----------------------------------------------------------------------------
(* Sign-in. *)

\* Better Auth verifies the password; the session hook reads accountStatus.
SignInVerify(c, u, pw) ==
    /\ authUser[u].password = pw
    /\ FindUser(u)
    /\ Start(c, "verified", u, pw, 0)
    /\ UNCHANGED <<storedVars, ghostVars>>

\* findOrCreateSocialBuyer: an account is found, or one without a password is
\* created; the unique address refuses a second one.
SocialFind(c, u) ==
    /\ Start(c, IF FindUser(u) THEN "linking" ELSE "creating", u, NoPassword, 0)
    /\ UNCHANGED <<storedVars, ghostVars>>

SocialCreate(c) ==
    LET u == authCall[c].user
    IN  /\ authCall[c].pc = "creating"
        /\ IF authUser[u].status = "NONE"
             THEN /\ authUser' = [authUser EXCEPT ![u].status = "ACTIVE"]
                  /\ Go(c, "linking")
             ELSE Answer(c) /\ UNCHANGED authUser
        /\ UNCHANGED <<linked, sessions, codes, photos, photoRows, ghostVars>>

\* completeSocialLogin: the identity is linked, then the session hook decides.
SocialLink(c, p) ==
    LET u == authCall[c].user
    IN  /\ authCall[c].pc = "linking"
        /\ linked' = [linked EXCEPT ![u] = @ \cup {p}]
        /\ IF FindUser(u) THEN Go(c, "verified") ELSE Answer(c)
        /\ UNCHANGED <<authUser, sessions, codes, photos, photoRows, ghostVars>>

SessionCreate(c) ==
    LET u == authCall[c].user
    IN  /\ authCall[c].pc = "verified"
        /\ sessions' = sessions \cup {[id |-> c, user |-> u, resets |-> resets[u]]}
        /\ Go(c, "created")
        /\ UNCHANGED <<authUser, linked, codes, photos, photoRows, ghostVars>>

\* The after hook: single active device.
EndOtherSessions(c) ==
    /\ authCall[c].pc = "created"
    /\ sessions' = {s \in sessions : s.user = authCall[c].user => s.id = c}
    /\ IF authCall[c].password = NoPassword THEN Answer(c) ELSE Go(c, "signedIn")
    /\ UNCHANGED <<authUser, linked, codes, photos, photoRows, ghostVars>>

\* The sign-in hook re-hashes a legacy password: it reads the account ...
RehashRead(c) ==
    /\ authCall[c].pc = "signedIn"
    /\ IF authUser[authCall[c].user].legacy THEN Go(c, "rehashing") ELSE Answer(c)
    /\ UNCHANGED <<storedVars, ghostVars>>

\* ... and later writes the hash of the password that was typed.
RehashWrite(c) ==
    /\ authCall[c].pc = "rehashing"
    /\ authUser' = [authUser EXCEPT ![authCall[c].user] =
          [@ EXCEPT !.password = authCall[c].password, !.legacy = FALSE]]
    /\ Answer(c)
    /\ UNCHANGED <<linked, sessions, codes, photos, photoRows, ghostVars>>

\* authenticate: a live session, then an ACTIVE account.
ResolveBearer(s) == s \in sessions /\ FindUser(s.user)

Logout(s) ==
    /\ ResolveBearer(s)
    /\ sessions' = sessions \ SessionsOf(s.user)
    /\ UNCHANGED <<authUser, linked, codes, photos, photoRows, authCall, ghostVars>>

-----------------------------------------------------------------------------
(* Password reset. *)

Live(k) == k.state = "LIVE"

\* requestPasswordReset, then storeResetCode retires what is outstanding ...
IssueRetire(c, u) ==
    /\ FindUser(u)
    /\ Start(c, "retired", u, NoPassword, 0)
    /\ codes' = [codes EXCEPT ![u] = [i \in DOMAIN @ |->
          IF Live(@[i]) THEN [@[i] EXCEPT !.state = "CONSUMED"] ELSE @[i]]]
    /\ issuesRaced' = issuesRaced \cup
         {v \in {u} : \E d \in Issuers : authCall[d].pc = "retired" /\ authCall[d].user = v}
    /\ UNCHANGED <<authUser, linked, sessions, photos, photoRows, resets, chosen, rehashRaced>>

\* ... and in a second statement stores the new code.
IssueStore(c) ==
    LET u == authCall[c].user
    IN  /\ authCall[c].pc = "retired"
        /\ codes' = [codes EXCEPT ![u] =
              Append(@, [code |-> c, state |-> "LIVE", attempts |-> 0])]
        /\ Answer(c)
        /\ UNCHANGED <<authUser, linked, sessions, photos, photoRows, ghostVars>>

CodeLapses(u, i) ==
    /\ Live(codes[u][i])
    /\ codes' = [codes EXCEPT ![u][i].state = "LAPSED"]
    /\ UNCHANGED <<authUser, linked, sessions, photos, photoRows, authCall, ghostVars>>

LiveCodes(u) == {i \in DOMAIN codes[u] : Live(codes[u][i])}

\* What resetPassword decides from the newest live code it read.
Verdict(k, guess) ==
    IF k.attempts >= MaxAttempts THEN "burning"
    ELSE IF k.code # guess THEN "missing" ELSE "hashing"

ResetRead(c, u, guess, pw) ==
    /\ FindUser(u)
    /\ LiveCodes(u) # {}
    /\ LET i == CHOOSE n \in LiveCodes(u) : \A m \in LiveCodes(u) : m <= n
       IN  Start(c, Verdict(codes[u][i], guess), u, pw, i)
    /\ UNCHANGED <<storedVars, ghostVars>>

\* A code that was guessed too often is consumed; a wrong guess is counted.
ResetRefuse(c) ==
    LET u == authCall[c].user
        i == authCall[c].code
    IN  /\ authCall[c].pc \in {"burning", "missing"}
        /\ codes' = IF authCall[c].pc = "burning"
                      THEN [codes EXCEPT ![u][i].state = "CONSUMED"]
                      ELSE [codes EXCEPT ![u][i].attempts = @ + 1]
        /\ authCall' = [authCall EXCEPT ![c] = AuthIdle]
        /\ UNCHANGED <<authUser, linked, sessions, photos, photoRows, ghostVars>>

\* Variant of ResetCommit: the sessions are left to expire.
ResetCommit_KeepSessions(c) ==
    LET u == authCall[c].user
    IN  /\ authCall[c].pc = "hashing"
        /\ codes' = [codes EXCEPT ![u][authCall[c].code].state = "CONSUMED"]
        /\ authUser' = [authUser EXCEPT ![u] =
              [@ EXCEPT !.password = authCall[c].password, !.legacy = FALSE]]
        /\ resets' = [resets EXCEPT ![u] = @ + 1]
        /\ chosen' = [chosen EXCEPT ![u] = authCall[c].password]
        /\ Answer(c)
        /\ UNCHANGED <<linked, sessions, photos, photoRows, issuesRaced, rehashRaced>>

\* The transaction: code consumed, password set, every session ended.
ResetCommit(c) ==
    LET u == authCall[c].user
    IN  /\ authCall[c].pc = "hashing"
        /\ codes' = [codes EXCEPT ![u][authCall[c].code].state = "CONSUMED"]
        /\ authUser' = [authUser EXCEPT ![u] =
              [@ EXCEPT !.password = authCall[c].password, !.legacy = FALSE]]
        /\ sessions' = sessions \ SessionsOf(u)
        /\ resets' = [resets EXCEPT ![u] = @ + 1]
        /\ chosen' = [chosen EXCEPT ![u] = authCall[c].password]
        /\ rehashRaced' = rehashRaced \cup
             {v \in {u} : \E d \in SignIns : authCall[d].pc = "rehashing" /\ authCall[d].user = v}
        /\ Answer(c)
        /\ UNCHANGED <<linked, photos, photoRows, issuesRaced>>

-----------------------------------------------------------------------------
(* The environment. *)

\* An account is blocked by hand in the database.
BlockAccount(u) ==
    /\ FindUser(u)
    /\ authUser' = [authUser EXCEPT ![u].status = "BLOCKED"]
    /\ UNCHANGED <<linked, sessions, codes, photos, photoRows, authCall, ghostVars>>

AuthStep(registrants, signIns, issuers) ==
    \/ \E c \in registrants, u \in Addresses, pw \in NewPasswords :
          RegisterRead(c, u, pw) \/ AgentRegister(c, u, pw)
    \/ \E c \in registrants : RegisterWrite(c) \/ RegisterUndo(c)
    \/ \E c \in signIns, u \in Addresses, pw \in Passwords : SignInVerify(c, u, pw)
    \/ \E c \in signIns, u \in Addresses : SocialFind(c, u)
    \/ \E c \in signIns, p \in Providers : SocialLink(c, p)
    \/ \E c \in signIns :
          SocialCreate(c) \/ SessionCreate(c) \/ EndOtherSessions(c)
            \/ RehashRead(c) \/ RehashWrite(c)
    \/ \E s \in sessions : Logout(s)
    \/ \E c \in issuers, u \in Addresses : IssueRetire(c, u)
    \/ \E c \in issuers : IssueStore(c)
    \/ \E u \in Addresses : \E i \in DOMAIN codes[u] : CodeLapses(u, i)
    \/ \E c \in Resetters, u \in Addresses, guess \in Issuers \cup {NoOne}, pw \in NewPasswords :
          ResetRead(c, u, guess, pw)
    \/ \E c \in Resetters : ResetRefuse(c) \/ ResetCommit(c)
    \/ \E u \in Addresses : BlockAccount(u)

AuthNext == AuthStep(Registrants, SignIns, Issuers)

AuthSpec == AuthInit /\ [][AuthNext]_authVars

-----------------------------------------------------------------------------
(* Properties. *)

\* Every variable keeps its type through every operation of auth.service.
AuthTypeOK ==
    /\ authUser \in [Addresses -> [status : {"NONE", "ACTIVE", "BLOCKED"},
                                   password : Passwords \cup {NoPassword},
                                   legacy : BOOLEAN]]
    /\ linked \in [Addresses -> SUBSET Providers]
    /\ sessions \subseteq [id : SignIns, user : Addresses, resets : Nat]
    /\ \A u \in Addresses : codes[u] \in
         Seq([code : Issuers, state : {"LIVE", "CONSUMED", "LAPSED"}, attempts : Nat])
    /\ photos \subseteq Registrants /\ photoRows \subseteq Registrants
    /\ resets \in [Addresses -> Nat]

\* "Under the single-active-device rule a user has at most one session"
\* (auth.service.ts:758): beyond one, there are only as many sessions as there
\* are sign-ins that made theirs and have not ended the others.
SingleActiveDevice ==
    \A u \in Addresses :
      Cardinality(SessionsOf(u)) <= 1 + Cardinality(
        {c \in SignIns : authCall[c].user = u /\ authCall[c].pc = "created"})

\* No session that was open when a password reset completed survives it,
\* whatever sign-ins run beside the reset.
ResetEndsOlderSessions == \A s \in sessions : s.resets = resets[s.user]

\* The stored password is the one registration or the last reset chose; only a
\* sign-in that read a legacy hash before the reset can put the old one back.
PasswordIsTheChosenOne ==
    \A u \in Addresses \ rehashRaced : authUser[u].password = chosen[u]

\* Asking again leaves one usable code, unless two requests were under way at once.
OneLiveCode == \A u \in Addresses \ issuesRaced : Cardinality(LiveCodes(u)) <= 1

\* The guesses at one code are bounded: every resetPassword request under way
\* can add one to the limit, no more.
GuessBudget ==
    \A u \in Addresses : \A i \in DOMAIN codes[u] :
      codes[u][i].attempts < MaxAttempts + Cardinality(Resetters)

\* An ID waiting for review has its photo, and a photo nobody can review was
\* left by a registration that is under way or was cut off.
PhotosAreAccountedFor ==
    /\ photoRows \subseteq photos
    /\ \A c \in photos \ photoRows : authCall[c].pc \in {"registering", "undoing"}

\* An account stays with its owner: one device, no session from before a reset, the
\* password that was chosen (but for the rehash above), few guesses at few codes.
AccountsAreSafe ==
    AuthTypeOK /\ SingleActiveDevice /\ ResetEndsOlderSessions /\ PasswordIsTheChosenOne
    /\ OneLiveCode /\ GuessBudget /\ PhotosAreAccountedFor
=============================================================================
