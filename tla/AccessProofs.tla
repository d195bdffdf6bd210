------------------------------- MODULE AccessProofs -------------------------------
(***************************************************************************)
(* Who may do what: an account is registered, signed in to and reset,       *)
(* admins invite each other, grant and decide, sellers share their          *)
(* organizations with staff, addresses are held to their limits, and admins *)
(* publish releases.  Each holds for any number of requests, accounts,      *)
(* members and instances, whatever dies, expires or gets lost on the way.   *)
(***************************************************************************)
EXTENDS AuthSessions, AdminAccess, SellerOrganization, AppReleases, RateLimiter,
        SumTheorems, SequenceTheorems, FiniteSetTheorems, WellFoundedInduction, TLAPS

-----------------------------------------------------------------------------
(* Accounts: the invariant                                                 *)

AuthSteps == {"idle", "done", "registering", "undoing", "verified", "linking", "creating",
              "created", "signedIn", "rehashing", "retired", "burning", "missing", "hashing"}

AuthCallState == [pc : AuthSteps, user : Addresses \cup {NoOne},
                  password : Passwords \cup {NoPassword}, code : Nat]

AuthShape ==
    /\ AuthTypeOK
    /\ codes \in [Addresses ->
         Seq([code : Issuers, state : {"LIVE", "CONSUMED", "LAPSED"}, attempts : Nat])]
    /\ chosen \in [Addresses -> Passwords \cup {NoPassword}]
    /\ authCall \in [AuthRequests -> AuthCallState]
    /\ \A c \in AuthRequests : authCall[c].pc \notin {"idle", "done"} => authCall[c].user \in Addresses

\* A sign-in that verified a legacy password still has the one that was chosen, as
\* long as the account says legacy: whoever chooses another one ends that.
KnowsPassword(c) ==
    LET u == authCall[c].user
        pw == authCall[c].password
    IN  /\ authCall[c].pc \in {"verified", "created", "signedIn", "rehashing"} =>
              authUser[u].status # "NONE"
        /\ authCall[c].pc \in {"signedIn", "rehashing"} => c \in SignIns /\ pw # NoPassword
        /\ authCall[c].pc \in {"linking", "creating"} => pw = NoPassword
        /\ /\ authCall[c].pc \in {"verified", "created", "signedIn"}
           /\ pw # NoPassword /\ authUser[u].legacy /\ u \notin rehashRaced
           => pw = chosen[u]
        /\ authCall[c].pc = "rehashing" /\ u \notin rehashRaced => pw = chosen[u]

PasswordsKnown == PasswordIsTheChosenOne /\ \A c \in AuthRequests : KnowsPassword(c)

\* A sign-in makes one session, and only after it verified.
SignedIn == {"created", "signedIn", "rehashing", "done"}

SessionsKnown ==
    /\ IsFiniteSet(sessions)
    /\ \A s \in sessions : authCall[s.id].pc \in SignedIn
    /\ \A s, t \in sessions : s.id = t.id => s = t
    /\ SingleActiveDevice /\ ResetEndsOlderSessions

\* No code is live while the only request for one has retired the others and not
\* stored its own.
Retiring(u) == {c \in Issuers : authCall[c].pc = "retired" /\ authCall[c].user = u}

CodesKnown ==
    \A u \in Addresses \ issuesRaced :
       /\ \A i, j \in LiveCodes(u) : i = j
       /\ \A c, d \in Retiring(u) : c = d
       /\ Retiring(u) # {} => LiveCodes(u) = {}

\* The wrong guesses that are not counted yet.
Guessing(u, i) ==
    {c \in Resetters : /\ authCall[c].pc = "missing" /\ authCall[c].user = u
                       /\ authCall[c].code = i}

GuessesCounted ==
    \A u \in Addresses : \A i \in DOMAIN codes[u] :
       codes[u][i].attempts + Cardinality(Guessing(u, i)) < MaxAttempts + Cardinality(Resetters)

\* A photo row is of a registration that is over.
PhotosKnown ==
    /\ PhotosAreAccountedFor
    /\ \A c \in photoRows : authCall[c].pc = "done"

\* Each promise to an account is kept by what the requests under way know and have
\* left to do.
AuthInv == AuthShape /\ PasswordsKnown /\ SessionsKnown /\ CodesKnown /\ GuessesCounted /\ PhotosKnown

-----------------------------------------------------------------------------
(* Accounts: how a request moves                                           *)

\* The other requests are where they were.
OthersRest(c) == \A d \in AuthRequests \ {c} : authCall'[d] = authCall[d]

CallBegins(c, pc, u, pw, k) ==
    /\ authCall' \in [AuthRequests -> AuthCallState]
    /\ OthersRest(c) /\ authCall[c].pc = "idle"
    /\ authCall'[c] = [pc |-> pc, user |-> u, password |-> pw, code |-> k]

LEMMA RequestBegins ==
    ASSUME AuthShape, NEW c \in AuthRequests, NEW pc \in AuthSteps, NEW u \in Addresses,
           NEW pw \in Passwords \cup {NoPassword}, NEW k \in Nat, Start(c, pc, u, pw, k)
    PROVE  CallBegins(c, pc, u, pw, k)
BY DEF AuthShape, Start, CallBegins, OthersRest, AuthCallState

CallGoes(c, pc) ==
    /\ authCall' \in [AuthRequests -> AuthCallState]
    /\ OthersRest(c) /\ authCall'[c].pc = pc
    /\ authCall'[c].user = authCall[c].user /\ authCall'[c].password = authCall[c].password
    /\ authCall'[c].code = authCall[c].code

LEMMA RequestGoes ==
    ASSUME AuthShape, NEW c \in AuthRequests, NEW pc \in AuthSteps, Go(c, pc)
    PROVE  CallGoes(c, pc)
BY DEF AuthShape, Go, CallGoes, OthersRest, AuthCallState

CallEnds(c, pc) ==
    /\ authCall' \in [AuthRequests -> AuthCallState]
    /\ OthersRest(c) /\ authCall'[c].pc = pc

LEMMA RequestEnds ==
    ASSUME AuthShape, NEW c \in AuthRequests, Answer(c)
    PROVE  CallEnds(c, "done")
BY DEF AuthShape, Answer, CallEnds, OthersRest, AuthCallState, AuthIdle, AuthSteps

\* A request that is under way is about an account.
LEMMA RequestsTyped ==
    ASSUME AuthShape, NEW c \in AuthRequests
    PROVE  /\ authCall[c] \in AuthCallState
           /\ authCall[c].pc \in AuthSteps /\ authCall[c].password \in Passwords \cup {NoPassword}
           /\ authCall[c].pc \notin {"idle", "done"} => authCall[c].user \in Addresses
BY DEF AuthShape, AuthCallState

\* What each operation does to its request.
LEMMA RequestMoves ==
    ASSUME AuthShape
    PROVE  /\ \A c \in Registrants, u \in Addresses, pw \in NewPasswords :
                 RegisterRead(c, u, pw) \/ AgentRegister(c, u, pw) => CallBegins(c, "registering", u, pw, 0)
           /\ \A c \in Registrants : RegisterWrite(c) =>
                 /\ authCall[c].pc = "registering"
                 /\ IF authUser[authCall[c].user].status = "NONE" THEN CallEnds(c, "done") ELSE CallGoes(c, "undoing")
           /\ \A c \in Registrants : RegisterUndo(c) => authCall[c].pc = "undoing" /\ CallEnds(c, "done")
           /\ \A c \in SignIns, u \in Addresses, pw \in Passwords :
                 SignInVerify(c, u, pw) => CallBegins(c, "verified", u, pw, 0)
           /\ \A c \in SignIns, u \in Addresses : SocialFind(c, u) =>
                 CallBegins(c, IF FindUser(u) THEN "linking" ELSE "creating", u, NoPassword, 0)
           /\ \A c \in SignIns : SocialCreate(c) =>
                 /\ authCall[c].pc = "creating"
                 /\ IF authUser[authCall[c].user].status = "NONE" THEN CallGoes(c, "linking") ELSE CallEnds(c, "done")
           /\ \A c \in SignIns, p \in Providers : SocialLink(c, p) =>
                 /\ authCall[c].pc = "linking"
                 /\ IF FindUser(authCall[c].user) THEN CallGoes(c, "verified") ELSE CallEnds(c, "done")
           /\ \A c \in SignIns : SessionCreate(c) => authCall[c].pc = "verified" /\ CallGoes(c, "created")
           /\ \A c \in SignIns : EndOtherSessions(c) =>
                 /\ authCall[c].pc = "created"
                 /\ IF authCall[c].password = NoPassword THEN CallEnds(c, "done") ELSE CallGoes(c, "signedIn")
           /\ \A c \in SignIns : RehashRead(c) =>
                 /\ authCall[c].pc = "signedIn"
                 /\ IF authUser[authCall[c].user].legacy THEN CallGoes(c, "rehashing") ELSE CallEnds(c, "done")
           /\ \A c \in SignIns : RehashWrite(c) => authCall[c].pc = "rehashing" /\ CallEnds(c, "done")
           /\ \A c \in Issuers, u \in Addresses : IssueRetire(c, u) => CallBegins(c, "retired", u, NoPassword, 0)
           /\ \A c \in Issuers : IssueStore(c) => authCall[c].pc = "retired" /\ CallEnds(c, "done")
           /\ \A c \in Resetters : ResetRefuse(c) =>
                 authCall[c].pc \in {"burning", "missing"} /\ CallEnds(c, "idle")
           /\ \A c \in Resetters : ResetCommit(c) => authCall[c].pc = "hashing" /\ CallEnds(c, "done")
<1> USE RequestBegins, RequestGoes, RequestEnds DEF AuthRequests, AuthSteps, Passwords
<1>1. ASSUME NEW c \in Registrants, NEW u \in Addresses, NEW pw \in NewPasswords,
             RegisterRead(c, u, pw) \/ AgentRegister(c, u, pw)
      PROVE  CallBegins(c, "registering", u, pw, 0)
  BY <1>1 DEF RegisterRead, AgentRegister
<1>2. ASSUME NEW c \in Registrants, RegisterWrite(c)
      PROVE  /\ authCall[c].pc = "registering"
             /\ IF authUser[authCall[c].user].status = "NONE" THEN CallEnds(c, "done") ELSE CallGoes(c, "undoing")
  BY <1>2 DEF RegisterWrite
<1>3. ASSUME NEW c \in Registrants, RegisterUndo(c)
      PROVE  authCall[c].pc = "undoing" /\ CallEnds(c, "done")
  BY <1>3 DEF RegisterUndo
<1>4. ASSUME NEW c \in SignIns, NEW u \in Addresses, NEW pw \in Passwords, SignInVerify(c, u, pw)
      PROVE  CallBegins(c, "verified", u, pw, 0)
  BY <1>4 DEF SignInVerify
<1>5. ASSUME NEW c \in SignIns, NEW u \in Addresses, SocialFind(c, u)
      PROVE  CallBegins(c, IF FindUser(u) THEN "linking" ELSE "creating", u, NoPassword, 0)
  BY <1>5 DEF SocialFind
<1>6. ASSUME NEW c \in SignIns, SocialCreate(c)
      PROVE  /\ authCall[c].pc = "creating"
             /\ IF authUser[authCall[c].user].status = "NONE" THEN CallGoes(c, "linking") ELSE CallEnds(c, "done")
  BY <1>6 DEF SocialCreate
<1>7. ASSUME NEW c \in SignIns, NEW p \in Providers, SocialLink(c, p)
      PROVE  /\ authCall[c].pc = "linking"
             /\ IF FindUser(authCall[c].user) THEN CallGoes(c, "verified") ELSE CallEnds(c, "done")
  BY <1>7 DEF SocialLink
<1>8. ASSUME NEW c \in SignIns, SessionCreate(c)
      PROVE  authCall[c].pc = "verified" /\ CallGoes(c, "created")
  BY <1>8 DEF SessionCreate
<1>9. ASSUME NEW c \in SignIns, EndOtherSessions(c)
      PROVE  /\ authCall[c].pc = "created"
             /\ IF authCall[c].password = NoPassword THEN CallEnds(c, "done") ELSE CallGoes(c, "signedIn")
  BY <1>9 DEF EndOtherSessions
<1>10. ASSUME NEW c \in SignIns, RehashRead(c)
       PROVE  /\ authCall[c].pc = "signedIn"
              /\ IF authUser[authCall[c].user].legacy THEN CallGoes(c, "rehashing") ELSE CallEnds(c, "done")
  BY <1>10 DEF RehashRead
<1>11. ASSUME NEW c \in SignIns, RehashWrite(c)
       PROVE  authCall[c].pc = "rehashing" /\ CallEnds(c, "done")
  BY <1>11 DEF RehashWrite
<1>12. ASSUME NEW c \in Issuers, NEW u \in Addresses, IssueRetire(c, u)
       PROVE  CallBegins(c, "retired", u, NoPassword, 0)
  BY <1>12 DEF IssueRetire
<1>13. ASSUME NEW c \in Issuers, IssueStore(c) PROVE authCall[c].pc = "retired" /\ CallEnds(c, "done")
  BY <1>13 DEF IssueStore
<1>14. ASSUME NEW c \in Resetters, ResetRefuse(c)
       PROVE  authCall[c].pc \in {"burning", "missing"} /\ CallEnds(c, "idle")
  BY <1>14 DEF ResetRefuse, AuthShape, CallEnds, OthersRest, AuthCallState, AuthIdle
<1>15. ASSUME NEW c \in Resetters, ResetCommit(c) PROVE authCall[c].pc = "hashing" /\ CallEnds(c, "done")
  BY <1>15 DEF ResetCommit
<1> QED
  BY <1>1, <1>2, <1>3, <1>4, <1>5, <1>6, <1>7, <1>8, <1>9, <1>10, <1>11, <1>12, <1>13, <1>14, <1>15

\* The code a reset is about is the newest live one.
LEMMA NewestCode ==
    ASSUME AuthShape, NEW u \in Addresses, LiveCodes(u) # {}
    PROVE  \E i \in LiveCodes(u) :
              /\ i = (CHOOSE n \in LiveCodes(u) : \A m \in LiveCodes(u) : m <= n)
              /\ i \in Nat /\ i \in DOMAIN codes[u]
<1> DEFINE n == Len(codes[u])
           f == [x \in 1 .. n |-> x]
<1>1. n \in Nat /\ DOMAIN codes[u] = 1 .. n
  BY DEF AuthShape
<1>2. LiveCodes(u) \in SUBSET (1 .. n)
  BY <1>1 DEF LiveCodes
<1>3. IsFiniteSet(LiveCodes(u))
  <2>1. IsFiniteSet(1 .. n)
    BY <1>1, FS_Interval
  <2> QED
    BY <1>2, <2>1, FS_Subset
<1>4. f \in [1 .. n -> Int]
  BY <1>1
<1>5. \E x \in LiveCodes(u) : \A y \in LiveCodes(u) : f[y] <= f[x]
  <2> HIDE DEF f
  <2> QED
    BY <1>2, <1>3, <1>4, LargestEntry
<1>6. PICK x \in LiveCodes(u) : \A y \in LiveCodes(u) : y <= x
  BY <1>2, <1>5
<1>7. PICK i : i = (CHOOSE m \in LiveCodes(u) : \A k \in LiveCodes(u) : k <= m)
  OBVIOUS
<1>8. i \in LiveCodes(u)
  BY <1>6, <1>7
<1>9. i \in Nat /\ i \in DOMAIN codes[u]
  BY <1>1, <1>2, <1>8
<1> QED
  BY <1>7, <1>8, <1>9

LEMMA ResetBegins ==
    ASSUME AuthShape, NEW c \in Resetters, NEW u \in Addresses, NEW guess, NEW pw \in NewPasswords,
           ResetRead(c, u, guess, pw)
    PROVE  \E i \in DOMAIN codes[u] : CallBegins(c, Verdict(codes[u][i], guess), u, pw, i)
<1>1. LiveCodes(u) # {}
  BY DEF ResetRead
<1>2. PICK i \in LiveCodes(u) : /\ i = (CHOOSE n \in LiveCodes(u) : \A m \in LiveCodes(u) : m <= n)
                                /\ i \in Nat /\ i \in DOMAIN codes[u]
  BY <1>1, NewestCode
<1>3. Start(c, Verdict(codes[u][i], guess), u, pw, i)
  BY <1>2 DEF ResetRead
<1>4. Verdict(codes[u][i], guess) \in AuthSteps
  BY DEF Verdict, AuthSteps
<1>5. c \in AuthRequests /\ pw \in Passwords \cup {NoPassword}
  BY DEF AuthRequests, Passwords
<1>6. CallBegins(c, Verdict(codes[u][i], guess), u, pw, i)
  BY <1>2, <1>3, <1>4, <1>5, RequestBegins
<1> QED
  BY <1>2, <1>6

-----------------------------------------------------------------------------
(* Accounts: types                                                         *)

CallsTyped ==
    /\ authCall \in [AuthRequests -> AuthCallState]
    /\ \A c \in AuthRequests : authCall[c].pc \notin {"idle", "done"} => authCall[c].user \in Addresses

LEMMA CallsStayTyped ==
    ASSUME AuthShape, NEW c \in AuthRequests,
           \/ \E u \in Addresses : \E pc, pw, k : CallBegins(c, pc, u, pw, k)
           \/ authCall[c].pc \notin {"idle", "done"} /\ \E pc : CallGoes(c, pc)
           \/ \E pc \in {"idle", "done"} : CallEnds(c, pc)
    PROVE  CallsTyped'
<1>1. authCall' \in [AuthRequests -> AuthCallState] /\ OthersRest(c)
  BY DEF CallBegins, CallGoes, CallEnds
<1>2. ASSUME authCall'[c].pc \notin {"idle", "done"} PROVE authCall'[c].user \in Addresses
  <2>1. CASE \E u \in Addresses : \E pc, pw, k : CallBegins(c, pc, u, pw, k)
    BY <2>1 DEF CallBegins
  <2>2. CASE authCall[c].pc \notin {"idle", "done"} /\ \E pc : CallGoes(c, pc)
    BY <2>2 DEF CallGoes, AuthShape
  <2>3. CASE \E pc \in {"idle", "done"} : CallEnds(c, pc)
    BY <1>2, <2>3 DEF CallEnds
  <2> QED
    BY <2>1, <2>2, <2>3
<1>3. ASSUME NEW d \in AuthRequests, authCall'[d].pc \notin {"idle", "done"}
      PROVE  authCall'[d].user \in Addresses
  BY <1>1, <1>2, <1>3 DEF OthersRest, AuthShape
<1> QED
  BY <1>1, <1>3 DEF CallsTyped

\* Every operation leaves the requests typed.
LEMMA CallsAreTyped ==
    ASSUME AuthShape, [AuthNext]_authVars
    PROVE  CallsTyped'
<1> USE DEF AuthRequests
<1>0. CallsTyped
  BY DEF AuthShape, CallsTyped
<1>a. ASSUME UNCHANGED authCall PROVE CallsTyped'
  BY <1>0, <1>a DEF CallsTyped
<1>1. ASSUME NEW c \in Registrants, NEW u \in Addresses, NEW pw \in NewPasswords,
             RegisterRead(c, u, pw) \/ AgentRegister(c, u, pw)
      PROVE  CallsTyped'
  BY <1>1, RequestMoves, CallsStayTyped
<1>2. ASSUME NEW c \in Registrants, RegisterWrite(c) \/ RegisterUndo(c) PROVE CallsTyped'
  BY <1>2, RequestMoves, CallsStayTyped
<1>3. ASSUME NEW c \in SignIns, NEW u \in Addresses, NEW pw \in Passwords, SignInVerify(c, u, pw)
      PROVE  CallsTyped'
  BY <1>3, RequestMoves, CallsStayTyped
<1>4. ASSUME NEW c \in SignIns, NEW u \in Addresses, SocialFind(c, u) PROVE CallsTyped'
  BY <1>4, RequestMoves, CallsStayTyped
<1>5. ASSUME NEW c \in SignIns, NEW p \in Providers, SocialLink(c, p) PROVE CallsTyped'
  BY <1>5, RequestMoves, CallsStayTyped
<1>6. ASSUME NEW c \in SignIns, SocialCreate(c) \/ SessionCreate(c) PROVE CallsTyped'
  BY <1>6, RequestMoves, CallsStayTyped
<1>7. ASSUME NEW c \in SignIns, EndOtherSessions(c) \/ RehashRead(c) PROVE CallsTyped'
  BY <1>7, RequestMoves, CallsStayTyped
<1>8. ASSUME NEW c \in SignIns, RehashWrite(c) PROVE CallsTyped'
  BY <1>8, RequestMoves, CallsStayTyped
<1>9. ASSUME NEW s \in sessions, Logout(s) PROVE CallsTyped'
  BY <1>a, <1>9 DEF Logout
<1>10. ASSUME NEW c \in Issuers, NEW u \in Addresses, IssueRetire(c, u) PROVE CallsTyped'
  BY <1>10, RequestMoves, CallsStayTyped
<1>11. ASSUME NEW c \in Issuers, IssueStore(c) PROVE CallsTyped'
  BY <1>11, RequestMoves, CallsStayTyped
<1>12. ASSUME NEW u, NEW i, CodeLapses(u, i) PROVE CallsTyped'
  BY <1>a, <1>12 DEF CodeLapses
<1>13. ASSUME NEW c \in Resetters, NEW u \in Addresses, NEW guess, NEW pw \in NewPasswords,
              ResetRead(c, u, guess, pw)
       PROVE  CallsTyped'
  BY <1>13, ResetBegins, CallsStayTyped
<1>14. ASSUME NEW c \in Resetters, ResetRefuse(c) \/ ResetCommit(c) PROVE CallsTyped'
  BY <1>14, RequestMoves, CallsStayTyped
<1>15. ASSUME NEW u, BlockAccount(u) PROVE CallsTyped'
  BY <1>a, <1>15 DEF BlockAccount
<1>16. ASSUME UNCHANGED authVars PROVE CallsTyped'
  BY <1>a, <1>16 DEF authVars
<1> QED
  BY <1>1, <1>2, <1>3, <1>4, <1>5, <1>6, <1>7, <1>8, <1>9, <1>10, <1>11, <1>12, <1>13, <1>14,
     <1>15, <1>16 DEF AuthNext, AuthStep

CodeRow == [code : Issuers, state : {"LIVE", "CONSUMED", "LAPSED"}, attempts : Nat]

\* Entries of a list are marked, counted or appended.
LEMMA CodesStayTyped ==
    ASSUME AuthShape, NEW u \in Addresses, NEW list,
           codes' = [codes EXCEPT ![u] = list],
           \/ /\ DOMAIN list = DOMAIN codes[u]
              /\ \A i \in DOMAIN list : list[i] \in CodeRow
              /\ list = [i \in DOMAIN list |-> list[i]]
           \/ \E row \in CodeRow : list = Append(codes[u], row)
    PROVE  codes' \in [Addresses -> Seq(CodeRow)]
<1>1. codes \in [Addresses -> Seq(CodeRow)] /\ codes[u] \in Seq(CodeRow)
  BY DEF AuthShape, CodeRow
<1>2. CASE \E row \in CodeRow : list = Append(codes[u], row)
  BY <1>1, <1>2, AppendProperties
<1>3. CASE /\ DOMAIN list = DOMAIN codes[u]
           /\ \A i \in DOMAIN list : list[i] \in CodeRow
           /\ list = [i \in DOMAIN list |-> list[i]]
  <2>1. Len(codes[u]) \in Nat /\ DOMAIN list = 1 .. Len(codes[u])
    BY <1>1, <1>3
  <2>2. list \in [1 .. Len(codes[u]) -> CodeRow]
    BY <1>3, <2>1
  <2>3. list \in Seq(CodeRow)
    BY <2>1, <2>2, SeqDef
  <2> QED
    BY <1>1, <2>3
<1> QED
  BY <1>2, <1>3

\* One entry of a list changes its state or its count.
LEMMA RowChanges ==
    ASSUME AuthShape, NEW u \in Addresses, NEW i,
           \/ codes' = [codes EXCEPT ![u][i].state = "CONSUMED"]
           \/ codes' = [codes EXCEPT ![u][i].state = "LAPSED"]
           \/ codes' = [codes EXCEPT ![u][i].attempts = @ + 1]
    PROVE  /\ codes' \in [Addresses -> Seq(CodeRow)]
           /\ \A v \in Addresses : /\ v # u => codes'[v] = codes[v]
                                   /\ DOMAIN codes'[v] = DOMAIN codes[v]
           /\ \A j \in DOMAIN codes[u] :
                 /\ j # i => codes'[u][j] = codes[u][j]
                 /\ Live(codes'[u][j]) => Live(codes[u][j])
                 /\ codes'[u][j].attempts
                      \in {codes[u][j].attempts, codes[u][j].attempts + 1}
                 /\ codes'[u][j].attempts = codes[u][j].attempts
                    \/ codes' = [codes EXCEPT ![u][i].attempts = @ + 1]
<1>1. codes \in [Addresses -> Seq(CodeRow)] /\ codes[u] \in Seq(CodeRow)
  BY DEF AuthShape, CodeRow
<1>2. \A j \in DOMAIN codes[u] : codes[u][j] \in CodeRow
  BY <1>1, LenProperties
<1>3. PICK list : /\ codes' = [codes EXCEPT ![u] = list] /\ DOMAIN list = DOMAIN codes[u]
                  /\ list = [j \in DOMAIN list |-> list[j]]
                  /\ \A j \in DOMAIN codes[u] : j # i => list[j] = codes[u][j]
                  /\ i \in DOMAIN codes[u] =>
                        \/ list[i] = [codes[u][i] EXCEPT !.state = "CONSUMED"]
                        \/ list[i] = [codes[u][i] EXCEPT !.state = "LAPSED"]
                        \/ /\ list[i] = [codes[u][i] EXCEPT !.attempts = @ + 1]
                           /\ codes' = [codes EXCEPT ![u][i].attempts = @ + 1]
  <2>1. ASSUME NEW row, codes' = [codes EXCEPT ![u][i] = row]
        PROVE  \E list : /\ codes' = [codes EXCEPT ![u] = list] /\ DOMAIN list = DOMAIN codes[u]
                         /\ list = [j \in DOMAIN list |-> list[j]]
                         /\ \A j \in DOMAIN codes[u] : j # i => list[j] = codes[u][j]
                         /\ i \in DOMAIN codes[u] => list[i] = row
    <3>1. PICK list : list = [codes[u] EXCEPT ![i] = row]
      OBVIOUS
    <3>2. codes' = [codes EXCEPT ![u] = list]
      BY <2>1, <3>1
    <3>3. codes[u] \in [1 .. Len(codes[u]) -> CodeRow]
      BY <1>1
    <3>4. /\ DOMAIN list = DOMAIN codes[u] /\ list = [j \in DOMAIN list |-> list[j]]
          /\ \A j \in DOMAIN codes[u] : j # i => list[j] = codes[u][j]
          /\ i \in DOMAIN codes[u] => list[i] = row
      BY <3>1, <3>3
    <3> QED
      BY <3>2, <3>4
  <2>2. CASE codes' = [codes EXCEPT ![u][i].state = "CONSUMED"]
    <3>1. codes' = [codes EXCEPT ![u][i] = [codes[u][i] EXCEPT !.state = "CONSUMED"]]
      BY <2>2
    <3> QED
      BY <2>1, <3>1
  <2>3. CASE codes' = [codes EXCEPT ![u][i].state = "LAPSED"]
    <3>1. codes' = [codes EXCEPT ![u][i] = [codes[u][i] EXCEPT !.state = "LAPSED"]]
      BY <2>3
    <3> QED
      BY <2>1, <3>1
  <2>4. CASE codes' = [codes EXCEPT ![u][i].attempts = @ + 1]
    <3>1. codes' = [codes EXCEPT ![u][i] = [codes[u][i] EXCEPT !.attempts = @ + 1]]
      BY <2>4
    <3> QED
      BY <2>1, <2>4, <3>1
  <2> QED
    BY <2>2, <2>3, <2>4
<1>4. \A j \in DOMAIN list : list[j] \in CodeRow
  BY <1>2, <1>3 DEF CodeRow
<1>5. codes' \in [Addresses -> Seq(CodeRow)]
  BY <1>3, <1>4, CodesStayTyped
<1>6. codes'[u] = list /\ \A v \in Addresses : v # u => codes'[v] = codes[v]
  BY <1>1, <1>3
<1>7. ASSUME NEW j \in DOMAIN codes[u]
      PROVE  /\ j # i => list[j] = codes[u][j]
             /\ Live(list[j]) => Live(codes[u][j])
             /\ list[j].attempts \in {codes[u][j].attempts, codes[u][j].attempts + 1}
             /\ list[j].attempts = codes[u][j].attempts
                \/ codes' = [codes EXCEPT ![u][i].attempts = @ + 1]
  <2>1. CASE j # i
    BY <1>3, <2>1
  <2>2. CASE j = i
    BY <1>2, <1>3, <2>2 DEF CodeRow, Live
  <2> QED
    BY <2>1, <2>2
<1> QED
  BY <1>3, <1>5, <1>6, <1>7

\* What a step writes is of the type of its column.
LEMMA AuthShapeStep ==
    ASSUME AuthShape, [AuthNext]_authVars
    PROVE  AuthShape'
<1> USE DEF AuthRequests
<1> DEFINE Rest == UNCHANGED <<authUser, linked, sessions, codes, photos, photoRows, resets, chosen>>
           Tables == /\ AuthTypeOK /\ chosen \in [Addresses -> Passwords \cup {NoPassword}]
                     /\ codes \in [Addresses -> Seq(CodeRow)]
<1>0. Tables
  BY DEF AuthShape, CodeRow
<1>t. \A c \in AuthRequests :
         /\ authCall[c].pc \in AuthSteps /\ authCall[c].password \in Passwords \cup {NoPassword}
         /\ authCall[c].pc \notin {"idle", "done"} => authCall[c].user \in Addresses
  BY RequestsTyped
<1>u. \A u \in Addresses : authUser[u] \in [status : {"NONE", "ACTIVE", "BLOCKED"},
                                            password : Passwords \cup {NoPassword}, legacy : BOOLEAN]
  BY <1>0 DEF AuthTypeOK
<1>a. ASSUME Rest PROVE Tables'
  BY <1>0, <1>a DEF AuthTypeOK
<1>b. ASSUME UNCHANGED <<linked, sessions, codes, photos, photoRows, resets>>,
             authUser' \in [Addresses -> [status : {"NONE", "ACTIVE", "BLOCKED"},
                                          password : Passwords \cup {NoPassword}, legacy : BOOLEAN]],
             chosen' \in [Addresses -> Passwords \cup {NoPassword}]
      PROVE  Tables'
  BY <1>0, <1>b DEF AuthTypeOK
<1>c. ASSUME UNCHANGED <<authUser, linked, sessions, photos, photoRows, resets, chosen>>,
             codes' \in [Addresses -> Seq(CodeRow)]
      PROVE  Tables'
  BY <1>0, <1>c DEF AuthTypeOK, CodeRow
<1>1. ASSUME NEW c \in Registrants, NEW u \in Addresses, NEW pw \in NewPasswords,
             RegisterRead(c, u, pw) \/ AgentRegister(c, u, pw)
      PROVE  Tables'
  BY <1>0, <1>1 DEF RegisterRead, AgentRegister, storedVars, ghostVars, AuthTypeOK
<1>2. ASSUME NEW c \in Registrants, RegisterWrite(c) PROVE Tables'
  <2>1. PICK u \in Addresses : u = authCall[c].user
    BY <1>2, <1>t, RequestMoves
  <2>2. PICK pw \in Passwords \cup {NoPassword} : pw = authCall[c].password
    BY <1>t
  <2>3. CASE authUser[u].status = "NONE"
    <3>1. /\ authUser' = [authUser EXCEPT ![u] = [status |-> "ACTIVE", password |-> pw, legacy |-> FALSE]]
          /\ photoRows' = photoRows \cup ({c} \cap photos)
          /\ chosen' = [chosen EXCEPT ![u] = pw]
          /\ UNCHANGED <<linked, sessions, codes, photos, resets>>
      BY <1>2, <2>1, <2>2, <2>3 DEF RegisterWrite
    <3> QED
      BY <1>0, <3>1 DEF AuthTypeOK
  <2>4. CASE authUser[u].status # "NONE"
    BY <1>2, <1>a, <2>1, <2>4 DEF RegisterWrite
  <2> QED
    BY <2>3, <2>4
<1>3. ASSUME NEW c \in Registrants, RegisterUndo(c) PROVE Tables'
  BY <1>0, <1>3 DEF RegisterUndo, ghostVars, AuthTypeOK
<1>4. ASSUME NEW c, NEW u, NEW pw, SignInVerify(c, u, pw) PROVE Tables'
  BY <1>4, <1>a DEF SignInVerify, storedVars, ghostVars
<1>5. ASSUME NEW c, NEW u, SocialFind(c, u) PROVE Tables'
  BY <1>5, <1>a DEF SocialFind, storedVars, ghostVars
<1>6. ASSUME NEW c \in SignIns, NEW p \in Providers, SocialLink(c, p) PROVE Tables'
  <2>1. PICK u \in Addresses : u = authCall[c].user
    BY <1>6, <1>t, RequestMoves
  <2>2. /\ linked' = [linked EXCEPT ![u] = @ \cup {p}]
        /\ UNCHANGED <<authUser, sessions, codes, photos, photoRows, ghostVars>>
    BY <1>6, <2>1 DEF SocialLink
  <2> QED
    BY <1>0, <2>2 DEF ghostVars, AuthTypeOK
<1>7. ASSUME NEW c \in SignIns, SocialCreate(c) PROVE Tables'
  <2>1. PICK u \in Addresses : u = authCall[c].user
    BY <1>7, <1>t, RequestMoves
  <2>2. authUser' \in [Addresses -> [status : {"NONE", "ACTIVE", "BLOCKED"},
                                     password : Passwords \cup {NoPassword}, legacy : BOOLEAN]]
    <3>1. authUser' \in {authUser, [authUser EXCEPT ![u].status = "ACTIVE"]}
      BY <1>7, <2>1 DEF SocialCreate
    <3>2. PICK row \in [status : {"NONE", "ACTIVE", "BLOCKED"},
                        password : Passwords \cup {NoPassword}, legacy : BOOLEAN] :
             row = [authUser[u] EXCEPT !.status = "ACTIVE"]
      BY <1>u
    <3>3. authUser' \in {authUser, [authUser EXCEPT ![u] = row]}
      BY <3>1, <3>2
    <3> QED
      BY <1>0, <3>3 DEF AuthTypeOK
  <2> QED
    BY <1>0, <1>7, <1>b, <2>2 DEF SocialCreate, ghostVars
<1>8. ASSUME NEW c \in SignIns, SessionCreate(c) PROVE Tables'
  <2>1. PICK u \in Addresses : u = authCall[c].user
    BY <1>8, <1>t, RequestMoves
  <2>2. [id |-> c, user |-> u, resets |-> resets[u]] \in [id : SignIns, user : Addresses, resets : Nat]
    BY <1>0 DEF AuthTypeOK
  <2>3. /\ sessions' = sessions \cup {[id |-> c, user |-> u, resets |-> resets[u]]}
        /\ UNCHANGED <<authUser, linked, codes, photos, photoRows, ghostVars>>
    BY <1>8, <2>1 DEF SessionCreate
  <2> QED
    BY <1>0, <2>2, <2>3 DEF ghostVars, AuthTypeOK
<1>9. ASSUME NEW c, EndOtherSessions(c) PROVE Tables'
  BY <1>0, <1>9 DEF EndOtherSessions, ghostVars, AuthTypeOK
<1>10. ASSUME NEW c, RehashRead(c) PROVE Tables'
  BY <1>10, <1>a DEF RehashRead, storedVars, ghostVars
<1>11. ASSUME NEW c \in SignIns, RehashWrite(c) PROVE Tables'
  <2>1. PICK u \in Addresses : u = authCall[c].user
    BY <1>11, <1>t, RequestMoves
  <2>2. PICK pw \in Passwords \cup {NoPassword} : pw = authCall[c].password
    BY <1>t
  <2>3. authUser' = [authUser EXCEPT ![u] = [@ EXCEPT !.password = pw, !.legacy = FALSE]]
    BY <1>11, <2>1, <2>2 DEF RehashWrite
  <2>4. authUser' \in [Addresses -> [status : {"NONE", "ACTIVE", "BLOCKED"},
                                     password : Passwords \cup {NoPassword}, legacy : BOOLEAN]]
    BY <1>0, <2>3 DEF AuthTypeOK
  <2> QED
    BY <1>0, <1>11, <1>b, <2>4 DEF RehashWrite, ghostVars
<1>12. ASSUME NEW s, Logout(s) PROVE Tables'
  BY <1>0, <1>12 DEF Logout, ghostVars, AuthTypeOK
<1>13. ASSUME NEW c \in Issuers, NEW u \in Addresses, IssueRetire(c, u) PROVE Tables'
  <2>1. PICK list : list = [i \in DOMAIN codes[u] |->
                              IF Live(codes[u][i]) THEN [codes[u][i] EXCEPT !.state = "CONSUMED"]
                              ELSE codes[u][i]]
    OBVIOUS
  <2>2. \A i \in DOMAIN codes[u] : codes[u][i] \in CodeRow
    BY <1>0, LenProperties
  <2>3. \A i \in DOMAIN list : list[i] \in CodeRow
    BY <2>1, <2>2 DEF CodeRow
  <2>4. codes' = [codes EXCEPT ![u] = list]
    BY <1>13, <2>1 DEF IssueRetire
  <2>5. DOMAIN list = DOMAIN codes[u] /\ list = [i \in DOMAIN list |-> list[i]]
    BY <2>1
  <2>6. codes' \in [Addresses -> Seq(CodeRow)]
    BY <2>3, <2>4, <2>5, CodesStayTyped
  <2> QED
    BY <1>13, <1>c, <2>6 DEF IssueRetire
<1>14. ASSUME NEW c \in Issuers, IssueStore(c) PROVE Tables'
  <2>1. PICK u \in Addresses : u = authCall[c].user
    BY <1>14, <1>t, RequestMoves
  <2>2. PICK row \in CodeRow : row = [code |-> c, state |-> "LIVE", attempts |-> 0]
    BY DEF CodeRow
  <2>3. PICK list : list = Append(codes[u], row)
    OBVIOUS
  <2>4. codes' = [codes EXCEPT ![u] = list]
    BY <1>14, <2>1, <2>2, <2>3 DEF IssueStore
  <2>5. codes' \in [Addresses -> Seq(CodeRow)]
    BY <2>3, <2>4, CodesStayTyped
  <2> QED
    BY <1>14, <1>c, <2>5 DEF IssueStore, ghostVars
<1>15. ASSUME NEW u \in Addresses, NEW i \in DOMAIN codes[u], CodeLapses(u, i) PROVE Tables'
  <2>1. codes' \in [Addresses -> Seq(CodeRow)]
    BY <1>15, RowChanges DEF CodeLapses
  <2> QED
    BY <1>15, <1>c, <2>1 DEF CodeLapses, ghostVars
<1>16. ASSUME NEW c, NEW u, NEW guess, NEW pw, ResetRead(c, u, guess, pw) PROVE Tables'
  BY <1>16, <1>a DEF ResetRead, storedVars, ghostVars
<1>17. ASSUME NEW c \in Resetters, ResetRefuse(c) PROVE Tables'
  <2>1. PICK u \in Addresses : u = authCall[c].user
    BY <1>17, <1>t, RequestMoves
  <2>2. PICK i : i = authCall[c].code
    OBVIOUS
  <2>3. codes' \in [Addresses -> Seq(CodeRow)]
    <3>1. CASE authCall[c].pc = "burning"
      <4>1. codes' = [codes EXCEPT ![u][i].state = "CONSUMED"]
        BY <1>17, <2>1, <2>2, <3>1 DEF ResetRefuse
      <4> QED
        BY <4>1, RowChanges
    <3>2. CASE authCall[c].pc # "burning"
      <4>1. codes' = [codes EXCEPT ![u][i].attempts = @ + 1]
        BY <1>17, <2>1, <2>2, <3>2 DEF ResetRefuse
      <4> QED
        BY <4>1, RowChanges
    <3> QED
      BY <3>1, <3>2
  <2> QED
    BY <1>17, <1>c, <2>3 DEF ResetRefuse, ghostVars
<1>18. ASSUME NEW c \in Resetters, ResetCommit(c) PROVE Tables'
  <2>1. PICK u \in Addresses : u = authCall[c].user
    BY <1>18, <1>t, RequestMoves
  <2>2. PICK pw \in Passwords \cup {NoPassword} : pw = authCall[c].password
    BY <1>t
  <2>3. PICK i : i = authCall[c].code
    OBVIOUS
  <2>4. /\ codes' = [codes EXCEPT ![u][i].state = "CONSUMED"]
        /\ authUser' = [authUser EXCEPT ![u] = [@ EXCEPT !.password = pw, !.legacy = FALSE]]
        /\ sessions' = sessions \ SessionsOf(u)
        /\ resets' = [resets EXCEPT ![u] = @ + 1]
        /\ chosen' = [chosen EXCEPT ![u] = pw]
        /\ UNCHANGED <<linked, photos, photoRows>>
    BY <1>18, <2>1, <2>2, <2>3 DEF ResetCommit
  <2>5. codes' \in [Addresses -> Seq(CodeRow)]
    BY <2>4, RowChanges
  <2>6. authUser' \in [Addresses -> [status : {"NONE", "ACTIVE", "BLOCKED"},
                                     password : Passwords \cup {NoPassword}, legacy : BOOLEAN]]
    BY <1>0, <2>4 DEF AuthTypeOK
  <2>7. /\ resets' \in [Addresses -> Nat] /\ chosen' \in [Addresses -> Passwords \cup {NoPassword}]
        /\ sessions' \subseteq [id : SignIns, user : Addresses, resets : Nat]
    BY <1>0, <2>4 DEF AuthTypeOK
  <2>8. \A v \in Addresses : codes'[v] \in Seq(CodeRow)
    BY <2>5
  <2> QED
    BY <1>0, <2>4, <2>5, <2>6, <2>7, <2>8 DEF AuthTypeOK, CodeRow
<1>19. ASSUME NEW u \in Addresses, BlockAccount(u) PROVE Tables'
  <2>1. authUser' \in [Addresses -> [status : {"NONE", "ACTIVE", "BLOCKED"},
                                     password : Passwords \cup {NoPassword}, legacy : BOOLEAN]]
    BY <1>0, <1>19 DEF BlockAccount, AuthTypeOK
  <2> QED
    BY <1>0, <1>19, <1>b, <2>1 DEF BlockAccount, ghostVars
<1>20. ASSUME UNCHANGED authVars PROVE Tables'
  BY <1>20, <1>a DEF authVars, storedVars, ghostVars
<1>21. Tables'
  BY <1>1, <1>2, <1>3, <1>4, <1>5, <1>6, <1>7, <1>8, <1>9, <1>10, <1>11, <1>12, <1>13, <1>14,
     <1>15, <1>16, <1>17, <1>18, <1>19, <1>20 DEF AuthNext, AuthStep
<1> QED
  BY <1>21, CallsAreTyped DEF AuthShape, CallsTyped, CodeRow

-----------------------------------------------------------------------------
(* Accounts: passwords                                                     *)

\* A request moves, and the accounts stay.
LEMMA PasswordsRest ==
    ASSUME AuthShape, PasswordsKnown, UNCHANGED <<authUser, chosen, rehashRaced>>,
           NEW c \in AuthRequests, OthersRest(c), KnowsPassword(c)'
    PROVE  PasswordsKnown'
<1>1. \A d \in AuthRequests \ {c} : KnowsPassword(d)'
  BY DEF PasswordsKnown, KnowsPassword, OthersRest
<1> QED
  BY <1>1 DEF PasswordsKnown, PasswordIsTheChosenOne

\* An account changes, and what the others know of it remains true.
LEMMA PasswordsFollow ==
    ASSUME AuthShape, PasswordsKnown, NEW u \in Addresses,
           rehashRaced \subseteq rehashRaced',
           \A v \in Addresses : v # u => authUser'[v] = authUser[v] /\ chosen'[v] = chosen[v],
           u \notin rehashRaced' => authUser'[u].password = chosen'[u],
           NEW c \in AuthRequests, OthersRest(c), KnowsPassword(c)',
           \A d \in AuthRequests \ {c} : authCall[d].user = u => KnowsPassword(d)'
    PROVE  PasswordsKnown'
<1>1. ASSUME NEW v \in Addresses \ rehashRaced' PROVE authUser'[v].password = chosen'[v]
  BY DEF PasswordsKnown, PasswordIsTheChosenOne
<1>2. ASSUME NEW d \in AuthRequests PROVE KnowsPassword(d)'
  <2>1. CASE d = c
    BY <2>1
  <2>2. CASE d # c /\ authCall[d].user = u
    BY <2>2
  <2>3. CASE d # c /\ authCall[d].user # u
    <3>1. authCall'[d] = authCall[d]
      BY <2>3 DEF OthersRest
    <3>2. KnowsPassword(d) /\ (authCall[d].pc \notin {"idle", "done"} => authCall[d].user \in Addresses)
      BY RequestsTyped DEF PasswordsKnown
    <3> QED
      BY <2>3, <3>1, <3>2 DEF KnowsPassword
  <2> QED
    BY <2>1, <2>2, <2>3
<1> QED
  BY <1>1, <1>2 DEF PasswordsKnown, PasswordIsTheChosenOne

\* What is stored is what was chosen, whoever signs in, registers or resets meanwhile.
LEMMA PasswordsStep ==
    ASSUME AuthShape, PasswordsKnown, [AuthNext]_authVars
    PROVE  PasswordsKnown'
<1> USE DEF AuthRequests
<1>t. \A c \in AuthRequests :
         /\ authCall[c].pc \in AuthSteps /\ authCall[c].password \in Passwords \cup {NoPassword}
         /\ authCall[c].pc \notin {"idle", "done"} => authCall[c].user \in Addresses
  BY RequestsTyped
<1>k. PasswordIsTheChosenOne /\ \A c \in AuthRequests : KnowsPassword(c)
  BY DEF PasswordsKnown
<1>p. NoPassword \notin Passwords
  BY AuthConstants DEF Passwords
<1>a. ASSUME UNCHANGED <<authUser, chosen, rehashRaced, authCall>> PROVE PasswordsKnown'
  BY <1>a DEF PasswordsKnown, PasswordIsTheChosenOne, KnowsPassword
<1>b. ASSUME UNCHANGED <<authUser, chosen, rehashRaced>>, NEW c \in AuthRequests, OthersRest(c),
             authCall'[c].pc \notin {"verified", "created", "signedIn", "rehashing", "linking", "creating"}
      PROVE  PasswordsKnown'
  <2>1. KnowsPassword(c)'
    BY <1>b DEF KnowsPassword
  <2> QED
    BY <1>b, <2>1, PasswordsRest
<1>1. ASSUME NEW c \in Registrants, NEW u \in Addresses, NEW pw \in NewPasswords,
             RegisterRead(c, u, pw) \/ AgentRegister(c, u, pw)
      PROVE  PasswordsKnown'
  <2>1. OthersRest(c) /\ authCall'[c].pc = "registering"
    <3>1. CallBegins(c, "registering", u, pw, 0)
      BY <1>1, RequestMoves
    <3> QED
      BY <3>1 DEF CallBegins
  <2> QED
    BY <1>1, <1>b, <2>1 DEF RegisterRead, AgentRegister, storedVars, ghostVars
<1>2. ASSUME NEW c \in Registrants, RegisterWrite(c) PROVE PasswordsKnown'
  <2>1. PICK u \in Addresses : u = authCall[c].user
    BY <1>2, <1>t, RequestMoves
  <2>2. PICK pw : pw = authCall[c].password
    OBVIOUS
  <2>3. CASE authUser[u].status = "NONE"
    <3>1. /\ authUser' = [authUser EXCEPT ![u] = [status |-> "ACTIVE", password |-> pw, legacy |-> FALSE]]
          /\ chosen' = [chosen EXCEPT ![u] = pw]
          /\ UNCHANGED rehashRaced
          /\ OthersRest(c) /\ authCall'[c].pc = "done"
      BY <1>2, <2>1, <2>2, <2>3, RequestMoves DEF RegisterWrite, CallEnds
    <3>2. /\ \A v \in Addresses : v # u => authUser'[v] = authUser[v] /\ chosen'[v] = chosen[v]
          /\ authUser'[u].password = chosen'[u]
      BY <3>1 DEF AuthShape, AuthTypeOK
    <3>3. KnowsPassword(c)'
      BY <3>1 DEF KnowsPassword
    <3>4. ASSUME NEW d \in AuthRequests \ {c}, authCall[d].user = u PROVE KnowsPassword(d)'
      <4>1. authCall'[d] = authCall[d] /\ KnowsPassword(d)
        BY <1>k, <3>1 DEF OthersRest
      <4>2. authCall[d].pc \notin {"verified", "created", "signedIn", "rehashing"}
        BY <2>3, <3>4, <4>1 DEF KnowsPassword
      <4> QED
        BY <4>1, <4>2 DEF KnowsPassword
    <3> QED
      BY <3>1, <3>2, <3>3, <3>4, PasswordsFollow
  <2>4. CASE authUser[u].status # "NONE"
    <3>1. OthersRest(c) /\ authCall'[c].pc = "undoing"
      BY <1>2, <2>1, <2>4, RequestMoves DEF CallGoes
    <3> QED
      BY <1>2, <1>b, <2>1, <2>4, <3>1 DEF RegisterWrite
  <2> QED
    BY <2>3, <2>4
<1>3. ASSUME NEW c \in Registrants, RegisterUndo(c) PROVE PasswordsKnown'
  <2>1. OthersRest(c) /\ authCall'[c].pc = "done"
    BY <1>3, RequestMoves DEF CallEnds
  <2> QED
    BY <1>3, <1>b, <2>1 DEF RegisterUndo, ghostVars
<1>4. ASSUME NEW c \in SignIns, NEW u \in Addresses, NEW pw \in Passwords, SignInVerify(c, u, pw)
      PROVE  PasswordsKnown'
  <2>1. /\ OthersRest(c) /\ authCall'[c].pc = "verified"
        /\ authCall'[c].user = u /\ authCall'[c].password = pw
    <3>1. CallBegins(c, "verified", u, pw, 0)
      BY <1>4, RequestMoves
    <3> QED
      BY <3>1 DEF CallBegins
  <2>2. /\ authUser[u].password = pw /\ authUser[u].status = "ACTIVE"
        /\ UNCHANGED <<authUser, chosen, rehashRaced>>
    BY <1>4 DEF SignInVerify, FindUser, storedVars, ghostVars
  <2>3. KnowsPassword(c)'
    BY <1>k, <2>1, <2>2 DEF KnowsPassword, PasswordIsTheChosenOne
  <2> QED
    BY <2>1, <2>2, <2>3, PasswordsRest
<1>5. ASSUME NEW c \in SignIns, NEW u \in Addresses, SocialFind(c, u) PROVE PasswordsKnown'
  <2>1. /\ OthersRest(c) /\ authCall'[c].pc \in {"linking", "creating"}
        /\ authCall'[c].password = NoPassword
    <3>1. CallBegins(c, IF FindUser(u) THEN "linking" ELSE "creating", u, NoPassword, 0)
      BY <1>5, RequestMoves
    <3> QED
      BY <3>1 DEF CallBegins
  <2>2. KnowsPassword(c)' /\ UNCHANGED <<authUser, chosen, rehashRaced>>
    BY <1>5, <2>1 DEF SocialFind, storedVars, ghostVars, KnowsPassword
  <2> QED
    BY <2>1, <2>2, PasswordsRest
<1>6. ASSUME NEW c \in SignIns, SocialCreate(c) PROVE PasswordsKnown'
  <2>1. PICK u \in Addresses : u = authCall[c].user
    BY <1>6, <1>t, RequestMoves
  <2>2. /\ OthersRest(c) /\ authCall'[c].pc \in {"linking", "done"}
        /\ authCall'[c].pc = "linking" => authCall'[c].password = authCall[c].password
        /\ authCall[c].pc = "creating"
        /\ UNCHANGED <<chosen, rehashRaced>>
        /\ authUser' \in {authUser, [authUser EXCEPT ![u].status = "ACTIVE"]}
    BY <1>6, <2>1, RequestMoves DEF SocialCreate, CallGoes, CallEnds, ghostVars
  <2>3. /\ \A v \in Addresses : v # u => authUser'[v] = authUser[v] /\ chosen'[v] = chosen[v]
        /\ authUser'[u].password = authUser[u].password /\ authUser'[u].legacy = authUser[u].legacy
        /\ authUser'[u].status = authUser[u].status \/ authUser'[u].status = "ACTIVE"
    BY <2>2 DEF AuthShape, AuthTypeOK
  <2>4. KnowsPassword(c)'
    BY <1>k, <2>2 DEF KnowsPassword
  <2>5. ASSUME NEW d \in AuthRequests \ {c}, authCall[d].user = u PROVE KnowsPassword(d)'
    <3>1. authCall'[d] = authCall[d] /\ KnowsPassword(d)
      BY <1>k, <2>2 DEF OthersRest
    <3> QED
      BY <2>2, <2>3, <2>5, <3>1 DEF KnowsPassword
  <2>6. u \notin rehashRaced' => authUser'[u].password = chosen'[u]
    BY <1>k, <2>2, <2>3 DEF PasswordIsTheChosenOne
  <2> QED
    BY <2>2, <2>3, <2>4, <2>5, <2>6, PasswordsFollow
<1>7. ASSUME NEW c \in SignIns, NEW p \in Providers, SocialLink(c, p) PROVE PasswordsKnown'
  <2>1. PICK u \in Addresses : u = authCall[c].user
    BY <1>7, <1>t, RequestMoves
  <2>2. UNCHANGED <<authUser, chosen, rehashRaced>> /\ authCall[c].pc = "linking"
    BY <1>7 DEF SocialLink, ghostVars
  <2>3. CASE FindUser(u)
    <3>1. CallGoes(c, "verified")
      BY <1>7, <2>1, <2>3, RequestMoves
    <3>2. authCall[c].password = NoPassword /\ authUser[u].status = "ACTIVE"
      BY <1>k, <2>2, <2>3 DEF KnowsPassword, FindUser
    <3>3. KnowsPassword(c)'
      BY <2>1, <2>2, <3>1, <3>2 DEF KnowsPassword, CallGoes
    <3> QED
      BY <2>2, <3>1, <3>3, PasswordsRest DEF CallGoes
  <2>4. CASE ~FindUser(u)
    <3>1. CallEnds(c, "done")
      BY <1>7, <2>1, <2>4, RequestMoves
    <3> QED
      BY <1>b, <2>2, <3>1 DEF CallEnds
  <2> QED
    BY <2>3, <2>4
<1>8. ASSUME NEW c \in SignIns, SessionCreate(c) PROVE PasswordsKnown'
  <2>1. authCall[c].pc = "verified" /\ CallGoes(c, "created")
    BY <1>8, RequestMoves
  <2>2. UNCHANGED <<authUser, chosen, rehashRaced>>
    BY <1>8 DEF SessionCreate, ghostVars
  <2>3. KnowsPassword(c)'
    BY <1>k, <2>1, <2>2 DEF KnowsPassword, CallGoes
  <2> QED
    BY <2>1, <2>2, <2>3, PasswordsRest DEF CallGoes
<1>9. ASSUME NEW c \in SignIns, EndOtherSessions(c) PROVE PasswordsKnown'
  <2>1. UNCHANGED <<authUser, chosen, rehashRaced>> /\ authCall[c].pc = "created"
    BY <1>9 DEF EndOtherSessions, ghostVars
  <2>2. CASE authCall[c].password = NoPassword
    <3>1. CallEnds(c, "done")
      BY <1>9, <2>2, RequestMoves
    <3> QED
      BY <1>b, <2>1, <3>1 DEF CallEnds
  <2>3. CASE authCall[c].password # NoPassword
    <3>1. CallGoes(c, "signedIn")
      BY <1>9, <2>3, RequestMoves
    <3>2. KnowsPassword(c)'
      BY <1>k, <2>1, <2>3, <3>1 DEF KnowsPassword, CallGoes
    <3> QED
      BY <2>1, <3>1, <3>2, PasswordsRest DEF CallGoes
  <2> QED
    BY <2>2, <2>3
<1>10. ASSUME NEW c \in SignIns, RehashRead(c) PROVE PasswordsKnown'
  <2>1. UNCHANGED <<authUser, chosen, rehashRaced>> /\ authCall[c].pc = "signedIn"
    BY <1>10 DEF RehashRead, storedVars, ghostVars
  <2>2. CASE authUser[authCall[c].user].legacy
    <3>1. CallGoes(c, "rehashing")
      BY <1>10, <2>2, RequestMoves
    <3>2. KnowsPassword(c)'
      BY <1>k, <2>1, <2>2, <3>1 DEF KnowsPassword, CallGoes
    <3> QED
      BY <2>1, <3>1, <3>2, PasswordsRest DEF CallGoes
  <2>3. CASE ~authUser[authCall[c].user].legacy
    <3>1. CallEnds(c, "done")
      BY <1>10, <2>3, RequestMoves
    <3> QED
      BY <1>b, <2>1, <3>1 DEF CallEnds
  <2> QED
    BY <2>2, <2>3
<1>11. ASSUME NEW c \in SignIns, RehashWrite(c) PROVE PasswordsKnown'
  <2>1. PICK u \in Addresses : u = authCall[c].user
    BY <1>11, <1>t, RequestMoves
  <2>2. PICK pw : pw = authCall[c].password
    OBVIOUS
  <2>3. /\ authUser' = [authUser EXCEPT ![u] = [@ EXCEPT !.password = pw, !.legacy = FALSE]]
        /\ UNCHANGED <<chosen, rehashRaced>> /\ OthersRest(c) /\ authCall'[c].pc = "done"
    BY <1>11, <2>1, <2>2, RequestMoves DEF RehashWrite, ghostVars, CallEnds
  <2>4. u \notin rehashRaced => pw = chosen[u]
    BY <1>11, <1>k, <2>1, <2>2 DEF RehashWrite, KnowsPassword
  <2>5. /\ \A v \in Addresses : v # u => authUser'[v] = authUser[v] /\ chosen'[v] = chosen[v]
        /\ authUser'[u].password = pw /\ authUser'[u].legacy = FALSE
        /\ authUser'[u].status = authUser[u].status
    BY <2>3 DEF AuthShape, AuthTypeOK
  <2>6. KnowsPassword(c)'
    BY <2>3 DEF KnowsPassword
  <2>7. ASSUME NEW d \in AuthRequests \ {c}, authCall[d].user = u PROVE KnowsPassword(d)'
    <3>1. authCall'[d] = authCall[d] /\ KnowsPassword(d)
      BY <1>k, <2>3 DEF OthersRest
    <3> QED
      BY <2>3, <2>5, <2>7, <3>1 DEF KnowsPassword
  <2> QED
    BY <2>3, <2>4, <2>5, <2>6, <2>7, PasswordsFollow
<1>12. ASSUME NEW s, Logout(s) PROVE PasswordsKnown'
  BY <1>12, <1>a DEF Logout, ghostVars
<1>13. ASSUME NEW c \in Issuers, NEW u \in Addresses, IssueRetire(c, u) PROVE PasswordsKnown'
  <2>1. OthersRest(c) /\ authCall'[c].pc = "retired"
    <3>1. CallBegins(c, "retired", u, NoPassword, 0)
      BY <1>13, RequestMoves
    <3> QED
      BY <3>1 DEF CallBegins
  <2> QED
    BY <1>13, <1>b, <2>1 DEF IssueRetire
<1>14. ASSUME NEW c \in Issuers, IssueStore(c) PROVE PasswordsKnown'
  <2>1. OthersRest(c) /\ authCall'[c].pc = "done"
    BY <1>14, RequestMoves DEF CallEnds
  <2> QED
    BY <1>14, <1>b, <2>1 DEF IssueStore, ghostVars
<1>15. ASSUME NEW u, NEW i, CodeLapses(u, i) PROVE PasswordsKnown'
  BY <1>15, <1>a DEF CodeLapses, ghostVars
<1>16. ASSUME NEW c \in Resetters, NEW u \in Addresses, NEW guess, NEW pw \in NewPasswords,
              ResetRead(c, u, guess, pw)
       PROVE  PasswordsKnown'
  <2>1. PICK i \in DOMAIN codes[u] : CallBegins(c, Verdict(codes[u][i], guess), u, pw, i)
    BY <1>16, ResetBegins
  <2>2. OthersRest(c) /\ authCall'[c].pc \in {"burning", "missing", "hashing"}
    BY <2>1 DEF CallBegins, Verdict
  <2> QED
    BY <1>16, <1>b, <2>2 DEF ResetRead, storedVars, ghostVars
<1>17. ASSUME NEW c \in Resetters, ResetRefuse(c) PROVE PasswordsKnown'
  <2>1. OthersRest(c) /\ authCall'[c].pc = "idle"
    BY <1>17, RequestMoves DEF CallEnds
  <2> QED
    BY <1>17, <1>b, <2>1 DEF ResetRefuse, ghostVars
<1>18. ASSUME NEW c \in Resetters, ResetCommit(c) PROVE PasswordsKnown'
  <2>1. PICK u \in Addresses : u = authCall[c].user
    BY <1>18, <1>t, RequestMoves, SMTT(30)
  <2>2. PICK pw : pw = authCall[c].password
    OBVIOUS
  <2>3. /\ authUser' = [authUser EXCEPT ![u] = [@ EXCEPT !.password = pw, !.legacy = FALSE]]
        /\ chosen' = [chosen EXCEPT ![u] = pw]
        /\ rehashRaced' = rehashRaced \cup
             {v \in {u} : \E d \in SignIns : authCall[d].pc = "rehashing" /\ authCall[d].user = v}
        /\ OthersRest(c) /\ authCall'[c].pc = "done"
    BY <1>18, <2>1, <2>2, RequestMoves DEF ResetCommit, CallEnds
  <2>4. /\ \A v \in Addresses : v # u => authUser'[v] = authUser[v] /\ chosen'[v] = chosen[v]
        /\ authUser'[u].password = pw /\ authUser'[u].legacy = FALSE /\ chosen'[u] = pw
        /\ authUser'[u].status = authUser[u].status
        /\ rehashRaced \subseteq rehashRaced'
    BY <2>3 DEF AuthShape, AuthTypeOK
  <2>5. KnowsPassword(c)'
    BY <2>3 DEF KnowsPassword
  <2>6. ASSUME NEW d \in AuthRequests \ {c}, authCall[d].user = u PROVE KnowsPassword(d)'
    <3>1. authCall'[d] = authCall[d] /\ KnowsPassword(d)
      BY <1>k, <2>3 DEF OthersRest
    <3>2. authCall[d].pc = "rehashing" => u \in rehashRaced'
      BY <2>3, <2>6, <3>1 DEF KnowsPassword
    <3> QED
      BY <2>4, <2>6, <3>1, <3>2 DEF KnowsPassword
  <2> QED
    BY <2>3, <2>4, <2>5, <2>6, PasswordsFollow
<1>19. ASSUME NEW u \in Addresses, BlockAccount(u) PROVE PasswordsKnown'
  <2>1. /\ authUser' = [authUser EXCEPT ![u].status = "BLOCKED"]
        /\ UNCHANGED <<chosen, rehashRaced, authCall>>
    BY <1>19 DEF BlockAccount, ghostVars
  <2>2. /\ \A v \in Addresses : v # u => authUser'[v] = authUser[v] /\ chosen'[v] = chosen[v]
        /\ authUser'[u].password = authUser[u].password /\ authUser'[u].legacy = authUser[u].legacy
        /\ authUser'[u].status = "BLOCKED"
    BY <2>1 DEF AuthShape, AuthTypeOK
  <2>3. u \notin rehashRaced' => authUser'[u].password = chosen'[u]
    BY <1>k, <2>1, <2>2 DEF PasswordIsTheChosenOne
  <2>4. ASSUME NEW d \in AuthRequests PROVE KnowsPassword(d)'
    <3>1. authCall'[d] = authCall[d] /\ KnowsPassword(d)
      BY <1>k, <2>1
    <3>2. authCall[d].pc \notin {"idle", "done"} => authCall[d].user \in Addresses
      BY <1>t
    <3>3. authCall[d].user \in Addresses =>
             /\ authUser'[authCall[d].user].legacy = authUser[authCall[d].user].legacy
             /\ authUser[authCall[d].user].status # "NONE" => authUser'[authCall[d].user].status # "NONE"
      BY <2>2
    <3> QED
      BY <2>1, <3>1, <3>2, <3>3 DEF KnowsPassword
  <2>5. \A v \in Addresses \ rehashRaced' : authUser'[v].password = chosen'[v]
    BY <1>k, <2>1, <2>2, <2>3 DEF PasswordIsTheChosenOne
  <2> QED
    BY <2>4, <2>5 DEF PasswordsKnown, PasswordIsTheChosenOne
<1>20. CASE UNCHANGED authVars
  BY <1>20, <1>a DEF authVars, storedVars, ghostVars
<1> QED
  BY <1>1, <1>2, <1>3, <1>4, <1>5, <1>6, <1>7, <1>8, <1>9, <1>10, <1>11, <1>12, <1>13, <1>14,
     <1>15, <1>16, <1>17, <1>18, <1>19, <1>20 DEF AuthNext, AuthStep

-----------------------------------------------------------------------------
(* Accounts: sessions                                                      *)

JustMade(u) == {c \in SignIns : authCall[c].user = u /\ authCall[c].pc = "created"}

LEMMA CountsAreFinite ==
    ASSUME SessionsKnown, NEW u
    PROVE  /\ IsFiniteSet(SessionsOf(u)) /\ Cardinality(SessionsOf(u)) \in Nat
           /\ IsFiniteSet(JustMade(u)) /\ Cardinality(JustMade(u)) \in Nat
<1>1. SessionsOf(u) \subseteq sessions /\ IsFiniteSet(sessions)
  BY DEF SessionsOf, SessionsKnown
<1>2. JustMade(u) \subseteq SignIns /\ IsFiniteSet(SignIns)
  BY AuthConstants DEF JustMade
<1> QED
  BY <1>1, <1>2, FS_Subset, FS_CardinalityType

\* No session is made, and no sign-in is about to end the others or has just done so.
LEMMA SessionsShrink ==
    ASSUME AuthShape, SessionsKnown, sessions' \subseteq sessions,
           \A s \in sessions' : resets'[s.user] = resets[s.user],
           \A c \in AuthRequests :
              \/ authCall'[c] = authCall[c]
              \/ /\ authCall[c].pc # "created" /\ authCall'[c].pc # "created"
                 /\ authCall[c].pc \in SignedIn => authCall'[c].pc \in SignedIn
    PROVE  SessionsKnown'
<1> USE DEF AuthRequests
<1>1. IsFiniteSet(sessions')
  BY FS_Subset DEF SessionsKnown
<1>2. \A s \in sessions : s.id \in SignIns
  BY DEF AuthShape, AuthTypeOK
<1>3. \A s \in sessions' : authCall'[s.id].pc \in SignedIn
  BY <1>2 DEF SessionsKnown, SignedIn
<1>4. \A s, t \in sessions' : s.id = t.id => s = t
  BY DEF SessionsKnown
<1>5. \A s \in sessions' : s.resets = resets'[s.user]
  BY DEF SessionsKnown, ResetEndsOlderSessions
<1>6. ASSUME NEW u \in Addresses PROVE Cardinality(SessionsOf(u)') <= 1 + Cardinality(JustMade(u)')
  <2>1. JustMade(u)' = JustMade(u)
    BY DEF JustMade
  <2>2. SessionsOf(u)' \subseteq SessionsOf(u)
    BY DEF SessionsOf
  <2>3. Cardinality(SessionsOf(u)') <= Cardinality(SessionsOf(u)) /\ Cardinality(SessionsOf(u)') \in Nat
    BY <2>2, CountsAreFinite, FS_Subset, FS_CardinalityType
  <2>4. Cardinality(SessionsOf(u)) <= 1 + Cardinality(JustMade(u))
    BY DEF SessionsKnown, SingleActiveDevice, JustMade
  <2> QED
    BY <2>1, <2>3, <2>4, CountsAreFinite
<1>7. SingleActiveDevice'
  BY <1>6 DEF SingleActiveDevice, JustMade
<1> QED
  BY <1>1, <1>3, <1>4, <1>5, <1>7 DEF SessionsKnown, ResetEndsOlderSessions

\* A verified sign-in makes its session, and is counted until it has ended the others.
LEMMA SessionMade ==
    ASSUME AuthShape, SessionsKnown, NEW c \in SignIns, SessionCreate(c)
    PROVE  SessionsKnown'
<1> USE DEF AuthRequests
<1>1. PICK u \in Addresses : u = authCall[c].user
  BY RequestsTyped, RequestMoves
<1>2. PICK new : new = [id |-> c, user |-> u, resets |-> resets[u]]
  OBVIOUS
<1>3. sessions' = sessions \cup {new} /\ UNCHANGED resets
  BY <1>1, <1>2 DEF SessionCreate, ghostVars
<1>4. authCall[c].pc = "verified" /\ CallGoes(c, "created")
  BY RequestMoves
<1>5. /\ authCall'[c].pc = "created" /\ authCall'[c].user = u
      /\ \A d \in AuthRequests \ {c} : authCall'[d] = authCall[d]
  BY <1>1, <1>4 DEF CallGoes, OthersRest
<1>6. \A s \in sessions : s.id \in SignIns /\ s.id # c
  BY <1>4 DEF AuthShape, AuthTypeOK, SessionsKnown, SignedIn
<1>7. IsFiniteSet(sessions')
  BY <1>3, FS_AddElement DEF SessionsKnown
<1>8. \A s \in sessions' : authCall'[s.id].pc \in SignedIn
  BY <1>2, <1>3, <1>5, <1>6 DEF SessionsKnown, SignedIn
<1>9. \A s, t \in sessions' : s.id = t.id => s = t
  BY <1>2, <1>3, <1>6 DEF SessionsKnown
<1>10. \A s \in sessions' : s.resets = resets'[s.user]
  BY <1>2, <1>3 DEF SessionsKnown, ResetEndsOlderSessions
<1>11. ASSUME NEW v \in Addresses PROVE Cardinality(SessionsOf(v)') <= 1 + Cardinality(JustMade(v)')
  <2>1. Cardinality(SessionsOf(v)) <= 1 + Cardinality(JustMade(v))
    BY DEF SessionsKnown, SingleActiveDevice, JustMade
  <2>2. CASE v # u
    <3>1. SessionsOf(v)' = SessionsOf(v)
      BY <1>2, <1>3, <2>2 DEF SessionsOf
    <3>2. JustMade(v)' = JustMade(v)
      BY <1>4, <1>5, <2>2 DEF JustMade
    <3> QED
      BY <2>1, <3>1, <3>2
  <2>3. CASE v = u
    <3>1. SessionsOf(v)' = SessionsOf(v) \cup {new} /\ new \notin SessionsOf(v)
      BY <1>2, <1>3, <1>6, <2>3 DEF SessionsOf
    <3>2. JustMade(v)' = JustMade(v) \cup {c} /\ c \notin JustMade(v)
      BY <1>4, <1>5, <2>3 DEF JustMade
    <3>3. /\ Cardinality(SessionsOf(v)') = Cardinality(SessionsOf(v)) + 1
          /\ Cardinality(JustMade(v)') = Cardinality(JustMade(v)) + 1
      BY <3>1, <3>2, CountsAreFinite, FS_AddElement
    <3> QED
      BY <2>1, <3>3, CountsAreFinite
  <2> QED
    BY <2>2, <2>3
<1>12. SingleActiveDevice'
  BY <1>11 DEF SingleActiveDevice, JustMade
<1> QED
  BY <1>7, <1>8, <1>9, <1>10, <1>12 DEF SessionsKnown, ResetEndsOlderSessions

\* The after hook leaves the session it belongs to.
LEMMA OthersEnded ==
    ASSUME AuthShape, SessionsKnown, NEW c \in SignIns, EndOtherSessions(c)
    PROVE  SessionsKnown'
<1> USE DEF AuthRequests
<1>1. PICK u \in Addresses : u = authCall[c].user
  BY RequestsTyped, RequestMoves
<1>2. sessions' = {s \in sessions : s.user = u => s.id = c} /\ UNCHANGED resets
  BY <1>1 DEF EndOtherSessions, ghostVars
<1>3. /\ authCall[c].pc = "created" /\ authCall'[c].pc \in {"done", "signedIn"}
      /\ \A d \in AuthRequests \ {c} : authCall'[d] = authCall[d]
  BY RequestMoves DEF CallGoes, CallEnds, OthersRest
<1>4. \A s \in sessions : s.id \in SignIns
  BY DEF AuthShape, AuthTypeOK
<1>5. IsFiniteSet(sessions')
  BY <1>2, FS_Subset DEF SessionsKnown
<1>6. \A s \in sessions' : authCall'[s.id].pc \in SignedIn
  BY <1>2, <1>3, <1>4 DEF SessionsKnown, SignedIn
<1>7. \A s, t \in sessions' : s.id = t.id => s = t
  BY <1>2 DEF SessionsKnown
<1>8. \A s \in sessions' : s.resets = resets'[s.user]
  BY <1>2 DEF SessionsKnown, ResetEndsOlderSessions
<1>9. ASSUME NEW v \in Addresses PROVE Cardinality(SessionsOf(v)') <= 1 + Cardinality(JustMade(v)')
  <2>1. CASE v # u
    <3>1. SessionsOf(v)' = SessionsOf(v) /\ JustMade(v)' = JustMade(v)
      BY <1>1, <1>2, <1>3, <2>1 DEF SessionsOf, JustMade
    <3> QED
      BY <3>1 DEF SessionsKnown, SingleActiveDevice, JustMade
  <2>2. CASE v = u
    <3>1. \A s, t \in SessionsOf(v)' : s = t
      BY <1>2, <2>2 DEF SessionsOf, SessionsKnown
    <3>2. SessionsOf(v)' = {} \/ \E s : SessionsOf(v)' = {s}
      BY <3>1
    <3>3. Cardinality(SessionsOf(v)') \in {0, 1}
      BY <3>2, FS_EmptySet, FS_Singleton
    <3>4. Cardinality(JustMade(v)') \in Nat
      <4>1. JustMade(v)' \subseteq SignIns
        BY DEF JustMade
      <4> QED
        BY <4>1, AuthConstants, FS_Subset, FS_CardinalityType
    <3> QED
      BY <3>3, <3>4
  <2> QED
    BY <2>1, <2>2
<1>10. SingleActiveDevice'
  BY <1>9 DEF SingleActiveDevice, JustMade
<1> QED
  BY <1>5, <1>6, <1>7, <1>8, <1>10 DEF SessionsKnown, ResetEndsOlderSessions

\* Every sign-in, logout and reset keeps what is known of the sessions.
LEMMA SessionsStep ==
    ASSUME AuthShape, SessionsKnown, [AuthNext]_authVars
    PROVE  SessionsKnown'
<1> USE DEF AuthRequests
<1>a. ASSUME NEW c \in AuthRequests, UNCHANGED <<sessions, resets>>, OthersRest(c),
             authCall[c].pc # "created", authCall'[c].pc # "created",
             authCall[c].pc \in SignedIn => authCall'[c].pc \in SignedIn
      PROVE  SessionsKnown'
  BY <1>a, SessionsShrink DEF OthersRest
<1>b. ASSUME UNCHANGED <<sessions, resets, authCall>> PROVE SessionsKnown'
  BY <1>b, SessionsShrink
<1>c. ASSUME NEW c \in AuthRequests, UNCHANGED <<sessions, resets>>, NEW pc \in AuthSteps \ {"created"},
             NEW u, NEW pw, NEW k, CallBegins(c, pc, u, pw, k)
      PROVE  SessionsKnown'
  BY <1>a, <1>c DEF CallBegins, SignedIn
<1>1. ASSUME NEW c \in Registrants, NEW u \in Addresses, NEW pw \in NewPasswords,
             RegisterRead(c, u, pw) \/ AgentRegister(c, u, pw)
      PROVE  SessionsKnown'
  <2>1. CallBegins(c, "registering", u, pw, 0) /\ UNCHANGED <<sessions, resets>>
    BY <1>1, RequestMoves DEF RegisterRead, AgentRegister, storedVars, ghostVars
  <2> QED
    BY <2>1, <1>c DEF AuthSteps
<1>2. ASSUME NEW c \in Registrants, RegisterWrite(c) PROVE SessionsKnown'
  <2>1. /\ OthersRest(c) /\ UNCHANGED <<sessions, resets>> /\ authCall[c].pc = "registering"
        /\ authCall'[c].pc \in {"done", "undoing"}
    BY <1>2, RequestMoves DEF RegisterWrite, CallGoes, CallEnds
  <2> QED
    BY <2>1, <1>a DEF SignedIn
<1>3. ASSUME NEW c \in Registrants, RegisterUndo(c) PROVE SessionsKnown'
  <2>1. /\ OthersRest(c) /\ UNCHANGED <<sessions, resets>> /\ authCall[c].pc = "undoing"
        /\ authCall'[c].pc = "done"
    BY <1>3, RequestMoves DEF RegisterUndo, ghostVars, CallEnds
  <2> QED
    BY <2>1, <1>a DEF SignedIn
<1>4. ASSUME NEW c \in SignIns, NEW u \in Addresses, NEW pw \in Passwords, SignInVerify(c, u, pw)
      PROVE  SessionsKnown'
  <2>1. CallBegins(c, "verified", u, pw, 0) /\ UNCHANGED <<sessions, resets>>
    BY <1>4, RequestMoves DEF SignInVerify, storedVars, ghostVars
  <2> QED
    BY <2>1, <1>c DEF AuthSteps
<1>5. ASSUME NEW c \in SignIns, NEW u \in Addresses, SocialFind(c, u) PROVE SessionsKnown'
  <2>1. CallBegins(c, IF FindUser(u) THEN "linking" ELSE "creating", u, NoPassword, 0)
    BY <1>5, RequestMoves
  <2>2. UNCHANGED <<sessions, resets>>
    BY <1>5 DEF SocialFind, storedVars, ghostVars
  <2> QED
    BY <2>1, <2>2, <1>c DEF AuthSteps
<1>6. ASSUME NEW c \in SignIns, SocialCreate(c) PROVE SessionsKnown'
  <2>1. /\ OthersRest(c) /\ UNCHANGED <<sessions, resets>> /\ authCall[c].pc = "creating"
        /\ authCall'[c].pc \in {"done", "linking"}
    BY <1>6, RequestMoves DEF SocialCreate, ghostVars, CallGoes, CallEnds
  <2> QED
    BY <2>1, <1>a DEF SignedIn
<1>7. ASSUME NEW c \in SignIns, NEW p \in Providers, SocialLink(c, p) PROVE SessionsKnown'
  <2>1. /\ OthersRest(c) /\ UNCHANGED <<sessions, resets>> /\ authCall[c].pc = "linking"
        /\ authCall'[c].pc \in {"done", "verified"}
    BY <1>7, RequestMoves DEF SocialLink, ghostVars, CallGoes, CallEnds
  <2> QED
    BY <2>1, <1>a DEF SignedIn
<1>8. ASSUME NEW c \in SignIns, RehashRead(c) PROVE SessionsKnown'
  <2>1. /\ OthersRest(c) /\ UNCHANGED <<sessions, resets>> /\ authCall[c].pc = "signedIn"
        /\ authCall'[c].pc \in {"done", "rehashing"}
    BY <1>8, RequestMoves DEF RehashRead, storedVars, ghostVars, CallGoes, CallEnds
  <2> QED
    BY <2>1, <1>a DEF SignedIn
<1>9. ASSUME NEW c \in SignIns, RehashWrite(c) PROVE SessionsKnown'
  <2>1. /\ OthersRest(c) /\ UNCHANGED <<sessions, resets>> /\ authCall[c].pc = "rehashing"
        /\ authCall'[c].pc = "done"
    BY <1>9, RequestMoves DEF RehashWrite, ghostVars, CallEnds
  <2> QED
    BY <2>1, <1>a DEF SignedIn
<1>10. ASSUME NEW s, Logout(s) PROVE SessionsKnown'
  BY <1>10, SessionsShrink DEF Logout, ghostVars
<1>11. ASSUME NEW c \in Issuers, NEW u \in Addresses, IssueRetire(c, u) PROVE SessionsKnown'
  <2>1. CallBegins(c, "retired", u, NoPassword, 0) /\ UNCHANGED <<sessions, resets>>
    BY <1>11, RequestMoves DEF IssueRetire
  <2> QED
    BY <2>1, <1>c DEF AuthSteps
<1>12. ASSUME NEW c \in Issuers, IssueStore(c) PROVE SessionsKnown'
  <2>1. /\ OthersRest(c) /\ UNCHANGED <<sessions, resets>> /\ authCall[c].pc = "retired"
        /\ authCall'[c].pc = "done"
    BY <1>12, RequestMoves DEF IssueStore, ghostVars, CallEnds
  <2> QED
    BY <2>1, <1>a DEF SignedIn
<1>13. ASSUME NEW u, NEW i, CodeLapses(u, i) PROVE SessionsKnown'
  BY <1>13, <1>b DEF CodeLapses, ghostVars
<1>14. ASSUME NEW c \in Resetters, NEW u \in Addresses, NEW guess, NEW pw \in NewPasswords,
              ResetRead(c, u, guess, pw)
       PROVE  SessionsKnown'
  <2>1. PICK i \in DOMAIN codes[u] : CallBegins(c, Verdict(codes[u][i], guess), u, pw, i)
    BY <1>14, ResetBegins
  <2>2. UNCHANGED <<sessions, resets>> /\ Verdict(codes[u][i], guess) \in AuthSteps \ {"created"}
    BY <1>14 DEF ResetRead, storedVars, ghostVars, Verdict, AuthSteps
  <2> QED
    BY <2>1, <2>2, <1>c
<1>15. ASSUME NEW c \in Resetters, ResetRefuse(c) PROVE SessionsKnown'
  <2>1. /\ OthersRest(c) /\ UNCHANGED <<sessions, resets>> /\ authCall[c].pc \in {"burning", "missing"}
        /\ authCall'[c].pc = "idle"
    BY <1>15, RequestMoves DEF ResetRefuse, ghostVars, CallEnds
  <2> QED
    BY <2>1, <1>a, SMTT(30) DEF SignedIn
<1>16. ASSUME NEW c \in Resetters, ResetCommit(c) PROVE SessionsKnown'
  <2>1. PICK u : u = authCall[c].user
    OBVIOUS
  <2>2. /\ OthersRest(c) /\ authCall[c].pc = "hashing" /\ authCall'[c].pc = "done"
        /\ sessions' = sessions \ SessionsOf(u) /\ resets' = [resets EXCEPT ![u] = @ + 1]
    BY <1>16, <2>1, RequestMoves DEF ResetCommit, CallEnds
  <2>3. \A s \in sessions' : s.user # u /\ s.user \in Addresses
    BY <2>2 DEF SessionsOf, AuthShape, AuthTypeOK
  <2>4. \A s \in sessions' : resets'[s.user] = resets[s.user]
    BY <2>2, <2>3 DEF AuthShape, AuthTypeOK
  <2> QED
    BY <2>2, <2>4, SessionsShrink DEF OthersRest, SignedIn
<1>17. ASSUME NEW u, BlockAccount(u) PROVE SessionsKnown'
  BY <1>17, <1>b DEF BlockAccount, ghostVars
<1>18. CASE UNCHANGED authVars
  BY <1>18, <1>b DEF authVars, storedVars, ghostVars
<1> QED
  BY <1>1, <1>2, <1>3, <1>4, <1>5, <1>6, <1>7, <1>8, <1>9, <1>10, <1>11, <1>12, <1>13, <1>14,
     <1>15, <1>16, <1>17, <1>18, SessionMade, OthersEnded DEF AuthNext, AuthStep

-----------------------------------------------------------------------------
(* Accounts: codes                                                         *)

\* No code is issued, and no request for one begins or ends.
LEMMA CodesRest ==
    ASSUME CodesKnown, issuesRaced' = issuesRaced,
           \A u \in Addresses : \A i \in DOMAIN codes'[u] :
              Live(codes'[u][i]) => i \in DOMAIN codes[u] /\ Live(codes[u][i]),
           \A c \in AuthRequests :
              \/ authCall'[c] = authCall[c]
              \/ authCall[c].pc # "retired" /\ authCall'[c].pc # "retired"
    PROVE  CodesKnown'
<1>1. \A u \in Addresses : Retiring(u)' = Retiring(u)
  BY DEF Retiring, AuthRequests
<1>2. \A u \in Addresses : \A i \in LiveCodes(u)' : i \in LiveCodes(u)
  BY DEF LiveCodes, Live
<1> QED
  BY <1>1, <1>2 DEF CodesKnown

\* Marking or counting makes no code live.
LEMMA NoneRevived ==
    ASSUME AuthShape, NEW u \in Addresses, NEW i,
           \/ codes' = [codes EXCEPT ![u][i].state = "CONSUMED"]
           \/ codes' = [codes EXCEPT ![u][i].state = "LAPSED"]
           \/ codes' = [codes EXCEPT ![u][i].attempts = @ + 1]
    PROVE  \A v \in Addresses : \A j \in DOMAIN codes'[v] :
           Live(codes'[v][j]) => j \in DOMAIN codes[v] /\ Live(codes[v][j])
<1>1. /\ \A v \in Addresses : /\ v # u => codes'[v] = codes[v]
                              /\ DOMAIN codes'[v] = DOMAIN codes[v]
      /\ \A j \in DOMAIN codes[u] : Live(codes'[u][j]) => Live(codes[u][j])
  BY RowChanges
<1> QED
  BY <1>1

\* Asking for a code retires the others and stores it; who asks alone has one.
LEMMA CodesStep ==
    ASSUME AuthShape, CodesKnown, [AuthNext]_authVars
    PROVE  CodesKnown'
<1> USE DEF AuthRequests
<1>a. ASSUME NEW c \in AuthRequests, UNCHANGED <<codes, issuesRaced>>, OthersRest(c),
             authCall[c].pc # "retired", authCall'[c].pc # "retired"
      PROVE  CodesKnown'
  BY <1>a, CodesRest DEF OthersRest
<1>b. ASSUME UNCHANGED <<codes, issuesRaced, authCall>> PROVE CodesKnown'
  BY <1>b, CodesRest
<1>c. ASSUME NEW c \in AuthRequests, UNCHANGED <<codes, issuesRaced>>, NEW pc \in AuthSteps \ {"retired"},
             NEW u, NEW pw, NEW k, CallBegins(c, pc, u, pw, k)
      PROVE  CodesKnown'
  BY <1>a, <1>c DEF CallBegins
<1>1. ASSUME NEW c \in Registrants, NEW u \in Addresses, NEW pw \in NewPasswords,
             RegisterRead(c, u, pw) \/ AgentRegister(c, u, pw)
      PROVE  CodesKnown'
  <2>1. CallBegins(c, "registering", u, pw, 0) /\ UNCHANGED <<codes, issuesRaced>>
    BY <1>1, RequestMoves DEF RegisterRead, AgentRegister, storedVars, ghostVars
  <2> QED
    BY <2>1, <1>c DEF AuthSteps
<1>2. ASSUME NEW c \in Registrants, RegisterWrite(c) \/ RegisterUndo(c) PROVE CodesKnown'
  <2>1. /\ OthersRest(c) /\ UNCHANGED <<codes, issuesRaced>> /\ authCall[c].pc # "retired"
        /\ authCall'[c].pc # "retired"
    BY <1>2, RequestMoves DEF RegisterWrite, RegisterUndo, ghostVars, CallGoes, CallEnds
  <2> QED
    BY <2>1, <1>a
<1>3. ASSUME NEW c \in SignIns, NEW u \in Addresses, NEW pw \in Passwords, SignInVerify(c, u, pw)
      PROVE  CodesKnown'
  <2>1. CallBegins(c, "verified", u, pw, 0) /\ UNCHANGED <<codes, issuesRaced>>
    BY <1>3, RequestMoves DEF SignInVerify, storedVars, ghostVars
  <2> QED
    BY <2>1, <1>c DEF AuthSteps
<1>4. ASSUME NEW c \in SignIns, NEW u \in Addresses, SocialFind(c, u) PROVE CodesKnown'
  <2>1. CallBegins(c, IF FindUser(u) THEN "linking" ELSE "creating", u, NoPassword, 0)
    BY <1>4, RequestMoves
  <2>2. UNCHANGED <<codes, issuesRaced>>
    BY <1>4 DEF SocialFind, storedVars, ghostVars
  <2> QED
    BY <2>1, <2>2, <1>c DEF AuthSteps
<1>5. ASSUME NEW c \in SignIns, NEW p \in Providers, SocialLink(c, p) PROVE CodesKnown'
  <2>1. /\ OthersRest(c) /\ UNCHANGED <<codes, issuesRaced>> /\ authCall[c].pc # "retired"
        /\ authCall'[c].pc # "retired"
    BY <1>5, RequestMoves DEF SocialLink, ghostVars, CallGoes, CallEnds
  <2> QED
    BY <2>1, <1>a
<1>6. ASSUME NEW c \in SignIns, SocialCreate(c) \/ SessionCreate(c) \/ EndOtherSessions(c)
      PROVE  CodesKnown'
  <2>1. /\ OthersRest(c) /\ UNCHANGED <<codes, issuesRaced>> /\ authCall[c].pc # "retired"
        /\ authCall'[c].pc # "retired"
    BY <1>6, RequestMoves DEF SocialCreate, SessionCreate, EndOtherSessions, ghostVars, CallGoes, CallEnds
  <2> QED
    BY <2>1, <1>a
<1>7. ASSUME NEW c \in SignIns, RehashRead(c) \/ RehashWrite(c) PROVE CodesKnown'
  <2>1. /\ OthersRest(c) /\ UNCHANGED <<codes, issuesRaced>> /\ authCall[c].pc # "retired"
        /\ authCall'[c].pc # "retired"
    BY <1>7, RequestMoves DEF RehashRead, RehashWrite, storedVars, ghostVars, CallGoes, CallEnds
  <2> QED
    BY <2>1, <1>a
<1>8. ASSUME NEW s, Logout(s) PROVE CodesKnown'
  BY <1>8, <1>b DEF Logout, ghostVars
<1>9. ASSUME NEW c \in Issuers, NEW u \in Addresses, IssueRetire(c, u) PROVE CodesKnown'
  <2>1. CallBegins(c, "retired", u, NoPassword, 0)
    BY <1>9, RequestMoves
  <2>2. /\ authCall[c].pc = "idle" /\ authCall'[c].pc = "retired" /\ authCall'[c].user = u
        /\ \A d \in AuthRequests \ {c} : authCall'[d] = authCall[d]
    BY <2>1 DEF CallBegins, OthersRest
  <2>3. /\ codes' = [codes EXCEPT ![u] = [i \in DOMAIN @ |->
               IF Live(@[i]) THEN [@[i] EXCEPT !.state = "CONSUMED"] ELSE @[i]]]
        /\ issuesRaced' = issuesRaced \cup {v \in {u} : Retiring(v) # {}}
    BY <1>9 DEF IssueRetire, Retiring
  <2>4. PICK list : list = [i \in DOMAIN codes[u] |->
               IF Live(codes[u][i]) THEN [codes[u][i] EXCEPT !.state = "CONSUMED"] ELSE codes[u][i]]
    OBVIOUS
  <2>5. codes'[u] = list /\ \A v \in Addresses : v # u => codes'[v] = codes[v]
    BY <2>3, <2>4 DEF AuthShape
  <2>6. LiveCodes(u)' = {}
    <3>1. codes[u] \in Seq(CodeRow)
      BY DEF AuthShape, CodeRow
    <3>2. \A i \in DOMAIN codes[u] : codes[u][i] \in CodeRow
      BY <3>1, LenProperties
    <3>3. \A i \in DOMAIN list : ~Live(list[i])
      BY <2>4, <3>2 DEF Live, CodeRow
    <3> QED
      BY <2>5, <3>3 DEF LiveCodes
  <2>7. ASSUME NEW v \in Addresses \ issuesRaced'
        PROVE  /\ \A i, j \in LiveCodes(v)' : i = j
               /\ \A d, e \in Retiring(v)' : d = e
               /\ Retiring(v)' # {} => LiveCodes(v)' = {}
    <3>1. CASE v = u
      <4>1. Retiring(u) = {}
        BY <2>3, <2>7, <3>1
      <4>2. Retiring(u)' \subseteq {c}
        BY <2>2, <4>1 DEF Retiring
      <4> QED
        BY <2>6, <3>1, <4>2
    <3>2. CASE v # u
      <4>1. LiveCodes(v)' = LiveCodes(v) /\ Retiring(v)' = Retiring(v) /\ v \notin issuesRaced
        BY <2>2, <2>3, <2>5, <3>2 DEF LiveCodes, Retiring
      <4> QED
        BY <4>1 DEF CodesKnown
    <3> QED
      BY <3>1, <3>2
  <2> QED
    BY <2>7 DEF CodesKnown
<1>10. ASSUME NEW c \in Issuers, IssueStore(c) PROVE CodesKnown'
  <2>1. PICK u \in Addresses : u = authCall[c].user
    BY <1>10, RequestsTyped, RequestMoves
  <2>2. /\ authCall[c].pc = "retired" /\ authCall'[c].pc = "done"
        /\ \A d \in AuthRequests \ {c} : authCall'[d] = authCall[d]
    BY <1>10, RequestMoves DEF CallEnds, OthersRest
  <2>3. PICK row : row = [code |-> c, state |-> "LIVE", attempts |-> 0]
    OBVIOUS
  <2>4. codes' = [codes EXCEPT ![u] = Append(@, row)] /\ issuesRaced' = issuesRaced
    BY <1>10, <2>1, <2>3 DEF IssueStore, ghostVars
  <2>5. codes'[u] = Append(codes[u], row) /\ \A v \in Addresses : v # u => codes'[v] = codes[v]
    BY <2>4 DEF AuthShape
  <2>6. row \in CodeRow /\ codes[u] \in Seq(CodeRow)
    BY <2>3 DEF AuthShape, CodeRow
  <2>7. /\ Len(codes[u]) \in Nat /\ DOMAIN codes[u] = 1 .. Len(codes[u])
        /\ DOMAIN codes'[u] = 1 .. (Len(codes[u]) + 1)
        /\ \A i \in 1 .. Len(codes[u]) : codes'[u][i] = codes[u][i]
    BY <2>5, <2>6, AppendProperties, LenProperties
  <2>8. ASSUME NEW v \in Addresses \ issuesRaced'
        PROVE  /\ \A i, j \in LiveCodes(v)' : i = j
               /\ \A d, e \in Retiring(v)' : d = e
               /\ Retiring(v)' # {} => LiveCodes(v)' = {}
    <3>1. CASE v = u
      <4>1. c \in Retiring(u) /\ u \notin issuesRaced
        BY <2>1, <2>2, <2>4, <2>8, <3>1 DEF Retiring
      <4>2. LiveCodes(u) = {} /\ \A d \in Retiring(u) : d = c
        BY <4>1 DEF CodesKnown
      <4>3. Retiring(u)' = {}
        BY <2>2, <4>2 DEF Retiring
      <4>4. \A i \in LiveCodes(u)' : i = Len(codes[u]) + 1
        BY <2>7, <4>2 DEF LiveCodes
      <4> QED
        BY <3>1, <4>3, <4>4
    <3>2. CASE v # u
      <4>1. LiveCodes(v)' = LiveCodes(v) /\ Retiring(v)' = Retiring(v) /\ v \notin issuesRaced
        BY <2>1, <2>2, <2>4, <2>5, <3>2 DEF LiveCodes, Retiring
      <4> QED
        BY <4>1 DEF CodesKnown
    <3> QED
      BY <3>1, <3>2
  <2> QED
    BY <2>8 DEF CodesKnown
<1>11. ASSUME NEW u \in Addresses, NEW i, CodeLapses(u, i) PROVE CodesKnown'
  <2>1. codes' = [codes EXCEPT ![u][i].state = "LAPSED"] /\ UNCHANGED <<authCall, issuesRaced>>
    BY <1>11 DEF CodeLapses, ghostVars
  <2>2. \A v \in Addresses : \A j \in DOMAIN codes'[v] :
           Live(codes'[v][j]) => j \in DOMAIN codes[v] /\ Live(codes[v][j])
    BY <2>1, NoneRevived
  <2> QED
    BY <2>1, <2>2, CodesRest
<1>12. ASSUME NEW c \in Resetters, NEW u \in Addresses, NEW guess, NEW pw \in NewPasswords,
              ResetRead(c, u, guess, pw)
       PROVE  CodesKnown'
  <2>1. PICK i \in DOMAIN codes[u] : CallBegins(c, Verdict(codes[u][i], guess), u, pw, i)
    BY <1>12, ResetBegins
  <2>2. UNCHANGED <<codes, issuesRaced>> /\ Verdict(codes[u][i], guess) \in AuthSteps \ {"retired"}
    BY <1>12 DEF ResetRead, storedVars, ghostVars, Verdict, AuthSteps
  <2> QED
    BY <2>1, <2>2, <1>c
<1>13. ASSUME NEW c \in Resetters, ResetRefuse(c) PROVE CodesKnown'
  <2>1. PICK u \in Addresses : u = authCall[c].user
    BY <1>13, RequestsTyped, RequestMoves
  <2>2. PICK i : i = authCall[c].code
    BY SMTT(30)
  <2>3. /\ OthersRest(c) /\ authCall[c].pc # "retired" /\ authCall'[c].pc # "retired"
        /\ issuesRaced' = issuesRaced
    BY <1>13, RequestMoves DEF ResetRefuse, ghostVars, CallEnds
  <2>4. \/ codes' = [codes EXCEPT ![u][i].state = "CONSUMED"]
        \/ codes' = [codes EXCEPT ![u][i].attempts = @ + 1]
    BY <1>13, <2>1, <2>2 DEF ResetRefuse
  <2>5. \A v \in Addresses : \A j \in DOMAIN codes'[v] :
           Live(codes'[v][j]) => j \in DOMAIN codes[v] /\ Live(codes[v][j])
    BY <2>4, NoneRevived
  <2> QED
    BY <2>3, <2>5, CodesRest DEF OthersRest
<1>14. ASSUME NEW c \in Resetters, ResetCommit(c) PROVE CodesKnown'
  <2>1. PICK u \in Addresses : u = authCall[c].user
    BY <1>14, RequestsTyped, RequestMoves, SMTT(30)
  <2>2. PICK i : i = authCall[c].code
    OBVIOUS
  <2>3. /\ OthersRest(c) /\ authCall[c].pc # "retired" /\ authCall'[c].pc # "retired"
        /\ issuesRaced' = issuesRaced
    BY <1>14, RequestMoves DEF ResetCommit, CallEnds
  <2>4. codes' = [codes EXCEPT ![u][i].state = "CONSUMED"]
    BY <1>14, <2>1, <2>2 DEF ResetCommit
  <2>5. \A v \in Addresses : \A j \in DOMAIN codes'[v] :
           Live(codes'[v][j]) => j \in DOMAIN codes[v] /\ Live(codes[v][j])
    BY <2>4, NoneRevived
  <2> QED
    BY <2>3, <2>5, CodesRest DEF OthersRest
<1>15. ASSUME NEW u, BlockAccount(u) PROVE CodesKnown'
  BY <1>15, <1>b DEF BlockAccount, ghostVars
<1>16. CASE UNCHANGED authVars
  BY <1>16, <1>b DEF authVars, storedVars, ghostVars
<1> QED
  BY <1>1, <1>2, <1>3, <1>4, <1>5, <1>6, <1>7, <1>8, <1>9, <1>10, <1>11, <1>12, <1>13, <1>14,
     <1>15, <1>16 DEF AuthNext, AuthStep

-----------------------------------------------------------------------------
(* Accounts: guesses                                                       *)

LEMMA AttemptsTyped ==
    ASSUME AuthShape, NEW u \in Addresses, NEW i \in DOMAIN codes[u]
    PROVE  codes[u][i].attempts \in Nat
<1>1. codes[u] \in Seq(CodeRow)
  BY DEF AuthShape, CodeRow
<1>2. codes[u][i] \in CodeRow
  BY <1>1, LenProperties
<1> QED
  BY <1>2 DEF CodeRow

LEMMA GuessersAreFinite ==
    ASSUME NEW u, NEW i
    PROVE  /\ IsFiniteSet(Guessing(u, i)) /\ Cardinality(Guessing(u, i)) \in Nat
           /\ Cardinality(Guessing(u, i)) <= Cardinality(Resetters) /\ Cardinality(Resetters) \in Nat
<1>1. Guessing(u, i) \subseteq Resetters /\ IsFiniteSet(Resetters)
  BY AuthConstants DEF Guessing
<1> QED
  BY <1>1, FS_Subset, FS_CardinalityType

\* Consuming a code, or its lapse, is no guess.
LEMMA MarksCountNothing ==
    ASSUME AuthShape, NEW u \in Addresses, NEW i,
           \/ codes' = [codes EXCEPT ![u][i].state = "CONSUMED"]
           \/ codes' = [codes EXCEPT ![u][i].state = "LAPSED"]
    PROVE  \A v \in Addresses :
              /\ DOMAIN codes'[v] = DOMAIN codes[v]
              /\ \A j \in DOMAIN codes[v] : codes'[v][j].attempts = codes[v][j].attempts
<1>1. PICK state \in {"CONSUMED", "LAPSED"} : codes' = [codes EXCEPT ![u][i].state = state]
  OBVIOUS
<1>2. codes[u] \in Seq(CodeRow) /\ codes \in [Addresses -> Seq(CodeRow)]
  BY DEF AuthShape, CodeRow
<1>3. codes[u] \in [1 .. Len(codes[u]) -> CodeRow]
  BY <1>2
<1>4. PICK row : row = [codes[u][i] EXCEPT !.state = state]
  OBVIOUS
<1>5. PICK list : list = [codes[u] EXCEPT ![i] = row]
  OBVIOUS
<1>6. codes' = [codes EXCEPT ![u] = list]
  BY <1>1, <1>4, <1>5
<1>7. /\ DOMAIN list = DOMAIN codes[u]
      /\ \A j \in DOMAIN codes[u] : list[j].attempts = codes[u][j].attempts
  <2>1. i \in DOMAIN codes[u] => row.attempts = codes[u][i].attempts
    BY <1>3, <1>4 DEF CodeRow
  <2> QED
    BY <1>3, <1>5, <2>1
<1> QED
  BY <1>2, <1>6, <1>7

\* No guess is counted, and no request is about to count another.
LEMMA GuessesRest ==
    ASSUME AuthShape, GuessesCounted,
           \A u \in Addresses :
              /\ DOMAIN codes'[u] = DOMAIN codes[u]
              /\ \A i \in DOMAIN codes[u] : codes'[u][i].attempts = codes[u][i].attempts,
           \A c \in AuthRequests : authCall'[c] = authCall[c] \/ authCall'[c].pc # "missing"
    PROVE  GuessesCounted'
<1>1. ASSUME NEW u \in Addresses, NEW i \in DOMAIN codes[u]
      PROVE  codes'[u][i].attempts + Cardinality(Guessing(u, i)')
               < MaxAttempts + Cardinality(Resetters)
  <2>1. Guessing(u, i)' \subseteq Guessing(u, i)
    BY DEF Guessing, AuthRequests
  <2>2. /\ Cardinality(Guessing(u, i)') <= Cardinality(Guessing(u, i))
        /\ Cardinality(Guessing(u, i)') \in Nat
    BY <2>1, GuessersAreFinite, FS_Subset, FS_CardinalityType
  <2>4. codes[u][i].attempts \in Nat
    BY AttemptsTyped
  <2>5. codes[u][i].attempts + Cardinality(Guessing(u, i)) < MaxAttempts + Cardinality(Resetters)
    BY DEF GuessesCounted
  <2> QED
    BY <2>2, <2>4, <2>5, GuessersAreFinite, AuthConstants
<1> QED
  BY <1>1 DEF GuessesCounted

\* A reset that found a wrong guess read fewer than the limit, and the others that did
\* are at most all the others.
LEMMA GuessBegins ==
    ASSUME AuthShape, GuessesCounted, NEW c \in Resetters, NEW u \in Addresses, NEW guess,
           NEW pw \in NewPasswords, ResetRead(c, u, guess, pw)
    PROVE  GuessesCounted'
<1>1. PICK k \in DOMAIN codes[u] : CallBegins(c, Verdict(codes[u][k], guess), u, pw, k)
  BY ResetBegins
<1>2. /\ \A d \in AuthRequests \ {c} : authCall'[d] = authCall[d]
      /\ authCall'[c].pc = Verdict(codes[u][k], guess)
      /\ authCall'[c].user = u /\ authCall'[c].code = k
  BY <1>1 DEF CallBegins, OthersRest
<1>3. codes' = codes
  BY DEF ResetRead, storedVars
<1>4. ASSUME NEW v \in Addresses, NEW i \in DOMAIN codes[v]
      PROVE  codes[v][i].attempts + Cardinality(Guessing(v, i)')
               < MaxAttempts + Cardinality(Resetters)
  <2>2. codes[v][i].attempts \in Nat
    BY AttemptsTyped
  <2>3. CASE v = u /\ i = k /\ authCall'[c].pc = "missing"
    <3>1. codes[v][i].attempts < MaxAttempts
      BY <1>2, <2>2, <2>3, AuthConstants DEF Verdict
    <3>2. Guessing(v, i)' \subseteq Resetters
      BY DEF Guessing
    <3>3. /\ Cardinality(Guessing(v, i)') <= Cardinality(Resetters)
          /\ Cardinality(Guessing(v, i)') \in Nat /\ Cardinality(Resetters) \in Nat
      BY <3>2, AuthConstants, FS_Subset, FS_CardinalityType
    <3> QED
      BY <2>2, <3>1, <3>3, AuthConstants
  <2>4. CASE ~(v = u /\ i = k /\ authCall'[c].pc = "missing")
    <3>1. Guessing(v, i)' \subseteq Guessing(v, i)
      BY <1>2, <2>4 DEF Guessing, AuthRequests
    <3>2. /\ Cardinality(Guessing(v, i)') <= Cardinality(Guessing(v, i))
          /\ Cardinality(Guessing(v, i)') \in Nat
      BY <3>1, GuessersAreFinite, FS_Subset, FS_CardinalityType
    <3>3. codes[v][i].attempts + Cardinality(Guessing(v, i)) < MaxAttempts + Cardinality(Resetters)
      BY DEF GuessesCounted
    <3> QED
      BY <2>2, <3>2, <3>3, GuessersAreFinite, AuthConstants
  <2> QED
    BY <2>3, <2>4
<1> QED
  BY <1>3, <1>4 DEF GuessesCounted

\* A wrong guess is counted by the request that found it, which then is over.
LEMMA GuessCounted ==
    ASSUME AuthShape, GuessesCounted, NEW c \in Resetters, ResetRefuse(c)
    PROVE  GuessesCounted'
<1>1. PICK u \in Addresses : u = authCall[c].user
  BY RequestsTyped, RequestMoves DEF AuthRequests
<1>2. PICK k : k = authCall[c].code
  OBVIOUS
<1>3. authCall'[c].pc = "idle" /\ \A d \in AuthRequests \ {c} : authCall'[d] = authCall[d]
  BY RequestMoves DEF CallEnds, OthersRest
<1>4. CASE authCall[c].pc = "burning"
  <2>1. codes' = [codes EXCEPT ![u][k].state = "CONSUMED"]
    BY <1>1, <1>2, <1>4 DEF ResetRefuse
  <2>2. \A v \in Addresses :
           /\ DOMAIN codes'[v] = DOMAIN codes[v]
           /\ \A i \in DOMAIN codes[v] : codes'[v][i].attempts = codes[v][i].attempts
    BY <2>1, MarksCountNothing
  <2> QED
    BY <1>3, <2>2, GuessesRest
<1>5. CASE authCall[c].pc # "burning"
  <2>1. codes' = [codes EXCEPT ![u][k].attempts = @ + 1] /\ authCall[c].pc = "missing"
    BY <1>1, <1>2, <1>5, RequestMoves DEF ResetRefuse
  <2>2. /\ \A v \in Addresses : /\ v # u => codes'[v] = codes[v]
                                /\ DOMAIN codes'[v] = DOMAIN codes[v]
        /\ \A j \in DOMAIN codes[u] :
              /\ j # k => codes'[u][j] = codes[u][j]
              /\ codes'[u][j].attempts \in {codes[u][j].attempts, codes[u][j].attempts + 1}
    BY <2>1, RowChanges
  <2>3. ASSUME NEW v \in Addresses, NEW i \in DOMAIN codes[v]
        PROVE  codes'[v][i].attempts + Cardinality(Guessing(v, i)')
                 < MaxAttempts + Cardinality(Resetters)
    <3>2. codes[v][i].attempts \in Nat
      BY AttemptsTyped
    <3>3. codes[v][i].attempts + Cardinality(Guessing(v, i)) < MaxAttempts + Cardinality(Resetters)
      BY DEF GuessesCounted
    <3>4. Guessing(v, i)' = Guessing(v, i) \ {c}
      BY <1>3 DEF Guessing, AuthRequests
    <3>5. /\ Cardinality(Guessing(v, i)') = IF c \in Guessing(v, i) THEN Cardinality(Guessing(v, i)) - 1
                                            ELSE Cardinality(Guessing(v, i))
          /\ Cardinality(Guessing(v, i)') \in Nat
      BY <3>4, GuessersAreFinite, FS_RemoveElement, FS_CardinalityType
    <3>6. v = u /\ i = k => c \in Guessing(v, i)
      BY <1>1, <1>2, <2>1 DEF Guessing
    <3>7. \/ codes'[v][i].attempts = codes[v][i].attempts
          \/ v = u /\ i = k /\ codes'[v][i].attempts = codes[v][i].attempts + 1
      <4>1. v # u => codes'[v] = codes[v]
        BY <2>2
      <4>2. v = u => /\ i # k => codes'[v][i] = codes[v][i]
                     /\ codes'[v][i].attempts \in {codes[v][i].attempts, codes[v][i].attempts + 1}
        BY <2>2
      <4> QED
        BY <4>1, <4>2
    <3> QED
      BY <3>2, <3>3, <3>5, <3>6, <3>7, GuessersAreFinite, AuthConstants
  <2> QED
    BY <2>2, <2>3, SMTT(30) DEF GuessesCounted
<1> QED
  BY <1>4, <1>5

\* The guesses at a code stay within the limit and the requests that raced for it.
LEMMA GuessesStep ==
    ASSUME AuthShape, GuessesCounted, [AuthNext]_authVars
    PROVE  GuessesCounted'
<1> USE DEF AuthRequests
<1>a. ASSUME NEW c \in AuthRequests, UNCHANGED codes, OthersRest(c), authCall'[c].pc # "missing"
      PROVE  GuessesCounted'
  BY <1>a, GuessesRest DEF OthersRest
<1>b. ASSUME UNCHANGED <<codes, authCall>> PROVE GuessesCounted'
  BY <1>b, GuessesRest
<1>c. ASSUME NEW c \in AuthRequests, UNCHANGED codes, NEW pc \in AuthSteps \ {"missing"},
             NEW u, NEW pw, NEW k, CallBegins(c, pc, u, pw, k)
      PROVE  GuessesCounted'
  BY <1>a, <1>c DEF CallBegins
<1>1. ASSUME NEW c \in Registrants, NEW u \in Addresses, NEW pw \in NewPasswords,
             RegisterRead(c, u, pw) \/ AgentRegister(c, u, pw)
      PROVE  GuessesCounted'
  <2>1. CallBegins(c, "registering", u, pw, 0) /\ UNCHANGED codes
    BY <1>1, RequestMoves DEF RegisterRead, AgentRegister, storedVars, ghostVars
  <2> QED
    BY <2>1, <1>c DEF AuthSteps
<1>2. ASSUME NEW c \in Registrants, RegisterWrite(c) \/ RegisterUndo(c) PROVE GuessesCounted'
  <2>1. OthersRest(c) /\ UNCHANGED codes /\ authCall'[c].pc # "missing"
    BY <1>2, RequestMoves DEF RegisterWrite, RegisterUndo, CallGoes, CallEnds
  <2> QED
    BY <2>1, <1>a
<1>3. ASSUME NEW c \in SignIns, NEW u \in Addresses, NEW pw \in Passwords, SignInVerify(c, u, pw)
      PROVE  GuessesCounted'
  <2>1. CallBegins(c, "verified", u, pw, 0) /\ UNCHANGED codes
    BY <1>3, RequestMoves DEF SignInVerify, storedVars
  <2> QED
    BY <2>1, <1>c DEF AuthSteps
<1>4. ASSUME NEW c \in SignIns, NEW u \in Addresses, SocialFind(c, u) PROVE GuessesCounted'
  <2>1. CallBegins(c, IF FindUser(u) THEN "linking" ELSE "creating", u, NoPassword, 0)
    BY <1>4, RequestMoves
  <2>2. UNCHANGED codes
    BY <1>4 DEF SocialFind, storedVars
  <2> QED
    BY <2>1, <2>2, <1>c DEF AuthSteps
<1>5. ASSUME NEW c \in SignIns, NEW p \in Providers, SocialLink(c, p) PROVE GuessesCounted'
  <2>1. OthersRest(c) /\ UNCHANGED codes /\ authCall'[c].pc # "missing"
    BY <1>5, RequestMoves DEF SocialLink, CallGoes, CallEnds
  <2> QED
    BY <2>1, <1>a
<1>6. ASSUME NEW c \in SignIns, SocialCreate(c) \/ SessionCreate(c) \/ EndOtherSessions(c)
      PROVE  GuessesCounted'
  <2>1. OthersRest(c) /\ UNCHANGED codes /\ authCall'[c].pc # "missing"
    BY <1>6, RequestMoves DEF SocialCreate, SessionCreate, EndOtherSessions, CallGoes, CallEnds
  <2> QED
    BY <2>1, <1>a
<1>7. ASSUME NEW c \in SignIns, RehashRead(c) \/ RehashWrite(c) PROVE GuessesCounted'
  <2>1. OthersRest(c) /\ UNCHANGED codes /\ authCall'[c].pc # "missing"
    BY <1>7, RequestMoves DEF RehashRead, RehashWrite, storedVars, CallGoes, CallEnds
  <2> QED
    BY <2>1, <1>a
<1>8. ASSUME NEW s, Logout(s) PROVE GuessesCounted'
  BY <1>8, <1>b DEF Logout
<1>9. ASSUME NEW c \in Issuers, NEW u \in Addresses, IssueRetire(c, u) PROVE GuessesCounted'
  <2>1. CallBegins(c, "retired", u, NoPassword, 0)
    BY <1>9, RequestMoves
  <2>2. codes' = [codes EXCEPT ![u] = [i \in DOMAIN @ |->
               IF Live(@[i]) THEN [@[i] EXCEPT !.state = "CONSUMED"] ELSE @[i]]]
    BY <1>9 DEF IssueRetire
  <2>3. PICK list : list = [i \in DOMAIN codes[u] |->
               IF Live(codes[u][i]) THEN [codes[u][i] EXCEPT !.state = "CONSUMED"] ELSE codes[u][i]]
    OBVIOUS
  <2>4. codes'[u] = list /\ \A v \in Addresses : v # u => codes'[v] = codes[v]
    BY <2>2, <2>3 DEF AuthShape
  <2>5. \A i \in DOMAIN codes[u] : codes[u][i] \in CodeRow
    <3>1. codes[u] \in Seq(CodeRow)
      BY DEF AuthShape, CodeRow
    <3> QED
      BY <3>1, LenProperties
  <2>6. DOMAIN list = DOMAIN codes[u] /\ \A i \in DOMAIN codes[u] : list[i].attempts = codes[u][i].attempts
    BY <2>3, <2>5 DEF CodeRow
  <2> QED
    BY <2>1, <2>4, <2>6, GuessesRest DEF CallBegins, OthersRest
<1>10. ASSUME NEW c \in Issuers, IssueStore(c) PROVE GuessesCounted'
  <2>1. PICK u \in Addresses : u = authCall[c].user
    BY <1>10, RequestsTyped, RequestMoves
  <2>2. authCall'[c].pc = "done" /\ \A d \in AuthRequests \ {c} : authCall'[d] = authCall[d]
    BY <1>10, RequestMoves DEF CallEnds, OthersRest
  <2>3. PICK row : row = [code |-> c, state |-> "LIVE", attempts |-> 0]
    OBVIOUS
  <2>4. codes' = [codes EXCEPT ![u] = Append(@, row)]
    BY <1>10, <2>1, <2>3 DEF IssueStore
  <2>5. codes'[u] = Append(codes[u], row) /\ \A v \in Addresses : v # u => codes'[v] = codes[v]
    BY <2>4 DEF AuthShape
  <2>6. row \in CodeRow /\ codes[u] \in Seq(CodeRow)
    BY <2>3 DEF AuthShape, CodeRow
  <2>7. /\ Len(codes[u]) \in Nat /\ DOMAIN codes[u] = 1 .. Len(codes[u])
        /\ DOMAIN codes'[u] = 1 .. (Len(codes[u]) + 1)
        /\ \A i \in 1 .. Len(codes[u]) : codes'[u][i] = codes[u][i]
        /\ codes'[u][Len(codes[u]) + 1] = row
    BY <2>5, <2>6, AppendProperties, LenProperties
  <2>8. ASSUME NEW v \in Addresses, NEW i \in DOMAIN codes'[v]
        PROVE  codes'[v][i].attempts + Cardinality(Guessing(v, i)')
                 < MaxAttempts + Cardinality(Resetters)
    <3>1. Guessing(v, i)' \subseteq Guessing(v, i)
      BY <2>2 DEF Guessing
    <3>2. /\ Cardinality(Guessing(v, i)') <= Cardinality(Guessing(v, i))
          /\ Cardinality(Guessing(v, i)') \in Nat
      BY <3>1, GuessersAreFinite, FS_Subset, FS_CardinalityType
    <3>3. CASE v = u /\ i = Len(codes[u]) + 1
      <4>1. codes'[v][i].attempts = 0
        BY <2>3, <2>7, <3>3
      <4> QED
        BY <3>2, <4>1, GuessersAreFinite, AuthConstants
    <3>4. CASE ~(v = u /\ i = Len(codes[u]) + 1)
      <4>1. i \in DOMAIN codes[v] /\ codes'[v][i] = codes[v][i]
        BY <2>5, <2>7, <3>4
      <4>3. codes[v][i].attempts \in Nat
        BY <4>1, AttemptsTyped
      <4>4. codes[v][i].attempts + Cardinality(Guessing(v, i)) < MaxAttempts + Cardinality(Resetters)
        BY <4>1 DEF GuessesCounted
      <4> QED
        BY <3>2, <4>1, <4>3, <4>4, GuessersAreFinite, AuthConstants
    <3> QED
      BY <3>3, <3>4
  <2> QED
    BY <2>8 DEF GuessesCounted
<1>11. ASSUME NEW u \in Addresses, NEW i, CodeLapses(u, i) PROVE GuessesCounted'
  <2>1. codes' = [codes EXCEPT ![u][i].state = "LAPSED"] /\ UNCHANGED authCall
    BY <1>11 DEF CodeLapses
  <2>2. \A v \in Addresses :
           /\ DOMAIN codes'[v] = DOMAIN codes[v]
           /\ \A j \in DOMAIN codes[v] : codes'[v][j].attempts = codes[v][j].attempts
    BY <2>1, MarksCountNothing
  <2> QED
    BY <2>1, <2>2, GuessesRest
<1>12. ASSUME NEW c \in Resetters, ResetCommit(c) PROVE GuessesCounted'
  <2>1. PICK u \in Addresses : u = authCall[c].user
    BY <1>12, RequestsTyped, RequestMoves
  <2>2. PICK i : i = authCall[c].code
    OBVIOUS
  <2>3. OthersRest(c) /\ authCall'[c].pc = "done"
    BY <1>12, RequestMoves DEF CallEnds
  <2>4. codes' = [codes EXCEPT ![u][i].state = "CONSUMED"]
    BY <1>12, <2>1, <2>2 DEF ResetCommit
  <2>5. \A v \in Addresses :
           /\ DOMAIN codes'[v] = DOMAIN codes[v]
           /\ \A j \in DOMAIN codes[v] : codes'[v][j].attempts = codes[v][j].attempts
    BY <2>4, MarksCountNothing
  <2> QED
    BY <2>3, <2>5, GuessesRest DEF OthersRest
<1>13. ASSUME NEW u, BlockAccount(u) PROVE GuessesCounted'
  BY <1>13, <1>b DEF BlockAccount
<1>14. CASE UNCHANGED authVars
  BY <1>14, <1>b DEF authVars, storedVars
<1> QED
  BY <1>1, <1>2, <1>3, <1>4, <1>5, <1>6, <1>7, <1>8, <1>9, <1>10, <1>11, <1>12, <1>13, <1>14,
     GuessBegins, GuessCounted DEF AuthNext, AuthStep

-----------------------------------------------------------------------------
(* Accounts: photos                                                        *)

\* No registration moves.
LEMMA PhotosRest ==
    ASSUME AuthShape, PhotosKnown, UNCHANGED <<photos, photoRows>>,
           \A c \in AuthRequests :
              \/ authCall'[c] = authCall[c]
              \/ authCall[c].pc \notin {"registering", "undoing", "done"}
    PROVE  PhotosKnown'
<1>1. photos \subseteq AuthRequests /\ photoRows \subseteq AuthRequests
  BY DEF AuthShape, AuthTypeOK, AuthRequests
<1>2. ASSUME NEW c \in photos PROVE authCall'[c] = authCall[c]
  <2>1. authCall[c].pc \in {"registering", "undoing", "done"}
    BY <1>1 DEF PhotosKnown, PhotosAreAccountedFor
  <2> QED
    BY <1>1, <2>1
<1> QED
  BY <1>2 DEF PhotosKnown, PhotosAreAccountedFor

\* A photo is stored before its registration is, and follows what becomes of it.
LEMMA PhotosStep ==
    ASSUME AuthShape, PhotosKnown, [AuthNext]_authVars
    PROVE  PhotosKnown'
<1> USE DEF AuthRequests
<1>t. photos \subseteq Registrants /\ photoRows \subseteq Registrants
  BY DEF AuthShape, AuthTypeOK
<1>k. /\ photoRows \subseteq photos /\ \A c \in photoRows : authCall[c].pc = "done"
      /\ \A c \in photos \ photoRows : authCall[c].pc \in {"registering", "undoing"}
  BY DEF PhotosKnown, PhotosAreAccountedFor
<1>a. ASSUME NEW c \in AuthRequests, UNCHANGED <<photos, photoRows>>, OthersRest(c),
             authCall[c].pc \notin {"registering", "undoing", "done"}
      PROVE  PhotosKnown'
  BY <1>a, PhotosRest DEF OthersRest
<1>b. ASSUME UNCHANGED <<photos, photoRows, authCall>> PROVE PhotosKnown'
  BY <1>b, PhotosRest
<1>c. ASSUME NEW c \in AuthRequests, UNCHANGED <<photos, photoRows>>, NEW pc,
             NEW u, NEW pw, NEW k, CallBegins(c, pc, u, pw, k)
      PROVE  PhotosKnown'
  BY <1>a, <1>c DEF CallBegins
<1>1. ASSUME NEW c \in Registrants, NEW u \in Addresses, NEW pw \in NewPasswords, RegisterRead(c, u, pw)
      PROVE  PhotosKnown'
  <2>1. CallBegins(c, "registering", u, pw, 0)
    BY <1>1, RequestMoves
  <2>2. /\ authCall[c].pc = "idle" /\ authCall'[c].pc = "registering"
        /\ \A d \in AuthRequests \ {c} : authCall'[d] = authCall[d]
    BY <2>1 DEF CallBegins, OthersRest
  <2>3. photos' = photos \cup {c} /\ photoRows' = photoRows
    BY <1>1 DEF RegisterRead
  <2> QED
    BY <1>t, <1>k, <2>2, <2>3 DEF PhotosKnown, PhotosAreAccountedFor
<1>2. ASSUME NEW c \in Registrants, NEW u \in Addresses, NEW pw \in NewPasswords, AgentRegister(c, u, pw)
      PROVE  PhotosKnown'
  <2>1. CallBegins(c, "registering", u, pw, 0) /\ UNCHANGED <<photos, photoRows>>
    BY <1>2, RequestMoves DEF AgentRegister, storedVars
  <2> QED
    BY <2>1, <1>c
<1>3. ASSUME NEW c \in Registrants, RegisterWrite(c) PROVE PhotosKnown'
  <2>1. /\ authCall[c].pc = "registering" /\ photos' = photos
        /\ \A d \in AuthRequests \ {c} : authCall'[d] = authCall[d]
    BY <1>3, RequestMoves DEF RegisterWrite, CallGoes, CallEnds, OthersRest
  <2>2. \/ photoRows' = photoRows \cup ({c} \cap photos) /\ authCall'[c].pc = "done"
        \/ photoRows' = photoRows /\ authCall'[c].pc = "undoing"
    BY <1>3, RequestMoves DEF RegisterWrite, CallGoes, CallEnds
  <2> QED
    BY <1>t, <1>k, <2>1, <2>2 DEF PhotosKnown, PhotosAreAccountedFor
<1>4. ASSUME NEW c \in Registrants, RegisterUndo(c) PROVE PhotosKnown'
  <2>1. /\ authCall[c].pc = "undoing" /\ photos' = photos \ {c} /\ photoRows' = photoRows
        /\ \A d \in AuthRequests \ {c} : authCall'[d] = authCall[d]
    BY <1>4, RequestMoves DEF RegisterUndo, CallEnds, OthersRest
  <2> QED
    BY <1>t, <1>k, <2>1 DEF PhotosKnown, PhotosAreAccountedFor
<1>5. ASSUME NEW c \in SignIns, NEW u \in Addresses, NEW pw \in Passwords, SignInVerify(c, u, pw)
      PROVE  PhotosKnown'
  <2>1. CallBegins(c, "verified", u, pw, 0) /\ UNCHANGED <<photos, photoRows>>
    BY <1>5, RequestMoves DEF SignInVerify, storedVars
  <2> QED
    BY <2>1, <1>c
<1>6. ASSUME NEW c \in SignIns, NEW u \in Addresses, SocialFind(c, u) PROVE PhotosKnown'
  <2>1. CallBegins(c, IF FindUser(u) THEN "linking" ELSE "creating", u, NoPassword, 0)
    BY <1>6, RequestMoves
  <2>2. UNCHANGED <<photos, photoRows>>
    BY <1>6 DEF SocialFind, storedVars
  <2> QED
    BY <2>1, <2>2, <1>c
<1>7. ASSUME NEW c \in SignIns, NEW p \in Providers, SocialLink(c, p) PROVE PhotosKnown'
  <2>1. OthersRest(c) /\ UNCHANGED <<photos, photoRows>> /\ authCall[c].pc = "linking"
    BY <1>7, RequestMoves DEF SocialLink, CallGoes, CallEnds
  <2> QED
    BY <2>1, <1>a
<1>8. ASSUME NEW c \in SignIns, SocialCreate(c) \/ SessionCreate(c) \/ EndOtherSessions(c)
      PROVE  PhotosKnown'
  <2>1. /\ OthersRest(c) /\ UNCHANGED <<photos, photoRows>>
        /\ authCall[c].pc \in {"creating", "verified", "created"}
    BY <1>8, RequestMoves DEF SocialCreate, SessionCreate, EndOtherSessions, CallGoes, CallEnds
  <2> QED
    BY <2>1, <1>a
<1>9. ASSUME NEW c \in SignIns, RehashRead(c) \/ RehashWrite(c) PROVE PhotosKnown'
  <2>1. /\ OthersRest(c) /\ UNCHANGED <<photos, photoRows>>
        /\ authCall[c].pc \in {"signedIn", "rehashing"}
    BY <1>9, RequestMoves DEF RehashRead, RehashWrite, storedVars, CallGoes, CallEnds
  <2> QED
    BY <2>1, <1>a
<1>10. ASSUME NEW s, Logout(s) PROVE PhotosKnown'
  BY <1>10, <1>b DEF Logout
<1>11. ASSUME NEW c \in Issuers, NEW u \in Addresses, IssueRetire(c, u) PROVE PhotosKnown'
  <2>1. CallBegins(c, "retired", u, NoPassword, 0) /\ UNCHANGED <<photos, photoRows>>
    BY <1>11, RequestMoves DEF IssueRetire
  <2> QED
    BY <2>1, <1>c
<1>12. ASSUME NEW c \in Issuers, IssueStore(c) PROVE PhotosKnown'
  <2>1. OthersRest(c) /\ UNCHANGED <<photos, photoRows>> /\ authCall[c].pc = "retired"
    BY <1>12, RequestMoves DEF IssueStore, CallEnds
  <2> QED
    BY <2>1, <1>a
<1>13. ASSUME NEW u, NEW i, CodeLapses(u, i) PROVE PhotosKnown'
  BY <1>13, <1>b DEF CodeLapses
<1>14. ASSUME NEW c \in Resetters, NEW u \in Addresses, NEW guess, NEW pw \in NewPasswords,
              ResetRead(c, u, guess, pw)
       PROVE  PhotosKnown'
  <2>1. PICK i \in DOMAIN codes[u] : CallBegins(c, Verdict(codes[u][i], guess), u, pw, i)
    BY <1>14, ResetBegins
  <2>2. UNCHANGED <<photos, photoRows>>
    BY <1>14 DEF ResetRead, storedVars
  <2> QED
    BY <2>1, <2>2, <1>c
<1>15. ASSUME NEW c \in Resetters, ResetRefuse(c) PROVE PhotosKnown'
  <2>1. /\ OthersRest(c) /\ UNCHANGED <<photos, photoRows>>
        /\ authCall[c].pc \in {"burning", "missing"}
    BY <1>15, RequestMoves DEF ResetRefuse, CallEnds
  <2> QED
    BY <2>1, <1>a, SMTT(30)
<1>16. ASSUME NEW c \in Resetters, ResetCommit(c) PROVE PhotosKnown'
  <2>1. OthersRest(c) /\ UNCHANGED <<photos, photoRows>> /\ authCall[c].pc = "hashing"
    BY <1>16, RequestMoves DEF ResetCommit, CallEnds
  <2> QED
    BY <2>1, <1>a
<1>17. ASSUME NEW u, BlockAccount(u) PROVE PhotosKnown'
  BY <1>17, <1>b DEF BlockAccount
<1>18. CASE UNCHANGED authVars
  BY <1>18, <1>b DEF authVars, storedVars
<1> QED
  BY <1>1, <1>2, <1>3, <1>4, <1>5, <1>6, <1>7, <1>8, <1>9, <1>10, <1>11, <1>12, <1>13, <1>14,
     <1>15, <1>16, <1>17, <1>18 DEF AuthNext, AuthStep

-----------------------------------------------------------------------------
(* Accounts: theorems                                                      *)

\* Nobody is under way at first, and every legacy password is the one its owner chose.
LEMMA AuthInvInit == AuthInit => AuthInv
<1> SUFFICES ASSUME AuthInit PROVE AuthInv
  OBVIOUS
<1>1. /\ authCall = [c \in AuthRequests |-> AuthIdle]
      /\ \A c \in AuthRequests : authCall[c].pc = "idle"
      /\ sessions = {} /\ photos = {} /\ photoRows = {}
      /\ codes = [u \in Addresses |-> << >>]
      /\ chosen = [u \in Addresses |-> authUser[u].password]
  BY DEF AuthInit, AuthIdle
<1>2. AuthShape
  <2>1. /\ authUser \in [Addresses -> [status : {"NONE", "ACTIVE", "BLOCKED"},
                                       password : Passwords \cup {NoPassword}, legacy : BOOLEAN]]
        /\ chosen \in [Addresses -> Passwords \cup {NoPassword}]
    <3>1. \A u \in Addresses : authUser[u] \in [status : {"NONE", "ACTIVE", "BLOCKED"},
                                       password : Passwords \cup {NoPassword}, legacy : BOOLEAN]
      <4> TAKE u \in Addresses
      <4>1. authUser[u] \in {[status |-> "NONE", password |-> NoPassword, legacy |-> FALSE]} \cup
                              [status : {"ACTIVE"}, password : OldPasswords, legacy : {TRUE}]
        BY DEF AuthInit
      <4>2. CASE authUser[u] = [status |-> "NONE", password |-> NoPassword, legacy |-> FALSE]
        BY <4>2
      <4>3. CASE authUser[u] \in [status : {"ACTIVE"}, password : OldPasswords, legacy : {TRUE}]
        BY <4>3 DEF Passwords
      <4> QED
        BY <4>1, <4>2, <4>3
    <3>2. authUser = [u \in Addresses |-> authUser[u]]
      BY DEF AuthInit
    <3> QED
      BY <1>1, <3>1, <3>2
  <2>2. codes \in [Addresses -> Seq(CodeRow)]
    <3>1. << >> \in Seq(CodeRow)
      OBVIOUS
    <3> QED
      BY <1>1, <3>1
  <2>3. \A u \in Addresses : codes[u] \in Seq(CodeRow)
    BY <2>2
  <2>4. /\ linked \in [Addresses -> SUBSET Providers] /\ resets \in [Addresses -> Nat]
    BY DEF AuthInit
  <2>5. AuthTypeOK
    BY <1>1, <2>1, <2>3, <2>4 DEF AuthTypeOK, CodeRow
  <2>6. authCall \in [AuthRequests -> AuthCallState]
    BY <1>1 DEF AuthIdle, AuthCallState, AuthSteps
  <2> QED
    BY <1>1, <2>1, <2>2, <2>5, <2>6 DEF AuthShape, CodeRow
<1>3. PasswordsKnown
  BY <1>1 DEF PasswordsKnown, PasswordIsTheChosenOne, KnowsPassword
<1>4. SessionsKnown
  <2>1. \A u \in Addresses : SessionsOf(u) = {}
    BY <1>1 DEF SessionsOf
  <2>2. \A u : IsFiniteSet(JustMade(u)) /\ Cardinality(JustMade(u)) \in Nat
    <3>1. \A u : JustMade(u) \subseteq SignIns
      BY DEF JustMade
    <3> QED
      BY <3>1, AuthConstants, FS_Subset, FS_CardinalityType
  <2>3. \A u \in Addresses : Cardinality(SessionsOf(u)) <= 1 + Cardinality(JustMade(u))
    <3> TAKE u \in Addresses
    <3>1. Cardinality(SessionsOf(u)) = 0
      BY <2>1, FS_EmptySet
    <3> QED
      BY <2>2, <3>1
  <2>4. SingleActiveDevice
    BY <2>3 DEF SingleActiveDevice, JustMade
  <2> QED
    BY <1>1, <2>4, FS_EmptySet DEF SessionsKnown, ResetEndsOlderSessions
<1>5. CodesKnown
  <2>1. \A u \in Addresses : LiveCodes(u) = {} /\ Retiring(u) = {}
    BY <1>1 DEF LiveCodes, Retiring, AuthRequests
  <2> QED
    BY <2>1 DEF CodesKnown
<1>6. GuessesCounted
  BY <1>1 DEF GuessesCounted
<1>7. PhotosKnown
  BY <1>1 DEF PhotosKnown, PhotosAreAccountedFor
<1> QED
  BY <1>2, <1>3, <1>4, <1>5, <1>6, <1>7 DEF AuthInv

LEMMA AuthInvStep == AuthInv /\ [AuthNext]_authVars => AuthInv'
BY AuthShapeStep, PasswordsStep, SessionsStep, CodesStep, GuessesStep, PhotosStep DEF AuthInv

LEMMA AuthInvSafe == AuthInv => AccountsAreSafe
<1> SUFFICES ASSUME AuthInv PROVE AccountsAreSafe
  OBVIOUS
<1>1. AuthTypeOK /\ SingleActiveDevice /\ ResetEndsOlderSessions /\ PasswordIsTheChosenOne
      /\ PhotosAreAccountedFor
  BY DEF AuthInv, AuthShape, PasswordsKnown, SessionsKnown, PhotosKnown
<1>2. ASSUME NEW u \in Addresses \ issuesRaced PROVE Cardinality(LiveCodes(u)) <= 1
  <2>1. \A i, j \in LiveCodes(u) : i = j
    BY DEF AuthInv, CodesKnown
  <2>2. LiveCodes(u) = {} \/ \E i : LiveCodes(u) = {i}
    BY <2>1
  <2>3. Cardinality(LiveCodes(u)) \in {0, 1}
    BY <2>2, FS_EmptySet, FS_Singleton
  <2> QED
    BY <2>3
<1>3. ASSUME NEW u \in Addresses, NEW i \in DOMAIN codes[u]
      PROVE  codes[u][i].attempts < MaxAttempts + Cardinality(Resetters)
  <2>1. codes[u][i].attempts + Cardinality(Guessing(u, i)) < MaxAttempts + Cardinality(Resetters)
    BY DEF AuthInv, GuessesCounted
  <2>2. codes[u][i].attempts \in Nat
    BY AttemptsTyped DEF AuthInv
  <2> QED
    BY <2>1, <2>2, GuessersAreFinite, AuthConstants
<1> QED
  BY <1>1, <1>2, <1>3 DEF AccountsAreSafe, OneLiveCode, GuessBudget

\* Whichever registrations, sign-ins and resets run beside each other and wherever they
\* stop (auth.service): a user has at most one session beyond those of sign-ins that have
\* not ended the others yet; no session survives a reset; the stored password is the one
\* registration or the last reset chose, unless a sign-in was about to rehash the old one
\* while the reset committed; one code is live unless two requests for one overlapped; a
\* code takes fewer guesses than its limit and one for each reset request; and an ID in
\* review has its photo.
THEOREM AccountsSafe == AuthSpec => []AccountsAreSafe
<1> QED
  BY AuthInvInit, AuthInvStep, AuthInvSafe, PTL DEF AuthSpec

-----------------------------------------------------------------------------
(* Invitations, grants and the review of sellers                           *)

AccessCallState ==
    [pc : {"idle", "inviting", "revoking", "accepting", "expiring", "granting", "reviewing"},
     key : Invitees \cup InviteRoles \cup {None}, token : 0 .. MaxTokens,
     role : InviteRoles \cup {None, "APPROVED", "REJECTED"}, set : SUBSET Grants, overtaken : BOOLEAN]

InviteRow ==
    [status : {"NONE", "PENDING", "ACCEPTED", "REVOKED", "EXPIRED"}, token : 0 .. MaxTokens,
     role : InviteRoles \cup {None}, expired : BOOLEAN]

\* A request under way is about an invitation that was sent, or a role.
AccessFits(c) ==
    /\ accessCall[c].pc \in {"inviting", "revoking", "accepting", "expiring"}
          => accessCall[c].key \in Invitees
    /\ accessCall[c].pc \in {"revoking", "accepting", "expiring"} => invite[accessCall[c].key].token > 0
    /\ accessCall[c].pc \in {"inviting", "accepting"} => accessCall[c].role \in InviteRoles
    /\ accessCall[c].pc = "accepting" =>
          accessCall[c].token > 0 /\ accessCall[c].token <= invite[accessCall[c].key].token
    /\ accessCall[c].pc = "granting" => accessCall[c].key \in InviteRoles
    /\ accessCall[c].pc = "reviewing" => accessCall[c].role \in {"APPROVED", "REJECTED"}

\* What a request read is so until another one writes to the same row.
StillAsRead(c) ==
    ~accessCall[c].overtaken =>
       /\ accessCall[c].pc = "accepting" =>
             /\ invite[accessCall[c].key].token = accessCall[c].token
             /\ invite[accessCall[c].key].status = "PENDING"
       /\ accessCall[c].pc = "revoking" => invite[accessCall[c].key].status # "ACCEPTED"
       /\ accessCall[c].pc = "expiring" => invite[accessCall[c].key].status = "PENDING"
       /\ accessCall[c].pc = "granting" => grants[accessCall[c].key] = {}

AccessShape ==
    /\ invite \in [Invitees -> InviteRow]
    /\ \A e \in Invitees : /\ invite[e].status = "NONE" <=> invite[e].token = 0
                           /\ invite[e].token > 0 => invite[e].role \in InviteRoles
    /\ roles \in [Invitees -> SUBSET InviteRoles]
    /\ grants \in [InviteRoles -> SUBSET Grants]
    /\ sellerStatus \in {"PENDING", "APPROVED", "REJECTED"}
    /\ accessCall \in [AccessCalls -> AccessCallState]
    /\ used \in [Invitees -> [1 .. MaxTokens -> Nat]]
    /\ DOMAIN revokedTokens = Invitees

\* Tokens are used and revoked after they were sent, one that can be accepted was not
\* revoked, and one that was used cannot be accepted.
TokensAreSpent(e) ==
    /\ \A n \in 1 .. MaxTokens : used[e][n] > 0 => n <= invite[e].token
    /\ \A n \in revokedTokens[e] : n \in 0 .. invite[e].token
    /\ invite[e].status = "PENDING" => invite[e].token \notin revokedTokens[e]
    /\ <<"accepted", e>> \notin accessRaced =>
          \A n \in 1 .. MaxTokens :
             /\ used[e][n] <= 1
             /\ used[e][n] > 0 /\ n = invite[e].token => invite[e].status # "PENDING"

AccessInv ==
    /\ AccessShape
    /\ \A c \in AccessCalls : AccessFits(c) /\ StillAsRead(c)
    /\ \A e \in Invitees : TokensAreSpent(e)

LEMMA AccessIdleFits ==
    /\ AccessIdle \in AccessCallState /\ AccessIdle.pc = "idle" /\ AccessIdle.overtaken = FALSE
    /\ AccessIdle.key = None
BY AccessConstants DEF AccessIdle, AccessCallState

LEMMA AccessInvInit == AccessInit => AccessInv
<1> SUFFICES ASSUME AccessInit PROVE AccessInv
  OBVIOUS
<1> USE DEF AccessInit
<1>1. NoInvite \in InviteRow /\ NoInvite.status = "NONE" /\ NoInvite.token = 0
  BY AccessConstants DEF NoInvite, InviteRow
<1>2. AccessShape
  BY <1>1, AccessIdleFits DEF AccessShape
<1>3. ASSUME NEW c \in AccessCalls PROVE AccessFits(c) /\ StillAsRead(c)
  BY AccessIdleFits DEF AccessFits, StillAsRead
<1>4. ASSUME NEW e \in Invitees PROVE TokensAreSpent(e)
  BY <1>1 DEF TokensAreSpent
<1> QED
  BY <1>2, <1>3, <1>4 DEF AccessInv

\* A write to a row overtakes every other request that has read it.
LEMMA OthersOvertaken ==
    ASSUME AccessInv, NEW c \in AccessCalls, NEW key, key # None, NEW next \in AccessCallState,
           Overtake(c, key, next),
           invite' \in [Invitees -> InviteRow],
           \A e \in Invitees : invite'[e].token >= invite[e].token,
           \A e \in Invitees : e # key => invite'[e] = invite[e],
           \A r \in InviteRoles : r # key => grants'[r] = grants[r]
    PROVE  /\ accessCall' \in [AccessCalls -> AccessCallState]
           /\ accessCall'[c] = next
           /\ \A d \in AccessCalls : d # c => AccessFits(d)' /\ StillAsRead(d)'
<1>1. accessCall' = [d \in AccessCalls |->
        IF d = c THEN next
        ELSE IF accessCall[d].key = key THEN [accessCall[d] EXCEPT !.overtaken = TRUE]
        ELSE accessCall[d]]
  BY DEF Overtake
<1>2. ASSUME NEW d \in AccessCalls, d # c
      PROVE  /\ accessCall'[d] \in AccessCallState
             /\ accessCall'[d].pc = accessCall[d].pc /\ accessCall'[d].key = accessCall[d].key
             /\ accessCall'[d].token = accessCall[d].token /\ accessCall'[d].role = accessCall[d].role
             /\ accessCall[d].key = key => accessCall'[d].overtaken
             /\ ~accessCall'[d].overtaken => ~accessCall[d].overtaken
  <2>1. accessCall[d] \in AccessCallState
    BY DEF AccessInv, AccessShape
  <2>2. accessCall'[d] = IF accessCall[d].key = key THEN [accessCall[d] EXCEPT !.overtaken = TRUE]
                         ELSE accessCall[d]
    BY <1>1, <1>2
  <2> QED
    BY <2>1, <2>2 DEF AccessCallState
<1>3. accessCall' \in [AccessCalls -> AccessCallState]
  <2>1. \A d \in AccessCalls : accessCall'[d] \in AccessCallState
    BY <1>1, <1>2
  <2> QED
    BY <1>1, <2>1
<1>4. ASSUME NEW d \in AccessCalls, d # c PROVE AccessFits(d)' /\ StillAsRead(d)'
  <2>1. AccessFits(d) /\ StillAsRead(d)
    BY DEF AccessInv
  <2>2. ASSUME NEW e \in Invitees
        PROVE  /\ invite[e].token > 0 => invite'[e].token > 0
               /\ \A n \in 0 .. MaxTokens : n <= invite[e].token => n <= invite'[e].token
    <3>1. /\ invite[e].token \in 0 .. MaxTokens /\ invite'[e].token \in 0 .. MaxTokens
          /\ invite'[e].token >= invite[e].token
      BY DEF AccessInv, AccessShape, InviteRow
    <3> QED
      BY <3>1, AccessConstants
  <2>3. AccessFits(d)'
    <3>1. accessCall[d].token \in 0 .. MaxTokens
      BY DEF AccessInv, AccessShape, AccessCallState
    <3> QED
      BY <1>2, <1>4, <2>1, <2>2, <3>1 DEF AccessFits
  <2>4. StillAsRead(d)'
    BY <1>2, <1>4, <2>1 DEF StillAsRead, AccessFits
  <2> QED
    BY <2>3, <2>4
<1> QED
  BY <1>1, <1>3, <1>4

\* A request moves on and nobody else notices.
LEMMA AccessWaits ==
    ASSUME AccessInv, NEW c \in AccessCalls, NEW next \in AccessCallState, Waits(c, next),
           UNCHANGED <<invite, grants>>, AccessFits(c)', StillAsRead(c)'
    PROVE  /\ accessCall' \in [AccessCalls -> AccessCallState]
           /\ \A d \in AccessCalls : AccessFits(d)' /\ StillAsRead(d)'
<1>1. accessCall' = [accessCall EXCEPT ![c] = next] /\ accessCall \in [AccessCalls -> AccessCallState]
  BY DEF Waits, AccessInv, AccessShape
<1>2. ASSUME NEW d \in AccessCalls, d # c PROVE AccessFits(d)' /\ StillAsRead(d)'
  <2>1. accessCall'[d] = accessCall[d]
    BY <1>1, <1>2
  <2> QED
    BY <2>1 DEF AccessInv, AccessFits, StillAsRead
<1> QED
  BY <1>1, <1>2

\* What is said of the tokens of an address, while its invitation is as it was.
LEMMA TokensRest ==
    ASSUME AccessInv, NEW e \in Invitees, invite'[e] = invite[e], used'[e] = used[e],
           revokedTokens'[e] = revokedTokens[e],
           <<"accepted", e>> \in accessRaced => <<"accepted", e>> \in accessRaced'
    PROVE  TokensAreSpent(e)'
BY DEF AccessInv, TokensAreSpent

\* A check of any request, and what concerns no row.
LEMMA AccessReads ==
    ASSUME AccessInv, NEW c \in AccessCalls, NEW next \in AccessCallState, Waits(c, next),
           UNCHANGED <<invite, grants, roles, used, revokedTokens>>, AccessFits(c)', StillAsRead(c)',
           sellerStatus' \in {"PENDING", "APPROVED", "REJECTED"},
           accessRaced \subseteq accessRaced'
    PROVE  AccessInv'
<1>1. /\ accessCall' \in [AccessCalls -> AccessCallState]
      /\ \A d \in AccessCalls : AccessFits(d)' /\ StillAsRead(d)'
  BY AccessWaits
<1>2. AccessShape'
  BY <1>1 DEF AccessInv, AccessShape
<1>3. \A e \in Invitees : TokensAreSpent(e)'
  BY TokensRest
<1> QED
  BY <1>1, <1>2, <1>3 DEF AccessInv

\* A write to an invitation.
LEMMA InviteWritten ==
    ASSUME AccessInv, NEW c \in AccessCalls, NEW e \in Invitees, NEW row \in InviteRow,
           invite' = [invite EXCEPT ![e] = row], row.token >= invite[e].token,
           row.status = "NONE" <=> row.token = 0, row.token > 0 => row.role \in InviteRoles,
           Overtake(c, e, AccessIdle), UNCHANGED <<grants, sellerStatus>>,
           roles' \in [Invitees -> SUBSET InviteRoles],
           used' \in [Invitees -> [1 .. MaxTokens -> Nat]], DOMAIN revokedTokens' = Invitees,
           \A d \in Invitees : d # e => used'[d] = used[d] /\ revokedTokens'[d] = revokedTokens[d],
           accessRaced \subseteq accessRaced', TokensAreSpent(e)'
    PROVE  AccessInv'
<1>1. /\ invite' \in [Invitees -> InviteRow] /\ invite'[e] = row
      /\ \A d \in Invitees : d # e => invite'[d] = invite[d]
  BY DEF AccessInv, AccessShape
<1>2. \A d \in Invitees : invite'[d].token >= invite[d].token
  <2>1. \A d \in Invitees : invite[d].token \in 0 .. MaxTokens
    BY DEF AccessInv, AccessShape, InviteRow
  <2> QED
    BY <1>1, <2>1
<1>3. e # None
  BY AccessConstants
<1>4. /\ accessCall' \in [AccessCalls -> AccessCallState]
      /\ accessCall'[c] = AccessIdle
      /\ \A d \in AccessCalls : d # c => AccessFits(d)' /\ StillAsRead(d)'
  BY <1>1, <1>2, <1>3, AccessIdleFits, OthersOvertaken
<1>5. AccessFits(c)' /\ StillAsRead(c)'
  BY <1>4, AccessIdleFits DEF AccessFits, StillAsRead
<1>6. AccessShape'
  BY <1>1, <1>4 DEF AccessInv, AccessShape
<1>7. \A d \in Invitees : d # e => TokensAreSpent(d)'
  BY <1>1, TokensRest
<1> QED
  BY <1>4, <1>5, <1>6, <1>7 DEF AccessInv

LEMMA CreateInviteWriteStep ==
    ASSUME AccessInv, NEW c \in AccessCalls, CreateInviteWrite(c)
    PROVE  AccessInv'
<1> USE DEF AccessInv
<1>1. PICK e \in Invitees : e = accessCall[c].key
  BY DEF CreateInviteWrite, AccessFits
<1>2. accessCall[c].role \in InviteRoles
  BY DEF CreateInviteWrite, AccessFits
<1>3. PICK n \in 0 .. MaxTokens : n = invite[e].token
  BY DEF AccessShape, InviteRow
<1>4. n < MaxTokens /\ n + 1 \in 0 .. MaxTokens /\ n + 1 > 0
  BY <1>1, <1>3, AccessConstants DEF CreateInviteWrite
<1>5. PICK row : row = [status |-> "PENDING", token |-> n + 1, role |-> accessCall[c].role, expired |-> FALSE]
  OBVIOUS
<1>6. /\ row \in InviteRow /\ row.token = n + 1 /\ row.status = "PENDING" /\ row.role \in InviteRoles
  BY <1>2, <1>4, <1>5 DEF InviteRow
<1>7. /\ invite' = [invite EXCEPT ![e] = row] /\ Overtake(c, e, AccessIdle)
      /\ revokedTokens' = [revokedTokens EXCEPT ![e] = revokedTokens[e] \cup ({n} \ {0})]
      /\ UNCHANGED <<roles, grants, sellerStatus, used, accessRaced>>
  BY <1>1, <1>3, <1>5 DEF CreateInviteWrite
<1>8. invite'[e] = row /\ revokedTokens'[e] = revokedTokens[e] \cup ({n} \ {0})
  BY <1>7 DEF AccessShape
<1>9. TokensAreSpent(e)'
  <2>0. TokensAreSpent(e) /\ n \in Nat /\ used' = used
    BY <1>7, AccessConstants
  <2>1. ASSUME NEW m \in 1 .. MaxTokens PROVE used'[e][m] > 0 => m <= n + 1 /\ m # n + 1
    <3>1. m \in Int /\ (used[e][m] > 0 => m <= n)
      BY <1>3, <2>0, AccessConstants DEF TokensAreSpent
    <3> QED
      BY <2>0, <3>1
  <2>2. ASSUME NEW m \in revokedTokens'[e] PROVE m \in 0 .. (n + 1) /\ m # n + 1
    <3>1. m \in 0 .. n
      BY <1>3, <1>8, <2>0, <2>2 DEF TokensAreSpent
    <3> QED
      BY <3>1
  <2>3. /\ <<"accepted", e>> \notin accessRaced' => \A m \in 1 .. MaxTokens : used'[e][m] <= 1
    BY <1>7, <2>0 DEF TokensAreSpent
  <2> QED
    BY <1>6, <1>8, <2>1, <2>2, <2>3 DEF TokensAreSpent
<1>10. DOMAIN revokedTokens' = Invitees /\ \A d \in Invitees : d # e => revokedTokens'[d] = revokedTokens[d]
  BY <1>7 DEF AccessShape
<1>11. row.token >= invite[e].token /\ (row.status = "NONE" <=> row.token = 0)
  BY <1>3, <1>4, <1>6
<1>12. roles' \in [Invitees -> SUBSET InviteRoles] /\ used' \in [Invitees -> [1 .. MaxTokens -> Nat]]
  BY <1>7 DEF AccessShape
<1> QED
  BY <1>6, <1>7, <1>9, <1>10, <1>11, <1>12, InviteWritten

LEMMA RevokeWriteStep ==
    ASSUME AccessInv, NEW c \in AccessCalls, RevokeWrite(c)
    PROVE  AccessInv'
<1> USE DEF AccessInv
<1>1. PICK e \in Invitees : e = accessCall[c].key
  BY DEF RevokeWrite, AccessFits
<1>2. PICK n \in 0 .. MaxTokens : n = invite[e].token
  BY DEF AccessShape, InviteRow
<1>3. n > 0 /\ invite[e] \in InviteRow /\ invite[e].role \in InviteRoles
  BY <1>1, <1>2 DEF RevokeWrite, AccessFits, AccessShape
<1>4. PICK row : row = [invite[e] EXCEPT !.status = "REVOKED"]
  OBVIOUS
<1>5. row \in InviteRow /\ row.token = n /\ row.status = "REVOKED" /\ row.role \in InviteRoles
  BY <1>2, <1>3, <1>4 DEF InviteRow
<1>6. /\ invite' = [invite EXCEPT ![e] = row] /\ Overtake(c, e, AccessIdle)
      /\ revokedTokens' = [revokedTokens EXCEPT ![e] = revokedTokens[e] \cup {n}]
      /\ accessRaced \subseteq accessRaced'
      /\ UNCHANGED <<roles, grants, sellerStatus, used>>
  BY <1>1, <1>2, <1>4 DEF RevokeWrite, AccessShape
<1>7. invite'[e] = row /\ revokedTokens'[e] = revokedTokens[e] \cup {n}
  BY <1>6 DEF AccessShape
<1>8. TokensAreSpent(e)'
  <2>1. TokensAreSpent(e) /\ UNCHANGED used /\ n \in 0 .. n
    BY <1>2, <1>6
  <2> QED
    BY <1>2, <1>5, <1>6, <1>7, <2>1 DEF TokensAreSpent
<1>9. DOMAIN revokedTokens' = Invitees /\ \A d \in Invitees : d # e => revokedTokens'[d] = revokedTokens[d]
  BY <1>6 DEF AccessShape
<1>10. row.token >= invite[e].token /\ (row.status = "NONE" <=> row.token = 0)
  BY <1>2, <1>3, <1>5
<1>11. roles' \in [Invitees -> SUBSET InviteRoles] /\ used' \in [Invitees -> [1 .. MaxTokens -> Nat]]
  BY <1>6 DEF AccessShape
<1> QED
  BY <1>5, <1>6, <1>8, <1>9, <1>10, <1>11, InviteWritten

LEMMA ExpireWriteStep ==
    ASSUME AccessInv, NEW c \in AccessCalls, ExpireWrite(c)
    PROVE  AccessInv'
<1> USE DEF AccessInv
<1>1. PICK e \in Invitees : e = accessCall[c].key
  BY DEF ExpireWrite, AccessFits
<1>2. PICK n \in 0 .. MaxTokens : n = invite[e].token
  BY DEF AccessShape, InviteRow
<1>3. n > 0 /\ invite[e] \in InviteRow /\ invite[e].role \in InviteRoles
  BY <1>1, <1>2 DEF ExpireWrite, AccessFits, AccessShape
<1>4. PICK row : row = [invite[e] EXCEPT !.status = "EXPIRED"]
  OBVIOUS
<1>5. row \in InviteRow /\ row.token = n /\ row.status = "EXPIRED" /\ row.role \in InviteRoles
  BY <1>2, <1>3, <1>4 DEF InviteRow
<1>6. /\ invite' = [invite EXCEPT ![e] = row] /\ Overtake(c, e, AccessIdle)
      /\ accessRaced \subseteq accessRaced'
      /\ UNCHANGED <<roles, grants, sellerStatus, used, revokedTokens>>
  BY <1>1, <1>4 DEF ExpireWrite, AccessShape
<1>7. invite'[e] = row
  BY <1>6 DEF AccessShape
<1>8. TokensAreSpent(e)'
  <2>1. TokensAreSpent(e) /\ UNCHANGED <<used, revokedTokens>>
    BY <1>6
  <2> QED
    BY <1>2, <1>5, <1>6, <1>7, <2>1 DEF TokensAreSpent
<1>9. row.token >= invite[e].token /\ (row.status = "NONE" <=> row.token = 0)
  BY <1>2, <1>3, <1>5
<1>10. /\ roles' \in [Invitees -> SUBSET InviteRoles] /\ used' \in [Invitees -> [1 .. MaxTokens -> Nat]]
       /\ DOMAIN revokedTokens' = Invitees
  BY <1>6 DEF AccessShape
<1> QED
  BY <1>5, <1>6, <1>8, <1>9, <1>10, InviteWritten

\* An acceptance that nobody overtook is the first of its token.
LEMMA AcceptCommitStep ==
    ASSUME AccessInv, NEW c \in AccessCalls, AcceptCommit(c)
    PROVE  AccessInv'
<1> USE DEF AccessInv
<1>1. PICK e \in Invitees : e = accessCall[c].key
  BY DEF AcceptCommit, AccessFits
<1>2. PICK n \in 0 .. MaxTokens : n = invite[e].token
  BY DEF AccessShape, InviteRow
<1>3. n > 0 /\ invite[e] \in InviteRow /\ invite[e].role \in InviteRoles
  BY <1>1, <1>2 DEF AcceptCommit, AccessFits, AccessShape
<1>4. PICK row : row = [invite[e] EXCEPT !.status = "ACCEPTED"]
  OBVIOUS
<1>5. row \in InviteRow /\ row.token = n /\ row.status = "ACCEPTED" /\ row.role \in InviteRoles
  BY <1>2, <1>3, <1>4 DEF InviteRow
<1>6. PICK k \in 1 .. MaxTokens : k = accessCall[c].token /\ k <= n
  <2>1. accessCall[c].token \in 0 .. MaxTokens
    BY DEF AccessShape, AccessCallState
  <2>2. AccessFits(c) /\ accessCall[c].pc = "accepting"
    BY DEF AcceptCommit
  <2>3. accessCall[c].token > 0 /\ accessCall[c].token <= n
    BY <1>1, <1>2, <2>2 DEF AccessFits
  <2> QED
    BY <2>1, <2>3, AccessConstants
<1>7. PICK times \in [1 .. MaxTokens -> Nat] : times = [used[e] EXCEPT ![k] = used[e][k] + 1]
  <2>1. used[e] \in [1 .. MaxTokens -> Nat]
    BY DEF AccessShape
  <2>2. PICK u \in Nat : u = used[e][k] + 1
    <3>1. used[e][k] \in Nat
      BY <1>6, <2>1, AccessConstants, Zenon
    <3> QED
      BY <3>1
  <2>3. [used[e] EXCEPT ![k] = u] \in [1 .. MaxTokens -> Nat]
    BY <2>1
  <2> QED
    BY <2>2, <2>3
<1>8. /\ invite' = [invite EXCEPT ![e] = row] /\ Overtake(c, e, AccessIdle)
      /\ used' = [used EXCEPT ![e] = times]
      /\ accessRaced \subseteq accessRaced'
      /\ accessCall[c].overtaken => <<"accepted", e>> \in accessRaced'
      /\ UNCHANGED <<grants, sellerStatus, revokedTokens>>
  BY <1>1, <1>4, <1>6, <1>7 DEF AcceptCommit, AccessShape
<1>9. roles' \in [Invitees -> SUBSET InviteRoles]
  <2>1. accessCall[c].role \in InviteRoles
    BY DEF AcceptCommit, AccessFits
  <2>2. roles' = [roles EXCEPT ![e] = roles[e] \cup {accessCall[c].role}]
    BY <1>1 DEF AcceptCommit
  <2> QED
    BY <2>1, <2>2 DEF AccessShape
<1>10. /\ used' \in [Invitees -> [1 .. MaxTokens -> Nat]] /\ used'[e] = times
       /\ \A d \in Invitees : d # e => used'[d] = used[d]
  BY <1>7, <1>8 DEF AccessShape
<1>11. invite'[e] = row
  BY <1>8 DEF AccessShape
<1>12. TokensAreSpent(e)'
  <2>1. TokensAreSpent(e) /\ used[e] \in [1 .. MaxTokens -> Nat]
    BY DEF AccessShape
  <2>2. times[k] = used[e][k] + 1 /\ \A m \in 1 .. MaxTokens : m # k => times[m] = used[e][m]
    BY <1>7, <2>1
  <2>3. \A m \in 1 .. MaxTokens : times[m] > 0 => m <= n
    BY <1>2, <1>6, <2>1, <2>2 DEF TokensAreSpent
  <2>4. <<"accepted", e>> \notin accessRaced' => used[e][k] = 0
    <3>1. SUFFICES ASSUME <<"accepted", e>> \notin accessRaced' PROVE used[e][k] = 0
      OBVIOUS
    <3>2. ~accessCall[c].overtaken /\ <<"accepted", e>> \notin accessRaced
      BY <1>8, <3>1
    <3>3. n = k /\ invite[e].status = "PENDING"
      BY <1>1, <1>2, <1>6, <3>2 DEF StillAsRead, AcceptCommit
    <3>4. ~(used[e][k] > 0)
      BY <1>2, <2>1, <3>2, <3>3 DEF TokensAreSpent
    <3>5. used[e][k] \in Nat
      BY <2>1
    <3> QED
      BY <3>4, <3>5
  <2>5. <<"accepted", e>> \notin accessRaced' => \A m \in 1 .. MaxTokens : times[m] <= 1
    BY <1>8, <2>1, <2>2, <2>4 DEF TokensAreSpent
  <2>6. \A m \in revokedTokens'[e] : m \in 0 .. n
    BY <1>2, <1>8, <2>1 DEF TokensAreSpent
  <2> QED
    BY <1>5, <1>10, <1>11, <2>3, <2>5, <2>6 DEF TokensAreSpent
<1>13. row.token >= invite[e].token /\ (row.status = "NONE" <=> row.token = 0)
  BY <1>2, <1>3, <1>5
<1>14. DOMAIN revokedTokens' = Invitees /\ UNCHANGED revokedTokens
  BY <1>8 DEF AccessShape
<1> QED
  BY <1>5, <1>8, <1>9, <1>10, <1>12, <1>13, <1>14, InviteWritten

\* The lists of a role; a write overtakes the other editors of the role.
LEMMA GrantsWritten ==
    ASSUME AccessInv, NEW c \in AccessCalls, NEW r \in InviteRoles, NEW list \in SUBSET Grants,
           NEW next \in AccessCallState, next.pc = "idle" \/ (next.pc = "granting" /\ next.key = r /\ list = {}),
           grants' = [grants EXCEPT ![r] = list], Overtake(c, r, next),
           UNCHANGED <<invite, roles, sellerStatus, used, revokedTokens>>,
           \A e \in Invitees : <<"accepted", e>> \in accessRaced => <<"accepted", e>> \in accessRaced'
    PROVE  AccessInv'
<1> USE DEF AccessInv
<1>1. /\ grants' \in [InviteRoles -> SUBSET Grants] /\ grants'[r] = list
      /\ \A s \in InviteRoles : s # r => grants'[s] = grants[s]
  BY DEF AccessShape
<1>2. \A e \in Invitees : invite'[e].token >= invite[e].token
  BY DEF AccessShape, InviteRow
<1>3. r # None /\ invite' \in [Invitees -> InviteRow]
  BY AccessConstants DEF AccessShape
<1>4. /\ accessCall' \in [AccessCalls -> AccessCallState]
      /\ accessCall'[c] = next
      /\ \A d \in AccessCalls : d # c => AccessFits(d)' /\ StillAsRead(d)'
  BY <1>1, <1>2, <1>3, OthersOvertaken
<1>5. AccessFits(c)' /\ StillAsRead(c)'
  BY <1>1, <1>4 DEF AccessFits, StillAsRead
<1>6. AccessShape'
  BY <1>1, <1>4 DEF AccessShape
<1>7. \A e \in Invitees : TokensAreSpent(e)'
  BY TokensRest
<1> QED
  BY <1>4, <1>5, <1>6, <1>7

LEMMA GrantsStep ==
    ASSUME AccessInv, NEW c \in AccessCalls,
           \/ \E r \in InviteRoles, given \in SUBSET Grants : ClearRolePermissions(c, r, given)
           \/ AssignPermissions(c)
    PROVE  AccessInv'
<1>1. ASSUME NEW r \in InviteRoles, NEW given \in SUBSET Grants, ClearRolePermissions(c, r, given)
      PROVE  AccessInv'
  <2>1. PICK next : next = [AccessIdle EXCEPT !.pc = "granting", !.key = r, !.set = given]
    OBVIOUS
  <2>2. next \in AccessCallState /\ next.pc = "granting" /\ next.key = r
    BY <2>1, AccessIdleFits DEF AccessCallState
  <2>3. /\ grants' = [grants EXCEPT ![r] = {}] /\ Overtake(c, r, next)
        /\ UNCHANGED <<invite, roles, sellerStatus, used, revokedTokens>>
        /\ accessRaced' = accessRaced \ {<<"grants", r>>}
    BY <1>1, <2>1 DEF ClearRolePermissions
  <2>4. \A e \in Invitees : <<"accepted", e>> \in accessRaced => <<"accepted", e>> \in accessRaced'
    BY <2>3
  <2> QED
    BY <2>2, <2>3, <2>4, GrantsWritten
<1>2. ASSUME AssignPermissions(c) PROVE AccessInv'
  <2>1. PICK r \in InviteRoles : r = accessCall[c].key
    BY <1>2 DEF AssignPermissions, AccessInv, AccessFits
  <2>2. grants[r] \in SUBSET Grants /\ accessCall[c].set \in SUBSET Grants
    BY DEF AccessInv, AccessShape, AccessCallState
  <2>3. PICK list \in SUBSET Grants : grants' = [grants EXCEPT ![r] = list]
    BY <1>2, <2>1, <2>2 DEF AssignPermissions
  <2>4. /\ Overtake(c, r, AccessIdle) /\ accessRaced \subseteq accessRaced'
        /\ UNCHANGED <<invite, roles, sellerStatus, used, revokedTokens>>
    BY <1>2, <2>1 DEF AssignPermissions
  <2> QED
    BY <2>3, <2>4, AccessIdleFits, GrantsWritten
<1> QED
  BY <1>1, <1>2

\* Invitations are read, expire, and administrators change the roles of an account.
LEMMA InviteReadStep ==
    ASSUME AccessInv, NEW c \in AccessCalls, NEW e \in Invitees,
           \/ \E r \in InviteRoles : CreateInviteRead(c, e, r)
           \/ RevokeRead(c, e)
           \/ ExpireRead(c, e)
           \/ \E n \in 1 .. MaxTokens : AcceptRead(c, e, n)
    PROVE  AccessInv'
<1> USE DEF AccessInv
<1>1. /\ UNCHANGED <<accessRows, accessGhosts>>
  BY DEF CreateInviteRead, RevokeRead, ExpireRead, AcceptRead
<1>2. /\ invite[e] \in InviteRow
      /\ invite[e].status = "NONE" <=> invite[e].token = 0
      /\ invite[e].token > 0 => invite[e].role \in InviteRoles
  BY DEF AccessShape
<1>3. invite[e].token \in 0 .. MaxTokens
  BY <1>2 DEF InviteRow
<1> DEFINE Begins(next) ==
       /\ Waits(c, next) /\ next.key = e
       /\ next.pc \in {"inviting", "revoking", "accepting", "expiring"}
       /\ next.pc \in {"revoking", "accepting", "expiring"} => invite[e].token > 0
       /\ next.pc \in {"inviting", "accepting"} => next.role \in InviteRoles
       /\ next.pc = "accepting" => /\ next.token > 0 /\ next.token <= invite[e].token
                                   /\ invite[e].token = next.token /\ invite[e].status = "PENDING"
       /\ next.pc = "revoking" => invite[e].status # "ACCEPTED"
       /\ next.pc = "expiring" => invite[e].status = "PENDING"
<1>4. PICK next \in AccessCallState : Begins(next)
  <2>1. ASSUME NEW r \in InviteRoles, CreateInviteRead(c, e, r)
        PROVE  \E next \in AccessCallState : Begins(next)
    <3>1. PICK next : next = [AccessIdle EXCEPT !.pc = "inviting", !.key = e, !.role = r]
      OBVIOUS
    <3>2. next \in AccessCallState /\ next.pc = "inviting" /\ next.key = e /\ next.role = r
      BY <3>1, AccessIdleFits DEF AccessCallState
    <3>3. Waits(c, next)
      BY <2>1, <3>1 DEF CreateInviteRead
    <3> QED
      BY <3>2, <3>3
  <2>2. ASSUME RevokeRead(c, e) PROVE \E next \in AccessCallState : Begins(next)
    <3>1. PICK next : next = [AccessIdle EXCEPT !.pc = "revoking", !.key = e, !.token = invite[e].token]
      OBVIOUS
    <3>2. next \in AccessCallState /\ next.pc = "revoking" /\ next.key = e
      BY <1>3, <3>1, AccessIdleFits DEF AccessCallState
    <3>3. Waits(c, next) /\ invite[e].status \notin {"NONE", "ACCEPTED"}
      BY <2>2, <3>1 DEF RevokeRead
    <3>4. invite[e].token > 0
      BY <1>2, <1>3, <3>3
    <3> QED
      BY <3>2, <3>3, <3>4
  <2>3. ASSUME ExpireRead(c, e) PROVE \E next \in AccessCallState : Begins(next)
    <3>1. PICK next : next = [AccessIdle EXCEPT !.pc = "expiring", !.key = e, !.token = invite[e].token]
      OBVIOUS
    <3>2. next \in AccessCallState /\ next.pc = "expiring" /\ next.key = e
      BY <1>3, <3>1, AccessIdleFits DEF AccessCallState
    <3>3. Waits(c, next) /\ invite[e].status = "PENDING"
      BY <2>3, <3>1 DEF ExpireRead
    <3>4. invite[e].token > 0
      BY <1>2, <1>3, <3>3
    <3> QED
      BY <3>2, <3>3, <3>4
  <2>4. ASSUME NEW n \in 1 .. MaxTokens, AcceptRead(c, e, n)
        PROVE  \E next \in AccessCallState : Begins(next)
    <3>1. PICK next : next = [AccessIdle EXCEPT !.pc = "accepting", !.key = e, !.token = n,
                                                !.role = invite[e].role]
      OBVIOUS
    <3>2. Waits(c, next) /\ invite[e].status = "PENDING" /\ invite[e].token = n /\ n > 0
      BY <2>4, <3>1 DEF AcceptRead, Acceptable
    <3>3. invite[e].role \in InviteRoles /\ n \in 0 .. MaxTokens /\ n <= invite[e].token
      BY <1>2, <1>3, <3>2
    <3>4. /\ next \in AccessCallState /\ next.pc = "accepting" /\ next.key = e /\ next.token = n
          /\ next.role = invite[e].role
      BY <3>1, <3>3, AccessIdleFits DEF AccessCallState
    <3> QED
      BY <3>2, <3>3, <3>4
  <2> QED
    BY <2>1, <2>2, <2>3, <2>4
<1>5. accessCall'[c] = next /\ UNCHANGED <<invite, grants, roles, sellerStatus, used, revokedTokens, accessRaced>>
  BY <1>1, <1>4 DEF Waits, AccessShape, accessRows, accessGhosts
<1>6. AccessFits(c)' /\ StillAsRead(c)'
  BY <1>4, <1>5 DEF AccessFits, StillAsRead
<1>7. Waits(c, next) /\ sellerStatus' \in {"PENDING", "APPROVED", "REJECTED"}
  BY <1>4, <1>5 DEF AccessShape
<1> HIDE DEF Begins
<1> QED
  BY <1>5, <1>6, <1>7, AccessReads

\* An invitation that lapses is otherwise as it was.
LEMMA InviteLapses ==
    ASSUME NEW row \in InviteRow
    PROVE  LET late == [row EXCEPT !.expired = TRUE]
           IN  /\ late \in InviteRow /\ late.status = row.status
               /\ late.token = row.token /\ late.role = row.role
BY DEF InviteRow

LEMMA InviteTimeStep ==
    ASSUME AccessInv, NEW e \in Invitees,
           InviteExpires(e) \/ \E names \in SUBSET InviteRoles : SetUserRoles(e, names)
    PROVE  AccessInv'
<1> USE DEF AccessInv
<1>1. UNCHANGED <<grants, sellerStatus, accessCall, accessGhosts>>
  BY DEF InviteExpires, SetUserRoles
<1>2. /\ invite' \in [Invitees -> InviteRow]
      /\ \A d \in Invitees : /\ invite'[d].status = invite[d].status
                             /\ invite'[d].token = invite[d].token /\ invite'[d].role = invite[d].role
  <2>1. CASE InviteExpires(e)
    <3>1. PICK row : row = [invite[e] EXCEPT !.expired = TRUE]
      OBVIOUS
    <3>0. invite' = [invite EXCEPT ![e] = [invite[e] EXCEPT !.expired = TRUE]]
      BY <2>1, Zenon DEF InviteExpires
    <3>2. invite' = [invite EXCEPT ![e] = row]
      BY <3>0, <3>1
    <3>4. invite \in [Invitees -> InviteRow]
      BY DEF AccessShape
    <3>3. /\ row \in InviteRow /\ row.status = invite[e].status /\ row.token = invite[e].token
          /\ row.role = invite[e].role
      BY <3>1, <3>4, InviteLapses
    <3>5. \A d \in Invitees : invite'[d] = IF d = e THEN row ELSE invite[d]
      BY <3>2, <3>4
    <3> QED
      BY <3>2, <3>3, <3>4, <3>5
  <2>2. CASE \E names \in SUBSET InviteRoles : SetUserRoles(e, names)
    BY <2>2 DEF SetUserRoles, AccessShape
  <2> QED
    BY <2>1, <2>2
<1>3. roles' \in [Invitees -> SUBSET InviteRoles]
  BY DEF InviteExpires, SetUserRoles, AccessShape
<1>4. AccessShape'
  BY <1>1, <1>2, <1>3 DEF AccessShape, accessGhosts
<1>5. ASSUME NEW c \in AccessCalls PROVE AccessFits(c)' /\ StillAsRead(c)'
  <2>1. AccessFits(c)'
    BY <1>1, <1>2 DEF AccessFits
  <2>2. StillAsRead(c)'
    BY <1>1, <1>2 DEF StillAsRead, AccessFits
  <2> QED
    BY <2>1, <2>2
<1>6. ASSUME NEW d \in Invitees PROVE TokensAreSpent(d)'
  BY <1>1, <1>2 DEF TokensAreSpent, accessGhosts
<1> QED
  BY <1>4, <1>5, <1>6

\* A request dies; the review of a seller.
LEMMA AccessEndStep ==
    ASSUME AccessInv, NEW c \in AccessCalls,
           \/ AccessDies(c)
           \/ RecordDecision(c)
           \/ \E d \in {"APPROVED", "REJECTED"} : ReviewRead(c, d)
    PROVE  AccessInv'
<1> USE DEF AccessInv
<1>1. PICK next \in AccessCallState :
        /\ Waits(c, next)
        /\ next.pc = "idle" \/ (next.pc = "reviewing" /\ next.role \in {"APPROVED", "REJECTED"})
  <2>1. ASSUME NEW d \in {"APPROVED", "REJECTED"}, ReviewRead(c, d)
        PROVE  \E next \in AccessCallState :
                 /\ Waits(c, next)
                 /\ next.pc = "idle" \/ (next.pc = "reviewing" /\ next.role \in {"APPROVED", "REJECTED"})
    <3>1. PICK next : next = [AccessIdle EXCEPT !.pc = "reviewing", !.role = d]
      OBVIOUS
    <3>2. next \in AccessCallState /\ next.pc = "reviewing" /\ next.role = d
      BY <3>1, AccessIdleFits DEF AccessCallState
    <3> QED
      BY <2>1, <3>1, <3>2 DEF ReviewRead
  <2>2. ASSUME AccessDies(c) \/ RecordDecision(c) PROVE Waits(c, AccessIdle)
    BY <2>2 DEF AccessDies, RecordDecision
  <2> QED
    BY <2>1, <2>2, AccessIdleFits
<1>2. UNCHANGED <<invite, grants, roles, used, revokedTokens>> /\ accessRaced \subseteq accessRaced'
  BY DEF AccessDies, RecordDecision, ReviewRead, accessRows, accessGhosts
<1>3. sellerStatus' \in {"PENDING", "APPROVED", "REJECTED"}
  BY DEF AccessDies, RecordDecision, ReviewRead, accessRows, AccessShape, AccessFits
<1>4. accessCall'[c] = next
  BY <1>1 DEF Waits, AccessShape
<1>5. AccessFits(c)' /\ StillAsRead(c)'
  BY <1>1, <1>4 DEF AccessFits, StillAsRead
<1> QED
  BY <1>1, <1>2, <1>3, <1>5, AccessReads

LEMMA AccessInvStep == AccessInv /\ [AccessNext]_accessVars => AccessInv'
<1> SUFFICES ASSUME AccessInv, [AccessNext]_accessVars PROVE AccessInv'
  OBVIOUS
<1>1. CASE UNCHANGED accessVars
  BY <1>1 DEF AccessInv, AccessShape, AccessFits, StillAsRead, TokensAreSpent, accessVars, accessRows,
              accessGhosts
<1>2. CASE InviteNext
  BY <1>2, CreateInviteWriteStep, RevokeWriteStep, ExpireWriteStep, AcceptCommitStep, InviteReadStep,
     InviteTimeStep, AccessEndStep DEF InviteNext, AccessCalls
<1>3. CASE GrantNext
  BY <1>3, GrantsStep, AccessEndStep DEF GrantNext, AccessCalls
<1>4. CASE SellerReviewNext
  BY <1>4, AccessEndStep DEF SellerReviewNext, AccessCalls
<1> QED
  BY <1>1, <1>2, <1>3, <1>4 DEF AccessNext

LEMMA AccessInvSafe == AccessInv => AccessTypeOK /\ AcceptedOnce
<1> SUFFICES ASSUME AccessInv PROVE AccessTypeOK /\ AcceptedOnce
  OBVIOUS
<1>1. AccessTypeOK
  BY DEF AccessInv, AccessShape, InviteRow, AccessTypeOK
<1>2. ASSUME NEW e \in Invitees, NEW n \in 1 .. MaxTokens, used[e][n] > 1
      PROVE  <<"accepted", e>> \in accessRaced
  <2>1. used[e][n] \in Nat
    BY DEF AccessInv, AccessShape
  <2> QED
    BY <1>2, <2>1 DEF AccessInv, TokensAreSpent
<1> QED
  BY <1>1, <1>2 DEF AcceptedOnce

\* Which step counts an acceptance, and which steps write to an invitation.
LEMMA TokensStayRevoked ==
    AccessInv /\ [AccessNext]_accessVars =>
      [\A e \in Invitees, n \in 1 .. MaxTokens :
          used'[e][n] > used[e][n] /\ n \in revokedTokens[e]
              => \E c \in Accepters : accessCall[c].key = e /\ accessCall[c].overtaken]_accessVars
<1> SUFFICES ASSUME AccessInv, [AccessNext]_accessVars, NEW e \in Invitees, NEW n \in 1 .. MaxTokens,
                    used'[e][n] > used[e][n], n \in revokedTokens[e]
             PROVE  \E c \in Accepters : accessCall[c].key = e /\ accessCall[c].overtaken
  OBVIOUS
<1>1. used[e][n] \in Nat /\ used \in [Invitees -> [1 .. MaxTokens -> Nat]]
  BY DEF AccessInv, AccessShape
<1>2. used' # used
  BY <1>1
<1>3. PICK c \in Accepters : AcceptCommit(c)
  BY <1>2 DEF AccessNext, InviteNext, GrantNext, SellerReviewNext, CreateInviteWrite, CreateInviteRead,
     RevokeWrite, RevokeRead, ExpireWrite, ExpireRead, AcceptRead, InviteExpires, SetUserRoles, AccessDies,
     ClearRolePermissions, AssignPermissions, ReviewRead, RecordDecision, accessVars, accessGhosts
<1>4. accessCall[c].key = e /\ accessCall[c].token = n
  <2>1. used' = [used EXCEPT ![accessCall[c].key][accessCall[c].token] = @ + 1]
    BY <1>3 DEF AcceptCommit
  <2> QED
    BY <1>1, <2>1
<1>5. ASSUME ~accessCall[c].overtaken PROVE FALSE
  <2>1. c \in AccessCalls
    BY DEF AccessCalls
  <2>2. invite[e].token = n /\ invite[e].status = "PENDING"
    BY <1>3, <1>4, <1>5, <2>1 DEF AccessInv, StillAsRead, AcceptCommit
  <2> QED
    BY <2>2 DEF AccessInv, TokensAreSpent
<1> QED
  BY <1>4, <1>5

LEMMA AcceptedStays ==
    AccessInv /\ [AccessNext]_accessVars =>
      [\A e \in Invitees :
          invite[e].status = "ACCEPTED" /\ invite'[e] # invite[e]
              => invite'[e].token > invite[e].token
                 \/ \E c \in AccessCalls : accessCall[c].key = e /\ accessCall[c].overtaken]_accessVars
<1> SUFFICES ASSUME AccessInv, [AccessNext]_accessVars, NEW e \in Invitees,
                    invite[e].status = "ACCEPTED", invite'[e] # invite[e]
             PROVE  invite'[e].token > invite[e].token
                    \/ \E c \in AccessCalls : accessCall[c].key = e /\ accessCall[c].overtaken
  OBVIOUS
<1>a. invite \in [Invitees -> InviteRow]
  BY DEF AccessInv, AccessShape
<1>1. ASSUME NEW c \in AccessCalls, CreateInviteWrite(c) PROVE invite'[e].token > invite[e].token
  <2>1. accessCall[c].key = e
    BY <1>1, <1>a DEF CreateInviteWrite
  <2>2. invite'[e].token = invite[e].token + 1 /\ invite[e].token \in 0 .. MaxTokens
    BY <1>1, <1>a, <2>1 DEF CreateInviteWrite, InviteRow
  <2> QED
    BY <2>2
<1>2. ASSUME NEW c \in AccessCalls, RevokeWrite(c) \/ ExpireWrite(c) \/ AcceptCommit(c)
      PROVE  accessCall[c].key = e /\ accessCall[c].overtaken
  <2>1. accessCall[c].key = e
    BY <1>2, <1>a DEF RevokeWrite, ExpireWrite, AcceptCommit
  <2> QED
    BY <1>2, <2>1 DEF AccessInv, StillAsRead, RevokeWrite, ExpireWrite, AcceptCommit
<1>3. ASSUME NEW d \in Invitees, InviteExpires(d) PROVE FALSE
  BY <1>3, <1>a DEF InviteExpires
<1>4. \/ \E c \in AccessCalls : CreateInviteWrite(c) \/ RevokeWrite(c) \/ ExpireWrite(c) \/ AcceptCommit(c)
      \/ \E d \in Invitees : InviteExpires(d)
  <2>1. invite' # invite
    OBVIOUS
  <2> QED
    BY <2>1 DEF AccessNext, InviteNext, GrantNext, SellerReviewNext, CreateInviteRead, RevokeRead,
       ExpireRead, AcceptRead, SetUserRoles, AccessDies, ClearRolePermissions, AssignPermissions,
       ReviewRead, RecordDecision, accessVars, accessRows, AccessCalls
<1> QED
  BY <1>1, <1>2, <1>3, <1>4

LEMMA ListsAndDecisions ==
    AccessInv /\ [AccessNext]_accessVars =>
      /\ [\A c \in RoleEditors :
            AssignPermissions(c) /\ ~accessCall[c].overtaken
              => grants'[accessCall[c].key] = accessCall[c].set]_accessVars
      /\ [sellerStatus # "PENDING" => sellerStatus' = sellerStatus]_accessVars
<1> SUFFICES ASSUME AccessInv, [AccessNext]_accessVars
             PROVE  /\ \A c \in RoleEditors :
                          AssignPermissions(c) /\ ~accessCall[c].overtaken
                            => grants'[accessCall[c].key] = accessCall[c].set
                    /\ sellerStatus # "PENDING" => sellerStatus' = sellerStatus
  OBVIOUS
<1>1. ASSUME NEW c \in RoleEditors, AssignPermissions(c), ~accessCall[c].overtaken
      PROVE  grants'[accessCall[c].key] = accessCall[c].set
  <2>1. accessCall[c].key \in InviteRoles /\ grants[accessCall[c].key] = {}
    BY <1>1 DEF AccessInv, StillAsRead, AccessFits, AssignPermissions, AccessCalls
  <2>2. grants' = [grants EXCEPT ![accessCall[c].key] =
           IF grants[accessCall[c].key] \cap accessCall[c].set = {}
           THEN grants[accessCall[c].key] \cup accessCall[c].set ELSE grants[accessCall[c].key]]
    BY <1>1, SMTT(30) DEF AssignPermissions
  <2> QED
    BY <2>1, <2>2 DEF AccessInv, AccessShape
<1>2. sellerStatus # "PENDING" => sellerStatus' = sellerStatus
  BY DEF AccessNext, InviteNext, GrantNext, SellerReviewNext, CreateInviteWrite, CreateInviteRead,
     RevokeWrite, RevokeRead, ExpireWrite, ExpireRead, AcceptRead, AcceptCommit, InviteExpires,
     SetUserRoles, AccessDies, ClearRolePermissions, AssignPermissions, ReviewRead, RecordDecision,
     accessVars, accessRows
<1> QED
  BY <1>1, <1>2

\* Invitations are accepted once and stay accepted, revoked and replaced tokens grant
\* nothing, a role has the last list it was given, and a seller is decided on once: save
\* for what a request had checked before another wrote, which the statement names.
THEOREM GrantsIntended == AccessSpec => GrantsAreIntended
<1>1. AccessSpec => []AccessInv
  BY AccessInvInit, AccessInvStep, PTL DEF AccessSpec
<1>2. AccessSpec => RevokedGrantsNothing
  BY <1>1, TokensStayRevoked, PTL DEF AccessSpec, RevokedGrantsNothing
<1>3. AccessSpec => AcceptanceIsFinal
  BY <1>1, AcceptedStays, PTL DEF AccessSpec, AcceptanceIsFinal
<1>4. AccessSpec => GrantsAreTheLastList /\ DecidedOnce
  BY <1>1, ListsAndDecisions, PTL DEF AccessSpec, GrantsAreTheLastList, DecidedOnce
<1> QED
  BY <1>1, <1>2, <1>3, <1>4, AccessInvSafe, PTL DEF GrantsAreIntended

-----------------------------------------------------------------------------
(* Staff, their stores and features                                        *)

MemberRow ==
    [role : OrgRoles \cup {"NONE"}, permissions : SUBSET Features, stores : SUBSET OrgStores]

OrgCallState ==
    [pc : {"idle", "admitted", "adding", "hiring", "updating", "deleting"},
     org : Orgs \cup {Unset}, actor : People \cup {Unset}, target : People \cup {Unset},
     role : OrgRoles \cup {Unset}, stores : {Unset} \cup SUBSET OrgStores,
     permissions : {Unset} \cup SUBSET Features, overtaken : BOOLEAN, lost : BOOLEAN]

PruneState ==
    [pc : {"none", "due", "writing"}, lists : [People -> SUBSET OrgStores],
     overtaken : SUBSET People]

OrgShape ==
    /\ member \in [Orgs -> [People -> MemberRow]]
    /\ accounts \subseteq People
    /\ gone \in [OrgStores -> BOOLEAN]
    /\ orgCall \in [OrgRequests -> OrgCallState]
    /\ prune \in [OrgStores -> PruneState]

\* A member has stores of the organization only, none without a role, and the owner
\* administers it.
RowFits(o, u, row) ==
    /\ row.role = "NONE" => row.stores = {}
    /\ \A s \in row.stores : StoreOrg[s] = o
    /\ u = OwnerOf[o] => row.role = "SELLER_ADMIN"

\* What an update writes was decided on the row's role, which is as it was read until
\* another write of the row overtakes the update.
DecidedOnTheRow(call, row) ==
    /\ call.role = "SELLER_ADMIN" /\ call.permissions = Unset => row.role = "SELLER_ADMIN"
    /\ call.role = "SELLER_ADMIN" /\ call.permissions # Unset => call.permissions = {}
    /\ call.role = Unset /\ call.permissions # Unset /\ row.role = "SELLER_ADMIN"
          => call.permissions = {}

CallFits(call, rows) ==
    /\ call.pc # "idle" => call.org \in Orgs
    /\ call.lost => call.overtaken
    /\ call.pc \in {"adding", "hiring", "updating", "deleting"} => call.target \in People
    /\ call.pc \in {"adding", "hiring"} =>
          /\ call.role \in OrgRoles /\ call.permissions \subseteq Features
          /\ call.stores \subseteq OrgStores
          /\ \A s \in call.stores : StoreOrg[s] = call.org
          /\ call.role = "SELLER_ADMIN" => call.permissions = {}
    /\ call.pc = "updating" /\ call.stores # Unset => \A s \in call.stores : StoreOrg[s] = call.org
    /\ call.pc \in {"updating", "deleting"} =>
          /\ call.target # OwnerOf[call.org]
          /\ ~call.lost => rows[call.org][call.target].role # "NONE"
    /\ call.pc = "updating" /\ ~call.overtaken => DecidedOnTheRow(call, rows[call.org][call.target])

\* A list that is still to be written back is that of a member, names stores of the
\* organization and is what the row says, unless the row was written since it was read.
PruneFits(o, p, rows) ==
    p.pc = "writing" => \A u \in People : p.lists[u] # {} =>
        /\ rows[o][u].role # "NONE"
        /\ \A t \in p.lists[u] : StoreOrg[t] = o
        /\ u \notin p.overtaken => p.lists[u] = rows[o][u].stores

OrgInv ==
    /\ OrgShape
    /\ \A o \in Orgs, u \in People : /\ RowFits(o, u, member[o][u])
                                     /\ member[o][u].role # "NONE" => u \in accounts
    /\ AdministratorsHoldNoList
    /\ \A c \in OrgRequests : CallFits(orgCall[c], member)
    /\ \A s \in OrgStores : /\ PruneFits(StoreOrg[s], prune[s], member)
                            /\ prune[s].pc # "none" => gone[s]

LEMMA OrgIdleFits == OrgIdle \in OrgCallState /\ \A rows : CallFits(OrgIdle, rows)
BY DEF OrgIdle, OrgCallState, CallFits

LEMMA NoPruneFits == NoPrune \in PruneState /\ NoPrune.pc = "none"
BY DEF NoPrune, PruneState

\* At first the owners are the only members.
LEMMA OrgInvInit == OrgInit => OrgInv
<1> SUFFICES ASSUME OrgInit PROVE OrgInv
  OBVIOUS
<1> USE OrgConstants
<1>1. \A o \in Orgs, u \in People :
         /\ member[o][u] \in MemberRow
         /\ member[o][u].role = IF u = OwnerOf[o] THEN "SELLER_ADMIN" ELSE "NONE"
         /\ member[o][u].permissions = {} /\ member[o][u].stores = {}
  BY DEF OrgInit, NoMember, MemberRow, OrgRoles
<1>2. member \in [Orgs -> [People -> MemberRow]]
  <2>1. \A o \in Orgs : member[o] \in [People -> MemberRow]
    BY <1>1 DEF OrgInit
  <2> QED
    BY <2>1 DEF OrgInit
<1>3. accounts \subseteq People /\ gone \in [OrgStores -> BOOLEAN]
  BY DEF OrgInit
<1>4. orgCall \in [OrgRequests -> OrgCallState] /\ \A c \in OrgRequests : CallFits(orgCall[c], member)
  BY OrgIdleFits DEF OrgInit
<1>5. /\ prune \in [OrgStores -> PruneState]
      /\ \A s \in OrgStores : PruneFits(StoreOrg[s], prune[s], member) /\ prune[s].pc = "none"
  BY NoPruneFits DEF OrgInit, PruneFits
<1>6. \A o \in Orgs : OwnerOf[o] \in accounts
  BY DEF OrgInit
<1>7. \A o \in Orgs, u \in People : /\ RowFits(o, u, member[o][u])
                                    /\ member[o][u].role # "NONE" => u \in accounts
                                    /\ member[o][u].permissions = {}
  BY <1>1, <1>6 DEF RowFits
<1> QED
  BY <1>2, <1>3, <1>4, <1>5, <1>7 DEF OrgInv, OrgShape, AdministratorsHoldNoList

\* A request that reads, or ends without a write, takes one step on its own.
LEMMA OrgCallMoves ==
    ASSUME OrgInv, NEW c \in OrgRequests, NEW call \in OrgCallState, CallFits(call, member),
           orgCall' = [orgCall EXCEPT ![c] = call], UNCHANGED <<orgRows, prune, mixed>>
    PROVE  OrgInv'
BY DEF OrgInv, OrgShape, orgRows, AdministratorsHoldNoList

\* Who administers an organization acts in it.
LEMMA AdmittedFits ==
    ASSUME OrgInv, NEW c \in OrgRequests, NEW u \in People, Admit(c, u)
    PROVE  OrgInv'
<1>1. PICK ctx \in OrgContexts(u) :
         orgCall' = [orgCall EXCEPT ![c] = [OrgIdle EXCEPT !.pc = "admitted", !.org = ctx.org,
                                                           !.actor = u]]
  BY DEF Admit
<1>2. ctx.org \in Orgs
  BY DEF OrgContexts
<1>3. PICK call : call = [OrgIdle EXCEPT !.pc = "admitted", !.org = ctx.org, !.actor = u]
  OBVIOUS
<1>4. call \in OrgCallState /\ CallFits(call, member)
  BY <1>2, <1>3 DEF OrgIdle, OrgCallState, CallFits
<1> QED
  BY <1>1, <1>3, <1>4, OrgCallMoves DEF Admit

\* What a hire, a change or a removal read fits the row it is about.
LEMMA NormalizedFits ==
    ASSUME NEW role, NEW requested \in {Unset} \cup SUBSET Features
    PROVE  /\ NormalizePermissions(role, requested) \in SUBSET Features
           /\ role = "SELLER_ADMIN" => NormalizePermissions(role, requested) = {}
           /\ NormalizePermissions(role, requested) # Unset
BY OrgConstants DEF NormalizePermissions

LEMMA HireFits ==
    ASSUME OrgInv, NEW c \in OrgRequests, NEW t \in People, NEW h \in Hires,
           CreateMemberRead(c, t, h.role, h.stores, h.permissions)
    PROVE  OrgInv'
<1> DEFINE kept == IF h.role = "SELLER_ADMIN" THEN {} ELSE h.stores
           given == NormalizePermissions(h.role, h.permissions)
           next == IF t \in accounts THEN "adding" ELSE "hiring"
<1>1. PICK call : call = [orgCall[c] EXCEPT !.pc = next, !.target = t, !.role = h.role,
                                            !.stores = kept, !.permissions = given]
  OBVIOUS
<1>2. orgCall' = [orgCall EXCEPT ![c] = call]
  BY <1>1 DEF CreateMemberRead
<1>3. orgCall[c] \in OrgCallState /\ orgCall[c].org \in Orgs /\ CallFits(orgCall[c], member)
  BY DEF OrgInv, OrgShape, CallFits, CreateMemberRead
<1>4. /\ h.role \in OrgRoles /\ kept \subseteq OrgStores /\ given \subseteq Features
      /\ h.role = "SELLER_ADMIN" => given = {}
      /\ next \in {"adding", "hiring"}
  BY OrgConstants, NormalizedFits
<1>5. \A s \in kept : StoreOrg[s] = orgCall[c].org
  BY DEF CreateMemberRead, StoresInOrg
<1> HIDE DEF kept, given, next
<1>6. call \in OrgCallState
  BY <1>1, <1>3, <1>4 DEF OrgCallState
<1>7. CallFits(call, member)
  BY <1>1, <1>3, <1>4, <1>5 DEF OrgCallState, CallFits
<1> QED
  BY <1>2, <1>6, <1>7, OrgCallMoves DEF CreateMemberRead

LEMMA ChangeFits ==
    ASSUME OrgInv, NEW c \in OrgRequests, NEW t \in People, NEW p \in Patches,
           UpdateMemberRead(c, t, p.role, p.stores, p.permissions)
    PROVE  OrgInv'
<1> DEFINE o == orgCall[c].org
           current == member[o][t].role
           kept == IF p.role = "SELLER_ADMIN" THEN {} ELSE p.stores
           roleChanged == p.role # Unset /\ p.role # current
           given == IF p.permissions # Unset \/ roleChanged
                    THEN NormalizePermissions(IF p.role = Unset THEN current ELSE p.role,
                                              p.permissions)
                    ELSE Unset
<1>1. PICK call : call = [orgCall[c] EXCEPT !.pc = "updating", !.target = t, !.role = p.role,
                                            !.stores = kept, !.permissions = given]
  OBVIOUS
<1>2. orgCall' = [orgCall EXCEPT ![c] = call]
  BY <1>1 DEF UpdateMemberRead
<1>3. orgCall[c] \in OrgCallState /\ o \in Orgs /\ (orgCall[c].lost => orgCall[c].overtaken)
  BY DEF OrgInv, OrgShape, CallFits, UpdateMemberRead
<1>4. /\ p.role \in {Unset} \cup OrgRoles /\ kept \in {Unset} \cup SUBSET OrgStores
      /\ p.permissions \in {Unset} \cup SUBSET Features
  BY OrgConstants
<1>5. /\ given \in {Unset} \cup SUBSET Features
      /\ p.role = "SELLER_ADMIN" /\ given = Unset => current = "SELLER_ADMIN"
      /\ p.role = "SELLER_ADMIN" /\ given # Unset => given = {}
      /\ p.role = Unset /\ given # Unset /\ current = "SELLER_ADMIN" => given = {}
  BY <1>4, NormalizedFits, OrgConstants DEF OrgRoles
<1>6. kept # Unset => \A s \in kept : StoreOrg[s] = o
  BY DEF UpdateMemberRead, StoresInOrg
<1>7. t # OwnerOf[o] /\ current # "NONE"
  BY DEF UpdateMemberRead, Managed
<1> HIDE DEF kept, given
<1>8. call \in OrgCallState
  BY <1>1, <1>3, <1>4, <1>5 DEF OrgCallState
<1>9. CallFits(call, member)
  BY <1>1, <1>3, <1>5, <1>6, <1>7 DEF OrgCallState, CallFits, DecidedOnTheRow
<1> QED
  BY <1>2, <1>8, <1>9, OrgCallMoves DEF UpdateMemberRead

LEMMA RemovalFits ==
    ASSUME OrgInv, NEW c \in OrgRequests, NEW t \in People, DeleteMemberRead(c, t)
    PROVE  OrgInv'
<1>1. PICK call : call = [orgCall[c] EXCEPT !.pc = "deleting", !.target = t]
  OBVIOUS
<1>2. orgCall' = [orgCall EXCEPT ![c] = call]
  BY <1>1 DEF DeleteMemberRead
<1>3. /\ orgCall[c] \in OrgCallState /\ orgCall[c].org \in Orgs
      /\ orgCall[c].lost => orgCall[c].overtaken
  BY DEF OrgInv, OrgShape, CallFits, DeleteMemberRead
<1>4. t # OwnerOf[orgCall[c].org] /\ member[orgCall[c].org][t].role # "NONE"
  BY DEF DeleteMemberRead, Managed
<1>5. call \in OrgCallState /\ CallFits(call, member)
  BY <1>1, <1>3, <1>4 DEF OrgCallState, CallFits
<1> QED
  BY <1>2, <1>5, OrgCallMoves DEF DeleteMemberRead

LEMMA RequestEndFits ==
    ASSUME OrgInv, NEW c \in OrgRequests, EndOrgCall(c), UNCHANGED <<orgRows, prune, mixed>>
    PROVE  OrgInv'
BY OrgIdleFits, OrgCallMoves DEF EndOrgCall

\* One row is written, the others are as they were.
LEMMA RowWritten ==
    ASSUME OrgShape, NEW o \in Orgs, NEW t \in People, NEW row \in MemberRow,
           member' = [member EXCEPT ![o][t] = row]
    PROVE  /\ member' \in [Orgs -> [People -> MemberRow]]
           /\ member'[o][t] = row
           /\ \A p \in Orgs, u \in People : p # o \/ u # t => member'[p][u] = member[p][u]
BY DEF OrgShape

\* An insert meets no request that still has the id of the row, and no list.
LEMMA HireWriteFits ==
    ASSUME OrgInv, NEW c \in OrgRequests, CreateMemberWrite(c)
    PROVE  OrgInv'
<1>0. PICK o, t : o = orgCall[c].org /\ t = orgCall[c].target
  OBVIOUS
<1>1. /\ orgCall[c] \in OrgCallState /\ o \in Orgs /\ t \in People
      /\ orgCall[c].role \in OrgRoles /\ orgCall[c].permissions \subseteq Features
      /\ orgCall[c].stores \subseteq OrgStores
      /\ \A s \in orgCall[c].stores : StoreOrg[s] = o
      /\ orgCall[c].role = "SELLER_ADMIN" => orgCall[c].permissions = {}
  BY <1>0 DEF OrgInv, OrgShape, CallFits, CreateMemberWrite
<1>2. EndOrgCall(c) /\ UNCHANGED <<gone, prune>>
  BY DEF CreateMemberWrite
<1>3. CASE UNCHANGED <<member, accounts, mixed>>
  BY <1>2, <1>3, RequestEndFits DEF orgRows
<1>4. PICK row : row = [role |-> orgCall[c].role, permissions |-> orgCall[c].permissions,
                        stores |-> orgCall[c].stores]
  OBVIOUS
<1>5. CASE /\ member[o][t].role = "NONE" /\ member' = [member EXCEPT ![o][t] = row]
           /\ accounts' = accounts \cup {t} /\ mixed' = mixed \ {<<o, t>>}
  <2>1. row \in MemberRow /\ row.role \in OrgRoles /\ row.role # "NONE"
    BY <1>1, <1>4 DEF MemberRow, OrgRoles
  <2>2. /\ member' \in [Orgs -> [People -> MemberRow]]
        /\ member'[o][t] = row
        /\ \A p \in Orgs, u \in People : p # o \/ u # t => member'[p][u] = member[p][u]
    <3>1. OrgShape /\ member' = [member EXCEPT ![o][t] = row]
      BY <1>5 DEF OrgInv
    <3> QED
      BY <3>1, <1>1, <2>1 DEF OrgShape
  <2>3. RowFits(o, t, row) /\ (row.role = "SELLER_ADMIN" => row.permissions = {})
    BY <1>1, <1>4, <1>5, <2>1 DEF RowFits, OrgInv
  <2>4. OrgShape'
    BY <1>1, <1>2, <1>5, <2>2, OrgIdleFits DEF OrgInv, OrgShape, EndOrgCall
  <2>5. \A p \in Orgs, u \in People : /\ RowFits(p, u, member'[p][u])
                                      /\ member'[p][u].role # "NONE" => u \in accounts'
    BY <1>5, <2>2, <2>3 DEF OrgInv
  <2>6. AdministratorsHoldNoList'
    BY <1>5, <2>2, <2>3 DEF OrgInv, AdministratorsHoldNoList
  <2>7. ASSUME NEW d \in OrgRequests PROVE CallFits(orgCall'[d], member')
    <3>1. CASE d = c
      BY <3>1, <1>2, OrgIdleFits DEF EndOrgCall, OrgInv, OrgShape
    <3>2. CASE d # c
      <4>1. orgCall'[d] = orgCall[d] /\ CallFits(orgCall[d], member)
        BY <3>2, <1>2 DEF EndOrgCall, OrgInv, OrgShape
      <4>2. PICK call : call = orgCall[d]
        OBVIOUS
      <4>3. CASE call.org = o /\ call.target = t
        BY <4>1, <4>2, <4>3, <1>5 DEF CallFits
      <4>4. CASE call.org # o \/ call.target # t
        BY <4>1, <4>2, <4>4, <2>2 DEF CallFits
      <4> QED
        BY <4>3, <4>4
    <3> QED
      BY <3>1, <3>2
  <2>8. ASSUME NEW s \in OrgStores
        PROVE  PruneFits(StoreOrg[s], prune'[s], member') /\ (prune'[s].pc # "none" => gone'[s])
    <3>1. StoreOrg[s] \in Orgs
      BY OrgConstants
    <3>2. /\ prune'[s] = prune[s] /\ gone' = gone /\ PruneFits(StoreOrg[s], prune[s], member)
          /\ prune[s].pc # "none" => gone[s]
      BY <1>2 DEF OrgInv
    <3>3. PruneFits(StoreOrg[s], prune[s], member')
      BY <3>1, <3>2, <2>2, <1>5, SMTT(30) DEF PruneFits
    <3> QED
      BY <3>2, <3>3
  <2> QED
    BY <2>4, <2>5, <2>6, <2>7, <2>8 DEF OrgInv
<1> QED
  BY <1>0, <1>3, <1>4, <1>5 DEF CreateMemberWrite

\* A write overtakes whoever had read the row; a deletion takes it from them.
LEMMA WriteOvertakes ==
    ASSUME OrgShape, NEW c \in OrgRequests, NEW o \in Orgs, NEW t \in People,
           NEW deleted \in BOOLEAN, AfterWrite(c, o, t, deleted)
    PROVE  /\ orgCall' \in [OrgRequests -> OrgCallState] /\ prune' \in [OrgStores -> PruneState]
           /\ orgCall'[c] = OrgIdle
           /\ \A d \in OrgRequests \ {c} :
                 IF orgCall[d].org = o /\ orgCall[d].target = t
                 THEN /\ orgCall'[d].pc = orgCall[d].pc /\ orgCall'[d].org = o
                      /\ orgCall'[d].target = t /\ orgCall'[d].role = orgCall[d].role
                      /\ orgCall'[d].stores = orgCall[d].stores
                      /\ orgCall'[d].permissions = orgCall[d].permissions
                      /\ orgCall'[d].overtaken /\ (deleted => orgCall'[d].lost)
                      /\ orgCall[d].lost => orgCall'[d].lost
                 ELSE orgCall'[d] = orgCall[d]
           /\ \A s \in OrgStores :
                 IF prune[s].pc = "writing" /\ StoreOrg[s] = o
                 THEN /\ prune'[s].pc = "writing"
                      /\ prune'[s].overtaken = prune[s].overtaken \cup {t}
                      /\ \A u \in People : prune'[s].lists[u] =
                            IF u = t /\ deleted THEN {} ELSE prune[s].lists[u]
                 ELSE prune'[s] = prune[s]
<1>1. ASSUME NEW d \in OrgRequests \ {c}, orgCall[d].org = o /\ orgCall[d].target = t
      PROVE  /\ orgCall'[d] \in OrgCallState
             /\ orgCall'[d].pc = orgCall[d].pc /\ orgCall'[d].org = o
             /\ orgCall'[d].target = t /\ orgCall'[d].role = orgCall[d].role
             /\ orgCall'[d].stores = orgCall[d].stores
             /\ orgCall'[d].permissions = orgCall[d].permissions
             /\ orgCall'[d].overtaken /\ (deleted => orgCall'[d].lost)
             /\ orgCall[d].lost => orgCall'[d].lost
  <2>1. PICK old : old = orgCall[d] /\ old \in OrgCallState
    BY DEF OrgShape
  <2>2. orgCall'[d] = [old EXCEPT !.overtaken = TRUE, !.lost = old.lost \/ deleted]
    BY <1>1, <2>1 DEF AfterWrite
  <2>3. (old.lost \/ deleted) \in BOOLEAN
    OBVIOUS
  <2> QED
    BY <1>1, <2>1, <2>2, <2>3, ZenonT(60) DEF OrgCallState
<1>2. ASSUME NEW s \in OrgStores, prune[s].pc = "writing", StoreOrg[s] = o
      PROVE  /\ prune'[s] \in PruneState /\ prune'[s].pc = "writing"
             /\ prune'[s].overtaken = prune[s].overtaken \cup {t}
             /\ \A u \in People : prune'[s].lists[u] =
                   IF u = t /\ deleted THEN {} ELSE prune[s].lists[u]
  <2>1. PICK old : old = prune[s] /\ old \in PruneState
    BY DEF OrgShape
  <2>2. PICK lists : lists = [old.lists EXCEPT ![t] = IF deleted THEN {} ELSE old.lists[t]]
    OBVIOUS
  <2>3. prune'[s] = [old EXCEPT !.overtaken = old.overtaken \cup {t}, !.lists = lists]
    BY <1>2, <2>1, <2>2 DEF AfterWrite, PruneState
  <2>4. /\ old.lists \in [People -> SUBSET OrgStores]
        /\ old.overtaken \cup {t} \in SUBSET People
    BY <2>1 DEF PruneState
  <2>5. /\ lists \in [People -> SUBSET OrgStores]
        /\ \A u \in People : lists[u] = IF u = t /\ deleted THEN {} ELSE old.lists[u]
    BY <2>2, <2>4
  <2> QED
    BY <1>2, <2>1, <2>3, <2>4, <2>5 DEF PruneState
<1> QED
  BY <1>1, <1>2, OrgIdleFits DEF AfterWrite, OrgShape

\* A row that is written or deleted fits, and its readers know of it.
LEMMA RowWriteFits ==
    ASSUME OrgInv, NEW c \in OrgRequests, NEW o \in Orgs, NEW t \in People,
           NEW row \in MemberRow, NEW deleted \in BOOLEAN,
           RowFits(o, t, row), row.role # "NONE" => t \in accounts,
           deleted <=> row.role = "NONE",
           row.role = "SELLER_ADMIN" /\ <<o, t>> \notin mixed' => row.permissions = {},
           mixed \ {<<o, t>>} \subseteq mixed',
           member' = [member EXCEPT ![o][t] = row],
           AfterWrite(c, o, t, deleted), UNCHANGED <<accounts, gone>>
    PROVE  OrgInv'
<1>1. /\ member' \in [Orgs -> [People -> MemberRow]]
      /\ member'[o][t] = row
      /\ \A p \in Orgs, u \in People : p # o \/ u # t => member'[p][u] = member[p][u]
  BY DEF OrgInv, OrgShape
<1>2. /\ orgCall' \in [OrgRequests -> OrgCallState] /\ prune' \in [OrgStores -> PruneState]
      /\ orgCall'[c] = OrgIdle
      /\ \A d \in OrgRequests \ {c} :
            IF orgCall[d].org = o /\ orgCall[d].target = t
            THEN /\ orgCall'[d].pc = orgCall[d].pc /\ orgCall'[d].org = o
                 /\ orgCall'[d].target = t /\ orgCall'[d].role = orgCall[d].role
                 /\ orgCall'[d].stores = orgCall[d].stores
                 /\ orgCall'[d].permissions = orgCall[d].permissions
                 /\ orgCall'[d].overtaken /\ (deleted => orgCall'[d].lost)
                 /\ orgCall[d].lost => orgCall'[d].lost
            ELSE orgCall'[d] = orgCall[d]
      /\ \A s \in OrgStores :
            IF prune[s].pc = "writing" /\ StoreOrg[s] = o
            THEN /\ prune'[s].pc = "writing"
                 /\ prune'[s].overtaken = prune[s].overtaken \cup {t}
                 /\ \A u \in People : prune'[s].lists[u] =
                       IF u = t /\ deleted THEN {} ELSE prune[s].lists[u]
            ELSE prune'[s] = prune[s]
  BY WriteOvertakes DEF OrgInv
<1>3. OrgShape'
  BY <1>1, <1>2 DEF OrgInv, OrgShape
<1>4. \A p \in Orgs, u \in People : /\ RowFits(p, u, member'[p][u])
                                    /\ member'[p][u].role # "NONE" => u \in accounts'
  BY <1>1 DEF OrgInv
<1>5. AdministratorsHoldNoList'
  BY <1>1 DEF OrgInv, AdministratorsHoldNoList
<1>6. ASSUME NEW d \in OrgRequests PROVE CallFits(orgCall'[d], member')
  <2>1. CASE d = c
    BY <2>1, <1>2, OrgIdleFits
  <2>2. CASE d # c /\ orgCall[d].org = o /\ orgCall[d].target = t
    <3>1. PICK old, new : old = orgCall[d] /\ new = orgCall'[d]
      OBVIOUS
    <3>2. CallFits(old, member)
      BY <3>1 DEF OrgInv
    <3>3. /\ new.pc = old.pc /\ old.org = o /\ new.org = o /\ old.target = t /\ new.target = t
          /\ new.role = old.role /\ new.stores = old.stores /\ new.permissions = old.permissions
          /\ new.overtaken /\ (deleted => new.lost) /\ (old.lost => new.lost)
      BY <2>2, <3>1, <1>2
    <3>4. CallFits(new, member')
      BY <3>2, <3>3, <1>1 DEF CallFits
    <3> QED
      BY <3>1, <3>4
  <2>3. CASE d # c /\ (orgCall[d].org # o \/ orgCall[d].target # t)
    <3>1. PICK old : old = orgCall[d]
      OBVIOUS
    <3>2. orgCall'[d] = old
      BY <2>3, <3>1, <1>2
    <3>3. CallFits(old, member) /\ (old.org # o \/ old.target # t)
      BY <2>3, <3>1 DEF OrgInv
    <3>4. CallFits(old, member')
      BY <3>3, <1>1 DEF CallFits
    <3> QED
      BY <3>2, <3>4
  <2> QED
    BY <2>1, <2>2, <2>3
<1>7. ASSUME NEW s \in OrgStores
      PROVE  PruneFits(StoreOrg[s], prune'[s], member') /\ (prune'[s].pc # "none" => gone'[s])
  <2>1. /\ PruneFits(StoreOrg[s], prune[s], member) /\ (prune[s].pc # "none" => gone[s])
        /\ StoreOrg[s] \in Orgs
    BY OrgConstants DEF OrgInv
  <2>2. PICK old, new : old = prune[s] /\ new = prune'[s]
    OBVIOUS
  <2>3. CASE old.pc = "writing" /\ StoreOrg[s] = o
    <3>1. /\ new.pc = "writing" /\ new.overtaken = old.overtaken \cup {t}
          /\ \A u \in People : new.lists[u] = IF u = t /\ deleted THEN {} ELSE old.lists[u]
      BY <2>2, <2>3, <1>2
    <3>2. PruneFits(o, new, member')
      BY <2>1, <2>2, <2>3, <3>1, <1>1 DEF PruneFits
    <3> QED
      BY <2>1, <2>2, <2>3, <3>2
  <2>4. CASE ~(old.pc = "writing" /\ StoreOrg[s] = o)
    <3>1. new = old
      BY <2>2, <2>4, <1>2
    <3>2. PruneFits(StoreOrg[s], old, member')
      BY <2>1, <2>2, <2>4, <1>1 DEF PruneFits
    <3> QED
      BY <2>1, <2>2, <3>1, <3>2
  <2> QED
    BY <2>3, <2>4
<1> QED
  BY <1>3, <1>4, <1>5, <1>6, <1>7 DEF OrgInv

LEMMA ChangeWriteFits ==
    ASSUME OrgInv, NEW c \in OrgRequests, UpdateMemberWrite(c)
    PROVE  OrgInv'
<1>1. CASE orgCall[c].lost
  BY <1>1, RequestEndFits DEF UpdateMemberWrite, orgRows
<1>2. CASE ~orgCall[c].lost
  <2>1. PICK call, o, t, old, row :
           /\ call = orgCall[c] /\ o = call.org /\ t = call.target
           /\ old = member[o][t] /\ row = Patched(old, call)
    OBVIOUS
  <2>2. /\ member' = [member EXCEPT ![o][t] = row]
        /\ mixed' = mixed \cup {x \in {<<o, t>>} : call.overtaken}
        /\ AfterWrite(c, o, t, FALSE) /\ UNCHANGED <<accounts, gone>>
    BY <1>2, <2>1 DEF UpdateMemberWrite
  <2>3. call \in OrgCallState /\ call.pc = "updating" /\ CallFits(call, member)
    BY <2>1 DEF OrgInv, OrgShape, UpdateMemberWrite
  <2>4. /\ o \in Orgs /\ t \in People /\ t # OwnerOf[o] /\ old.role # "NONE"
        /\ call.stores # Unset => \A s \in call.stores : StoreOrg[s] = o
        /\ ~call.overtaken => DecidedOnTheRow(call, old)
    BY <1>2, <2>1, <2>3 DEF CallFits
  <2>5. old \in MemberRow /\ RowFits(o, t, old) /\ t \in accounts
    BY <2>1, <2>4 DEF OrgInv, OrgShape
  <2>6. row \in MemberRow /\ row.role # "NONE"
    BY <2>1, <2>3, <2>4, <2>5, SMTT(30) DEF Patched, MemberRow, OrgCallState, OrgRoles
  <2>7. RowFits(o, t, row)
    BY <2>1, <2>4, <2>5, <2>6 DEF Patched, RowFits
  <2>8. row.role = "SELLER_ADMIN" /\ <<o, t>> \notin mixed' => row.permissions = {}
    <3> SUFFICES ASSUME row.role = "SELLER_ADMIN", <<o, t>> \notin mixed' PROVE row.permissions = {}
      OBVIOUS
    <3>1. ~call.overtaken /\ <<o, t>> \notin mixed
      BY <2>2
    <3>2. old.role = "SELLER_ADMIN" => old.permissions = {}
      BY <3>1, <2>1, <2>4 DEF OrgInv, AdministratorsHoldNoList
    <3> QED
      BY <3>1, <3>2, <2>1, <2>4 DEF Patched, DecidedOnTheRow
  <2> QED
    BY <2>2, <2>4, <2>5, <2>6, <2>7, <2>8, RowWriteFits
<1> QED
  BY <1>1, <1>2

LEMMA RemovalWriteFits ==
    ASSUME OrgInv, NEW c \in OrgRequests, DeleteMemberWrite(c)
    PROVE  OrgInv'
<1>1. CASE orgCall[c].lost
  BY <1>1, RequestEndFits DEF DeleteMemberWrite, orgRows
<1>2. CASE ~orgCall[c].lost
  <2>1. PICK o, t : o = orgCall[c].org /\ t = orgCall[c].target
    OBVIOUS
  <2>2. /\ member' = [member EXCEPT ![o][t] = NoMember]
        /\ mixed' = mixed \ {<<o, t>>}
        /\ AfterWrite(c, o, t, TRUE) /\ UNCHANGED <<accounts, gone>>
    BY <1>2, <2>1 DEF DeleteMemberWrite
  <2>3. o \in Orgs /\ t \in People /\ t # OwnerOf[o]
    BY <2>1 DEF OrgInv, CallFits, DeleteMemberWrite
  <2>4. NoMember \in MemberRow /\ NoMember.role = "NONE" /\ RowFits(o, t, NoMember)
    BY <2>3 DEF NoMember, MemberRow, RowFits
  <2> QED
    BY <2>2, <2>3, <2>4, RowWriteFits
<1> QED
  BY <1>1, <1>2

\* The deletion of a store and the pruning of the lists that name it.
LEMMA PruneMoves ==
    ASSUME OrgInv, NEW s \in OrgStores, NEW p \in PruneState, PruneFits(StoreOrg[s], p, member),
           p.pc # "none" => gone'[s], prune' = [prune EXCEPT ![s] = p],
           gone' \in [OrgStores -> BOOLEAN], \A t \in OrgStores : gone[t] => gone'[t],
           UNCHANGED <<member, accounts, orgCall, mixed>>
    PROVE  OrgInv'
BY DEF OrgInv, OrgShape, AdministratorsHoldNoList

LEMMA StoreDeletedFits ==
    ASSUME OrgInv, NEW s \in OrgStores, StoreDeleted(s) \/ PruneRead(s) \/ PruneEnds(s)
    PROVE  OrgInv'
<1>1. prune[s] \in PruneState /\ gone \in [OrgStores -> BOOLEAN]
  BY DEF OrgInv, OrgShape
<1>2. CASE StoreDeleted(s)
  <2>1. PICK p : p = [prune[s] EXCEPT !.pc = "due"]
    OBVIOUS
  <2>2. p \in PruneState /\ p.pc = "due"
    BY <1>1, <2>1 DEF PruneState
  <2>3. PruneFits(StoreOrg[s], p, member)
    BY <2>2 DEF PruneFits
  <2>4. prune' = [prune EXCEPT ![s] = p] /\ UNCHANGED <<member, accounts, orgCall, mixed>>
    BY <1>2, <2>1 DEF StoreDeleted
  <2>5. gone' \in [OrgStores -> BOOLEAN] /\ gone'[s] /\ \A t \in OrgStores : gone[t] => gone'[t]
    BY <1>1, <1>2 DEF StoreDeleted
  <2> QED
    BY <2>2, <2>3, <2>4, <2>5, PruneMoves
<1>3. CASE PruneRead(s)
  <2>1. PICK o : o = StoreOrg[s] /\ o \in Orgs
    BY OrgConstants
  <2>2. PICK lists : lists = [u \in People |-> {x \in member[o][u].stores : s \in member[o][u].stores}]
    OBVIOUS
  <2>3. PICK p : p = [pc |-> "writing", overtaken |-> {}, lists |-> lists]
    OBVIOUS
  <2>4. /\ \A u \in People : /\ member[o][u] \in MemberRow
                             /\ RowFits(o, u, member[o][u])
    BY <2>1 DEF OrgInv, OrgShape
  <2>5. lists \in [People -> SUBSET OrgStores]
    BY <2>2, <2>4 DEF MemberRow
  <2>6. p \in PruneState
    BY <2>3, <2>5 DEF PruneState
  <2>7. PruneFits(o, p, member)
    BY <2>2, <2>3, <2>4 DEF PruneFits, RowFits
  <2>8. prune' = [prune EXCEPT ![s] = p] /\ UNCHANGED <<member, accounts, gone, orgCall, mixed>>
    BY <1>3, <2>1, <2>2, <2>3 DEF PruneRead, orgRows
  <2>9. gone[s]
    BY <1>3 DEF PruneRead, OrgInv
  <2> QED
    BY <1>1, <2>1, <2>6, <2>7, <2>8, <2>9, PruneMoves
<1>4. CASE PruneEnds(s)
  <2>1. PruneFits(StoreOrg[s], NoPrune, member)
    BY NoPruneFits DEF PruneFits
  <2>2. prune' = [prune EXCEPT ![s] = NoPrune] /\ UNCHANGED <<member, accounts, gone, orgCall, mixed>>
    BY <1>4 DEF PruneEnds, orgRows
  <2> QED
    BY <1>1, <2>1, <2>2, NoPruneFits, PruneMoves
<1> QED
  BY <1>2, <1>3, <1>4

\* A list is written back: the row keeps its role and features, and another pruning of
\* the organization is overtaken.
LEMMA PruneWriteFits ==
    ASSUME OrgInv, NEW s \in OrgStores, NEW u \in People, PruneWrite(s, u)
    PROVE  OrgInv'
<1>1. PICK o, old, list : /\ o = StoreOrg[s] /\ o \in Orgs /\ old = member[o][u]
                          /\ list = prune[s].lists[u] \ {s}
  BY OrgConstants
<1>2. PICK row : row = [old EXCEPT !.stores = list]
  OBVIOUS
<1>3. member' = [member EXCEPT ![o][u] = row]
  BY <1>1, <1>2 DEF PruneWrite, OrgInv, OrgShape, MemberRow
<1>4. /\ prune[s] \in PruneState /\ prune[s].pc = "writing" /\ prune[s].lists[u] # {}
      /\ PruneFits(o, prune[s], member) /\ gone[s]
  BY <1>1 DEF OrgInv, OrgShape, PruneWrite
<1>5. /\ old \in MemberRow /\ old.role # "NONE" /\ RowFits(o, u, old) /\ u \in accounts
      /\ list \subseteq OrgStores /\ \A t \in list : StoreOrg[t] = o
  BY <1>1, <1>4 DEF OrgInv, OrgShape, PruneState, PruneFits
<1>6. /\ row \in MemberRow /\ row.role = old.role /\ row.permissions = old.permissions
      /\ row.stores = list /\ RowFits(o, u, row)
  BY <1>2, <1>5 DEF MemberRow, RowFits
<1>7. /\ member' \in [Orgs -> [People -> MemberRow]] /\ member'[o][u] = row
      /\ \A p \in Orgs, v \in People : p # o \/ v # u => member'[p][v] = member[p][v]
      /\ \A p \in Orgs, v \in People : /\ member'[p][v].role = member[p][v].role
                                       /\ member'[p][v].permissions = member[p][v].permissions
  BY <1>1, <1>3, <1>6 DEF OrgInv, OrgShape
<1>8. ASSUME NEW t \in OrgStores
      PROVE  /\ prune'[t] \in PruneState /\ PruneFits(StoreOrg[t], prune'[t], member')
             /\ prune'[t].pc = prune[t].pc
  <2>1. PICK before : /\ before = prune[t] /\ before \in PruneState
                      /\ PruneFits(StoreOrg[t], before, member) /\ StoreOrg[t] \in Orgs
    BY OrgConstants DEF OrgInv, OrgShape
  <2>2. CASE t = s
    <3>1. PICK lists, after : /\ lists = [before.lists EXCEPT ![u] = {}]
                              /\ after = [before EXCEPT !.lists = lists]
      OBVIOUS
    <3>2. prune'[t] = after
      BY <2>1, <2>2, <3>1 DEF PruneWrite
    <3>3. /\ lists \in [People -> SUBSET OrgStores] /\ lists[u] = {}
          /\ \A v \in People : v # u => lists[v] = before.lists[v]
      BY <2>1, <3>1 DEF PruneState
    <3>4. /\ after \in PruneState /\ after.pc = before.pc /\ after.lists = lists
          /\ after.overtaken = before.overtaken
      BY <2>1, <3>1, <3>3 DEF PruneState
    <3>5. PruneFits(StoreOrg[t], after, member')
      BY <2>1, <3>3, <3>4, <1>7 DEF PruneFits
    <3> QED
      BY <2>1, <3>2, <3>4, <3>5
  <2>3. CASE t # s /\ before.pc = "writing" /\ StoreOrg[t] = o
    <3>1. PICK after : after = [before EXCEPT !.overtaken = before.overtaken \cup {u}]
      OBVIOUS
    <3>2. prune'[t] = after
      BY <1>1, <2>1, <2>3, <3>1 DEF PruneWrite
    <3>3. /\ after \in PruneState /\ after.pc = before.pc /\ after.lists = before.lists
          /\ after.overtaken = before.overtaken \cup {u}
      BY <2>1, <3>1 DEF PruneState
    <3>4. PruneFits(StoreOrg[t], after, member')
      BY <2>1, <3>3, <1>7 DEF PruneFits
    <3> QED
      BY <2>1, <3>2, <3>3, <3>4
  <2>4. CASE t # s /\ ~(before.pc = "writing" /\ StoreOrg[t] = o)
    <3>1. prune'[t] = before
      BY <1>1, <2>1, <2>4 DEF PruneWrite
    <3>2. PruneFits(StoreOrg[t], before, member')
      BY <2>1, <2>4, <1>7 DEF PruneFits
    <3> QED
      BY <2>1, <3>1, <3>2
  <2> QED
    BY <2>2, <2>3, <2>4
<1>9. /\ UNCHANGED <<accounts, gone, orgCall>> /\ mixed \subseteq mixed'
      /\ DOMAIN prune' = OrgStores /\ prune' = [t \in OrgStores |-> prune'[t]]
  BY DEF PruneWrite
<1>10. ASSUME NEW c \in OrgRequests PROVE CallFits(orgCall[c], member')
  <2>1. PICK call : call = orgCall[c] /\ CallFits(call, member)
    BY DEF OrgInv
  <2>2. CallFits(call, member')
    BY <2>1, <1>7 DEF CallFits, DecidedOnTheRow
  <2> QED
    BY <2>1, <2>2
<1>11. OrgShape'
  BY <1>7, <1>8, <1>9 DEF OrgInv, OrgShape
<1>12. \A p \in Orgs, v \in People : /\ RowFits(p, v, member'[p][v])
                                     /\ member'[p][v].role # "NONE" => v \in accounts'
  BY <1>5, <1>6, <1>7, <1>9 DEF OrgInv
<1>13. AdministratorsHoldNoList'
  BY <1>7, <1>9 DEF OrgInv, AdministratorsHoldNoList
<1> QED
  BY <1>8, <1>9, <1>10, <1>11, <1>12, <1>13 DEF OrgInv

\* Every request and every deletion keeps the invariant.
LEMMA OrgInvStep == OrgInv /\ [OrgNext]_orgVars => OrgInv'
<1> SUFFICES ASSUME OrgInv, [OrgNext]_orgVars PROVE OrgInv'
  OBVIOUS
<1>1. ASSUME NEW c \in OrgRequests, OrgRequestStep(c, Hires) PROVE OrgInv'
  <2>1. CASE OrgRequestEnds(c)
    BY <2>1, RequestEndFits DEF OrgRequestEnds
  <2> QED
    BY <1>1, <2>1, AdmittedFits, HireFits, HireWriteFits, ChangeFits, ChangeWriteFits,
       RemovalFits, RemovalWriteFits DEF OrgRequestStep
<1>2. ASSUME NEW s \in OrgStores, StoreRemovalStep(s) PROVE OrgInv'
  BY <1>2, StoreDeletedFits, PruneWriteFits DEF StoreRemovalStep
<1>3. CASE UNCHANGED orgVars
  BY <1>3 DEF orgVars, orgRows, OrgInv, OrgShape, AdministratorsHoldNoList
<1> QED
  BY <1>1, <1>2, <1>3 DEF OrgNext, OrgStep

\* What a context reaches is of an organization its holder joined or owns, and what a
\* feature is used on is held there.
LEMMA OrgInvSafe ==
    OrgInv => /\ OrgTypeOK /\ OwnerKeepsTheOrganization /\ NoStoreOutsideTheScope
              /\ FeaturesFollowTheStore /\ AssignmentsStayInside /\ AdministratorsHoldNoList
<1> SUFFICES ASSUME OrgInv
             PROVE  /\ OrgTypeOK /\ OwnerKeepsTheOrganization /\ NoStoreOutsideTheScope
                    /\ FeaturesFollowTheStore /\ AssignmentsStayInside /\ AdministratorsHoldNoList
  OBVIOUS
<1>1. OrgTypeOK
  BY DEF OrgInv, OrgShape, OrgTypeOK, MemberRow
<1>2. OwnerKeepsTheOrganization
  BY OrgConstants DEF OrgInv, RowFits, OwnerKeepsTheOrganization
<1>3. AssignmentsStayInside
  BY DEF OrgInv, RowFits, AssignmentsStayInside
<1>4. ASSUME NEW u \in People, NEW ctx \in OrgContexts(u)
      PROVE  /\ ctx.org \in Orgs
             /\ member[ctx.org][u].role # "NONE" \/ OwnerOf[ctx.org] = u
             /\ ctx.admin => member[ctx.org][u].role = "SELLER_ADMIN" \/ OwnerOf[ctx.org] = u
             /\ ~ctx.admin => ctx.features = member[ctx.org][u].permissions
  <2> DEFINE joined == {o \in Orgs : member[o][u].role # "NONE"}
             administered == {o \in joined : member[o][u].role = "SELLER_ADMIN"}
             admin(o) == joined = {} \/ o \in administered
  <2>1. PICK o \in Orgs :
           /\ \/ joined # {} /\ o \in joined
              \/ joined = {} /\ OwnerOf[o] = u
           /\ ctx = [org |-> o, admin |-> admin(o), stores |-> member[o][u].stores,
                     features |-> IF admin(o) THEN Features ELSE member[o][u].permissions]
    BY Zenon DEF OrgContexts
  <2>2. /\ ctx.org = o /\ (ctx.admin <=> admin(o))
        /\ ~admin(o) => ctx.features = member[o][u].permissions
    BY <2>1
  <2>3. admin(o) => member[o][u].role = "SELLER_ADMIN" \/ OwnerOf[o] = u
    BY <2>1
  <2> QED
    BY <2>1, <2>2, <2>3
<1>5. NoStoreOutsideTheScope
  BY <1>4 DEF NoStoreOutsideTheScope, Accessible, StoreScope, RouteScope, ProductScope
<1>6. FeaturesFollowTheStore
  BY <1>4 DEF FeaturesFollowTheStore, MayUse, Accessible, StoreScope
<1> QED
  BY <1>1, <1>2, <1>3, <1>5, <1>6 DEF OrgInv

\* A pruning that was not overtaken takes one store.
LEMMA PruningStep ==
    OrgInv /\ [OrgNext]_orgVars =>
       [\A s \in OrgStores, u \in People :
          (PruneWrite(s, u) /\ u \notin prune[s].overtaken)
              => member'[StoreOrg[s]][u].stores = member[StoreOrg[s]][u].stores \ {s}]_orgVars
<1> SUFFICES ASSUME OrgInv, NEW s \in OrgStores, NEW u \in People,
                    PruneWrite(s, u), u \notin prune[s].overtaken
             PROVE  member'[StoreOrg[s]][u].stores = member[StoreOrg[s]][u].stores \ {s}
  OBVIOUS
<1>1. PICK o : o = StoreOrg[s] /\ o \in Orgs
  BY OrgConstants
<1>2. prune[s].lists[u] = member[o][u].stores
  BY <1>1 DEF OrgInv, PruneFits, PruneWrite
<1>3. member'[o][u].stores = prune[s].lists[u] \ {s}
  BY <1>1 DEF OrgInv, OrgShape, MemberRow, PruneWrite
<1> QED
  BY <1>1, <1>2, <1>3

\* Staff reach the stores and features their seller gave them, however hiring, changes,
\* removals and the deletions of stores overlap; the owner keeps the organization.
THEOREM StaffInside == OrgSpec => StaffStayInside
<1>1. OrgSpec => []OrgInv
  BY OrgInvInit, OrgInvStep, PTL DEF OrgSpec
<1>2. OrgSpec => PruningTakesOnlyTheDeleted
  BY <1>1, PruningStep, PTL DEF OrgSpec, PruningTakesOnlyTheDeleted
<1> QED
  BY <1>1, <1>2, OrgInvSafe, PTL DEF StaffStayInside

-----------------------------------------------------------------------------
(* The limits on attempts                                                  *)

\* Entries that are at most c have a sum of at most c for each.
LEMMA SumAtMost ==
    ASSUME NEW D, NEW f \in [D -> Int], NEW S \in SUBSET D, IsFiniteSet(S), NEW c \in Int,
           \A x \in S : f[x] <= c
    PROVE  SumFunctionOnSet(f, S) <= Cardinality(S) * c
<1> DEFINE C == {T \in SUBSET S : ~ (SumFunctionOnSet(f, T) <= Cardinality(T) * c)}
<1> SUFFICES ASSUME C # {} PROVE FALSE
  <2>1. S \notin C
    OBVIOUS
  <2> QED
    BY <2>1
<1>1. PICK T \in C : \A U \in C : ~ (U \subseteq T /\ U # T)
  <2>1. C \in SUBSET (SUBSET S)
    OBVIOUS
  <2> HIDE DEF C
  <2> QED
    BY <2>1, LeastSubset
<1>2. /\ T \in SUBSET S /\ IsFiniteSet(T)
      /\ ~ (SumFunctionOnSet(f, T) <= Cardinality(T) * c)
  BY <1>1, FS_Subset
<1>3. T # {}
  <2> SUFFICES ASSUME T = {} PROVE FALSE
    OBVIOUS
  <2>1. SumFunctionOnSet(f, T) = 0 /\ Cardinality(T) = 0
    BY SumEmpty, FS_EmptySet
  <2> QED
    BY <1>2, <2>1
<1>4. PICK x \in T : x = Pick(T)
  BY <1>3, PickSmaller
<1>5. PICK U : U = T \ {x}
  OBVIOUS
<1>6. /\ U \in SUBSET S /\ U \notin C /\ x \in S
      /\ IsFiniteSet(U) /\ Cardinality(U) = Cardinality(T) - 1
      /\ Cardinality(T) \in Nat /\ Cardinality(U) \in Nat
  BY <1>1, <1>2, <1>4, <1>5, FS_RemoveElement, FS_CardinalityType, SMTT(30)
<1>7. SumFunctionOnSet(f, U) <= Cardinality(U) * c
  BY <1>6
<1>8. SumFunctionOnSet(f, T) = f[x] + SumFunctionOnSet(f, U)
  BY <1>2, <1>3, <1>4, <1>5, SumPick
<1>9. SumFunctionOnSet(f, U) \in Int /\ f[x] \in Int /\ f[x] <= c
  <2>1. U \in SUBSET D
    BY <1>6
  <2> QED
    BY <2>1, <1>6, SumInt
<1>10. \A n \in Nat : (n - 1) * c + c = n * c
  OBVIOUS
<1>11. Cardinality(U) * c + c = Cardinality(T) * c
  BY <1>6, <1>10
<1>12. Cardinality(U) * c \in Int
  BY <1>6
<1> HIDE DEF C
<1> QED
  BY <1>2, <1>7, <1>8, <1>9, <1>11, <1>12

\* Two finite sets that differ in one place.
LEMMA OneMoves ==
    ASSUME NEW S, NEW T, NEW x, IsFiniteSet(S), S \ {x} = T \ {x}
    PROVE  /\ IsFiniteSet(T) /\ Cardinality(T) \in Nat /\ Cardinality(S) \in Nat
           /\ Cardinality(T) = Cardinality(S) + (IF x \in T THEN 1 ELSE 0)
                                              - (IF x \in S THEN 1 ELSE 0)
<1>1. IsFiniteSet(S \ {x}) /\ Cardinality(S \ {x}) = Cardinality(S) - (IF x \in S THEN 1 ELSE 0)
  <2>1. Cardinality(S) \in Nat
    BY FS_CardinalityType
  <2> QED
    BY <2>1, FS_RemoveElement
<1>0. Cardinality(S) \in Nat /\ Cardinality(S \ {x}) \in Nat
  BY <1>1, FS_CardinalityType
<1>2. CASE x \in T
  <2>1. T = (T \ {x}) \cup {x}
    BY <1>2
  <2>2. IsFiniteSet(T) /\ Cardinality(T) = Cardinality(T \ {x}) + 1
    BY <1>1, <2>1, FS_AddElement
  <2>3. Cardinality(T \ {x}) = Cardinality(S \ {x})
    BY Zenon
  <2> QED
    BY <1>0, <1>1, <1>2, <2>2, <2>3
<1>3. CASE x \notin T
  <2>1. T = S \ {x}
    BY <1>3
  <2> QED
    BY <1>0, <1>1, <1>3, <2>1
<1> QED
  BY <1>2, <1>3

LeastOf(a, b) == IF a < b THEN a ELSE b

\* What an instance allows while it counts alone, and what a count is compared with.
Cap(l) == IF Limits[l].normal < Limits[l].emergency THEN Limits[l].normal ELSE Limits[l].emergency
StoreLimit(store, l) == IF store = "redis" THEN Limits[l].normal ELSE Cap(l)

\* The attempts that the counts so far have allowed, over all the stores.
MemoryRoom(l, mem) == [n \in Instances |-> LeastOf(mem[n][l], Cap(l))]
Room(l, sh, mem) ==
    LeastOf(sh[l], Limits[l].normal) + SumFunctionOnSet(MemoryRoom(l, mem), Instances)

HitState == [pc : Limiters \cup {"handling"}, at : Instances, in : {"redis", "memory"}, seen : Int]

RateShape ==
    /\ rlRedis \in {"up", "rejecting", "down"}
    /\ shared \in [Limiters -> Int]
    /\ memory \in [Instances -> [Limiters -> Nat]]
    /\ failing \in [Instances -> SUBSET Limiters]
    /\ hit \in [LoginRequests -> {Fresh} \cup HitState]
    /\ hits \in 0 .. MaxHits /\ faults \in Nat /\ admitted \in Nat /\ failures \in Nat
    /\ rlRaced \in BOOLEAN

\* Requests by what they were counted for, and those whose count is within the limit.
Arriving(h) == {r \in LoginRequests : h[r].pc = "credential"}
Attempting(h) == {r \in LoginRequests : h[r].pc # "idle"}
MayPass(h, l) == {r \in LoginRequests : h[r].pc = l /\ h[r].seen <= StoreLimit(h[r].in, l)}
MayFail(h) == MayPass(h, "failures") \cup {r \in LoginRequests : h[r].pc = "handling"}

\* Each request was counted once by each limiter it reached, and taken back once.
CountsFit(sh, mem, h, passed, begun) ==
    /\ passed + Cardinality(Arriving(h)) <= begun
    /\ sh["credential"] >= 0 /\ sh["credential"] <= begun
    /\ sh["failures"] <= passed /\ Cardinality(Attempting(h)) - sh["failures"] <= begun
    /\ \A n \in Instances : mem[n]["credential"] <= begun /\ mem[n]["failures"] <= passed

\* Who passed, and who still may, was allowed by a count.
BudgetFits(sh, mem, h, passed, failed) ==
    /\ passed + Cardinality(MayPass(h, "credential")) <= Room("credential", sh, mem)
    /\ failed + Cardinality(MayFail(h)) <= Room("failures", sh, mem)

RateInv ==
    /\ RateShape
    /\ CountsFit(shared, memory, hit, admitted, hits)
    /\ ~rlRaced => BudgetFits(shared, memory, hit, admitted, failures)

LEMMA LimitsTyped ==
    \A l \in Limiters : /\ Limits[l].normal \in Nat /\ Limits[l].emergency \in Nat /\ Cap(l) \in Nat
                        /\ Cap(l) <= Limits[l].normal
BY RateConstants DEF Cap, Limiters

LEMMA RoomTyped ==
    ASSUME NEW l \in Limiters, NEW mem \in [Instances -> [Limiters -> Nat]]
    PROVE  /\ MemoryRoom(l, mem) \in [Instances -> Int]
           /\ SumFunctionOnSet(MemoryRoom(l, mem), Instances) \in Int
           /\ SumFunctionOnSet(MemoryRoom(l, mem), Instances) <= Cardinality(Instances) * Cap(l)
<1>1. IsFiniteSet(Instances) /\ Instances \in SUBSET Instances
  BY RateConstants
<1>2. \A n \in Instances : mem[n][l] \in Nat
  OBVIOUS
<1>3. MemoryRoom(l, mem) \in [Instances -> Int]
  BY <1>2, LimitsTyped DEF MemoryRoom, LeastOf
<1>4. \A n \in Instances : MemoryRoom(l, mem)[n] <= Cap(l)
  BY <1>2, LimitsTyped DEF MemoryRoom, LeastOf
<1>5. Cap(l) \in Int
  BY LimitsTyped
<1> QED
  BY <1>1, <1>3, <1>4, <1>5, SumInt, SumAtMost

LEMMA SumChangeAll ==
    ASSUME NEW S, IsFiniteSet(S), NEW f \in [S -> Int], NEW g \in [S -> Int], NEW x \in S,
           \A y \in S : y # x => g[y] = f[y]
    PROVE  SumFunctionOnSet(g, S) = SumFunctionOnSet(f, S) + (g[x] - f[x])
<1>1. S \in SUBSET S
  OBVIOUS
<1> QED
  BY <1>1, SumChange

\* One count in the memory of an instance moves the room by as much as its own does.
LEMMA MemoryMoves ==
    ASSUME NEW k \in Limiters, NEW mem \in [Instances -> [Limiters -> Nat]], NEW n \in Instances,
           NEW new \in [Instances -> [Limiters -> Nat]],
           \A i \in Instances : i # n => new[i][k] = mem[i][k]
    PROVE  SumFunctionOnSet(MemoryRoom(k, new), Instances)
              = SumFunctionOnSet(MemoryRoom(k, mem), Instances)
                + (LeastOf(new[n][k], Cap(k)) - LeastOf(mem[n][k], Cap(k)))
<1>1. IsFiniteSet(Instances)
  BY RateConstants
<1>2. MemoryRoom(k, mem) \in [Instances -> Int] /\ MemoryRoom(k, new) \in [Instances -> Int]
  BY RoomTyped
<1>3. PICK f \in [Instances -> Int] : f = MemoryRoom(k, mem)
  BY <1>2
<1>4. PICK g \in [Instances -> Int] : g = MemoryRoom(k, new)
  BY <1>2
<1>5. /\ g[n] = LeastOf(new[n][k], Cap(k)) /\ f[n] = LeastOf(mem[n][k], Cap(k))
      /\ \A i \in Instances : i # n => g[i] = f[i]
  BY <1>3, <1>4 DEF MemoryRoom
<1>7. SumFunctionOnSet(g, Instances) = SumFunctionOnSet(f, Instances) + (g[n] - f[n])
  BY <1>1, <1>5, SumChangeAll
<1> QED
  BY <1>3, <1>4, <1>5, <1>7

\* A count in a store makes room for the request if it is within the store's limit.
LEMMA CountMoves ==
    ASSUME RateShape, NEW r \in LoginRequests, NEW n \in Instances, NEW l \in Limiters, Count(r, n, l)
    PROVE  \E next \in HitState :
              /\ next.pc = l /\ next.at = n /\ hit' = [hit EXCEPT ![r] = next]
              /\ shared' \in [Limiters -> Int] /\ memory' \in [Instances -> [Limiters -> Nat]]
              /\ failing' \in [Instances -> SUBSET Limiters]
              /\ \A k \in Limiters :
                    /\ Room(k, shared', memory') = Room(k, shared, memory)
                          + (IF k = l /\ next.seen <= StoreLimit(next.in, l) THEN 1 ELSE 0)
                    /\ shared'[k] >= shared[k]
                    /\ shared'[k] <= shared[k] + (IF k = l THEN 1 ELSE 0)
                    /\ \A i \in Instances : memory'[i][k] <= memory[i][k] + (IF k = l THEN 1 ELSE 0)
<1> USE DEF RateShape
<1>1. CASE rlRedis = "up"
  <2>1. PICK next : next = [pc |-> l, at |-> n, in |-> "redis", seen |-> shared[l] + 1]
    OBVIOUS
  <2>2. /\ next \in HitState /\ next.pc = l /\ next.at = n /\ next.in = "redis"
        /\ next.seen = shared[l] + 1
    BY <2>1 DEF HitState, Limiters
  <2>3. /\ hit' = [hit EXCEPT ![r] = next] /\ shared' = [shared EXCEPT ![l] = shared[l] + 1]
        /\ memory' = memory /\ failing' = [failing EXCEPT ![n] = failing[n] \ {l}]
    BY <1>1, <2>1 DEF Count, StoreRecovers
  <2>4. /\ shared' \in [Limiters -> Int] /\ failing' \in [Instances -> SUBSET Limiters]
        /\ shared'[l] = shared[l] + 1 /\ \A k \in Limiters : k # l => shared'[k] = shared[k]
    BY <2>3
  <2>5. ASSUME NEW k \in Limiters
        PROVE  Room(k, shared', memory') = Room(k, shared, memory)
                  + (IF k = l /\ next.seen <= StoreLimit(next.in, l) THEN 1 ELSE 0)
    <3>1. PICK s \in Int : s = SumFunctionOnSet(MemoryRoom(k, memory), Instances)
      BY RoomTyped
    <3>2. /\ Room(k, shared, memory) = LeastOf(shared[k], Limits[k].normal) + s
          /\ Room(k, shared', memory') = LeastOf(shared'[k], Limits[k].normal) + s
      BY <2>3, <3>1 DEF Room
    <3>3. PICK a \in Int, b \in Int, c \in Nat : a = shared[k] /\ b = shared'[k] /\ c = Limits[k].normal
      BY <2>4, LimitsTyped
    <3>4. /\ k = l => b = a + 1 /\ next.seen = b /\ StoreLimit(next.in, l) = c
          /\ k # l => b = a
      BY <2>2, <2>4, <3>3 DEF StoreLimit
    <3>5. LeastOf(b, c) = LeastOf(a, c)
              + (IF k = l /\ next.seen <= StoreLimit(next.in, l) THEN 1 ELSE 0)
      BY <3>4 DEF LeastOf
    <3>6. LeastOf(a, c) \in Int
      BY DEF LeastOf
    <3> QED
      BY <3>2, <3>3, <3>5, <3>6
  <2>6. \A k \in Limiters : /\ shared'[k] >= shared[k]
                            /\ shared'[k] <= shared[k] + (IF k = l THEN 1 ELSE 0)
                            /\ \A i \in Instances :
                                  memory'[i][k] <= memory[i][k] + (IF k = l THEN 1 ELSE 0)
    BY <2>3, <2>4
  <2> QED
    BY <1>1, <2>2, <2>3, <2>4, <2>5, <2>6
<1>2. CASE rlRedis # "up"
  <2>0. PICK m \in Nat : m = memory[n][l]
    OBVIOUS
  <2>1. PICK next : next = [pc |-> l, at |-> n, in |-> "memory", seen |-> m + 1]
    OBVIOUS
  <2>2. /\ next \in HitState /\ next.pc = l /\ next.at = n /\ next.in = "memory"
        /\ next.seen = m + 1
    BY <2>1 DEF HitState, Limiters
  <2>3. /\ hit' = [hit EXCEPT ![r] = next] /\ shared' = shared
        /\ memory' = [memory EXCEPT ![n] = [memory[n] EXCEPT ![l] = m + 1]]
        /\ failing' = [failing EXCEPT ![n] = IF RedisReady THEN failing[n] \cup {l} ELSE failing[n]]
    BY <1>2, <2>0, <2>1 DEF Count, StoreFails
  <2>4. /\ memory' \in [Instances -> [Limiters -> Nat]]
        /\ failing' \in [Instances -> SUBSET Limiters]
        /\ memory'[n][l] = m + 1
        /\ \A i \in Instances, k \in Limiters : i # n \/ k # l => memory'[i][k] = memory[i][k]
    BY <2>0, <2>3
  <2>5. ASSUME NEW k \in Limiters
        PROVE  Room(k, shared', memory') = Room(k, shared, memory)
                  + (IF k = l /\ next.seen <= StoreLimit(next.in, l) THEN 1 ELSE 0)
    <3>1. PICK mem, new : mem = memory /\ new = memory'
      OBVIOUS
    <3>2. PICK s \in Int, t \in Int : /\ s = SumFunctionOnSet(MemoryRoom(k, mem), Instances)
                                      /\ t = SumFunctionOnSet(MemoryRoom(k, new), Instances)
      BY <2>4, <3>1, RoomTyped
    <3>3. t = s + (LeastOf(new[n][k], Cap(k)) - LeastOf(mem[n][k], Cap(k)))
      BY <2>4, <3>1, <3>2, MemoryMoves
    <3>4. /\ mem[n][k] \in Int /\ new[n][k] \in Int
          /\ k = l => mem[n][k] = m /\ new[n][k] = m + 1
          /\ k # l => new[n][k] = mem[n][k]
      BY <2>0, <2>4, <3>1
    <3>5. t = s + (IF k = l /\ next.seen <= StoreLimit(next.in, l) THEN 1 ELSE 0)
      BY <2>2, <3>3, <3>4, LimitsTyped DEF LeastOf, StoreLimit
    <3>6. PICK p \in Int : p = LeastOf(shared[k], Limits[k].normal)
      BY LimitsTyped DEF LeastOf
    <3>7. Room(k, shared, memory) = p + s /\ Room(k, shared', memory') = p + t
      BY <2>3, <3>1, <3>2, <3>6 DEF Room
    <3> QED
      BY <3>5, <3>7
  <2>6. \A k \in Limiters : /\ shared'[k] >= shared[k]
                            /\ shared'[k] <= shared[k] + (IF k = l THEN 1 ELSE 0)
                            /\ \A i \in Instances :
                                  memory'[i][k] <= memory[i][k] + (IF k = l THEN 1 ELSE 0)
    BY <2>0, <2>3, <2>4
  <2> QED
    BY <1>2, <2>2, <2>3, <2>4, <2>5, <2>6
<1> QED
  BY <1>1, <1>2

\* What a request is worth: the place it takes in each count.
Place(b) == IF b THEN 1 ELSE 0
Allowed(x, l) == x.pc = l /\ x.seen <= StoreLimit(x.in, l)
Failing(x) == Allowed(x, "failures") \/ x.pc = "handling"

\* One request moves; the sets it is counted in change at it.
LEMMA PlacesMove ==
    ASSUME RateShape, NEW r \in LoginRequests, NEW next \in {Fresh} \cup HitState,
           hit' = [hit EXCEPT ![r] = next]
    PROVE  \E a, b \in Nat, p, f \in Nat :
              /\ a = Cardinality(Arriving(hit)) /\ b = Cardinality(Attempting(hit))
              /\ p = Cardinality(MayPass(hit, "credential")) /\ f = Cardinality(MayFail(hit))
              /\ Cardinality(Arriving(hit'))
                    = a + (Place(next.pc = "credential") - Place(hit[r].pc = "credential"))
              /\ Cardinality(Attempting(hit'))
                    = b + (Place(next.pc # "idle") - Place(hit[r].pc # "idle"))
              /\ Cardinality(MayPass(hit', "credential"))
                    = p + (Place(Allowed(next, "credential")) - Place(Allowed(hit[r], "credential")))
              /\ Cardinality(MayFail(hit')) = f + (Place(Failing(next)) - Place(Failing(hit[r])))
              /\ hit' \in [LoginRequests -> {Fresh} \cup HitState]
              /\ hit'[r] = next /\ \A q \in LoginRequests : q # r => hit'[q] = hit[q]
<1>1. PICK h \in [LoginRequests -> {Fresh} \cup HitState] : h = hit
  BY DEF RateShape
<1>2. PICK new : new = hit' /\ new = [h EXCEPT ![r] = next]
  BY <1>1
<1>3. /\ new \in [LoginRequests -> {Fresh} \cup HitState]
      /\ new[r] = next /\ \A q \in LoginRequests : q # r => new[q] = h[q]
  BY <1>2
<1>4. /\ Arriving(h) \in SUBSET LoginRequests /\ Attempting(h) \in SUBSET LoginRequests
      /\ MayPass(h, "credential") \in SUBSET LoginRequests /\ MayFail(h) \in SUBSET LoginRequests
  BY DEF Arriving, Attempting, MayPass, MayFail
<1>5. /\ IsFiniteSet(Arriving(h)) /\ IsFiniteSet(Attempting(h))
      /\ IsFiniteSet(MayPass(h, "credential")) /\ IsFiniteSet(MayFail(h))
  BY <1>4, RateConstants, FS_Subset
<1>6. Arriving(h) \ {r} = Arriving(new) \ {r} /\ Attempting(h) \ {r} = Attempting(new) \ {r}
  BY <1>3 DEF Arriving, Attempting
<1>7. \A k : MayPass(h, k) \ {r} = MayPass(new, k) \ {r}
  BY <1>3 DEF MayPass
<1>8. MayFail(h) \ {r} = MayFail(new) \ {r}
  <2>1. {q \in LoginRequests : h[q].pc = "handling"} \ {r}
           = {q \in LoginRequests : new[q].pc = "handling"} \ {r}
    BY <1>3
  <2> QED
    BY <2>1, <1>7 DEF MayFail
<1>9. /\ (r \in Arriving(h) <=> h[r].pc = "credential")
      /\ (r \in Arriving(new) <=> next.pc = "credential")
      /\ (r \in Attempting(h) <=> h[r].pc # "idle") /\ (r \in Attempting(new) <=> next.pc # "idle")
  BY <1>3 DEF Arriving, Attempting
<1>10. /\ Cardinality(Arriving(h)) \in Nat
      /\ Cardinality(Arriving(new)) = Cardinality(Arriving(h))
            + (IF r \in Arriving(new) THEN 1 ELSE 0) - (IF r \in Arriving(h) THEN 1 ELSE 0)
  BY <1>5, <1>6, OneMoves
<1>11. /\ Cardinality(Attempting(h)) \in Nat
      /\ Cardinality(Attempting(new)) = Cardinality(Attempting(h))
            + (IF r \in Attempting(new) THEN 1 ELSE 0) - (IF r \in Attempting(h) THEN 1 ELSE 0)
  BY <1>5, <1>6, OneMoves
<1>12. /\ Cardinality(MayPass(h, "credential")) \in Nat
       /\ Cardinality(MayPass(new, "credential")) = Cardinality(MayPass(h, "credential"))
             + (IF r \in MayPass(new, "credential") THEN 1 ELSE 0) - (IF r \in MayPass(h, "credential") THEN 1 ELSE 0)
  <2>1. PICK S, T : S = MayPass(h, "credential") /\ T = MayPass(new, "credential")
    OBVIOUS
  <2>2. IsFiniteSet(S) /\ S \ {r} = T \ {r}
    BY <1>5, <1>7, <2>1
  <2>3. /\ Cardinality(S) \in Nat
        /\ Cardinality(T) = Cardinality(S) + (IF r \in T THEN 1 ELSE 0) - (IF r \in S THEN 1 ELSE 0)
    BY <2>2, OneMoves
  <2> QED
    BY <2>1, <2>3
<1>13. /\ Cardinality(MayFail(h)) \in Nat
       /\ Cardinality(MayFail(new)) = Cardinality(MayFail(h))
             + (IF r \in MayFail(new) THEN 1 ELSE 0) - (IF r \in MayFail(h) THEN 1 ELSE 0)
  BY <1>5, <1>8, OneMoves
<1>14. /\ (r \in MayPass(h, "credential") <=> Allowed(h[r], "credential"))
       /\ (r \in MayPass(new, "credential") <=> Allowed(next, "credential"))
       /\ (r \in MayFail(h) <=> Failing(h[r])) /\ (r \in MayFail(new) <=> Failing(next))
  BY <1>3 DEF MayPass, MayFail, Allowed, Failing
<1>15. PICK a \in Nat, b \in Nat, p \in Nat, f \in Nat :
          /\ a = Cardinality(Arriving(h)) /\ b = Cardinality(Attempting(h))
          /\ p = Cardinality(MayPass(h, "credential")) /\ f = Cardinality(MayFail(h))
  BY <1>10, <1>11, <1>12, <1>13
<1>16. /\ Cardinality(Arriving(new))
             = a + (Place(next.pc = "credential") - Place(h[r].pc = "credential"))
       /\ Cardinality(Attempting(new)) = b + (Place(next.pc # "idle") - Place(h[r].pc # "idle"))
  BY <1>9, <1>10, <1>11, <1>15 DEF Place
<1>17. /\ Cardinality(MayPass(new, "credential"))
             = p + (Place(Allowed(next, "credential")) - Place(Allowed(h[r], "credential")))
       /\ Cardinality(MayFail(new)) = f + (Place(Failing(next)) - Place(Failing(h[r])))
  BY <1>12, <1>13, <1>14, <1>15 DEF Place
<1> QED
  BY <1>1, <1>2, <1>3, <1>15, <1>16, <1>17

LEMMA RateInvInit == RateInit => RateInv
<1> SUFFICES ASSUME RateInit PROVE RateInv
  OBVIOUS
<1> USE RateConstants
<1>1. RateShape
  <2>1. /\ shared \in [Limiters -> Int] /\ memory \in [Instances -> [Limiters -> Nat]]
        /\ failing \in [Instances -> SUBSET Limiters]
    BY DEF RateInit
  <2>2. hit \in [LoginRequests -> {Fresh} \cup HitState]
    BY DEF RateInit
  <2>3. /\ hits \in 0 .. MaxHits /\ faults \in Nat /\ admitted \in Nat /\ failures \in Nat
    BY DEF RateInit
  <2>4. rlRaced \in BOOLEAN
    BY DEF RateInit
  <2> QED
    BY <2>1, <2>2, <2>3, <2>4 DEF RateInit, RateShape
<1>2. \A r \in LoginRequests : hit[r].pc = "idle"
  BY DEF RateInit, Fresh
<1>3. Arriving(hit) = {} /\ Attempting(hit) = {} /\ MayPass(hit, "credential") = {} /\ MayFail(hit) = {}
  BY <1>2 DEF Arriving, Attempting, MayPass, MayFail
<1>4. Cardinality({}) = 0
  BY FS_EmptySet
<1>5. ASSUME NEW l \in Limiters PROVE Room(l, shared, memory) = 0
  <2>1. MemoryRoom(l, memory) \in [Instances -> Int] /\ \A n \in Instances : MemoryRoom(l, memory)[n] = 0
    BY <1>5, LimitsTyped, RoomTyped DEF RateInit, RateShape, MemoryRoom, LeastOf
  <2>2. SumFunctionOnSet(MemoryRoom(l, memory), Instances) = 0
    BY <2>1, SumZero
  <2>3. LeastOf(shared[l], Limits[l].normal) = 0
    BY <1>5, LimitsTyped DEF RateInit, LeastOf
  <2> QED
    BY <2>2, <2>3 DEF Room
<1>6. CountsFit(shared, memory, hit, admitted, hits)
  <2>1. shared["credential"] = 0 /\ shared["failures"] = 0 /\ admitted = 0 /\ hits = 0
    BY DEF RateInit, Limiters
  <2>2. \A n \in Instances : memory[n]["credential"] = 0 /\ memory[n]["failures"] = 0
    BY DEF RateInit, Limiters
  <2>3. Cardinality(Arriving(hit)) = 0 /\ Cardinality(Attempting(hit)) = 0
    BY <1>3, <1>4
  <2> QED
    BY <2>1, <2>2, <2>3 DEF CountsFit
<1>7. BudgetFits(shared, memory, hit, admitted, failures)
  <2>1. "credential" \in Limiters /\ "failures" \in Limiters
    BY DEF Limiters
  <2>2. Room("credential", shared, memory) = 0 /\ Room("failures", shared, memory) = 0
    BY <1>5, <2>1
  <2>3. Cardinality(MayPass(hit, "credential")) = 0 /\ Cardinality(MayFail(hit)) = 0
    BY <1>3, <1>4
  <2>4. admitted = 0 /\ failures = 0
    BY DEF RateInit
  <2> QED
    BY <2>2, <2>3, <2>4 DEF BudgetFits
<1> QED
  BY <1>1, <1>6, <1>7 DEF RateInv

LEMMA RoomIsInt ==
    ASSUME NEW l \in Limiters, NEW sh \in [Limiters -> Int], NEW mem \in [Instances -> [Limiters -> Nat]]
    PROVE  Room(l, sh, mem) \in Int /\ LeastOf(sh[l], Limits[l].normal) \in Int
           /\ LeastOf(sh[l], Limits[l].normal) <= Limits[l].normal
<1>1. SumFunctionOnSet(MemoryRoom(l, mem), Instances) \in Int
  BY RoomTyped
<1>2. LeastOf(sh[l], Limits[l].normal) \in Int /\ LeastOf(sh[l], Limits[l].normal) <= Limits[l].normal
  BY LimitsTyped DEF LeastOf
<1> QED
  BY <1>1, <1>2 DEF Room

LEMMA ArriveStep ==
    ASSUME RateInv, NEW r \in LoginRequests, NEW n \in Instances, Arrive(r, n)
    PROVE  RateInv'
<1>1. /\ RateShape /\ CountsFit(shared, memory, hit, admitted, hits)
      /\ ~rlRaced => BudgetFits(shared, memory, hit, admitted, failures)
  BY DEF RateInv
<1>2. /\ hit[r].pc = "idle" /\ hits < MaxHits /\ hits' = hits + 1
      /\ rlRedis' = rlRedis /\ faults' = faults /\ admitted' = admitted /\ failures' = failures
      /\ rlRaced' = rlRaced
      /\ Count(r, n, "credential") /\ "credential" \in Limiters /\ "failures" \in Limiters
  BY DEF Arrive, Limiters
<1>3. PICK next \in HitState :
         /\ next.pc = "credential" /\ next.at = n /\ hit' = [hit EXCEPT ![r] = next]
         /\ shared' \in [Limiters -> Int] /\ memory' \in [Instances -> [Limiters -> Nat]]
         /\ failing' \in [Instances -> SUBSET Limiters]
         /\ \A k \in Limiters :
               /\ Room(k, shared', memory') = Room(k, shared, memory)
                     + (IF k = "credential" /\ next.seen <= StoreLimit(next.in, "credential") THEN 1 ELSE 0)
               /\ shared'[k] >= shared[k]
               /\ shared'[k] <= shared[k] + (IF k = "credential" THEN 1 ELSE 0)
               /\ \A i \in Instances :
                     memory'[i][k] <= memory[i][k] + (IF k = "credential" THEN 1 ELSE 0)
  BY <1>1, <1>2, CountMoves
<1>n. next \in {Fresh} \cup HitState /\ hit' = [hit EXCEPT ![r] = next]
  BY <1>3
<1>4. PICK a, b \in Nat, p, f \in Nat :
         /\ a = Cardinality(Arriving(hit)) /\ b = Cardinality(Attempting(hit))
         /\ p = Cardinality(MayPass(hit, "credential")) /\ f = Cardinality(MayFail(hit))
         /\ Cardinality(Arriving(hit'))
               = a + (Place(next.pc = "credential") - Place(hit[r].pc = "credential"))
         /\ Cardinality(Attempting(hit')) = b + (Place(next.pc # "idle") - Place(hit[r].pc # "idle"))
         /\ Cardinality(MayPass(hit', "credential"))
               = p + (Place(Allowed(next, "credential")) - Place(Allowed(hit[r], "credential")))
         /\ Cardinality(MayFail(hit')) = f + (Place(Failing(next)) - Place(Failing(hit[r])))
         /\ hit' \in [LoginRequests -> {Fresh} \cup HitState]
         /\ hit'[r] = next /\ \A q \in LoginRequests : q # r => hit'[q] = hit[q]
  BY <1>1, <1>n, PlacesMove
<1>5. /\ Cardinality(Arriving(hit')) = a + 1 /\ Cardinality(Attempting(hit')) = b + 1
      /\ Cardinality(MayPass(hit', "credential"))
            = p + (IF next.seen <= StoreLimit(next.in, "credential") THEN 1 ELSE 0)
      /\ Cardinality(MayFail(hit')) = f
  <2>1. /\ ~Allowed(hit[r], "credential") /\ ~Failing(hit[r]) /\ ~Failing(next)
        /\ Allowed(next, "credential") <=> next.seen <= StoreLimit(next.in, "credential")
    BY <1>2, <1>3 DEF Allowed, Failing
  <2> QED
    BY <1>2, <1>3, <1>4, <2>1 DEF Place
<1>6. RateShape'
  <2>1. hits' \in 0 .. MaxHits
    BY <1>1, <1>2, RateConstants DEF RateShape
  <2>2. rlRaced' \in BOOLEAN
    BY <1>1, <1>2 DEF RateShape
  <2> QED
    BY <1>1, <1>2, <1>3, <1>4, <2>1, <2>2 DEF RateShape
<1>7. CountsFit(shared', memory', hit', admitted', hits')
  <2>1. /\ admitted \in Int /\ hits \in Int
        /\ shared["credential"] \in Int /\ shared["failures"] \in Int
        /\ shared'["credential"] \in Int /\ shared'["failures"] \in Int
    BY <1>1, <1>2, <1>3, RateConstants DEF RateShape
  <2>2. /\ admitted' + Cardinality(Arriving(hit')) <= hits'
        /\ shared'["credential"] >= 0 /\ shared'["credential"] <= hits'
        /\ shared'["failures"] <= admitted' /\ Cardinality(Attempting(hit')) - shared'["failures"] <= hits'
    BY <1>1, <1>2, <1>3, <1>4, <1>5, <2>1 DEF CountsFit
  <2>3. ASSUME NEW i \in Instances
        PROVE  memory'[i]["credential"] <= hits' /\ memory'[i]["failures"] <= admitted'
    <3>1. /\ memory[i]["credential"] \in Int /\ memory[i]["failures"] \in Int
          /\ memory'[i]["credential"] \in Int /\ memory'[i]["failures"] \in Int
      BY <1>1, <1>2, <1>3 DEF RateShape
    <3> QED
      BY <1>1, <1>2, <1>3, <2>1, <3>1 DEF CountsFit
  <2> QED
    BY <2>2, <2>3 DEF CountsFit
<1>8. ASSUME ~rlRaced' PROVE BudgetFits(shared', memory', hit', admitted', failures')
  <2>1. BudgetFits(shared, memory, hit, admitted, failures)
    BY <1>1, <1>2, <1>8
  <2>2. Room("credential", shared, memory) \in Int /\ Room("failures", shared, memory) \in Int
    BY <1>1, <1>2, RoomIsInt DEF RateShape
  <2>3. admitted \in Int /\ failures \in Int
    BY <1>1 DEF RateShape
  <2> QED
    BY <1>2, <1>3, <1>4, <1>5, <2>1, <2>2, <2>3 DEF BudgetFits
<1> QED
  BY <1>6, <1>7, <1>8 DEF RateInv

\* A request that is not refused, with its count compared in time, was allowed by the
\* store that counted it.
LEMMA NotRefusedIsAllowed ==
    ASSUME RateShape, NEW r \in LoginRequests, hit[r].pc \in Limiters, ~Refused(r), ~ComparedLate(r)
    PROVE  Allowed(hit[r], hit[r].pc)
<1>1. hit[r] \in HitState /\ hit[r].seen \in Int /\ hit[r].in \in {"redis", "memory"}
  BY DEF RateShape, HitState, Fresh, Limiters
<1>2. PICK l \in Limiters : l = hit[r].pc
  OBVIOUS
<1>3. /\ Limits[l].normal \in Int /\ Cap(l) \in Int /\ Cap(l) <= Limits[l].normal
  BY LimitsTyped
<1>4. CASE hit[r].in = "redis"
  <2>1. AuthLimit(hit[r].at, l) = Limits[l].normal \/ AuthLimit(hit[r].at, l) = Cap(l)
    BY DEF AuthLimit, Cap
  <2> QED
    BY <1>1, <1>2, <1>3, <1>4, <2>1 DEF Refused, Allowed, StoreLimit
<1>5. CASE hit[r].in = "memory"
  <2>1. AuthLimit(hit[r].at, l) = Cap(l)
    BY <1>5 DEF AuthLimit, Cap, ComparedLate
  <2> QED
    BY <1>1, <1>2, <1>3, <1>5, <2>1 DEF Refused, Allowed, StoreLimit
<1> QED
  BY <1>1, <1>4, <1>5

LEMMA PassCredentialStep ==
    ASSUME RateInv, NEW r \in LoginRequests, PassCredential(r)
    PROVE  RateInv'
<1>1. /\ RateShape /\ CountsFit(shared, memory, hit, admitted, hits)
      /\ ~rlRaced => BudgetFits(shared, memory, hit, admitted, failures)
  BY DEF RateInv
<1>2. /\ hit[r].pc = "credential" /\ ~Refused(r) /\ hits' = hits
      /\ rlRedis' = rlRedis /\ faults' = faults /\ admitted' = admitted + 1 /\ failures' = failures
      /\ rlRaced' = (rlRaced \/ ComparedLate(r))
      /\ Count(r, hit[r].at, "failures") /\ "credential" \in Limiters /\ "failures" \in Limiters
  BY DEF PassCredential, Limiters
<1>s. PICK n \in Instances : n = hit[r].at
  BY <1>1, <1>2 DEF RateShape, HitState, Fresh
<1>3. PICK next \in HitState :
         /\ next.pc = "failures" /\ next.at = n /\ hit' = [hit EXCEPT ![r] = next]
         /\ shared' \in [Limiters -> Int] /\ memory' \in [Instances -> [Limiters -> Nat]]
         /\ failing' \in [Instances -> SUBSET Limiters]
         /\ \A k \in Limiters :
               /\ Room(k, shared', memory') = Room(k, shared, memory)
                     + (IF k = "failures" /\ next.seen <= StoreLimit(next.in, "failures") THEN 1 ELSE 0)
               /\ shared'[k] >= shared[k]
               /\ shared'[k] <= shared[k] + (IF k = "failures" THEN 1 ELSE 0)
               /\ \A i \in Instances :
                     memory'[i][k] <= memory[i][k] + (IF k = "failures" THEN 1 ELSE 0)
  <2>1. Count(r, n, "failures")
    BY <1>2, <1>s
  <2> QED
    BY <1>1, <1>2, <2>1, CountMoves
<1>n. next \in {Fresh} \cup HitState /\ hit' = [hit EXCEPT ![r] = next]
  BY <1>3
<1>4. PICK a, b \in Nat, p, f \in Nat :
         /\ a = Cardinality(Arriving(hit)) /\ b = Cardinality(Attempting(hit))
         /\ p = Cardinality(MayPass(hit, "credential")) /\ f = Cardinality(MayFail(hit))
         /\ Cardinality(Arriving(hit'))
               = a + (Place(next.pc = "credential") - Place(hit[r].pc = "credential"))
         /\ Cardinality(Attempting(hit')) = b + (Place(next.pc # "idle") - Place(hit[r].pc # "idle"))
         /\ Cardinality(MayPass(hit', "credential"))
               = p + (Place(Allowed(next, "credential")) - Place(Allowed(hit[r], "credential")))
         /\ Cardinality(MayFail(hit')) = f + (Place(Failing(next)) - Place(Failing(hit[r])))
         /\ hit' \in [LoginRequests -> {Fresh} \cup HitState]
         /\ hit'[r] = next /\ \A q \in LoginRequests : q # r => hit'[q] = hit[q]
  BY <1>1, <1>n, PlacesMove
<1>5. /\ Cardinality(Arriving(hit')) = a - 1 /\ Cardinality(Attempting(hit')) = b
      /\ Cardinality(MayPass(hit', "credential")) = p - Place(Allowed(hit[r], "credential"))
      /\ Cardinality(MayFail(hit'))
            = f + (IF next.seen <= StoreLimit(next.in, "failures") THEN 1 ELSE 0)
  <2>1. /\ ~Allowed(next, "credential") /\ ~Failing(hit[r])
        /\ Failing(next) <=> next.seen <= StoreLimit(next.in, "failures")
    BY <1>2, <1>3 DEF Allowed, Failing
  <2> QED
    BY <1>2, <1>3, <1>4, <2>1 DEF Place
<1>6. RateShape'
  <2>1. hits' \in 0 .. MaxHits /\ admitted' \in Nat
    BY <1>1, <1>2, RateConstants DEF RateShape
  <2>2. rlRaced' \in BOOLEAN
    BY <1>1, <1>2 DEF RateShape
  <2> QED
    BY <1>1, <1>2, <1>3, <1>4, <2>1, <2>2 DEF RateShape
<1>7. CountsFit(shared', memory', hit', admitted', hits')
  <2>1. /\ admitted \in Int /\ hits \in Int
        /\ shared["credential"] \in Int /\ shared["failures"] \in Int
        /\ shared'["credential"] \in Int /\ shared'["failures"] \in Int
    BY <1>1, <1>2, <1>3, RateConstants DEF RateShape
  <2>2. /\ admitted' + Cardinality(Arriving(hit')) <= hits'
        /\ shared'["credential"] >= 0 /\ shared'["credential"] <= hits'
        /\ shared'["failures"] <= admitted' /\ Cardinality(Attempting(hit')) - shared'["failures"] <= hits'
    BY <1>1, <1>2, <1>3, <1>4, <1>5, <2>1 DEF CountsFit
  <2>3. ASSUME NEW i \in Instances
        PROVE  memory'[i]["credential"] <= hits' /\ memory'[i]["failures"] <= admitted'
    <3>1. /\ memory[i]["credential"] \in Int /\ memory[i]["failures"] \in Int
          /\ memory'[i]["credential"] \in Int /\ memory'[i]["failures"] \in Int
      BY <1>1, <1>2, <1>3 DEF RateShape
    <3> QED
      BY <1>1, <1>2, <1>3, <2>1, <3>1 DEF CountsFit
  <2> QED
    BY <2>2, <2>3 DEF CountsFit
<1>8. ASSUME ~rlRaced' PROVE BudgetFits(shared', memory', hit', admitted', failures')
  <2>1. BudgetFits(shared, memory, hit, admitted, failures)
    BY <1>1, <1>2, <1>8
  <2>2. Room("credential", shared, memory) \in Int /\ Room("failures", shared, memory) \in Int
    BY <1>1, <1>2, RoomIsInt DEF RateShape
  <2>3. admitted \in Int /\ failures \in Int
    BY <1>1 DEF RateShape
  <2>4. Allowed(hit[r], "credential")
    BY <1>1, <1>2, <1>8, NotRefusedIsAllowed
  <2>5. Cardinality(MayPass(hit', "credential")) = p - 1
    BY <1>5, <2>4 DEF Place
  <2> QED
    BY <1>2, <1>3, <1>4, <1>5, <2>1, <2>2, <2>3, <2>5 DEF BudgetFits
<1> QED
  BY <1>6, <1>7, <1>8 DEF RateInv

\* A step of a request that was counted by both limiters and is not counted again. What
\* it gives back of the room it has used.
LEMMA UncountedStep ==
    ASSUME RateInv, NEW r \in LoginRequests, NEW next \in {Fresh} \cup HitState,
           hit[r].pc # "idle", next.pc \in {"idle", "handling"}, hit' = [hit EXCEPT ![r] = next],
           hits' = hits, rlRedis' = rlRedis, faults' = faults, admitted' = admitted,
           failures' \in Nat, rlRaced' \in BOOLEAN, rlRaced => rlRaced',
           shared' \in [Limiters -> Int], memory' \in [Instances -> [Limiters -> Nat]],
           failing' \in [Instances -> SUBSET Limiters],
           shared'["credential"] = shared["credential"],
           shared'["failures"] <= shared["failures"],
           shared["failures"] <= shared'["failures"] + Place(next.pc = "idle"),
           \A i \in Instances, k \in Limiters : memory'[i][k] <= memory[i][k],
           ~rlRaced' =>
              /\ Room("credential", shared', memory') = Room("credential", shared, memory)
              /\ failures' + Place(Failing(next)) + Room("failures", shared, memory)
                    <= failures + Place(Failing(hit[r])) + Room("failures", shared', memory')
    PROVE  RateInv'
<1>1. /\ RateShape /\ CountsFit(shared, memory, hit, admitted, hits)
      /\ ~rlRaced => BudgetFits(shared, memory, hit, admitted, failures)
  BY DEF RateInv
<1>2. "credential" \in Limiters /\ "failures" \in Limiters
  BY DEF Limiters
<1>4. PICK a, b \in Nat, p, f \in Nat :
         /\ a = Cardinality(Arriving(hit)) /\ b = Cardinality(Attempting(hit))
         /\ p = Cardinality(MayPass(hit, "credential")) /\ f = Cardinality(MayFail(hit))
         /\ Cardinality(Arriving(hit'))
               = a + (Place(next.pc = "credential") - Place(hit[r].pc = "credential"))
         /\ Cardinality(Attempting(hit')) = b + (Place(next.pc # "idle") - Place(hit[r].pc # "idle"))
         /\ Cardinality(MayPass(hit', "credential"))
               = p + (Place(Allowed(next, "credential")) - Place(Allowed(hit[r], "credential")))
         /\ Cardinality(MayFail(hit')) = f + (Place(Failing(next)) - Place(Failing(hit[r])))
         /\ hit' \in [LoginRequests -> {Fresh} \cup HitState]
         /\ hit'[r] = next /\ \A q \in LoginRequests : q # r => hit'[q] = hit[q]
  BY <1>1, PlacesMove
<1>5. /\ Cardinality(Arriving(hit')) \in Int /\ Cardinality(Arriving(hit')) <= a
      /\ Cardinality(Attempting(hit')) = b - Place(next.pc = "idle")
      /\ Cardinality(MayPass(hit', "credential")) \in Int
      /\ Cardinality(MayPass(hit', "credential")) <= p
  <2>1. ~Allowed(next, "credential") /\ next.pc # "credential"
    BY DEF Allowed
  <2> QED
    BY <1>4, <2>1 DEF Place
<1>6. RateShape'
  BY <1>1, <1>4 DEF RateShape
<1>7. CountsFit(shared', memory', hit', admitted', hits')
  <2>1. /\ admitted \in Int /\ hits \in Int
        /\ shared["credential"] \in Int /\ shared["failures"] \in Int
        /\ shared'["credential"] \in Int /\ shared'["failures"] \in Int
        /\ Place(next.pc = "idle") \in Int
    BY <1>1, <1>2, RateConstants DEF RateShape, Place
  <2>2. /\ admitted' + Cardinality(Arriving(hit')) <= hits'
        /\ shared'["credential"] >= 0 /\ shared'["credential"] <= hits'
        /\ shared'["failures"] <= admitted' /\ Cardinality(Attempting(hit')) - shared'["failures"] <= hits'
    BY <1>1, <1>4, <1>5, <2>1 DEF CountsFit
  <2>3. ASSUME NEW i \in Instances
        PROVE  memory'[i]["credential"] <= hits' /\ memory'[i]["failures"] <= admitted'
    <3>1. /\ memory[i]["credential"] \in Int /\ memory[i]["failures"] \in Int
          /\ memory'[i]["credential"] \in Int /\ memory'[i]["failures"] \in Int
          /\ memory'[i]["credential"] <= memory[i]["credential"]
          /\ memory'[i]["failures"] <= memory[i]["failures"]
      BY <1>1, <1>2 DEF RateShape
    <3>2. memory[i]["credential"] <= hits /\ memory[i]["failures"] <= admitted
      BY <1>1 DEF CountsFit
    <3> QED
      BY <2>1, <3>1, <3>2
  <2> QED
    BY <2>2, <2>3 DEF CountsFit
<1>8. ASSUME ~rlRaced' PROVE BudgetFits(shared', memory', hit', admitted', failures')
  <2>1. BudgetFits(shared, memory, hit, admitted, failures)
    BY <1>1, <1>8
  <2>2. /\ Room("credential", shared, memory) \in Int /\ Room("failures", shared, memory) \in Int
        /\ Room("failures", shared', memory') \in Int
    BY <1>1, <1>2, RoomIsInt DEF RateShape
  <2>3. admitted \in Int /\ failures \in Int /\ failures' \in Int
    BY <1>1 DEF RateShape
  <2>4. Place(Failing(next)) \in Int /\ Place(Failing(hit[r])) \in Int
    BY DEF Place
  <2>5. admitted' + Cardinality(MayPass(hit', "credential")) <= Room("credential", shared', memory')
    BY <1>4, <1>5, <1>8, <2>1, <2>2, <2>3 DEF BudgetFits
  <2>6. failures' + Cardinality(MayFail(hit')) <= Room("failures", shared', memory')
    BY <1>4, <1>8, <2>1, <2>2, <2>3, <2>4 DEF BudgetFits
  <2> QED
    BY <2>5, <2>6 DEF BudgetFits
<1> QED
  BY <1>6, <1>7, <1>8 DEF RateInv

\* A request that waits at a limiter or is handled has its fields.
LEMMA AttemptingTyped ==
    ASSUME RateShape, NEW r \in LoginRequests, hit[r].pc # "idle"
    PROVE  hit[r] \in HitState
BY DEF RateShape, Fresh

LEMMA RefuseStep ==
    ASSUME RateInv, NEW r \in LoginRequests, Refuse(r)
    PROVE  RateInv'
<1> DEFINE next == Fresh
<1>1. /\ RateShape /\ hit[r].pc # "idle" /\ hit' = [hit EXCEPT ![r] = next]
      /\ hits' = hits /\ rlRedis' = rlRedis /\ faults' = faults /\ admitted' = admitted
      /\ failures' = failures /\ shared' = shared /\ memory' = memory /\ failing' = failing
      /\ rlRaced' = rlRaced
  BY DEF RateInv, Refuse, Limiters
<1>2. next \in {Fresh} \cup HitState /\ next.pc = "idle" /\ ~Failing(next)
  BY DEF Fresh, Failing, Allowed
<1>3. /\ failures' \in Nat /\ shared' \in [Limiters -> Int] /\ failing' \in [Instances -> SUBSET Limiters]
      /\ memory' \in [Instances -> [Limiters -> Nat]] 
      /\ shared["failures"] \in Int
  BY <1>1 DEF RateShape, Limiters
<1>b. rlRaced' \in BOOLEAN
  BY <1>1 DEF RateShape
<1>4. \A i \in Instances, k \in Limiters : memory'[i][k] <= memory[i][k]
  BY <1>1, <1>3 DEF RateShape
<1>5. /\ Room("credential", shared', memory') = Room("credential", shared, memory)
      /\ Room("failures", shared', memory') = Room("failures", shared, memory)
      /\ Room("failures", shared, memory) \in Int
  BY <1>1, <1>3, RoomIsInt DEF RateShape, Limiters
<1>6. failures' + Place(Failing(next)) + Room("failures", shared, memory)
         <= failures + Place(Failing(hit[r])) + Room("failures", shared', memory')
  BY <1>1, <1>2, <1>3, <1>5 DEF Place
<1>7. shared["failures"] <= shared'["failures"] + Place(next.pc = "idle")
  BY <1>1, <1>2, <1>3 DEF Place
<1>9. /\ shared'["credential"] = shared["credential"] /\ shared'["failures"] <= shared["failures"]
      /\ next.pc \in {"idle", "handling"}
  BY <1>1, <1>2, <1>3
<1> HIDE DEF next
<1> QED
  BY <1>1, <1>2, <1>3, <1>b, <1>4, <1>5, <1>6, <1>7, <1>9, UncountedStep

LEMMA PassFailuresStep ==
    ASSUME RateInv, NEW r \in LoginRequests, PassFailures(r)
    PROVE  RateInv'
<1>1. /\ RateShape /\ hit[r].pc = "failures" /\ ~Refused(r) /\ hit[r].pc \in Limiters
      /\ hit' = [hit EXCEPT ![r] = [hit[r] EXCEPT !.pc = "handling"]]
      /\ hits' = hits /\ rlRedis' = rlRedis /\ faults' = faults /\ admitted' = admitted
      /\ failures' = failures /\ shared' = shared /\ memory' = memory /\ failing' = failing
      /\ rlRaced' = (rlRaced \/ ComparedLate(r))
  BY DEF RateInv, PassFailures, Limiters
<1>n. PICK next : next = [hit[r] EXCEPT !.pc = "handling"]
  OBVIOUS
<1>2. next \in HitState /\ next.pc = "handling" /\ Failing(next)
  <2>1. hit[r] \in HitState
    BY <1>1, AttemptingTyped
  <2> QED
    BY <2>1, <1>n DEF HitState, Failing
<1>3. /\ failures' \in Nat /\ shared' \in [Limiters -> Int] /\ failing' \in [Instances -> SUBSET Limiters]
      /\ memory' \in [Instances -> [Limiters -> Nat]]
      /\ shared["failures"] \in Int
  BY <1>1 DEF RateShape, Limiters
<1>b. rlRaced' \in BOOLEAN
  BY <1>1 DEF RateShape
<1>4. \A i \in Instances, k \in Limiters : memory'[i][k] <= memory[i][k]
  BY <1>1, <1>3 DEF RateShape
<1>5. /\ Room("credential", shared', memory') = Room("credential", shared, memory)
      /\ Room("failures", shared', memory') = Room("failures", shared, memory)
      /\ Room("failures", shared, memory) \in Int
  BY <1>1, <1>3, RoomIsInt DEF RateShape, Limiters
<1>6. ASSUME ~rlRaced'
      PROVE  failures' + Place(Failing(next)) + Room("failures", shared, memory)
                <= failures + Place(Failing(hit[r])) + Room("failures", shared', memory')
  <2>1. Failing(hit[r])
    BY <1>1, <1>6, NotRefusedIsAllowed DEF Failing
  <2> QED
    BY <1>1, <1>2, <1>3, <1>5, <2>1 DEF Place
<1>7. shared["failures"] <= shared'["failures"] + Place(next.pc = "idle")
  BY <1>1, <1>2, <1>3 DEF Place
<1>8. /\ next \in {Fresh} \cup HitState /\ hit[r].pc # "idle" /\ next.pc \in {"idle", "handling"}
      /\ hit' = [hit EXCEPT ![r] = next] /\ (rlRaced => rlRaced')
  BY <1>1, <1>n, <1>2
<1>9. shared'["credential"] = shared["credential"] /\ shared'["failures"] <= shared["failures"]
  BY <1>1, <1>3
<1> QED
  BY <1>1, <1>3, <1>b, <1>4, <1>5, <1>6, <1>7, <1>8, <1>9, UncountedStep

\* A failed answer uses the room its count has made.
LEMMA AnswerFailureStep ==
    ASSUME RateInv, NEW r \in LoginRequests, AnswerFailure(r)
    PROVE  RateInv'
<1> DEFINE next == Fresh
<1>1. /\ RateShape /\ hit[r].pc = "handling" /\ hit' = [hit EXCEPT ![r] = next]
      /\ hits' = hits /\ rlRedis' = rlRedis /\ faults' = faults /\ admitted' = admitted
      /\ failures' = failures + 1 /\ shared' = shared /\ memory' = memory /\ failing' = failing
      /\ rlRaced' = rlRaced
  BY DEF RateInv, AnswerFailure
<1>2. next \in {Fresh} \cup HitState /\ next.pc = "idle" /\ ~Failing(next) /\ Failing(hit[r])
  BY <1>1 DEF Fresh, Failing, Allowed
<1>3. /\ failures \in Nat /\ failures' \in Nat
      /\ shared' \in [Limiters -> Int] /\ failing' \in [Instances -> SUBSET Limiters]
      /\ memory' \in [Instances -> [Limiters -> Nat]]
      /\ shared["failures"] \in Int
  BY <1>1 DEF RateShape, Limiters
<1>b. rlRaced' \in BOOLEAN
  BY <1>1 DEF RateShape
<1>4. \A i \in Instances, k \in Limiters : memory'[i][k] <= memory[i][k]
  BY <1>1, <1>3 DEF RateShape
<1>5. /\ Room("credential", shared', memory') = Room("credential", shared, memory)
      /\ Room("failures", shared', memory') = Room("failures", shared, memory)
      /\ Room("failures", shared, memory) \in Int
  BY <1>1, <1>3, RoomIsInt DEF RateShape, Limiters
<1>6. failures' + Place(Failing(next)) + Room("failures", shared, memory)
         <= failures + Place(Failing(hit[r])) + Room("failures", shared', memory')
  BY <1>1, <1>2, <1>3, <1>5 DEF Place
<1>7. shared["failures"] <= shared'["failures"] + Place(next.pc = "idle")
  BY <1>1, <1>2, <1>3 DEF Place
<1>9. /\ shared'["credential"] = shared["credential"] /\ shared'["failures"] <= shared["failures"]
      /\ hit[r].pc # "idle" /\ next.pc \in {"idle", "handling"}
  BY <1>1, <1>2, <1>3
<1> HIDE DEF next
<1> QED
  BY <1>1, <1>2, <1>3, <1>b, <1>4, <1>5, <1>6, <1>7, <1>9, UncountedStep

\* A success takes back one count, wherever it was made: one request has less to come and
\* the room shrinks by no more than one.
LEMMA AnswerSuccessStep ==
    ASSUME RateInv, NEW r \in LoginRequests, AnswerSuccess(r)
    PROVE  RateInv'
<1> DEFINE next == Fresh
<1>1. /\ RateShape /\ hit[r].pc = "handling" /\ hit' = [hit EXCEPT ![r] = next]
      /\ hits' = hits /\ rlRedis' = rlRedis /\ faults' = faults /\ admitted' = admitted
      /\ failures' = failures /\ rlRaced' = rlRaced
  BY DEF RateInv, AnswerSuccess
<1>2. next \in {Fresh} \cup HitState /\ next.pc = "idle" /\ ~Failing(next) /\ Failing(hit[r])
  BY <1>1 DEF Fresh, Failing, Allowed
<1>3. /\ failures \in Nat /\ failures' \in Nat /\ shared["failures"] \in Int
      /\ "failures" \in Limiters /\ "credential" \in Limiters
  BY <1>1 DEF RateShape, Limiters
<1>b. rlRaced' \in BOOLEAN
  BY <1>1 DEF RateShape
<1>s. PICK n \in Instances : n = hit[r].at
  BY <1>1, AttemptingTyped DEF HitState
<1>4. /\ shared' \in [Limiters -> Int] /\ memory' \in [Instances -> [Limiters -> Nat]]
      /\ failing' \in [Instances -> SUBSET Limiters]
      /\ shared'["credential"] = shared["credential"]
      /\ shared'["failures"] <= shared["failures"] /\ shared["failures"] <= shared'["failures"] + 1
      /\ \A i \in Instances, k \in Limiters : memory'[i][k] <= memory[i][k]
      /\ Room("credential", shared', memory') = Room("credential", shared, memory)
      /\ Room("failures", shared, memory) <= Room("failures", shared', memory') + 1
  <2>1. CASE rlRedis = "up"
    <3>1. /\ shared' = [shared EXCEPT !["failures"] = shared["failures"] - 1]
          /\ failing' = [failing EXCEPT ![n] = failing[n] \ {"failures"}] /\ memory' = memory
      BY <1>s, <2>1 DEF AnswerSuccess, StoreRecovers
    <3>2. /\ shared' \in [Limiters -> Int] /\ memory' \in [Instances -> [Limiters -> Nat]]
          /\ failing' \in [Instances -> SUBSET Limiters]
          /\ shared'["credential"] = shared["credential"]
          /\ shared'["failures"] = shared["failures"] - 1
      BY <1>1, <1>3, <3>1 DEF RateShape
    <3>3. \A i \in Instances, k \in Limiters : memory'[i][k] <= memory[i][k]
      BY <3>1, <3>2
    <3>4. PICK s \in Int, c \in Int : /\ s = SumFunctionOnSet(MemoryRoom("credential", memory), Instances)
                                      /\ c = SumFunctionOnSet(MemoryRoom("failures", memory), Instances)
      BY <1>1, <1>3, RoomTyped DEF RateShape
    <3>5. /\ Room("credential", shared, memory) = LeastOf(shared["credential"], Limits["credential"].normal) + s
          /\ Room("credential", shared', memory') = LeastOf(shared["credential"], Limits["credential"].normal) + s
          /\ Room("failures", shared, memory) = LeastOf(shared["failures"], Limits["failures"].normal) + c
          /\ Room("failures", shared', memory') = LeastOf(shared["failures"] - 1, Limits["failures"].normal) + c
      BY <3>1, <3>2, <3>4 DEF Room
    <3>6. Limits["failures"].normal \in Nat
      BY <1>3, LimitsTyped
    <3>7. Room("failures", shared, memory) <= Room("failures", shared', memory') + 1
      BY <1>3, <3>4, <3>5, <3>6 DEF LeastOf
    <3> QED
      BY <1>3, <3>2, <3>3, <3>5, <3>7
  <2>2. CASE rlRedis # "up"
    <3>0. PICK m \in Nat : m = memory[n]["failures"]
      BY <1>1, <1>3 DEF RateShape
    <3>1. /\ shared' = shared
          /\ memory' = [memory EXCEPT ![n] = [memory[n] EXCEPT !["failures"] = IF m > 0 THEN m - 1 ELSE m]]
          /\ failing' = [failing EXCEPT ![n] = IF RedisReady THEN failing[n] \cup {"failures"} ELSE failing[n]]
      BY <1>s, <2>2, <3>0 DEF AnswerSuccess, StoreFails
    <3>2. /\ shared' \in [Limiters -> Int] /\ memory' \in [Instances -> [Limiters -> Nat]]
          /\ failing' \in [Instances -> SUBSET Limiters]
          /\ memory'[n]["failures"] = IF m > 0 THEN m - 1 ELSE m
          /\ \A i \in Instances, k \in Limiters : i # n \/ k # "failures" => memory'[i][k] = memory[i][k]
      BY <1>1, <1>3, <3>0, <3>1 DEF RateShape
    <3>3. \A i \in Instances, k \in Limiters : memory'[i][k] <= memory[i][k]
      BY <1>1, <3>0, <3>2 DEF RateShape
    <3>4. PICK mem, new : mem = memory /\ new = memory'
      OBVIOUS
    <3>5. /\ mem \in [Instances -> [Limiters -> Nat]] /\ new \in [Instances -> [Limiters -> Nat]]
          /\ mem[n]["failures"] = m /\ new[n]["failures"] = IF m > 0 THEN m - 1 ELSE m
          /\ \A i \in Instances, k \in Limiters : i # n \/ k # "failures" => new[i][k] = mem[i][k]
      BY <1>1, <3>0, <3>2, <3>4 DEF RateShape
    <3>6. /\ SumFunctionOnSet(MemoryRoom("failures", new), Instances)
                = SumFunctionOnSet(MemoryRoom("failures", mem), Instances)
                     + (LeastOf(new[n]["failures"], Cap("failures")) - LeastOf(m, Cap("failures")))
          /\ SumFunctionOnSet(MemoryRoom("credential", new), Instances)
                = SumFunctionOnSet(MemoryRoom("credential", mem), Instances)
                     + (LeastOf(mem[n]["credential"], Cap("credential")) - LeastOf(mem[n]["credential"], Cap("credential")))
      BY <1>3, <3>5, MemoryMoves
    <3>7. PICK s \in Int, c \in Int : /\ s = SumFunctionOnSet(MemoryRoom("credential", mem), Instances)
                                      /\ c = SumFunctionOnSet(MemoryRoom("failures", mem), Instances)
      BY <1>3, <3>5, RoomTyped
    <3>8. LeastOf(mem[n]["credential"], Cap("credential")) \in Int
      BY <1>3, <3>5, LimitsTyped DEF LeastOf
    <3>9. SumFunctionOnSet(MemoryRoom("credential", new), Instances) = s
      BY <3>6, <3>7, <3>8
    <3>10. PICK d \in Int : /\ SumFunctionOnSet(MemoryRoom("failures", new), Instances) = c + d
                            /\ d \in {0, -1}
      BY <1>3, <3>5, <3>6, <3>7, LimitsTyped DEF LeastOf
    <3>11. PICK x \in Int, y \in Int : /\ x = LeastOf(shared["credential"], Limits["credential"].normal)
                                       /\ y = LeastOf(shared["failures"], Limits["failures"].normal)
      BY <1>1, <1>3, LimitsTyped DEF RateShape, LeastOf
    <3>12. /\ Room("credential", shared, memory) = x + s /\ Room("credential", shared', memory') = x + s
           /\ Room("failures", shared, memory) = y + c /\ Room("failures", shared', memory') = y + (c + d)
      BY <3>1, <3>4, <3>7, <3>9, <3>10, <3>11 DEF Room
    <3> QED
      BY <1>3, <3>1, <3>2, <3>3, <3>10, <3>12
  <2> QED
    BY <2>1, <2>2
<1>5. Room("failures", shared, memory) \in Int /\ Room("failures", shared', memory') \in Int
  BY <1>1, <1>3, <1>4, RoomIsInt DEF RateShape
<1>6. failures' + Place(Failing(next)) + Room("failures", shared, memory)
         <= failures + Place(Failing(hit[r])) + Room("failures", shared', memory')
  BY <1>1, <1>2, <1>3, <1>4, <1>5 DEF Place
<1>7. shared["failures"] <= shared'["failures"] + Place(next.pc = "idle")
  BY <1>2, <1>4 DEF Place
<1>8. hit[r].pc # "idle" /\ next.pc \in {"idle", "handling"}
  BY <1>1, <1>2
<1> HIDE DEF next
<1> QED
  BY <1>1, <1>2, <1>3, <1>b, <1>4, <1>6, <1>7, <1>8, UncountedStep

LEMMA RateInvStep == RateInv /\ [RateNext]_rateVars => RateInv'
<1> SUFFICES ASSUME RateInv, [RateNext]_rateVars PROVE RateInv'
  OBVIOUS
<1>1. ASSUME NEW s \in {"up", "rejecting", "down"}, RedisChanges(s) PROVE RateInv'
  <2>1. /\ rlRedis' \in {"up", "rejecting", "down"} /\ faults' \in Nat /\ shared' = shared
        /\ memory' = memory /\ failing' = failing /\ hit' = hit /\ hits' = hits
        /\ admitted' = admitted /\ failures' = failures /\ rlRaced' = rlRaced
    BY <1>1 DEF RedisChanges, RateInv, RateShape
  <2>2. RateShape'
    BY <2>1 DEF RateInv, RateShape
  <2>3. /\ CountsFit(shared', memory', hit', admitted', hits')
        /\ ~rlRaced' => BudgetFits(shared', memory', hit', admitted', failures')
    BY <2>1 DEF RateInv
  <2> QED
    BY <2>2, <2>3 DEF RateInv
<1>2. CASE UNCHANGED rateVars
  <2>1. RateShape'
    BY <1>2 DEF rateVars, RateInv, RateShape
  <2>2. /\ CountsFit(shared', memory', hit', admitted', hits')
        /\ ~rlRaced' => BudgetFits(shared', memory', hit', admitted', failures')
    BY <1>2 DEF rateVars, RateInv
  <2> QED
    BY <2>1, <2>2 DEF RateInv
<1> QED
  BY <1>1, <1>2, ArriveStep, RefuseStep, PassCredentialStep, PassFailuresStep, AnswerFailureStep,
     AnswerSuccessStep DEF RateNext

\* The room of the stores is never more than the budget.
LEMMA RateInvSafe == RateInv => LimitsHold
<1> SUFFICES ASSUME RateInv PROVE LimitsHold
  OBVIOUS
<1>1. /\ RateShape /\ CountsFit(shared, memory, hit, admitted, hits)
      /\ ~rlRaced => BudgetFits(shared, memory, hit, admitted, failures)
      /\ "credential" \in Limiters /\ "failures" \in Limiters
  BY DEF RateInv, Limiters
<1>2. /\ Cardinality(Arriving(hit)) \in Nat /\ Cardinality(Attempting(hit)) \in Nat
      /\ Cardinality(MayPass(hit, "credential")) \in Nat /\ Cardinality(MayFail(hit)) \in Nat
  <2>1. /\ Arriving(hit) \in SUBSET LoginRequests /\ Attempting(hit) \in SUBSET LoginRequests
        /\ MayPass(hit, "credential") \in SUBSET LoginRequests /\ MayFail(hit) \in SUBSET LoginRequests
    BY DEF Arriving, Attempting, MayPass, MayFail
  <2> QED
    BY <2>1, RateConstants, FS_Subset, FS_CardinalityType
<1>3. RateTypeOK
  <2>1. /\ admitted \in Nat /\ hits \in Nat /\ hits <= MaxHits /\ MaxHits \in Nat
        /\ shared["credential"] \in Int /\ shared["failures"] \in Int
    BY <1>1, RateConstants DEF RateShape
  <2>2. admitted <= hits
    BY <1>1, <1>2, <2>1 DEF CountsFit
  <2>3. shared["credential"] \in 0 .. MaxHits /\ shared["failures"] \in (-MaxHits) .. MaxHits
    BY <1>1, <1>2, <2>1, <2>2 DEF CountsFit
  <2>4. memory \in [Instances -> [Limiters -> 0 .. MaxHits]]
    <3>1. ASSUME NEW i \in Instances, NEW k \in Limiters PROVE memory[i][k] \in 0 .. MaxHits
      <4>1. memory[i][k] \in Nat
        BY <1>1 DEF RateShape
      <4>2. memory[i][k] <= hits \/ memory[i][k] <= admitted
        BY <1>1 DEF CountsFit, Limiters
      <4> QED
        BY <2>1, <2>2, <4>1, <4>2
    <3>2. memory \in [Instances -> [Limiters -> Nat]]
      BY <1>1 DEF RateShape
    <3> QED
      BY <3>1, <3>2
  <2>5. hits \in 0 .. MaxHits /\ admitted \in 0 .. MaxHits
    BY <2>1, <2>2
  <2> QED
    BY <1>1, <2>3, <2>4, <2>5 DEF RateTypeOK, RateShape
<1>4. ASSUME NEW l \in Limiters PROVE Room(l, shared, memory) \in Int /\ Room(l, shared, memory) <= Budget(l)
  <2>1. PICK s \in Int, x \in Int : /\ s = SumFunctionOnSet(MemoryRoom(l, memory), Instances)
                                    /\ x = LeastOf(shared[l], Limits[l].normal)
                                    /\ s <= Cardinality(Instances) * Cap(l) /\ x <= Limits[l].normal
    BY <1>1, RoomTyped, RoomIsInt DEF RateShape
  <2>2. Budget(l) = Limits[l].normal + Cardinality(Instances) * Cap(l)
    BY DEF Budget, Cap
  <2>3. Cardinality(Instances) \in Nat /\ Cap(l) \in Nat /\ Limits[l].normal \in Nat
    BY LimitsTyped, RateConstants, FS_CardinalityType
  <2>4. PICK c \in Int : c = Cardinality(Instances) * Cap(l)
    BY <2>3
  <2> QED
    BY <2>1, <2>2, <2>3, <2>4 DEF Room
<1>5. ASSUME ~rlRaced PROVE admitted <= Budget("credential") /\ failures <= Budget("failures")
  <2>1. /\ admitted \in Int /\ failures \in Int /\ Budget("credential") \in Int /\ Budget("failures") \in Int
    <3>1. ASSUME NEW l \in Limiters PROVE Budget(l) \in Int
      BY LimitsTyped, RateConstants, FS_CardinalityType DEF Budget, Cap
    <3> QED
      BY <1>1, <3>1 DEF RateShape
  <2>2. Room("credential", shared, memory) <= Budget("credential") /\ Room("credential", shared, memory) \in Int
    BY <1>1, <1>4
  <2>3. Room("failures", shared, memory) <= Budget("failures") /\ Room("failures", shared, memory) \in Int
    BY <1>1, <1>4
  <2>4. BudgetFits(shared, memory, hit, admitted, failures)
    BY <1>1, <1>5
  <2> QED
    BY <1>2, <2>1, <2>2, <2>3, <2>4 DEF BudgetFits
<1> QED
  BY <1>3, <1>5 DEF LimitsHold, CredentialBudget, FailureBudget

\* An address gets the attempts it is allowed and no more than the hand-over between
\* Redis and the memories costs: one shared limit and one emergency cap for each instance.
THEOREM AttemptsLimited == RateSpec => []LimitsHold
<1>1. RateInit => RateInv
  BY RateInvInit
<1>2. RateInv /\ [RateNext]_rateVars => RateInv'
  BY RateInvStep
<1>3. RateInv => LimitsHold
  BY RateInvSafe
<1> QED
  BY <1>1, <1>2, <1>3, PTL DEF RateSpec

-----------------------------------------------------------------------------
(* The downloadable release                                                *)

PublishState == [pc : {"read"}, build : Builds, op : {"create", "update", "set", "rollback"},
                 was : BOOLEAN, arg : {"none", "downloadable", "kept", "ACTIVE", "DEPRECATED"}]

\* What a request carries: the release it read exists, and a new one has its file.
PublishFits(call) ==
    call.pc # "idle" =>
        /\ call.op = "create" => uploads[call.build] = "complete"
        /\ call.op # "create" => call.build \in Existing
        /\ call.op = "update" => call.arg \in {"ACTIVE", "DEPRECATED"}

\* What it read is still so, unless another request wrote in between.
PublishKnows(call) ==
    call.pc # "idle" =>
        /\ call.op \in {"update", "set"} => release[call.build] # "FAILED"
        /\ call.op = "update" /\ call.arg = "DEPRECATED" => call.build \notin downloadable
        /\ call.op = "rollback" => (call.was <=> call.build \in downloadable)

ReleaseShape ==
    /\ release \in [Builds -> {"absent", "ACTIVE", "DEPRECATED", "FAILED"}]
    /\ uploads \in [Builds -> {"none", "complete", "truncated"}]
    /\ downloadable \subseteq Existing
    /\ publish \in [Publishers -> {Idling} \cup PublishState]
    /\ IsFiniteSet(Existing)
    /\ \A b \in Existing : uploads[b] = "complete"

\* The flag is on one row, an ACTIVE one.
FlagIsOnOne ==
    /\ \A b \in downloadable : release[b] = "ACTIVE"
    /\ \A b, d \in downloadable : b = d

ReleaseInv ==
    /\ ReleaseShape
    /\ \A p \in Publishers : PublishFits(publish[p])
    /\ releaseRaced \in BOOLEAN
    /\ ~releaseRaced => /\ FlagIsOnOne
                        /\ \A p \in Publishers : PublishKnows(publish[p])

LEMMA ReleaseInvInit == ReleaseInit => ReleaseInv
<1> SUFFICES ASSUME ReleaseInit PROVE ReleaseInv
  OBVIOUS
<1>1. Existing = {} /\ IsFiniteSet(Existing)
  BY FS_EmptySet DEF ReleaseInit, Existing
<1>2. \A p \in Publishers : publish[p].pc = "idle"
  BY DEF ReleaseInit, Idling
<1>3. ReleaseShape
  BY <1>1 DEF ReleaseInit, ReleaseShape
<1>4. releaseRaced \in BOOLEAN
  BY DEF ReleaseInit
<1> QED
  BY <1>2, <1>3, <1>4 DEF ReleaseInit, ReleaseInv, PublishFits, PublishKnows, FlagIsOnOne

\* A request reads: it changes no row, and knows what it read.
LEMMA ReadsRelease ==
    ASSUME ReleaseInv, NEW p \in Publishers, NEW b \in Builds, NEW op, NEW was, NEW arg,
           Begun(p, b, op, was, arg), UNCHANGED <<release, uploads, downloadable>>,
           [pc |-> "read", build |-> b, op |-> op, was |-> was, arg |-> arg] \in PublishState,
           PublishFits([pc |-> "read", build |-> b, op |-> op, was |-> was, arg |-> arg]),
           ~releaseRaced =>
              PublishKnows([pc |-> "read", build |-> b, op |-> op, was |-> was, arg |-> arg])
    PROVE  ReleaseInv'
<1>1. PICK call \in PublishState : call = [pc |-> "read", build |-> b, op |-> op, was |-> was, arg |-> arg]
  OBVIOUS
<1>2. /\ publish' = [publish EXCEPT ![p] = call] /\ releaseRaced' = (releaseRaced \/ Others(p))
      /\ release' = release /\ uploads' = uploads /\ downloadable' = downloadable
      /\ PublishFits(call) /\ (~releaseRaced => PublishKnows(call))
  BY <1>1 DEF Begun
<1>3. ReleaseShape /\ Existing' = Existing
  BY <1>2 DEF ReleaseInv, Existing
<1>4. publish' \in [Publishers -> {Idling} \cup PublishState] /\ publish'[p] = call
      /\ \A q \in Publishers : q # p => publish'[q] = publish[q]
  BY <1>2, <1>3 DEF ReleaseShape
<1>5. ReleaseShape'
  BY <1>2, <1>3, <1>4 DEF ReleaseShape
<1>6. ASSUME NEW q \in Publishers PROVE PublishFits(publish[q])'
  <2>1. PublishFits(publish'[q])
    BY <1>2, <1>4 DEF ReleaseInv
  <2> QED
    BY <1>2, <1>3, <2>1 DEF PublishFits
<1>7. releaseRaced' \in BOOLEAN
  BY <1>2 DEF ReleaseInv
<1>8. ASSUME ~releaseRaced' PROVE FlagIsOnOne' /\ \A q \in Publishers : PublishKnows(publish[q])'
  <2>1. FlagIsOnOne /\ \A q \in Publishers : PublishKnows(publish[q])
    BY <1>2, <1>8 DEF ReleaseInv
  <2>2. FlagIsOnOne'
    BY <1>2, <2>1 DEF FlagIsOnOne
  <2>3. ASSUME NEW q \in Publishers PROVE PublishKnows(publish[q])'
    <3>1. PublishKnows(publish'[q])
      BY <1>2, <1>4, <1>8, <2>1
    <3> QED
      BY <1>2, <1>3, <3>1 DEF PublishKnows
  <2> QED
    BY <2>2, <2>3
<1> QED
  BY <1>5, <1>6, <1>7, <1>8 DEF ReleaseInv

\* A request writes and ends. Only one that wrote alone owes the flag, and then no other
\* request knows anything that could have changed.
LEMMA WritesRelease ==
    ASSUME ReleaseInv, NEW p \in Publishers, Ended(p), uploads' = uploads,
           release' \in [Builds -> {"absent", "ACTIVE", "DEPRECATED", "FAILED"}],
           downloadable' \subseteq Existing', Existing \subseteq Existing', IsFiniteSet(Existing'),
           \A b \in Existing' : uploads[b] = "complete",
           ~releaseRaced' => FlagIsOnOne'
    PROVE  ReleaseInv'
<1>1. /\ publish' = [publish EXCEPT ![p] = Idling] /\ releaseRaced' = (releaseRaced \/ Others(p))
      /\ ReleaseShape
  BY DEF Ended, ReleaseInv
<1>2. /\ publish' \in [Publishers -> {Idling} \cup PublishState] /\ publish'[p] = Idling
      /\ \A q \in Publishers : q # p => publish'[q] = publish[q]
  BY <1>1 DEF ReleaseShape
<1>3. ReleaseShape'
  BY <1>1, <1>2 DEF ReleaseShape
<1>4. ASSUME NEW q \in Publishers PROVE PublishFits(publish[q])'
  <2>1. publish'[q].pc = "idle" \/ publish'[q] = publish[q]
    BY <1>2 DEF Idling
  <2>2. PublishFits(publish[q])
    BY DEF ReleaseInv
  <2> QED
    BY <2>1, <2>2 DEF PublishFits
<1>5. releaseRaced' \in BOOLEAN
  BY <1>1 DEF ReleaseInv
<1>6. ASSUME ~releaseRaced', NEW q \in Publishers PROVE PublishKnows(publish[q])'
  <2>1. publish'[q].pc = "idle"
    BY <1>1, <1>2, <1>6 DEF Others, Idling
  <2> QED
    BY <2>1 DEF PublishKnows
<1> QED
  BY <1>3, <1>4, <1>5, <1>6 DEF ReleaseInv

LEMMA UploadStep ==
    ASSUME ReleaseInv, NEW b \in Builds, Upload(b)
    PROVE  ReleaseInv'
<1>1. /\ uploads[b] # "complete" /\ release' = release /\ downloadable' = downloadable
      /\ publish' = publish /\ releaseRaced' = releaseRaced /\ ReleaseShape
  BY DEF Upload, ReleaseInv
<1>2. /\ uploads' \in [Builds -> {"none", "complete", "truncated"}]
      /\ \A d \in Builds : uploads[d] = "complete" => uploads'[d] = "complete"
  BY <1>1 DEF Upload, ReleaseShape
<1>3. Existing' = Existing /\ Existing \subseteq Builds
  BY <1>1 DEF Existing
<1>4. ReleaseShape'
  BY <1>1, <1>2, <1>3 DEF ReleaseShape
<1>5. ASSUME NEW q \in Publishers PROVE PublishFits(publish[q])'
  <2>1. PublishFits(publish[q]) /\ publish[q] \in {Idling} \cup PublishState
    BY <1>1 DEF ReleaseInv, ReleaseShape
  <2>2. publish[q].pc # "idle" => publish[q].build \in Builds
    BY <2>1 DEF PublishState, Idling
  <2> QED
    BY <1>1, <1>2, <1>3, <2>1, <2>2 DEF PublishFits
<1>6. ~releaseRaced' => FlagIsOnOne' /\ \A q \in Publishers : PublishKnows(publish[q])'
  BY <1>1 DEF ReleaseInv, FlagIsOnOne, PublishKnows
<1>7. releaseRaced' \in BOOLEAN
  BY <1>1 DEF ReleaseInv
<1> QED
  BY <1>4, <1>5, <1>6, <1>7 DEF ReleaseInv

\* What the invariant says of the request that is about to write.
LEMMA WriterKnows ==
    ASSUME ReleaseInv, NEW p \in Publishers, publish[p].pc = "read"
    PROVE  /\ publish[p] \in PublishState /\ PublishFits(publish[p])
           /\ ~releaseRaced => PublishKnows(publish[p]) /\ FlagIsOnOne
BY DEF ReleaseInv, ReleaseShape, Idling

LEMMA ReadSteps ==
    ASSUME ReleaseInv, NEW p \in Publishers, NEW b \in Builds,
           \/ \E arg \in {"downloadable", "kept"} : CreateRead(p, b, arg)
           \/ \E s \in {"ACTIVE", "DEPRECATED"} : UpdateRead(p, b, s)
           \/ SetRead(p, b)
           \/ RollbackRead(p, b)
    PROVE  ReleaseInv'
<1> USE DEF PublishState, PublishFits, PublishKnows
<1>1. ASSUME NEW arg \in {"downloadable", "kept"}, CreateRead(p, b, arg) PROVE ReleaseInv'
  <2>1. /\ Begun(p, b, "create", FALSE, arg) /\ UNCHANGED <<release, uploads, downloadable>>
        /\ uploads[b] = "complete"
    BY <1>1 DEF CreateRead, UploadAccepted
  <2> QED
    BY <1>1, <2>1, ReadsRelease
<1>2. ASSUME NEW s \in {"ACTIVE", "DEPRECATED"}, UpdateRead(p, b, s) PROVE ReleaseInv'
  <2>1. /\ Begun(p, b, "update", FALSE, s) /\ UNCHANGED <<release, uploads, downloadable>>
        /\ b \in Existing
        /\ s # release[b] => release[b] # "FAILED" /\ ~(s = "DEPRECATED" /\ b \in downloadable)
    BY <1>2 DEF UpdateRead
  <2>2. release[b] # "FAILED"
    BY <1>2, <2>1
  <2>3. ~releaseRaced /\ s = "DEPRECATED" => b \notin downloadable
    BY <2>1 DEF ReleaseInv, FlagIsOnOne
  <2>4. PICK call : call = [pc |-> "read", build |-> b, op |-> "update", was |-> FALSE, arg |-> s]
    OBVIOUS
  <2>5. call \in PublishState /\ PublishFits(call) /\ (~releaseRaced => PublishKnows(call))
    BY <1>2, <2>1, <2>2, <2>3, <2>4
  <2> QED
    BY <2>1, <2>4, <2>5, ReadsRelease
<1>3. CASE SetRead(p, b)
  <2>1. /\ Begun(p, b, "set", FALSE, "none") /\ UNCHANGED <<release, uploads, downloadable>>
        /\ b \in Existing /\ release[b] # "FAILED"
    BY <1>3 DEF SetRead, MaySet
  <2> QED
    BY <2>1, ReadsRelease
<1>4. CASE RollbackRead(p, b)
  <2>1. /\ Begun(p, b, "rollback", b \in downloadable, "none")
        /\ UNCHANGED <<release, uploads, downloadable>> /\ b \in Existing
    BY <1>4 DEF RollbackRead
  <2>2. PICK was \in BOOLEAN : was <=> b \in downloadable
    OBVIOUS
  <2>3. was = (b \in downloadable)
    BY <2>2
  <2>4. Begun(p, b, "rollback", was, "none")
    BY <2>1, <2>3
  <2>5. PICK call : call = [pc |-> "read", build |-> b, op |-> "rollback", was |-> was, arg |-> "none"]
    OBVIOUS
  <2>6. call \in PublishState /\ PublishFits(call) /\ PublishKnows(call)
    BY <2>1, <2>2, <2>5
  <2> QED
    BY <2>1, <2>4, <2>5, <2>6, ReadsRelease
<1> QED
  BY <1>1, <1>2, <1>3, <1>4

\* A release that is there stays there when a status is written over another, and one
\* more is not too many.
LEMMA StatusWritten ==
    ASSUME ReleaseShape, NEW b \in Builds, NEW s \in {"ACTIVE", "DEPRECATED", "FAILED"},
           release' = [release EXCEPT ![b] = s]
    PROVE  /\ release' \in [Builds -> {"absent", "ACTIVE", "DEPRECATED", "FAILED"}]
           /\ release'[b] = s /\ \A d \in Builds : d # b => release'[d] = release[d]
           /\ Existing' = Existing \cup {b} /\ IsFiniteSet(Existing') /\ Existing \subseteq Builds
<1>1. /\ release' \in [Builds -> {"absent", "ACTIVE", "DEPRECATED", "FAILED"}]
      /\ release'[b] = s /\ \A d \in Builds : d # b => release'[d] = release[d]
  BY DEF ReleaseShape
<1>2. Existing' = Existing \cup {b}
  BY <1>1 DEF Existing
<1>3. IsFiniteSet(Existing \cup {b})
  BY FS_AddElement DEF ReleaseShape
<1> QED
  BY <1>1, <1>2, <1>3 DEF Existing

\* The replacement of a rolled back release is one ACTIVE release, and there is one as
\* long as there is an ACTIVE release.
LEMMA ReplacementFound ==
    ASSUME ReleaseShape, NEW b \in Builds
    PROVE  /\ Replacement(b) \subseteq {r \in Builds \ {b} : release[r] = "ACTIVE"}
           /\ \A x, y \in Replacement(b) : x = y
           /\ Replacement(b) = {} => \A r \in Builds \ {b} : release[r] # "ACTIVE"
<1> DEFINE active == {r \in Builds \ {b} : release[r] = "ACTIVE"}
<1>1. Builds \subseteq Nat
  BY ReleaseConstants
<1>2. active \subseteq Existing /\ IsFiniteSet(active)
  <2>1. active \subseteq Existing
    BY DEF Existing
  <2> QED
    BY <2>1, FS_Subset DEF ReleaseShape
<1>3. Replacement(b) = {r \in active : \A s \in active : s <= r}
  BY DEF Replacement
<1>4. ASSUME NEW x \in Replacement(b), NEW y \in Replacement(b) PROVE x = y
  <2>1. x \in active /\ y \in active /\ x <= y /\ y <= x
    BY <1>3
  <2>2. x \in Nat /\ y \in Nat
    BY <1>1, <2>1
  <2> QED
    BY <2>1, <2>2
<1>5. ASSUME active # {} PROVE Replacement(b) # {}
  <2> DEFINE f == [d \in Builds |-> d]
  <2>1. f \in [Builds -> Int] /\ active \in SUBSET Builds
    BY <1>1
  <2> HIDE DEF f
  <2>2. PICK x \in active : \A y \in active : f[y] <= f[x]
    BY <1>2, <1>5, <2>1, LargestEntry
  <2>3. \A y \in active : y <= x
    BY <2>2 DEF f
  <2> QED
    BY <1>3, <2>3
<1> QED
  BY <1>3, <1>4, <1>5

\* What each write does to the flag, when no other request was under way.
LEMMA CreateWriteStep ==
    ASSUME ReleaseInv, NEW p \in Publishers, CreateWrite(p)
    PROVE  /\ ReleaseInv'
           /\ \A b \in Builds : release[b] = "FAILED" => release'[b] = "FAILED"
           /\ Served # {} => Served' # {}
<1>1. PICK b : b = publish[p].build
  OBVIOUS
<1>2. /\ publish[p].pc = "read" /\ publish[p].op = "create" /\ Ended(p) /\ uploads' = uploads
  BY DEF CreateWrite
<1>3. /\ publish[p] \in PublishState /\ b \in Builds /\ uploads[b] = "complete" /\ ReleaseShape
      /\ ~releaseRaced' => ~releaseRaced /\ FlagIsOnOne
  BY <1>1, <1>2, WriterKnows DEF PublishFits, PublishState, Ended, ReleaseInv
<1>4. CASE b \in Existing
  <2>1. release' = release /\ downloadable' = downloadable
    BY <1>1, <1>4 DEF CreateWrite
  <2>2. Existing' = Existing /\ Served' = Served /\ (FlagIsOnOne => FlagIsOnOne')
    BY <2>1 DEF Existing, Served, FlagIsOnOne
  <2>3. /\ release' \in [Builds -> {"absent", "ACTIVE", "DEPRECATED", "FAILED"}]
        /\ downloadable' \subseteq Existing' /\ Existing \subseteq Existing' /\ IsFiniteSet(Existing')
        /\ \A d \in Existing' : uploads[d] = "complete"
    BY <1>3, <2>1, <2>2 DEF ReleaseShape
  <2>4. ReleaseInv'
    BY <1>2, <1>3, <2>2, <2>3, WritesRelease
  <2> QED
    BY <2>1, <2>2, <2>4
<1>5. CASE b \notin Existing
  <2>1. /\ release' = [release EXCEPT ![b] = "ACTIVE"]
        /\ downloadable' = IF publish[p].arg = "downloadable" THEN {b} ELSE downloadable
    BY <1>1, <1>5 DEF CreateWrite
  <2>2. /\ release' \in [Builds -> {"absent", "ACTIVE", "DEPRECATED", "FAILED"}]
        /\ release'[b] = "ACTIVE" /\ \A d \in Builds : d # b => release'[d] = release[d]
        /\ Existing' = Existing \cup {b} /\ IsFiniteSet(Existing') /\ Existing \subseteq Builds
    BY <1>3, <2>1, StatusWritten
  <2>3. downloadable \subseteq Existing /\ release[b] = "absent"
    BY <1>3, <1>5 DEF ReleaseShape, Existing
  <2>4. downloadable' \subseteq Existing' /\ \A d \in Existing' : uploads[d] = "complete"
    BY <1>3, <2>1, <2>2, <2>3 DEF ReleaseShape
  <2>5. FlagIsOnOne => FlagIsOnOne'
    BY <1>5, <2>1, <2>2, <2>3 DEF FlagIsOnOne
  <2>6. ReleaseInv'
    BY <1>2, <1>3, <2>2, <2>4, <2>5, WritesRelease
  <2>7. Served # {} => Served' # {}
    BY <1>5, <2>1, <2>2, <2>3 DEF Served
  <2>8. \A d \in Builds : release[d] = "FAILED" => release'[d] = "FAILED"
    BY <2>2, <2>3
  <2> QED
    BY <2>6, <2>7, <2>8
<1> QED
  BY <1>4, <1>5

LEMMA UpdateWriteStep ==
    ASSUME ReleaseInv, NEW p \in Publishers, UpdateReleaseWrite(p)
    PROVE  /\ ReleaseInv'
           /\ ~releaseRaced' =>
                 /\ \A b \in Builds : release[b] = "FAILED" => release'[b] = "FAILED"
                 /\ Served # {} => Served' # {}
<1>1. PICK b, s : b = publish[p].build /\ s = publish[p].arg
  OBVIOUS
<1>2. /\ publish[p].pc = "read" /\ publish[p].op = "update" /\ Ended(p) /\ uploads' = uploads
      /\ downloadable' = downloadable /\ release' = [release EXCEPT ![b] = s]
  BY <1>1 DEF UpdateReleaseWrite
<1>3. /\ publish[p] \in PublishState /\ b \in Builds /\ b \in Existing /\ s \in {"ACTIVE", "DEPRECATED"}
      /\ ReleaseShape
  BY <1>1, <1>2, WriterKnows DEF PublishFits, PublishState, ReleaseInv
<1>k. ASSUME ~releaseRaced'
      PROVE  FlagIsOnOne /\ release[b] # "FAILED" /\ (s = "DEPRECATED" => b \notin downloadable)
  BY <1>1, <1>2, <1>k, WriterKnows DEF PublishKnows, Ended
<1>4. /\ release' \in [Builds -> {"absent", "ACTIVE", "DEPRECATED", "FAILED"}]
      /\ release'[b] = s /\ \A d \in Builds : d # b => release'[d] = release[d]
      /\ Existing' = Existing \cup {b} /\ IsFiniteSet(Existing') /\ Existing \subseteq Builds
  BY <1>2, <1>3, StatusWritten
<1>5. /\ downloadable \subseteq Existing /\ downloadable' \subseteq Existing'
      /\ \A d \in Existing' : uploads[d] = "complete"
  BY <1>2, <1>3, <1>4 DEF ReleaseShape
<1>6. ~releaseRaced' => FlagIsOnOne'
  BY <1>k, <1>2, <1>3, <1>4, <1>5 DEF FlagIsOnOne
<1>7. ReleaseInv'
  BY <1>2, <1>4, <1>5, <1>6, WritesRelease
<1>8. ASSUME ~releaseRaced', Served # {} PROVE Served' # {}
  BY <1>k, <1>8, <1>2, <1>3, <1>4, <1>5 DEF Served
<1> QED
  BY <1>k, <1>4, <1>7, <1>8

LEMMA SetWriteStep ==
    ASSUME ReleaseInv, NEW p \in Publishers, SetWrite(p)
    PROVE  /\ ReleaseInv'
           /\ ~releaseRaced' => \A b \in Builds : release[b] = "FAILED" => release'[b] = "FAILED"
           /\ Served' # {}
<1>1. PICK b : b = publish[p].build
  OBVIOUS
<1>2. /\ publish[p].pc = "read" /\ publish[p].op = "set" /\ Ended(p) /\ uploads' = uploads
      /\ downloadable' = {b} /\ release' = [release EXCEPT ![b] = "ACTIVE"]
  BY <1>1 DEF SetWrite
<1>3. publish[p] \in PublishState /\ b \in Builds /\ b \in Existing /\ ReleaseShape
  BY <1>1, <1>2, WriterKnows DEF PublishFits, PublishState, ReleaseInv
<1>k. ASSUME ~releaseRaced' PROVE release[b] # "FAILED"
  BY <1>1, <1>2, <1>k, WriterKnows DEF PublishKnows, Ended
<1>4. /\ release' \in [Builds -> {"absent", "ACTIVE", "DEPRECATED", "FAILED"}]
      /\ release'[b] = "ACTIVE" /\ \A d \in Builds : d # b => release'[d] = release[d]
      /\ Existing' = Existing \cup {b} /\ IsFiniteSet(Existing') /\ Existing \subseteq Builds
  BY <1>2, <1>3, StatusWritten
<1>5. downloadable' \subseteq Existing' /\ \A d \in Existing' : uploads[d] = "complete"
  BY <1>2, <1>3, <1>4 DEF ReleaseShape
<1>6. FlagIsOnOne'
  BY <1>2, <1>4 DEF FlagIsOnOne
<1>7. ReleaseInv'
  BY <1>2, <1>4, <1>5, <1>6, WritesRelease
<1>8. b \in Served'
  BY <1>2, <1>4 DEF Served
<1> QED
  BY <1>k, <1>4, <1>7, <1>8

LEMMA RollbackWriteStep ==
    ASSUME ReleaseInv, NEW p \in Publishers, RollbackWrite(p)
    PROVE  /\ ReleaseInv'
           /\ \A b \in Builds : release[b] = "FAILED" => release'[b] = "FAILED"
           /\ ~releaseRaced' /\ Served # {} /\ Served' = {} => \A b \in Builds : release'[b] # "ACTIVE"
<1>1. PICK b : b = publish[p].build
  OBVIOUS
<1>2. /\ publish[p].pc = "read" /\ publish[p].op = "rollback" /\ Ended(p) /\ uploads' = uploads
      /\ downloadable' = (downloadable \ {b}) \cup (IF publish[p].was THEN Replacement(b) ELSE {})
      /\ release' = [release EXCEPT ![b] = "FAILED"]
  BY <1>1 DEF RollbackWrite
<1>3. publish[p] \in PublishState /\ b \in Builds /\ b \in Existing /\ ReleaseShape
  BY <1>1, <1>2, WriterKnows DEF PublishFits, PublishState, ReleaseInv
<1>k. ASSUME ~releaseRaced' PROVE FlagIsOnOne /\ (publish[p].was <=> b \in downloadable)
  BY <1>1, <1>2, <1>k, WriterKnows DEF PublishKnows, Ended
<1>4. /\ release' \in [Builds -> {"absent", "ACTIVE", "DEPRECATED", "FAILED"}]
      /\ release'[b] = "FAILED" /\ \A d \in Builds : d # b => release'[d] = release[d]
      /\ Existing' = Existing \cup {b} /\ IsFiniteSet(Existing') /\ Existing \subseteq Builds
  BY <1>2, <1>3, StatusWritten
<1>5. PICK next : next = Replacement(b)
  OBVIOUS
<1>6. /\ next \subseteq {r \in Builds \ {b} : release[r] = "ACTIVE"}
      /\ \A x, y \in next : x = y
      /\ next = {} => \A r \in Builds \ {b} : release[r] # "ACTIVE"
  BY <1>3, <1>5, ReplacementFound
<1>7. next \subseteq Existing
  BY <1>6 DEF Existing
<1>8. downloadable \subseteq Existing /\ downloadable' \subseteq Existing'
      /\ \A d \in Existing' : uploads[d] = "complete"
  BY <1>2, <1>3, <1>4, <1>5, <1>7 DEF ReleaseShape
<1>9. ASSUME ~releaseRaced'
      PROVE  downloadable' = IF b \in downloadable THEN next ELSE downloadable
  BY <1>k, <1>9, <1>2, <1>5 DEF FlagIsOnOne
<1>10. ~releaseRaced' => FlagIsOnOne'
  <2> SUFFICES ASSUME ~releaseRaced' PROVE FlagIsOnOne'
    OBVIOUS
  <2>1. downloadable \subseteq Builds /\ next \subseteq Builds
    BY <1>4, <1>6, <1>8
  <2>2. \A d \in downloadable' : d # b
    BY <1>6, <1>9
  <2>3. \A d \in downloadable' : release'[d] = "ACTIVE"
    BY <1>k, <1>4, <1>6, <1>9, <2>1, <2>2 DEF FlagIsOnOne
  <2>4. \A x, y \in downloadable' : x = y
    BY <1>k, <1>6, <1>9 DEF FlagIsOnOne
  <2> QED
    BY <2>3, <2>4 DEF FlagIsOnOne
<1>11. ReleaseInv'
  BY <1>2, <1>4, <1>8, <1>10, WritesRelease
<1>12. ASSUME ~releaseRaced', Served # {}, Served' = {}, NEW d \in Builds
       PROVE  release'[d] # "ACTIVE"
  <2>1. FlagIsOnOne'
    BY <1>10, <1>12
  <2>2. downloadable' = {}
    BY <1>12, <2>1 DEF Served, FlagIsOnOne
  <2>3. downloadable # {}
    BY <1>12 DEF Served
  <2>4. next = {}
    BY <1>9, <1>12, <2>2, <2>3
  <2> QED
    BY <1>4, <1>6, <2>4
<1> QED
  BY <1>4, <1>11, <1>12

LEMMA ReleaseInvStep == ReleaseInv /\ [AppReleaseNext]_releaseVars => ReleaseInv'
<1> SUFFICES ASSUME ReleaseInv, [AppReleaseNext]_releaseVars PROVE ReleaseInv'
  OBVIOUS
<1>1. CASE UNCHANGED releaseVars
  <2>1. Existing' = Existing
    BY <1>1 DEF releaseVars, Existing
  <2>2. releaseRaced' \in BOOLEAN
    BY <1>1 DEF releaseVars, ReleaseInv
  <2> QED
    BY <1>1, <2>1, <2>2 DEF releaseVars, ReleaseInv, ReleaseShape, PublishFits, PublishKnows, FlagIsOnOne
<1> QED
  BY <1>1, UploadStep, ReadSteps, CreateWriteStep, UpdateWriteStep, SetWriteStep, RollbackWriteStep
     DEF AppReleaseNext

LEMMA ReleaseInvSafe == ReleaseInv => ReleaseTypeOK /\ OneServed
<1> SUFFICES ASSUME ReleaseInv PROVE ReleaseTypeOK /\ OneServed
  OBVIOUS
<1>1. ReleaseTypeOK
  BY DEF ReleaseInv, ReleaseShape, ReleaseTypeOK
<1>2. ASSUME ~releaseRaced PROVE Cardinality(downloadable) <= 1 /\ downloadable = Served
  <2>1. FlagIsOnOne
    BY <1>2 DEF ReleaseInv
  <2>2. downloadable = Served
    BY <2>1 DEF FlagIsOnOne, Served
  <2>3. CASE downloadable = {}
    BY <2>2, <2>3, FS_EmptySet
  <2>4. CASE downloadable # {}
    <3>1. PICK b \in downloadable : TRUE
      BY <2>4
    <3>2. downloadable = {b}
      BY <2>1, <3>1 DEF FlagIsOnOne
    <3> QED
      BY <2>2, <3>2, FS_Singleton
  <2> QED
    BY <2>3, <2>4
<1> QED
  BY <1>1, <1>2 DEF OneServed

\* What a step may never do to a release that was pulled and to the visitors who are served.
LEMMA ReleaseMoves ==
    ASSUME ReleaseInv, [AppReleaseNext]_releaseVars, ~releaseRaced'
    PROVE  /\ \A b \in Builds : release[b] = "FAILED" => release'[b] = "FAILED"
           /\ Served # {} /\ Served' = {} => \A b \in Builds : release'[b] # "ACTIVE"
<1>1. CASE UNCHANGED <<release, downloadable>>
  BY <1>1 DEF Served
<1>2. CASE \E p \in Publishers :
              CreateWrite(p) \/ UpdateReleaseWrite(p) \/ SetWrite(p) \/ RollbackWrite(p)
  BY <1>2, CreateWriteStep, UpdateWriteStep, SetWriteStep, RollbackWriteStep
<1> QED
  BY <1>1, <1>2 DEF AppReleaseNext, releaseVars, Upload, CreateRead, UpdateRead, SetRead, RollbackRead

\* One release is downloadable and it is ACTIVE, one that was pulled stays pulled, and who
\* can download keeps being able to, unless requests about releases overlapped.
THEOREM ReleasesSafe == ReleaseSpec => ReleasesAreSafe
<1>1. ReleaseInit => ReleaseInv
  BY ReleaseInvInit
<1>2. ReleaseInv /\ [AppReleaseNext]_releaseVars => ReleaseInv'
  BY ReleaseInvStep
<1>3. ReleaseInv => ReleaseTypeOK /\ OneServed
  BY ReleaseInvSafe
<1>4. ReleaseInv /\ [AppReleaseNext]_releaseVars =>
         [~releaseRaced' => \A b \in Builds : release[b] = "FAILED" => release'[b] = "FAILED"]_releaseVars
  BY ReleaseMoves
<1>5. ReleaseInv /\ [AppReleaseNext]_releaseVars =>
         [~releaseRaced' /\ Served # {} /\ Served' = {}
             => \A b \in Builds : release'[b] # "ACTIVE"]_releaseVars
  BY ReleaseMoves
<1> QED
  BY <1>1, <1>2, <1>3, <1>4, <1>5, PTL
     DEF ReleaseSpec, ReleasesAreSafe, PulledStaysPulled, ServiceContinues
===================================================================================
