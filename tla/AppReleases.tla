------------------------------- MODULE AppReleases -------------------------------
(***************************************************************************)
(* The APK releases and the one visitors download (app-release.service.ts). *)
(* A transaction at READ COMMITTED reads its release first and writes       *)
(* later; what it writes is decided by what it read. Rows lock while a      *)
(* transaction that wrote them is open; the two writes that move the        *)
(* downloadable flag are one step here, since the second follows the first  *)
(* without a decision in between.                                           *)
(***************************************************************************)
EXTENDS Integers, FiniteSets

CONSTANTS
    Builds,         \* AppRelease.buildNumber, unique
    Publishers,     \* admin requests
    NoBuild

ASSUME ReleaseConstants == Builds \subseteq Nat /\ NoBuild \notin Builds

VARIABLES
    release,        \* the rows: absent, ACTIVE, DEPRECATED or FAILED
    uploads,        \* the objects in S3 and whether each is complete
    downloadable,   \* the rows with isDownloadable
    publish,        \* the requests
    releaseRaced    \* ghost: two requests about releases overlapped

releaseVars == <<release, uploads, downloadable, publish, releaseRaced>>

Idling == [pc |-> "idle", build |-> NoBuild, op |-> "none", was |-> FALSE, arg |-> "none"]
Existing == {b \in Builds : release[b] # "absent"}
Others(p) == \E q \in Publishers \ {p} : publish[q].pc # "idle"

Begun(p, b, op, was, arg) ==
    /\ publish' = [publish EXCEPT ![p] =
          [pc |-> "read", build |-> b, op |-> op, was |-> was, arg |-> arg]]
    /\ releaseRaced' = (releaseRaced \/ Others(p))
Ended(p) ==
    /\ publish' = [publish EXCEPT ![p] = Idling]
    /\ releaseRaced' = (releaseRaced \/ Others(p))

\* createUploadUrl refuses a version that exists; the browser then uploads to
\* S3, completely or not.
Upload(b) ==
    /\ uploads[b] # "complete" /\ b \notin Existing
    /\ uploads' \in {[uploads EXCEPT ![b] = u] : u \in {"complete", "truncated"}}
    /\ UNCHANGED <<release, downloadable, publish, releaseRaced>>

\* createRelease: headObject before the transaction; the object must be whole.
UploadAccepted(b) == uploads[b] = "complete"

CreateRead(p, b, arg) ==
    /\ publish[p].pc = "idle"
    /\ UploadAccepted(b)
    /\ Begun(p, b, "create", FALSE, arg)
    /\ UNCHANGED <<release, uploads, downloadable>>

\* The demotion and the insert are one transaction: a duplicate undoes both.
CreateWrite(p) ==
    LET b == publish[p].build IN
    /\ publish[p].pc = "read" /\ publish[p].op = "create"
    /\ IF b \in Existing THEN UNCHANGED <<release, downloadable>>
       ELSE /\ release' = [release EXCEPT ![b] = "ACTIVE"]
            /\ downloadable' = IF publish[p].arg = "downloadable" THEN {b} ELSE downloadable
    /\ Ended(p)
    /\ UNCHANGED uploads

\* updateRelease: a FAILED release keeps its status, and the downloadable one
\* may not be DEPRECATED; the status is written after the check.
UpdateRead(p, b, status) ==
    /\ publish[p].pc = "idle" /\ b \in Existing
    /\ status # release[b] => /\ release[b] # "FAILED"
                              /\ ~(status = "DEPRECATED" /\ b \in downloadable)
    /\ Begun(p, b, "update", FALSE, status)
    /\ UNCHANGED <<release, uploads, downloadable>>

UpdateReleaseWrite(p) ==
    /\ publish[p].pc = "read" /\ publish[p].op = "update"
    /\ release' = [release EXCEPT ![publish[p].build] = publish[p].arg]
    /\ Ended(p)
    /\ UNCHANGED <<uploads, downloadable>>

\* Variant of MaySet that forgets the rolled back releases.
MaySet_Any(b) == b \in Existing

\* setDownloadable refuses a FAILED release (every row the service makes has a file).
MaySet(b) == b \in Existing /\ release[b] # "FAILED"

SetRead(p, b) ==
    /\ publish[p].pc = "idle"
    /\ MaySet(b)
    /\ Begun(p, b, "set", FALSE, "none")
    /\ UNCHANGED <<release, uploads, downloadable>>

SetWrite(p) ==
    /\ publish[p].pc = "read" /\ publish[p].op = "set"
    /\ downloadable' = {publish[p].build}
    /\ release' = [release EXCEPT ![publish[p].build] = "ACTIVE"]
    /\ Ended(p)
    /\ UNCHANGED uploads

\* rollbackRelease: mark it FAILED and, when it was the downloadable one as
\* read, hand the flag to the highest ACTIVE build.
RollbackRead(p, b) ==
    /\ publish[p].pc = "idle" /\ b \in Existing
    /\ Begun(p, b, "rollback", b \in downloadable, "none")
    /\ UNCHANGED <<release, uploads, downloadable>>

Replacement(b) ==
    LET active == {r \in Builds \ {b} : release[r] = "ACTIVE"}
    IN  {r \in active : \A s \in active : s <= r}

RollbackWrite(p) ==
    LET b == publish[p].build IN
    /\ publish[p].pc = "read" /\ publish[p].op = "rollback"
    /\ release' = [release EXCEPT ![b] = "FAILED"]
    /\ downloadable' = (downloadable \ {b})
                       \cup (IF publish[p].was THEN Replacement(b) ELSE {})
    /\ Ended(p)
    /\ UNCHANGED uploads

ReleaseInit ==
    /\ release = [b \in Builds |-> "absent"]
    /\ uploads = [b \in Builds |-> "none"]
    /\ downloadable = {} /\ releaseRaced = FALSE
    /\ publish = [p \in Publishers |-> Idling]

AppReleaseNext ==
    \/ \E b \in Builds : Upload(b)
    \/ \E p \in Publishers, b \in Builds :
          \/ \E arg \in {"downloadable", "kept"} : CreateRead(p, b, arg)
          \/ \E s \in {"ACTIVE", "DEPRECATED"} : UpdateRead(p, b, s)
          \/ SetRead(p, b) \/ RollbackRead(p, b)
    \/ \E p \in Publishers :
          CreateWrite(p) \/ UpdateReleaseWrite(p) \/ SetWrite(p) \/ RollbackWrite(p)

ReleaseSpec == ReleaseInit /\ [][AppReleaseNext]_releaseVars

\* getDownloadable: what a visitor gets.
Served == {b \in downloadable : release[b] = "ACTIVE"}

-----------------------------------------------------------------------------
\* Every variable keeps its type, and only whole uploads became releases.
ReleaseTypeOK ==
    /\ release \in [Builds -> {"absent", "ACTIVE", "DEPRECATED", "FAILED"}]
    /\ downloadable \subseteq Existing
    /\ \A b \in Existing : uploads[b] = "complete"

\* At most one release is downloadable, and an ACTIVE one, unless requests about
\* releases overlapped: each request moves the flag for every row.
OneServed ==
    ~releaseRaced => Cardinality(downloadable) <= 1 /\ downloadable = Served

\* A release that was pulled is never served or revived by a later request; an
\* overlapping setDownloadable or updateRelease that read it before may do so.
PulledStaysPulled ==
    [][~releaseRaced' => \A b \in Builds : release[b] = "FAILED" => release'[b] = "FAILED"]_releaseVars

\* Visitors who are served keep being served: no request that ends alone leaves
\* nothing to download while another ACTIVE release exists. A refused duplicate
\* changes nothing, and a rollback names its replacement.
ServiceContinues ==
    [][~releaseRaced' /\ Served # {} /\ Served' = {}
       => \A b \in Builds : release'[b] # "ACTIVE"]_releaseVars

\* One release is served, never one that was pulled, and not none for want of care.
ReleasesAreSafe == [](ReleaseTypeOK /\ OneServed) /\ PulledStaysPulled /\ ServiceContinues
=============================================================================
