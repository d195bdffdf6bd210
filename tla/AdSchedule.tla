------------------------------ MODULE AdSchedule ------------------------------
(***************************************************************************)
(* The windows of promotions: when an ad is live, which promotions may      *)
(* overlap, and the job that announces that a window opened or closed.      *)
(*                                                                          *)
(* Time is counted in units of five minutes, the shortest window; the       *)
(* grace of two minutes for a start in the past is less than a unit.  All   *)
(* ads are discount promotions of one store.  Checks read the database and  *)
(* the rows are written later, without a transaction: an update that brings  *)
(* a list of products writes the window first and the list in a second       *)
(* statement, which can fail by itself.                                      *)
(***************************************************************************)
EXTENDS Integers, FiniteSets

CONSTANTS
    PromoAds,
    OldAds,         \* ads older than the migration that added lastNotifiedState
    OldProducts,    \* the product links of each of them: pairs of a product and a
                    \* variant or NoVariant
    NewProducts,    \* lists of links a seller may choose
    NoVariant,
    AdEditors,      \* createAd and updateAd requests under way
    AdWorkers,      \* workers that run processWindowTransitions
    NewWindows,     \* windows a seller may create an ad with
    StartPatches,   \* what an update may say of startAt: a time, NoTime or Keep
    EndPatches,     \* what an update may say of expiresAt
    MaxTime,        \* bound on the clock
    MaxDeaths,      \* bound on the deaths of workers in a sweep
    NoTime,         \* NULL in startAt or expiresAt
    Keep            \* a field that the payload of an update leaves out

ASSUME ScheduleConstants ==
    /\ OldAds \subseteq PromoAds /\ DOMAIN OldProducts = OldAds
    /\ MaxTime \in Nat /\ MaxDeaths \in Nat
    /\ NewWindows \subseteq [startAt : (0 .. MaxTime) \cup {NoTime},
                              expiresAt : (0 .. MaxTime) \cup {NoTime}]
    /\ StartPatches \cup EndPatches \subseteq (0 .. MaxTime) \cup {NoTime, Keep}
    /\ NoTime \notin Int /\ Keep \notin Int /\ Keep # NoTime
    /\ Keep \notin NewProducts

VARIABLES
    adClock,
    adRow,          \* MerchantAds rows
    adEdit,         \* the progress of every edit
    adSweep,        \* the ads each worker has listed with the state it derived
    adDeaths,       \* sweeps that died so far
    adTold,         \* the state of each ad that was last published
    adLost,         \* history: ads whose last announcement could not be published, or
                    \* was published and not recorded
    adUnsure        \* history: ads whose window and products no check has seen together
                    \* with the other ads as they are

editVars == <<adEdit, adUnsure>>
newsVars == <<adSweep, adDeaths, adTold, adLost>>

scheduleVars == <<adClock, adRow, editVars, newsVars>>

Times == 0 .. MaxTime

Windows == [startAt : Times \cup {NoTime}, expiresAt : Times \cup {NoTime}]

-----------------------------------------------------------------------------
(* Windows                                                                  *)

DeriveAdState(ad, now) ==
    IF ad.expiresAt # NoTime /\ now >= ad.expiresAt THEN "ENDED"
    ELSE IF ad.startAt # NoTime /\ now < ad.startAt THEN "SCHEDULED"
    ELSE IF ~ad.isActive THEN "PAUSED"
    ELSE "LIVE"

LiveWindowFilter(ad, now) ==
    /\ ad.isActive
    /\ ad.expiresAt = NoTime \/ ad.expiresAt > now
    /\ ad.startAt = NoTime \/ ad.startAt <= now

\* Each window starts before the other ends; NULL is minus or plus infinity.
StartsBeforeEndOf(v, w) == v.startAt = NoTime \/ w.expiresAt = NoTime \/ v.startAt < w.expiresAt

WindowsOverlap(v, w) == StartsBeforeEndOf(v, w) /\ StartsBeforeEndOf(w, v)

\* The coarse pre-selection of findWindowConflicts.
OverlappingWindowFilter(w, other) ==
    /\ w.expiresAt # NoTime => (other.startAt = NoTime \/ other.startAt < w.expiresAt)
    /\ w.startAt # NoTime => (other.expiresAt = NoTime \/ other.expiresAt > w.startAt)

\* A link without a variant covers every variant of the product.
ScopesIntersect(links, others) ==
    \E x \in links, y \in others :
      x[1] = y[1] /\ (x[2] = NoVariant \/ y[2] = NoVariant \/ x[2] = y[2])

NoAdRow == [exists |-> FALSE, startAt |-> NoTime, expiresAt |-> NoTime, products |-> {},
            isActive |-> FALSE, notified |-> "NULL"]

NoEdit == [pc |-> "idle", ad |-> NoTime, startAt |-> NoTime, expiresAt |-> NoTime,
           products |-> Keep, raced |-> FALSE]

NoSweep == [todo |-> [a \in {} |-> "NULL"], published |-> NoTime]

ScheduleInit ==
    /\ adClock = 0
    \* The migration recorded old ads at the state they were in.
    /\ adRow = [a \in PromoAds |->
                  IF a \in OldAds
                  THEN [exists |-> TRUE, startAt |-> NoTime, expiresAt |-> MaxTime,
                        products |-> OldProducts[a], isActive |-> TRUE, notified |-> "LIVE"]
                  ELSE NoAdRow]
    /\ adEdit = [c \in AdEditors |-> NoEdit]
    /\ adSweep = [w \in AdWorkers |-> NoSweep]
    /\ adDeaths = 0
    /\ adTold = [a \in PromoAds |-> adRow[a].notified]
    /\ adLost = {} /\ adUnsure = {}

TimePasses ==
    /\ adClock < MaxTime
    /\ adClock' = adClock + 1
    /\ UNCHANGED <<adRow, editVars, newsVars>>

-----------------------------------------------------------------------------
(* Edits by the seller                                                      *)

\* Variant of WindowConflicts that looks at active promotions only.
WindowConflicts_Active(ad, window, links) ==
    {b \in PromoAds \ {ad} :
       /\ adRow[b].exists /\ adRow[b].isActive
       /\ OverlappingWindowFilter(window, adRow[b])
       /\ WindowsOverlap(window, adRow[b])
       /\ ScopesIntersect(links, adRow[b].products)}

\* assertNoWindowConflict: paused promotions count, so that resuming one is safe.
WindowConflicts(ad, window, links) ==
    {b \in PromoAds \ {ad} :
       /\ adRow[b].exists
       /\ OverlappingWindowFilter(window, adRow[b])
       /\ WindowsOverlap(window, adRow[b])
       /\ ScopesIntersect(links, adRow[b].products)}

\* The schema wants an end after the start by at least the shortest window.
WellFormed(window) ==
    window.startAt # NoTime /\ window.expiresAt # NoTime => window.expiresAt >= window.startAt + 1

OthersUnderWay(c) == {d \in AdEditors \ {c} : adEdit[d].pc # "idle"}

\* Of two requests that are between check and last write at once, each may miss what the
\* other writes.
BeginEdit(c, edit) ==
    /\ adEdit[c].pc = "idle"
    /\ adEdit' = [d \in AdEditors |->
                    IF d = c THEN edit
                    ELSE [adEdit[d] EXCEPT !.raced = d \in OthersUnderWay(c)]]
    /\ UNCHANGED <<adClock, adRow, adUnsure, newsVars>>

Marked(ad, unsure) == IF unsure THEN adUnsure \cup {ad} ELSE adUnsure \ {ad}

AdCreateCheck(c, ad, window, products) ==
    /\ ad \notin OldAds /\ ~adRow[ad].exists         \* the id is new
    /\ \A d \in AdEditors : adEdit[d].ad # ad
    /\ WellFormed(window)
    /\ window.startAt \in {NoTime} \cup {t \in Times : t >= adClock}
    /\ WindowConflicts(ad, window, products) = {}
    /\ BeginEdit(c, [pc |-> "create", ad |-> ad, startAt |-> window.startAt,
                     expiresAt |-> window.expiresAt, products |-> products,
                     raced |-> OthersUnderWay(c) # {}])

\* The row and its links in one statement.
AdCreateWrite(c) ==
    LET e == adEdit[c] IN
    /\ e.pc = "create"
    /\ adRow' = [adRow EXCEPT ![e.ad] =
                   [exists |-> TRUE, startAt |-> e.startAt, expiresAt |-> e.expiresAt,
                    products |-> e.products, isActive |-> TRUE, notified |-> "NULL"]]
    /\ adEdit' = [adEdit EXCEPT ![c] = NoEdit]
    /\ adUnsure' = Marked(e.ad, e.raced)
    /\ UNCHANGED <<adClock, newsVars>>

\* A field of the payload, or what the row has where it is left out.
Patched(value, stored) == IF value = Keep THEN stored ELSE value

PatchedWindow(row, startAt, expiresAt) ==
    [startAt |-> Patched(startAt, row.startAt), expiresAt |-> Patched(expiresAt, row.expiresAt)]

\* updateAd: the start of an ad that has begun is locked, the end may move anywhere
\* after it, the new window conflicts with no other promotion of the new products.
AdUpdateCheck(c, ad, startAt, expiresAt, products) ==
    LET row == adRow[ad]
        window == PatchedWindow(row, startAt, expiresAt) IN
    /\ row.exists
    /\ startAt # Keep =>
         /\ DeriveAdState(row, adClock) = "SCHEDULED" \/ startAt = row.startAt
         /\ startAt \in {NoTime, row.startAt} \cup {t \in Times : t >= adClock}
    /\ WellFormed(window)
    /\ WindowConflicts(ad, window, Patched(products, row.products)) = {}
    /\ BeginEdit(c, [pc |-> "update", ad |-> ad, startAt |-> startAt, expiresAt |-> expiresAt,
                     products |-> products, raced |-> OthersUnderWay(c) # {}])

\* The first write: only the fields of the payload, and nothing resets
\* lastNotifiedState.  The products, if the payload has them, are still to come: until
\* then a window that moved is one that was checked for a list the ad does not have.
AdUpdateWrite(c) ==
    LET e == adEdit[c]
        row == adRow[e.ad]
        window == PatchedWindow(row, e.startAt, e.expiresAt)
        moved == window # PatchedWindow(row, Keep, Keep) IN
    /\ e.pc = "update" /\ row.exists
    /\ adRow' = [adRow EXCEPT ![e.ad] = [row EXCEPT !.startAt = window.startAt,
                                                    !.expiresAt = window.expiresAt]]
    /\ adEdit' = [adEdit EXCEPT ![c] = IF e.products = Keep THEN NoEdit
                                        ELSE [e EXCEPT !.pc = "replacing"]]
    /\ adUnsure' = Marked(e.ad, e.raced \/ (e.products # Keep /\ (moved \/ e.ad \in adUnsure)))
    /\ UNCHANGED <<adClock, newsVars>>

\* The second write, replaceAdProducts: the old links out and the new ones in, in a
\* transaction of its own.
ReplaceAdProducts(c) ==
    LET e == adEdit[c] IN
    /\ e.pc = "replacing" /\ adRow[e.ad].exists
    /\ adRow' = [adRow EXCEPT ![e.ad].products = e.products]
    /\ adEdit' = [adEdit EXCEPT ![c] = NoEdit]
    /\ adUnsure' = Marked(e.ad, e.raced)
    /\ UNCHANGED <<adClock, newsVars>>

\* A write fails, the row it is for is gone, or the process dies before it: what was
\* written before it stays.
EditFails(c) ==
    /\ adEdit[c].pc # "idle"
    /\ adEdit' = [adEdit EXCEPT ![c] = NoEdit]
    /\ UNCHANGED <<adClock, adRow, adUnsure, newsVars>>

\* setActive, by the seller or by the billing of an event: an ad that has ended
\* cannot be resumed.
ToggleAd(ad, active) ==
    /\ adRow[ad].exists /\ adRow[ad].isActive # active
    /\ ~(active /\ DeriveAdState(adRow[ad], adClock) = "ENDED")
    /\ adRow' = [adRow EXCEPT ![ad].isActive = active]
    /\ UNCHANGED <<adClock, editVars, newsVars>>

\* deleteAd, of an ad no order refers to, with its links.
DeleteAd(ad) ==
    /\ adRow[ad].exists
    /\ adRow' = [adRow EXCEPT ![ad] = NoAdRow]
    /\ adUnsure' = adUnsure \ {ad}
    /\ UNCHANGED <<adClock, adEdit, newsVars>>

-----------------------------------------------------------------------------
(* Transition job                                                           *)

\* findAdsNeedingTransition: NOT (lastNotifiedState = 'ENDED').  In SQL the test is
\* not true of NULL, which every ad created since the migration has: none of them is
\* ever listed.
NeedsTransition(ad) == adRow[ad].exists /\ adRow[ad].notified \notin {"NULL", "ENDED"}

SweepAds(w) ==
    LET listed == {a \in PromoAds :
                     NeedsTransition(a) /\ DeriveAdState(adRow[a], adClock) # adRow[a].notified} IN
    /\ adSweep[w] = NoSweep /\ listed # {}
    /\ adSweep' = [adSweep EXCEPT ![w].todo =
                     [a \in listed |-> DeriveAdState(adRow[a], adClock)]]
    /\ UNCHANGED <<adClock, adRow, editVars, adDeaths, adTold, adLost>>

\* The event ad.window.transitioned is published; publish() returns false when it could
\* not, which the sweep does not look at ...
PublishTransition(w, ad) ==
    /\ ad \in DOMAIN adSweep[w].todo /\ adSweep[w].published = NoTime
    /\ adSweep' = [adSweep EXCEPT ![w].published = ad]
    /\ \/ /\ adTold' = [adTold EXCEPT ![ad] = adSweep[w].todo[ad]]
          /\ adLost' = adLost \ {ad}
       \/ /\ adLost' = adLost \cup {ad}
          /\ UNCHANGED adTold
    /\ UNCHANGED <<adClock, adRow, editVars, adDeaths>>

\* ... and then recorded as announced, published or not; a deleted row makes the update
\* throw and ends the sweep.
MarkNotified(w) ==
    LET sweep == adSweep[w]
        ad == sweep.published
        rest == [a \in DOMAIN sweep.todo \ {ad} |-> sweep.todo[a]] IN
    /\ ad # NoTime
    /\ adRow' = IF adRow[ad].exists
                THEN [adRow EXCEPT ![ad].notified = sweep.todo[ad]] ELSE adRow
    /\ adSweep' = [adSweep EXCEPT ![w] =
                     [todo |-> IF adRow[ad].exists THEN rest ELSE NoSweep.todo,
                      published |-> NoTime]]
    /\ UNCHANGED <<adClock, editVars, adDeaths, adTold, adLost>>

\* The worker dies.
SweepDies(w) ==
    /\ adSweep[w] # NoSweep /\ adDeaths < MaxDeaths
    /\ adSweep' = [adSweep EXCEPT ![w] = NoSweep]
    /\ adDeaths' = adDeaths + 1
    /\ adLost' = adLost \cup ({adSweep[w].published} \ {NoTime})
    /\ UNCHANGED <<adClock, adRow, editVars, adTold>>

-----------------------------------------------------------------------------
ScheduleStep(editors, workers, ads) ==
    \/ TimePasses
    \/ \E c \in editors, ad \in ads, window \in NewWindows, products \in NewProducts :
         AdCreateCheck(c, ad, window, products)
    \/ \E c \in editors, ad \in ads, s \in StartPatches, e \in EndPatches,
          products \in NewProducts \cup {Keep} : AdUpdateCheck(c, ad, s, e, products)
    \/ \E c \in editors :
         AdCreateWrite(c) \/ AdUpdateWrite(c) \/ ReplaceAdProducts(c) \/ EditFails(c)
    \/ \E ad \in ads, active \in BOOLEAN : ToggleAd(ad, active)
    \/ \E ad \in ads : DeleteAd(ad)
    \/ \E w \in workers : SweepAds(w) \/ MarkNotified(w) \/ SweepDies(w)
    \/ \E w \in workers, ad \in ads : PublishTransition(w, ad)

ScheduleNext == ScheduleStep(AdEditors, AdWorkers, PromoAds)

\* The job runs every minute and a worker that died is restarted.
ScheduleFairness ==
    \A w \in AdWorkers :
      /\ WF_scheduleVars(SweepAds(w))
      /\ WF_scheduleVars(\E ad \in PromoAds : PublishTransition(w, ad))
      /\ WF_scheduleVars(MarkNotified(w))

ScheduleSpec == ScheduleInit /\ [][ScheduleNext]_scheduleVars /\ ScheduleFairness

-----------------------------------------------------------------------------
(* Properties                                                               *)

\* Rows keep their types, and nothing is left of a deleted ad.
ScheduleTypeOK ==
    /\ adClock \in Times
    /\ \A a \in PromoAds :
         /\ adRow[a].startAt \in Times \cup {NoTime} /\ adRow[a].expiresAt \in Times \cup {NoTime}
         /\ adRow[a].notified \in {"NULL", "SCHEDULED", "LIVE", "PAUSED", "ENDED"}
         /\ ~adRow[a].exists => adRow[a] = NoAdRow /\ a \notin adUnsure

AdStateNow(ad) == DeriveAdState(adRow[ad], adClock)

\* The query that finds live ads and the state shown to the seller agree on every
\* stored ad at every instant, and the pre-selection of conflicts with a new window
\* misses none of them.
WindowFiltersAgree ==
    \A a \in {b \in PromoAds : adRow[b].exists} :
      /\ LiveWindowFilter(adRow[a], adClock) <=> (DeriveAdState(adRow[a], adClock) = "LIVE")
      /\ \A w \in Windows :
           WindowsOverlap(w, adRow[a]) => OverlappingWindowFilter(w, adRow[a])

\* Two promotions discount the same product at the same instant.
Compete(a, b) ==
    /\ a # b /\ adRow[a].exists /\ adRow[b].exists
    /\ ScopesIntersect(adRow[a].products, adRow[b].products)
    /\ AdStateNow(a) = "LIVE" /\ AdStateNow(b) = "LIVE"

\* Two promotions never discount the same product at the same instant, however they
\* were created, moved to another window or other products, paused and resumed.  Two
\* kinds of ads may, until a request that runs alone updates them: those written by
\* requests that were checked at once, and those whose update stopped between its two
\* writes, with a window for a list of products they did not get.
PromotionsDoNotCompete == \A a, b \in PromoAds \ adUnsure : ~Compete(a, b)

\* What is recorded as announced of an ad the job follows catches up with its state,
\* whenever a worker dies, and so does what was published.  Two announcements are not
\* repaired: one that could not be published is recorded all the same, and one that was
\* published by a worker that died before the record stands if the ad goes back to the
\* state on record.
AnnouncementCatchesUp ==
    \A ad \in PromoAds :
      /\ []<>(NeedsTransition(ad) => adRow[ad].notified = AdStateNow(ad))
      /\ []<>(NeedsTransition(ad) => adTold[ad] = AdStateNow(ad) \/ ad \in adLost)

\* What is live is decided in one way, and promotions do not compete: the window
\* checks of merchantAds as a whole.
PromotionsAreSound == ScheduleTypeOK /\ WindowFiltersAgree /\ PromotionsDoNotCompete
=============================================================================
