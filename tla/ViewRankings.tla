------------------------------ MODULE ViewRankings ------------------------------
(***************************************************************************)
(* Views and clicks from the events clients report to the rankings of       *)
(* products and stores (analytics.service.ts, analytics.repository.ts).     *)
(*                                                                          *)
(* An event reaches the event table through the queue, at least once if at  *)
(* all, or directly when the queue is reported down; it may be of an        *)
(* earlier day, and come in after that day was rolled up.  Time is counted  *)
(* in hours.  The rollup job runs in the first hour of a day under a lock   *)
(* that lapses, so two workers can be in it at once; a run that is missed   *)
(* is never made up for.                                                    *)
(***************************************************************************)
EXTENDS Integers, FiniteSets, Functions

CONSTANTS
    Sightings,      \* events
    EventShapes,    \* what a client may report: type, targets and session
    TargetType,     \* PRODUCT or STORE
    RollupRuns,     \* runs of the rollup job
    DayHours,       \* hours of a day
    MaxHour,        \* bound on time
    RankingHours,   \* how far a ranking looks back
    NoCounts

Targets == DOMAIN TargetType
Days == 0 .. MaxHour \div DayHours

ASSUME RankingConstants ==
    /\ IsFiniteSet(Sightings) /\ IsFiniteSet(Targets)
    /\ \A x \in EventShapes : x.targets \subseteq Targets /\ x.type # "NONE"
    /\ DayHours \in Nat \ {0} /\ MaxHour \in Nat /\ RankingHours \in Nat

VARIABLES
    hourNow,
    sighting,       \* what was reported, stamped by the service
    inQueue,        \* events the queue holds
    eventRows,      \* AnalyticsEvents rows of an event, with and without its eventId
    rollup,         \* AnalyticsDailyRollups rows
    rolling,        \* what a run of the job has aggregated
    cameLate        \* ghost: days whose events came in after they were aggregated

rankingVars == <<hourNow, sighting, inQueue, eventRows, rollup, rolling, cameLate>>

Unreported == [type |-> "NONE", targets |-> {}, session |-> NoCounts, hour |-> 0]
NotRolling == [day |-> -1, counts |-> [t \in Targets |-> NoCounts]]
DayOf(h) == h \div DayHours
Stored(e) == eventRows[e].bus + eventRows[e].direct > 0

RankingInit ==
    /\ hourNow = 0
    /\ sighting = [e \in Sightings |-> Unreported]
    /\ inQueue = {}
    /\ eventRows = [e \in Sightings |-> [bus |-> 0, direct |-> 0]]
    /\ rollup = [d \in Days |-> [t \in Targets |-> NoCounts]]
    /\ rolling = [j \in RollupRuns |-> NotRolling]
    /\ cameLate = {}

HourPasses ==
    /\ hourNow < MaxHour
    /\ hourNow' = hourNow + 1
    /\ UNCHANGED <<sighting, inQueue, eventRows, rollup, rolling, cameLate>>

-----------------------------------------------------------------------------
(* From a client to the event table. *)

\* normalise: a time in the future becomes the time of receipt.
StampedHour(supplied) == IF supplied <= hourNow THEN supplied ELSE hourNow

\* The row of an event of day d is written: some run may have aggregated the day.
NoteArrival(d) ==
    cameLate' = cameLate \cup {x \in {d} :
                    \/ \E t \in Targets : rollup[d][t] # NoCounts
                    \/ \E j \in RollupRuns : rolling[j].day = d}

\* record: an event that publishMany reports as failed is written directly, although
\* the queue may have taken it.
RecordSighting(e, shape, supplied) ==
    LET hour == StampedHour(supplied)
    IN  /\ sighting[e].type = "NONE"
        /\ sighting' = [sighting EXCEPT ![e] =
              [type |-> shape.type, targets |-> shape.targets, session |-> shape.session, hour |-> hour]]
        /\ \/ /\ inQueue' = inQueue \cup {e}
              /\ UNCHANGED <<eventRows, cameLate>>
           \/ /\ inQueue' \in {inQueue, inQueue \cup {e}}
              /\ eventRows' = [eventRows EXCEPT ![e].direct = 1]
              /\ NoteArrival(DayOf(hour))
        /\ UNCHANGED <<hourNow, rollup, rolling>>

\* The consumer's createMany: a row whose eventId is stored is skipped, and the
\* message may be delivered again.
DeliverSighting(e) ==
    /\ e \in inQueue
    /\ IF eventRows[e].bus = 0
       THEN /\ eventRows' = [eventRows EXCEPT ![e].bus = 1]
            /\ NoteArrival(DayOf(sighting[e].hour))
       ELSE UNCHANGED <<eventRows, cameLate>>
    /\ inQueue' \in {inQueue, inQueue \ {e}}
    /\ UNCHANGED <<hourNow, sighting, rollup, rolling>>

\* A message that fails too often goes to the dead-letter queue.
LoseSighting(e) ==
    /\ e \in inQueue
    /\ inQueue' = inQueue \ {e}
    /\ UNCHANGED <<hourNow, sighting, eventRows, rollup, rolling, cameLate>>

-----------------------------------------------------------------------------
(* The rollups. *)

ViewType(t) == IF TargetType[t] = "PRODUCT" THEN "PRODUCT_VIEW" ELSE "STORE_VIEW"

\* COUNT(DISTINCT session and hour) of the views of a target among the events es
Visits(es, t) ==
    {<<sighting[e].session, sighting[e].hour>> :
        e \in {x \in es : sighting[x].type = ViewType(t) /\ t \in sighting[x].targets}}

StoredOn(d) == {e \in Sightings : Stored(e) /\ DayOf(sighting[e].hour) = d}

Clicks(es, t) ==
    SumFunctionOnSet([e \in Sightings |-> eventRows[e].bus + eventRows[e].direct],
                     {e \in es : sighting[e].type = "PRODUCT_CLICK" /\ t \in sighting[e].targets})

\* aggregateProductRollups and aggregateStoreRollups: a row for every target that
\* some event of the day names.
Aggregate(d, t) ==
    IF \E e \in StoredOn(d) : t \in sighting[e].targets
    THEN [views |-> Cardinality(Visits(StoredOn(d), t)), clicks |-> Clicks(StoredOn(d), t)]
    ELSE NoCounts

\* generateDailyRollups aggregates yesterday ...
RollupRead(j) ==
    /\ rolling[j] = NotRolling
    /\ hourNow % DayHours = 0 /\ DayOf(hourNow) > 0
    /\ LET day == DayOf(hourNow) - 1
       IN  rolling' = [rolling EXCEPT ![j] = [day |-> day, counts |-> [t \in Targets |-> Aggregate(day, t)]]]
    /\ UNCHANGED <<hourNow, sighting, inQueue, eventRows, rollup, cameLate>>

\* Variant of RollupSave that adds to the rows that are there.
RollupSave_Adds(j) ==
    LET Plus(old, new) ==
            IF old = NoCounts THEN new ELSE IF new = NoCounts THEN old
            ELSE [views |-> old.views + new.views, clicks |-> old.clicks + new.clicks]
    IN  /\ rolling[j] # NotRolling
        /\ rollup' = [rollup EXCEPT ![rolling[j].day] =
              [t \in Targets |-> Plus(rollup[rolling[j].day][t], rolling[j].counts[t])]]
        /\ rolling' = [rolling EXCEPT ![j] = NotRolling]
        /\ UNCHANGED <<hourNow, sighting, inQueue, eventRows, cameLate>>

\* ... and saveDailyRollups inserts the rows that are not there yet.
RollupSave(j) ==
    /\ rolling[j] # NotRolling
    /\ rollup' = [rollup EXCEPT ![rolling[j].day] =
          [t \in Targets |-> IF @[t] = NoCounts THEN rolling[j].counts[t] ELSE @[t]]]
    /\ rolling' = [rolling EXCEPT ![j] = NotRolling]
    /\ UNCHANGED <<hourNow, sighting, inQueue, eventRows, cameLate>>

\* The run fails or its worker dies.
RollupDies(j) ==
    /\ rolling[j] # NotRolling
    /\ rolling' = [rolling EXCEPT ![j] = NotRolling]
    /\ UNCHANGED <<hourNow, sighting, inQueue, eventRows, rollup, cameLate>>

-----------------------------------------------------------------------------
(* The rankings. *)

Since == hourNow - RankingHours

\* getTrending: from the events
TrendingScore(t) ==
    Cardinality(Visits({e \in Sightings : Stored(e) /\ sighting[e].hour >= Since}, t))

\* getMostViewed: from the rollups of the days that began in the period, or from the
\* events when no target of the type has any
MostViewedScore(t) ==
    LET RolledUp(u) == {d \in Days : d * DayHours >= Since /\ rollup[d][u] # NoCounts}
    IN  IF \E u \in Targets : TargetType[u] = TargetType[t] /\ RolledUp(u) # {}
        THEN SumFunctionOnSet([d \in RolledUp(t) |-> rollup[d][t].views], RolledUp(t))
        ELSE TrendingScore(t)

-----------------------------------------------------------------------------
RankingNext ==
    \/ HourPasses
    \/ \E e \in Sightings :
          \/ DeliverSighting(e) \/ LoseSighting(e)
          \/ \E shape \in EventShapes, supplied \in 0 .. MaxHour : RecordSighting(e, shape, supplied)
    \/ \E j \in RollupRuns : RollupRead(j) \/ RollupSave(j) \/ RollupDies(j)

RankingSpec == RankingInit /\ [][RankingNext]_rankingVars

-----------------------------------------------------------------------------
\* Rows, messages and counts keep their types; an event has at most one row with its
\* eventId, and no row is of the future (normalise, createMany).
RankingTypeOK ==
    /\ inQueue \subseteq Sightings
    /\ \A e \in Sightings :
          /\ eventRows[e].bus \in {0, 1} /\ eventRows[e].direct \in {0, 1}
          /\ sighting[e].hour <= hourNow
    /\ \A d \in Days, t \in Targets :
          rollup[d][t] # NoCounts => d < DayOf(hourNow)

\* A day that was rolled up counts every visit and every row of the events in the
\* table, whichever runs of the job overlapped or died, unless an event of that
\* day came in after some run had looked (generateDailyRollups).
RollupsMatchEvents ==
    \A d \in Days, t \in Targets :
        rollup[d][t] # NoCounts /\ d \notin cameLate => rollup[d][t] = Aggregate(d, t)

\* A ranking never shows more than the visits there really were in its period:
\* neither a message delivered twice, nor an event that was queued and written
\* directly, nor a rollup that is run twice adds to a score.
ScoresAreVisits ==
    \A t \in Targets :
        LET visits == Cardinality(Visits({e \in Sightings : sighting[e].hour >= Since}, t))
        IN  TrendingScore(t) <= visits /\ MostViewedScore(t) <= visits

\* Rollups and rankings count what happened.
RankingsAreTrue == RankingTypeOK /\ RollupsMatchEvents /\ ScoresAreVisits
=============================================================================
