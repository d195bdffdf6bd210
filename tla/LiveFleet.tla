-------------------------------- MODULE LiveFleet --------------------------------
(***************************************************************************)
(* The live position of one vehicle in Redis (mobility.service.ts,          *)
(* mobility.live-store.ts): the point with its TTL, the GEO index and the   *)
(* "seen" set the sweeper works from, and the 60-second cache of which      *)
(* vehicle a driver drives. Drivers ping, an admin suspends, resumes or     *)
(* reassigns the vehicle, the sweepers of every replica claim what lapsed.  *)
(*                                                                          *)
(* A Redis command, MULTI or script is one step, as is a database           *)
(* statement. Time is kept as what is left of each TTL.                     *)
(***************************************************************************)
EXTENDS Integers, FiniteSets

CONSTANTS
    Drivers, Pings, FleetSweepers, FleetAdmins,
    Ttl,            \* LIVE_TTL_SECONDS, in ticks
    MaxStamp,       \* bound on the device time of a fix
    MaxFleetEdits,  \* bound on the admin's changes
    NoDriver

ASSUME FleetConstants == Ttl \in Nat \ {0} /\ MaxStamp \in Nat /\ NoDriver \notin Drivers

VARIABLES
    vehicle,        \* Vehicles: driverUserId, and trackingEnabled with an active operator
    driverCache,    \* mobility:driver:<d>: [of, ttl]; ttl 0 is a miss
    point,          \* mobility:vehicle: [ttl, ts]; ttl 0 is expired or deleted
    indexed,        \* member of mobility:geo:vehicles
    seenAge,        \* mobility:seen: ticks since the last refresh, up to Ttl; -1 is absent
    ping, admin, sweep,     \* requests and sweepers
    overtook,       \* the sweepers whose list is older than the last refresh
    fleetEdits,     \* bound: changes made
    fleetRaced      \* ghost: two pings overlapped

fleetVars == <<vehicle, driverCache, point, indexed, seenAge, ping, admin, sweep,
               overtook, fleetEdits, fleetRaced>>

NoPing == [pc |-> "idle", driver |-> NoDriver, ts |-> 0]
PingsAs(p, pc) == [ping EXCEPT ![p].pc = pc]

-----------------------------------------------------------------------------
(* recordLocation. *)

\* resolveVehicle reads the cache: a hit decides, a miss goes to the database.
PingStart(p, d, ts) ==
    /\ ping[p].pc = "idle"
    /\ ping' = [ping EXCEPT ![p] =
          [pc |-> IF driverCache[d].ttl = 0 THEN "lookup"
                  ELSE IF driverCache[d].of THEN "resolved" ELSE "idle",
           driver |-> d, ts |-> ts]]
    /\ fleetRaced' = (fleetRaced \/ \E q \in Pings \ {p} : ping[q].pc # "idle")
    /\ UNCHANGED <<vehicle, driverCache, point, indexed, seenAge, admin, sweep, overtook,
                   fleetEdits>>

\* The driver's vehicle, if tracking is on and its operator active.
Drives(d) == vehicle.driver = d /\ vehicle.enabled

PingLookup(p) ==
    /\ ping[p].pc = "lookup"
    /\ ping' = PingsAs(p, IF Drives(ping[p].driver) THEN "found" ELSE "absent")
    /\ UNCHANGED <<vehicle, driverCache, point, indexed, seenAge, admin, sweep, overtook,
                   fleetEdits, fleetRaced>>

\* cacheVehicle, what was found or that nothing was: a 403 follows in that case.
PingCache(p) ==
    /\ ping[p].pc \in {"found", "absent"}
    /\ driverCache' = [driverCache EXCEPT ![ping[p].driver] =
          [of |-> ping[p].pc = "found", ttl |-> Ttl]]
    /\ ping' = PingsAs(p, IF ping[p].pc = "found" THEN "resolved" ELSE "idle")
    /\ UNCHANGED <<vehicle, point, indexed, seenAge, admin, sweep, overtook, fleetEdits, fleetRaced>>

\* getLive and the checks against it: a fix no newer than a live one is refused,
\* and so may be a jump that is too far (the distance is abstracted).
Plausible(ts) == IF point.ttl = 0 THEN {TRUE} ELSE IF ts > point.ts THEN {TRUE, FALSE} ELSE {FALSE}

PingRead(p) ==
    /\ ping[p].pc = "resolved"
    /\ \E ok \in Plausible(ping[p].ts) : ping' = PingsAs(p, IF ok THEN "checked" ELSE "idle")
    /\ UNCHANGED <<vehicle, driverCache, point, indexed, seenAge, admin, sweep, overtook,
                   fleetEdits, fleetRaced>>

\* putLive: one MULTI for the point, the GEO member and the seen score.
PingPut(p) ==
    /\ ping[p].pc = "checked"
    /\ point' = [ttl |-> Ttl, ts |-> ping[p].ts]
    /\ indexed' = TRUE /\ seenAge' = 0
    /\ overtook' = {s \in FleetSweepers : sweep[s] = "listed"}
    /\ ping' = PingsAs(p, "idle")
    /\ UNCHANGED <<vehicle, driverCache, admin, sweep, fleetEdits, fleetRaced>>

-----------------------------------------------------------------------------
(* updateVehicle and updateOperator, stopTracking. *)

\* The row changes first. Redis follows, best effort: it may be skipped.
FleetEdit(a, d, enabled) ==
    /\ admin[a].pc = "idle" /\ fleetEdits < MaxFleetEdits
    /\ [driver |-> d, enabled |-> enabled] # vehicle
    /\ vehicle' = [driver |-> d, enabled |-> enabled]
    /\ fleetEdits' = fleetEdits + 1
    /\ admin' = [admin EXCEPT ![a] =
          [pc |-> "written", drivers |-> {vehicle.driver, d} \cap Drivers,
           drop |-> ~enabled \/ d # vehicle.driver]]
    /\ UNCHANGED <<driverCache, point, indexed, seenAge, ping, sweep, overtook, fleetRaced>>

Invalidate(a) ==
    /\ admin[a].pc = "written"
    /\ driverCache' = [d \in Drivers |->
          IF d \in admin[a].drivers THEN [of |-> FALSE, ttl |-> 0] ELSE driverCache[d]]
    /\ admin' = [admin EXCEPT ![a].pc = IF admin[a].drop THEN "dropping" ELSE "idle"]
    /\ UNCHANGED <<vehicle, point, indexed, seenAge, ping, sweep, overtook, fleetEdits, fleetRaced>>

SkipRedis(a) ==
    /\ admin[a].pc \in {"written", "dropping"}
    /\ admin' = [admin EXCEPT ![a].pc = "idle"]
    /\ UNCHANGED <<vehicle, driverCache, point, indexed, seenAge, ping, sweep, overtook,
                   fleetEdits, fleetRaced>>

\* removeLive: one MULTI.
RemoveLive ==
    /\ point' = [point EXCEPT !.ttl = 0]
    /\ indexed' = FALSE /\ seenAge' = -1

DropLive(a) ==
    /\ admin[a].pc = "dropping"
    /\ RemoveLive
    /\ admin' = [admin EXCEPT ![a].pc = "idle"]
    /\ UNCHANGED <<vehicle, driverCache, ping, sweep, overtook, fleetEdits, fleetRaced>>

\* stopTracking: the driver leaves driver mode.
StopTracking(d) ==
    /\ vehicle.driver = d /\ (indexed \/ point.ttl > 0)
    /\ RemoveLive
    /\ UNCHANGED <<vehicle, driverCache, ping, admin, sweep, overtook, fleetEdits, fleetRaced>>

-----------------------------------------------------------------------------
(* claimExpired, and time. *)

SweepList(s) ==
    /\ sweep[s] = "idle"
    /\ seenAge = Ttl
    /\ sweep' = [sweep EXCEPT ![s] = "listed"]
    /\ overtook' = overtook \ {s}
    /\ UNCHANGED <<vehicle, driverCache, point, indexed, seenAge, ping, admin, fleetEdits,
                   fleetRaced>>

\* Variant of StillExpired that trusts the list.
StillExpired_Listed(s) == TRUE

\* CLAIM_EXPIRED removes the member if its score is still not above the cutoff.
StillExpired(s) == seenAge # -1 /\ s \notin overtook

SweepVehicle(s) ==
    /\ sweep[s] = "listed"
    /\ sweep' = [sweep EXCEPT ![s] = "idle"]
    /\ indexed' = (indexed /\ ~StillExpired(s))
    /\ seenAge' = IF StillExpired(s) THEN -1 ELSE seenAge
    /\ UNCHANGED <<vehicle, driverCache, point, ping, admin, overtook, fleetEdits, fleetRaced>>

\* An entry expires Ttl after it was set, whoever reads it meanwhile.
AgeCache(d) == [driverCache[d] EXCEPT !.ttl = IF @ > 0 THEN @ - 1 ELSE 0]

FleetTick ==
    /\ driverCache' = [d \in Drivers |-> AgeCache(d)]
    /\ point' = [point EXCEPT !.ttl = IF @ > 0 THEN @ - 1 ELSE 0]
    /\ seenAge' = IF seenAge \in 0..(Ttl - 1) THEN seenAge + 1 ELSE seenAge
    /\ UNCHANGED <<vehicle, indexed, ping, admin, sweep, overtook, fleetEdits, fleetRaced>>

-----------------------------------------------------------------------------
FleetInit ==
    /\ vehicle \in [driver : Drivers, enabled : {TRUE}]
    /\ driverCache = [d \in Drivers |-> [of |-> FALSE, ttl |-> 0]]
    /\ point = [ttl |-> 0, ts |-> 0] /\ indexed = FALSE /\ seenAge = -1
    /\ ping = [p \in Pings |-> NoPing]
    /\ admin = [a \in FleetAdmins |-> [pc |-> "idle", drivers |-> {}, drop |-> FALSE]]
    /\ sweep = [s \in FleetSweepers |-> "idle"]
    /\ overtook = {} /\ fleetEdits = 0 /\ fleetRaced = FALSE

PingStep(p) == PingLookup(p) \/ PingCache(p) \/ PingRead(p) \/ PingPut(p)

FleetStep(pings, admins) ==
    \/ \E p \in pings, d \in Drivers, ts \in 1..MaxStamp : PingStart(p, d, ts)
    \/ \E p \in pings : PingStep(p)
    \/ \E a \in admins : Invalidate(a) \/ SkipRedis(a) \/ DropLive(a)
    \/ \E a \in admins, d \in Drivers \cup {NoDriver}, e \in BOOLEAN : FleetEdit(a, d, e)
    \/ \E d \in Drivers : StopTracking(d)
    \/ \E s \in FleetSweepers : SweepList(s) \/ SweepVehicle(s)
    \/ FleetTick

FleetNext == FleetStep(Pings, FleetAdmins)

\* Requests end, the 5-second sweeper of some replica keeps running, and time
\* passes.
FleetFairness ==
    /\ \A p \in Pings : WF_fleetVars(PingStep(p))
    /\ WF_fleetVars(\E s \in FleetSweepers : SweepList(s))
    /\ \A s \in FleetSweepers : WF_fleetVars(SweepVehicle(s))
    /\ WF_fleetVars(FleetTick)

FleetSpec == FleetInit /\ [][FleetNext]_fleetVars /\ FleetFairness

-----------------------------------------------------------------------------
\* Every variable keeps its type.
FleetTypeOK ==
    /\ vehicle \in [driver : Drivers \cup {NoDriver}, enabled : BOOLEAN]
    /\ driverCache \in [Drivers -> [of : BOOLEAN, ttl : 0..Ttl]]
    /\ point \in [ttl : 0..Ttl, ts : 0..MaxStamp]
    /\ indexed \in BOOLEAN /\ seenAge \in -1..Ttl
    /\ \A p \in Pings : ping[p].pc \in {"idle", "lookup", "found", "absent", "resolved", "checked"}

\* A vehicle whose point is live is in the index, and the index and the seen set
\* have the same members: neither an overlapping sweep nor a drop hides a vehicle
\* that pings, and no member is left where the sweeper cannot find it.
LiveVehiclesAreFound ==
    /\ point.ttl > 0 => indexed
    /\ indexed <=> seenAge # -1

\* A live point is replaced only by a newer fix, unless two pings overlapped.
FixesMoveForward ==
    [][~fleetRaced /\ point.ttl > 0 /\ point'.ts # point.ts => point'.ts > point.ts]_fleetVars

\* A vehicle that is suspended for good leaves the map for good, although pings
\* keep coming, a stale cache entry may have been written after the change, and
\* Redis may have been skipped.
SuspendedVehiclesLeave ==
    <>[](~vehicle.enabled) => <>[](point.ttl = 0 /\ ~indexed)

\* The map and the sweeper agree on which vehicles are live, and positions follow
\* the drivers.
FleetIsTracked == [](FleetTypeOK /\ LiveVehiclesAreFound) /\ FixesMoveForward
=============================================================================
