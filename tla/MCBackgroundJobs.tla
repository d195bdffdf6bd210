---------------------------- MODULE MCBackgroundJobs ----------------------------
(***************************************************************************)
(* The components whose work is finished by a job, a sweep or a worker,     *)
(* with small instances.  Nothing they keep is shared, so they are checked  *)
(* side by side: `scope` says which of them a behaviour is about.           *)
(***************************************************************************)
EXTENDS AgentLedger, AdBilling, AdSchedule, EventBus, StoreApproval, LiveFleet, ViewRankings, TLC

CONSTANTS
    z1, g1,         \* a sale and the agent who recruited its seller
    b1, l1,         \* an ad that is billed and its seller
    n1, n2, w1, v1, \* two promotions, a product and a variant
    u1, d1, p1      \* an edit of an ad, a decision on a shop, a ping

\* The edit that meets the job, and the decision and the ping that meet the edits, are
\* among the others.
ASSUME JobsConstants == u1 \in AdEditors /\ d1 \in Decisions /\ p1 \in Pings

VARIABLE scope

jobsVars ==
    <<scope, agentVars, billingVars, scheduleVars, busVars, shopVars, fleetVars, rankingVars>>

-----------------------------------------------------------------------------
(* Values of the constants.                                                  *)

MCRecruiterOf == z1 :> g1

MCSaleBase == z1 :> 1

MCSellerOfAd == b1 :> l1

MCTotalBudget == b1 :> 3

MCEventCost == "CLICK" :> 2 @@ "CONVERSION" :> 0

\* The old promotion is of a product; sellers choose a variant of it or no product.
MCOldProducts == n1 :> {<<w1, NoVariant>>}

MCNewProducts == {{}, {<<w1, v1>>}}

\* A view names a product and its store, a click the product alone.
MCTargetType == "P" :> "PRODUCT" @@ "S" :> "STORE"

Shape(type, targets, session) == [type |-> type, targets |-> targets, session |-> session]

MCEventShapes == {Shape("PRODUCT_VIEW", {"P", "S"}, "s1"), Shape("PRODUCT_CLICK", {"P"}, "s1")}

MCNewWindows == {[startAt |-> 1, expiresAt |-> NoTime]}

-----------------------------------------------------------------------------
JobScopes == {"commissions", "ad spend", "ad edits", "ad news", "mails", "facts", "shop reviews", "shop edits",
              "fleet pings", "fleet admins", "rankings"}

JobsInit ==
    /\ scope \in JobScopes
    /\ AgentInit /\ BillingInit /\ ScheduleInit /\ BusInit /\ ShopInit /\ FleetInit
    /\ RankingInit

\* Edits of ads race edits, and one edit races the job on the ads it follows; decisions race decisions, and
\* one decision races the edits of the seller; pings race pings, and one driver races
\* the administrators.
JobsNext ==
    /\ UNCHANGED scope
    /\ \/ /\ scope = "commissions" /\ AgentNext
          /\ UNCHANGED <<billingVars, scheduleVars, busVars, shopVars, fleetVars, rankingVars>>
       \/ /\ scope = "ad spend" /\ BillingNext
          /\ UNCHANGED <<agentVars, scheduleVars, busVars, shopVars, fleetVars, rankingVars>>
       \/ /\ \/ scope = "ad edits" /\ ScheduleStep(AdEditors, {}, PromoAds)
             \/ scope = "ad news" /\ ScheduleStep({u1}, AdWorkers, OldAds)
          /\ UNCHANGED <<agentVars, billingVars, busVars, shopVars, fleetVars, rankingVars>>
       \/ /\ \/ scope = "mails" /\ BusStep(Mails)
             \/ scope = "facts" /\ BusStep(Messages \ Mails)
          /\ UNCHANGED <<agentVars, billingVars, scheduleVars, shopVars, fleetVars, rankingVars>>
       \/ /\ \/ scope = "shop reviews" /\ ShopStep(Decisions, {})
             \/ scope = "shop edits" /\ ShopStep({d1}, ShopEdits)
          /\ UNCHANGED <<agentVars, billingVars, scheduleVars, busVars, fleetVars, rankingVars>>
       \/ /\ \/ scope = "fleet pings" /\ FleetStep(Pings, {})
             \/ scope = "fleet admins" /\ FleetStep({p1}, FleetAdmins)
          /\ UNCHANGED <<agentVars, billingVars, scheduleVars, busVars, shopVars, rankingVars>>
       \/ /\ scope = "rankings" /\ RankingNext
          /\ UNCHANGED <<agentVars, billingVars, scheduleVars, busVars, shopVars, fleetVars>>

ScheduleHere == scope = "ad news"

BusHere == scope \in {"mails", "facts"}

ShopHere == scope \in {"shop reviews", "shop edits"}

FleetHere == scope \in {"fleet pings", "fleet admins"}

\* The fairness of each module, as far as the behaviour is about it.
JobsFairness ==
    /\ \A w \in Maturers :
         /\ WF_agentVars(MatureStart(w)) /\ WF_agentVars(MatureWrite(w))
         /\ \A o \in Sales : WF_agentVars(MatureRead(w, o))
    /\ \A w \in AdWorkers :
         /\ WF_scheduleVars(ScheduleHere /\ SweepAds(w))
         /\ WF_scheduleVars(ScheduleHere /\ \E ad \in PromoAds : PublishTransition(w, ad))
         /\ WF_scheduleVars(ScheduleHere /\ MarkNotified(w))
    /\ \A w \in Workers :
         /\ WF_busVars(BusHere /\ MailStep(w)) /\ WF_busVars(BusHere /\ BatchStep(w))
         /\ WF_busVars(BusHere /\ ShutdownEnds(w)) /\ WF_busVars(BusHere /\ StartWorker(w))
    /\ \A m \in Messages :
         /\ WF_busVars(BusHere /\ VisibilityTimeout(m)) /\ WF_busVars(BusHere /\ Redrive(m))
         /\ WF_busVars(BusHere /\ \E w \in Workers : Take(w, m))
    /\ \A s \in Shops : WF_shopVars(ShopHere /\ WindowEnds(s))
    /\ \A w \in Purgers : WF_shopVars(ShopHere /\ PurgeRead(w)) /\ WF_shopVars(ShopHere /\ PurgeWrite(w))
    /\ \A p \in Pings : WF_fleetVars(FleetHere /\ PingStep(p))
    /\ WF_fleetVars(FleetHere /\ \E s \in FleetSweepers : SweepList(s))
    /\ \A s \in FleetSweepers : WF_fleetVars(FleetHere /\ SweepVehicle(s))
    /\ WF_fleetVars(FleetHere /\ FleetTick)

JobsSpec == JobsInit /\ [][JobsNext]_jobsVars /\ JobsFairness

-----------------------------------------------------------------------------
(* Properties.                                                               *)

\* Money that jobs and events move adds up: the commissions of agents, and what ads
\* spend of a seller's wallet.
MoneyAddsUp == CommissionsAreSafe /\ SpendIsAccounted

\* The available balance of an agent and the marketing wallet of a seller are both
\* accounts: neither is overdrawn by more than the requests under way can do.
AccountsAreImplemented == AgentImplementsAccount /\ WalletImplementsAccount

\* What is left to a job, a sweep or a worker is done in the end, through overlaps,
\* failures, crashes and outages: commissions mature, ads are announced, events
\* settle, rejected stores are deleted, suspended vehicles leave the map.
WorkGetsDone ==
    /\ DueCommissionMatures /\ EventsSettle
    /\ scope = "ad edits" \/ AnnouncementCatchesUp
    /\ RejectedShopsGo /\ SuspendedVehiclesLeave
=============================================================================
