SPECIFICATION JobsSpec
CONSTANTS
    z1 = z1  g1 = g1  b1 = b1  l1 = l1  n1 = n1  n2 = n2  w1 = w1  v1 = v1  u1 = u1  d1 = d1  p1 = p1
    Agents = {g1}
    Sales = {z1}
    RecruiterOf <- MCRecruiterOf
    SaleBase <- MCSaleBase
    Rates = {0}
    Minimums = {1}
    PayoutAmounts = {1}
    PayoutIds = {p1, p2}
    Crediters = {c1, c2}
    PayoutRequests = {r1, r2}
    Approvers = {q1}
    Maturers = {w1, w2}
    RateEditors = {e1}
    MaxRateVersion = 1
    MaxFailures = 2
    NoAgent = NoAgent
    AdSellers = {l1}
    BilledAds = {b1}
    SellerOfAd <- MCSellerOfAd
    TotalBudget <- MCTotalBudget
    EventCost <- MCEventCost
    EventTypes = {"CLICK", "CONVERSION"}
    Trackers = {t1, t2}
    Depositors = {d1}
    DepositAmounts = {2}
    DepositKeys = {k1}
    MaxDeposited = 4
    NoAd = NoAd
    PromoAds = {n1, n2}
    OldAds = {n1}
    OldProducts <- MCOldProducts
    NewProducts <- MCNewProducts
    NoVariant = NoVariant
    AdEditors = {u1, u2}
    AdWorkers = {w1}
    MaxTime = 1
    MaxDeaths = 1
    NewWindows <- MCNewWindows
    StartPatches = {Keep}
    EndPatches = {NoTime}
    NoTime = NoTime
    Keep = Keep
    Messages = {m1, f1, f2, x1}
    Mails = {m1}
    Facts = {f1, f2}
    Workers = {w1, w2}
    BatchSize = 2
    MaxReceives = 2
    MaxOutages = 1
    MaxStops = 1
    MaxPublished = 2
    Nothing = Nothing
    Shops = {s1}
    Admins = {a1}
    Decisions = {d1, d2}
    ShopEdits = {e1}
    Purgers = {w1}
    MaxEdits = 1
    Nobody = Nobody
    Drivers = {d1}
    Pings = {p1, p2}
    FleetSweepers = {s1}
    FleetAdmins = {a1}
    Ttl = 1
    MaxStamp = 2
    MaxFleetEdits = 1
    NoDriver = NoDriver
    Sightings = {y1, y2}
    EventShapes <- MCEventShapes
    TargetType <- MCTargetType
    RollupRuns = {j1, j2}
    DayHours = 2
    MaxHour = 2
    RankingHours = 2
    NoCounts = NoCounts
INVARIANTS
    MoneyAddsUp PromotionsAreSound DeliveryIsSafe RankingsAreTrue
PROPERTIES
    AccountsAreImplemented ReviewIsSound FleetIsTracked WorkGetsDone
CHECK_DEADLOCK FALSE
