\* A payment tried again while the first session, the reconciliation job, a
\* cancellation, the reservation endpoints and the reservation sweeper run.
SPECIFICATION OrderSafety
CONSTANTS
    Inventories = {i1}
    Reservations = {r1, r2}
    Orders = {o1}
    NoOrder = NoOrder
    NoInventory = NoInventory
    Sweepers = {s1}
    Adjusters = {}
    MaxQuantity = 1
    MaxOnHand = 1
    ClientRows = {r2}
    Releasable = {r1}
    Deliveries = {d1}
    Cancels = {c1}
    Completions = {}
    Updates = {}
    Initiations = {n1}
    Reconcilers = {j1}
    OrderSweepers = {}
    Events = {e1}
    NoEvent = NoEvent
    EventKinds = {"success"}
    Methods = {"GATEWAY"}
    RefundOutcomes = {"ok"}
    Overlapping = FALSE
    MaxCrashes = 0
    MaxSessions = 2
    MaxAttempts = 2
INVARIANTS
    NoOversell
PROPERTIES
    StockSafety
CHECK_DEADLOCK FALSE
