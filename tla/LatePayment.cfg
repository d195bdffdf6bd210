\* Two orders after the same unit, paid before and after the sweeper cancels them;
\* every event is delivered again, but not while it is still being handled.
SPECIFICATION OrderSpec
CONSTANTS
    Inventories = {i1}
    Reservations = {r1, r2}
    Orders = {o1, o2}
    NoOrder = NoOrder
    NoInventory = NoInventory
    Sweepers = {}
    Adjusters = {}
    MaxQuantity = 1
    MaxOnHand = 1
    ClientRows = {}
    Releasable = {}
    Deliveries = {d1, d2, d3, d4}
    Cancels = {}
    Completions = {}
    Updates = {}
    Initiations = {}
    Reconcilers = {}
    OrderSweepers = {w1}
    Events = {e1, e2}
    NoEvent = NoEvent
    EventKinds = {"success"}
    Methods = {"GATEWAY"}
    RefundOutcomes = {"ok"}
    Overlapping = FALSE
    MaxCrashes = 0
    MaxSessions = 1
    MaxAttempts = 2
INVARIANTS
    RefundedAtMostOnce
PROPERTIES
    LatePaymentReturned
    StaleOrdersClose
CHECK_DEADLOCK FALSE
