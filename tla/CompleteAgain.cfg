\* A second completion of a cash order.
SPECIFICATION OrderSafety
CONSTANTS
    Inventories = {i1}
    Reservations = {r1}
    Orders = {o1}
    NoOrder = NoOrder
    NoInventory = NoInventory
    Sweepers = {}
    Adjusters = {}
    MaxQuantity = 1
    MaxOnHand = 2
    ClientRows = {}
    Releasable = {}
    Deliveries = {}
    Cancels = {}
    Completions = {k1, k2}
    Updates = {u1, u2}
    Initiations = {}
    Reconcilers = {}
    OrderSweepers = {}
    Events = {}
    NoEvent = NoEvent
    EventKinds = {"success"}
    Methods = {"CASH"}
    RefundOutcomes = {"ok"}
    Overlapping = FALSE
    MaxCrashes = 0
    MaxSessions = 1
    MaxAttempts = 2
INVARIANTS
    SoldOncePerOrder
CHECK_DEADLOCK FALSE
