\* The reservation sweeper against the payment of the order.
SPECIFICATION OrderSafety
CONSTANTS
    Inventories = {i1}
    Reservations = {r1}
    Orders = {o1}
    NoOrder = NoOrder
    NoInventory = NoInventory
    Sweepers = {s1}
    Adjusters = {}
    MaxQuantity = 1
    MaxOnHand = 1
    ClientRows = {}
    Releasable = {}
    Deliveries = {d1}
    Cancels = {}
    Completions = {}
    Updates = {}
    Initiations = {}
    Reconcilers = {}
    OrderSweepers = {}
    Events = {e1}
    NoEvent = NoEvent
    EventKinds = {"success"}
    Methods = {"GATEWAY"}
    RefundOutcomes = {"ok"}
    Overlapping = FALSE
    MaxCrashes = 0
    MaxSessions = 1
    MaxAttempts = 2
INVARIANTS
    PaidOrderKeepsHold
CHECK_DEADLOCK FALSE
