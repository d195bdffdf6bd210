\* A cancellation against the payment of the order.
SPECIFICATION OrderSafety
CONSTANTS
    Inventories = {i1}
    Reservations = {r1}
    Orders = {o1}
    NoOrder = NoOrder
    NoInventory = NoInventory
    Sweepers = {}
    Adjusters = {}
    MaxQuantity = 1
    MaxOnHand = 1
    ClientRows = {}
    Releasable = {}
    Deliveries = {d1}
    Cancels = {c1}
    Completions = {}
    Updates = {}
    Initiations = {}
    Reconcilers = {}
    OrderSweepers = {}
    Events = {e1}
    NoEvent = NoEvent
    EventKinds = {"success"}
    Methods = {"GATEWAY"}
    RefundOutcomes = {"ok"}
    Overlapping = FALSE
    MaxCrashes = 0
    MaxSessions = 1
    MaxAttempts = 2
PROPERTIES
    CancelReturnsMoney
CHECK_DEADLOCK FALSE
