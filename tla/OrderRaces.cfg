\* One order, cash or gateway, met by everything that can close or complete it: two
\* deliveries (which may be of the same event), a cancellation, two completions, a
\* status update, the stale-order sweeper, crashes and every outcome of a refund.
SPECIFICATION OrderSafety
CONSTANTS
    Inventories = {i1}
    Reservations = {r1}
    Orders = {o1}
    NoOrder = NoOrder
    NoInventory = NoInventory
    Sweepers = {}
    Adjusters = {}
    MaxQuantity = 1
    MaxOnHand = 1
    ClientRows = {}
    Releasable = {}
    Deliveries = {d1, d2}
    Cancels = {c1, c2}
    Completions = {k1, k2}
    Updates = {u1}
    Initiations = {}
    Reconcilers = {}
    OrderSweepers = {w1}
    Events = {e1, e2}
    NoEvent = NoEvent
    EventKinds = {"success", "failure"}
    Methods = {"CASH", "GATEWAY"}
    RefundOutcomes = {"ok", "refused", "lost"}
    Overlapping = TRUE
    MaxCrashes = 1
    MaxSessions = 1
    MaxAttempts = 2
INVARIANTS
    OrderTypeOK
    ClosedOrdersHoldNothing
    ConsumedMeansBooked
    RefundsAreOfCapturedMoney
SYMMETRY RequestSymmetry
CHECK_DEADLOCK FALSE
