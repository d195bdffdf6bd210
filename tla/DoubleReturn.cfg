\* One order with one return and two decisions at once.
SPECIFICATION SettlementSafety
CONSTANTS
    Orders = {o1}
    Returns = {r1}
    NoOrder = NoOrder
    NoReturn = NoReturn
    Openers = {b1}
    Deciders = {d1, d2}
    Payouts = {}
    SettlementEdits = {}
    Releasers = {}
    ReturnWindow = 1
    SettlementHold = 1
    SellerNet = 2
    Commission = 1
    RefundOutcomes = {"ok"}
    MaxDay = 1
    MaxCompletions = 1
    MaxRefunds = 2
INVARIANTS
    GoodsReturnOnce
CHECK_DEADLOCK FALSE
