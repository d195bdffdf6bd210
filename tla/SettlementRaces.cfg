\* One order, cash or gateway, one return, two
\* decisions that overlap, two payout runs, edits by an admin and the release job.
SPECIFICATION SettlementSpec
CONSTANTS
    Orders = {o1}
    Returns = {r1}
    NoOrder = NoOrder
    NoReturn = NoReturn
    Openers = {b1}
    Deciders = {d1, d2}
    Payouts = {p1, p2}
    SettlementEdits = {e1}
    Releasers = {j1}
    ReturnWindow = 1
    SettlementHold = 1
    SellerNet = 2
    Commission = 1
    RefundOutcomes = {"ok", "refused", "lost"}
    MaxDay = 1
    MaxCompletions = 1
    MaxRefunds = 2
INVARIANTS
    SettlementTypeOK
    NoDoublePayout
    RecordedRefundsWereSent
PROPERTIES
    RefundedSettlementStays
    SettlementsMature
CHECK_DEADLOCK FALSE
