\* Two sweepers that overlap, two holds, one order and one stock correction.
SPECIFICATION StockSpec
CONSTANTS
    Inventories = {i1}
    Reservations = {r1, r2}
    Orders = {o1}
    NoOrder = NoOrder
    NoInventory = NoInventory
    Sweepers = {s1, s2}
    Adjusters = {a1}
    MaxQuantity = 2
    MaxOnHand = 2
INVARIANTS
    StockTypeOK
    HoldsMatchLedger
PROPERTIES
    HoldEndsOnce
    LapsedCartHoldsEnd
