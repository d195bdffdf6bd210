---------------------------- MODULE InventoryStock ----------------------------
(***************************************************************************)
(* The stock ledger of mapanytime-api: the Inventory rows (quantityOnHand, *)
(* quantityReserved), the InventoryReservations rows that say who holds    *)
(* the reserved units, and the processes that move them:                   *)
(*   - checkout and the reservation endpoints (buyers),                    *)
(*   - the order handlers, which claim all the holds of an order at once,  *)
(*   - the TTL sweepers (server.ts and the worker each run one),           *)
(*   - restock and adjust (sellers).                                       *)
(*                                                                         *)
(* What the orders themselves do is left open here: an order may claim its *)
(* holds or complete at any time, and the set of orders whose holds the    *)
(* sweeper must spare is any set.  OrderLifecycle closes that gap and is   *)
(* shown to implement this specification.                                  *)
(*                                                                         *)
(* The database runs at READ COMMITTED.  A single UPDATE that tests and    *)
(* writes a row is one step; a read whose result is used by a later        *)
(* statement is a step of its own.                                         *)
(***************************************************************************)
EXTENDS Integers, FiniteSets

CONSTANTS
    Inventories,   \* ids of Inventory rows, one per product
    Reservations,  \* ids of InventoryReservations rows
    Orders,        \* ids of orders
    NoOrder,       \* orderId IS NULL
    NoInventory,   \* inventory of a row that does not exist yet
    Sweepers,      \* processes that run expireStaleReservations
    Adjusters,     \* calls of adjust, one stock correction each
    MaxQuantity,   \* largest quantity of one reservation
    MaxOnHand      \* bound on the stock a restock or an adjustment may leave

ASSUME StockConstants ==
    /\ IsFiniteSet(Reservations)
    /\ MaxQuantity \in Nat \ {0}
    /\ MaxOnHand \in Nat
    /\ NoOrder \notin Orders
    /\ NoInventory \notin Inventories

VARIABLES
    onHand,            \* Inventory.quantityOnHand
    quantityReserved,  \* Inventory.quantityReserved
    resv,              \* the InventoryReservations rows
    stale,             \* what each sweeper has read and not yet handled
    adjusting,         \* what each adjust call has read and not yet written
    movement           \* the last InventoryMovements row written

stockVars == <<onHand, quantityReserved, resv, stale, adjusting, movement>>

-----------------------------------------------------------------------------
(* Rows and quantities                                                     *)

\* RESERVATIONSTATUS, and "NONE" for a row that has not been created.
ReservationStatus == {"NONE", "RESERVED", "CONSUMED", "RELEASED", "EXPIRED"}

Reservation ==
    [status    : ReservationStatus,
     inventory : Inventories \cup {NoInventory},
     quantity  : 0..MaxQuantity,
     order     : Orders \cup {NoOrder},
     lapsed    : BOOLEAN]            \* expiresAt <= now

NoReservation ==
    [status |-> "NONE", inventory |-> NoInventory, quantity |-> 0,
     order |-> NoOrder, lapsed |-> FALSE]

\* One pair per unit of stock the rows of R hold, row r holding qty[r] units.
UnitsOf(R, qty) == {u \in R \X (1..MaxQuantity) : u[2] <= qty[u[1]]}

\* The quantity column of the table.
QuantityOf == [r \in Reservations |-> resv[r].quantity]

\* SUM(quantity) over the rows of R.
Quantity(R) == Cardinality(UnitsOf(R, QuantityOf))

\* The rows of R that hold stock of inventory row i.
On(R, i) == {r \in R : resv[r].inventory = i}

Active == {r \in Reservations : resv[r].status = "RESERVED"}

\* The still-held reservations of order o.
HoldsOf(o) == {r \in Active : resv[r].order = o}

Free == {r \in Reservations : resv[r].status = "NONE"}

Available(i) == onHand[i] - quantityReserved[i]

-----------------------------------------------------------------------------
(* The single-statement primitives of InventoryStockRepository             *)

\* Variant of ReserveRows without the availability test of tryReserve.
ReserveRows_Unconditional(R, inv, qty, o) ==
    LET taken(i) == Cardinality(UnitsOf({r \in R : inv[r] = i}, qty)) IN
    /\ quantityReserved' = [i \in Inventories |-> quantityReserved[i] + taken(i)]
    /\ resv' = [r \in Reservations |->
                  IF r \in R
                  THEN [status |-> "RESERVED", inventory |-> inv[r],
                        quantity |-> qty[r], order |-> o, lapsed |-> FALSE]
                  ELSE resv[r]]

\* tryReserve for every line of a checkout and the reservation rows it makes:
\* row r \in R takes qty[r] units of inv[r], held for order o.  The lines are
\* reserved one after the other in one transaction, so all of them fit or none
\* is taken.
ReserveRows(R, inv, qty, o) ==
    LET taken(i) == Cardinality(UnitsOf({r \in R : inv[r] = i}, qty)) IN
    /\ \A i \in Inventories : Available(i) >= taken(i) \/ taken(i) = 0
    /\ quantityReserved' = [i \in Inventories |-> quantityReserved[i] + taken(i)]
    /\ resv' = [r \in Reservations |->
                  IF r \in R
                  THEN [status |-> "RESERVED", inventory |-> inv[r],
                        quantity |-> qty[r], order |-> o, lapsed |-> FALSE]
                  ELSE resv[r]]

\* Variant of ClaimRows that gives stock back for every row it was asked to
\* claim, as the release paths did before F43.
ClaimRows_CreditAll(C, next) ==
    /\ resv' = [r \in Reservations |->
                  IF r \in C \cap Active THEN [resv[r] EXCEPT !.status = next]
                                        ELSE resv[r]]
    /\ quantityReserved' =
         [i \in Inventories |-> quantityReserved[i] - Quantity(On(C, i))]

\* claimReservation / claimOrderReservations and the decrement of
\* quantityReserved that follows it in the same transaction: the rows of C that
\* are still RESERVED move to `next` and only their units are given back.
ClaimRows(C, next) ==
    LET claimed == C \cap Active IN
    /\ resv' = [r \in Reservations |->
                  IF r \in claimed THEN [resv[r] EXCEPT !.status = next]
                                   ELSE resv[r]]
    /\ quantityReserved' =
         [i \in Inventories |-> quantityReserved[i] - Quantity(On(claimed, i))]

-----------------------------------------------------------------------------
StockTypeOK ==
    /\ onHand \in [Inventories -> Nat]
    /\ quantityReserved \in [Inventories -> Nat]
    /\ resv \in [Reservations -> Reservation]
    /\ \A r \in Active : resv[r].inventory \in Inventories
    /\ stale \in [Sweepers -> SUBSET Reservations]
    /\ adjusting \in [Adjusters -> [phase : {"idle", "read", "done"},
                                    inventory : Inventories \cup {NoInventory},
                                    target : 0..MaxOnHand, read : Nat]]
    /\ movement \in [inventory : Inventories \cup {NoInventory}, delta : Int]

NoMovement == [inventory |-> NoInventory, delta |-> 0]

StockInit ==
    /\ onHand \in [Inventories -> 0..MaxOnHand]
    /\ quantityReserved = [i \in Inventories |-> 0]
    /\ resv = [r \in Reservations |-> NoReservation]
    /\ stale = [s \in Sweepers |-> {}]
    /\ adjusting = [a \in Adjusters |->
                      [phase |-> "idle", inventory |-> NoInventory,
                       target |-> 0, read |-> 0]]
    /\ movement = NoMovement

-----------------------------------------------------------------------------
(* Buyers                                                                  *)

\* POST /reservations: a hold outside a checkout, with the order id (if any)
\* that the client sent.
ReserveStock(r, i, q, o) ==
    /\ r \in Free
    /\ q > 0
    /\ ReserveRows({r}, [x \in {r} |-> i], [x \in {r} |-> q], o)
    /\ UNCHANGED <<onHand, stale, adjusting, movement>>

\* The stock half of createOrder: the holds of all its lines, linked to it.
CheckoutHolds(R, inv, qty, o) ==
    /\ R # {} /\ R \subseteq Free
    /\ ReserveRows(R, inv, qty, o)
    /\ UNCHANGED <<onHand, stale, adjusting, movement>>

\* The buyer gives a hold back.  Releasing an ended hold changes nothing.
ReleaseReservation(r) ==
    /\ r \in Active
    /\ ClaimRows({r}, "RELEASED")
    /\ UNCHANGED <<onHand, stale, adjusting, movement>>

\* confirmReservation: the sale of one hold.  The CHECK constraint on
\* quantityOnHand aborts the transaction when the goods are not there.
ConsumeReservation(r, o) ==
    LET i == resv[r].inventory
        q == resv[r].quantity IN
    /\ r \in Active
    /\ onHand[i] >= q
    /\ onHand' = [onHand EXCEPT ![i] = @ - q]
    /\ quantityReserved' = [quantityReserved EXCEPT ![i] = @ - Quantity({r})]
    /\ resv' = [resv EXCEPT ![r].status = "CONSUMED", ![r].order = o]
    /\ movement' = [inventory |-> i, delta |-> -q]
    /\ UNCHANGED <<stale, adjusting>>

-----------------------------------------------------------------------------
(* Orders                                                                  *)

\* releaseOrderReservations, as every handler that closes an order calls it.
ReleaseOrderReservations(o, next) ==
    /\ ClaimRows(HoldsOf(o), next)
    /\ UNCHANGED <<onHand, stale, adjusting, movement>>

\* Variant of CompleteSale without the CHECK constraint on quantityOnHand.
CompleteSale_NoCheck(o, bought) ==
    /\ onHand' = [i \in Inventories |-> onHand[i] - bought[i]]
    /\ ClaimRows(HoldsOf(o), "CONSUMED")
    /\ UNCHANGED <<stale, adjusting, movement>>

\* The stock half of completeOrderInternal: take what was bought off the shelf
\* (the CHECK constraint refuses to go below zero) and end the holds.
CompleteSale(o, bought) ==
    /\ \A i \in Inventories : onHand[i] >= bought[i]
    /\ onHand' = [i \in Inventories |-> onHand[i] - bought[i]]
    /\ ClaimRows(HoldsOf(o), "CONSUMED")
    /\ UNCHANGED <<stale, adjusting, movement>>

-----------------------------------------------------------------------------
(* Sellers                                                                 *)

Restock(i, q) ==
    /\ onHand[i] + q <= MaxOnHand
    /\ onHand' = [onHand EXCEPT ![i] = @ + q]
    /\ UNCHANGED <<quantityReserved, resv, stale, adjusting, movement>>

\* adjustWithin reads the row ...
AdjustRead(a, i, target) ==
    /\ adjusting[a].phase = "idle"
    /\ adjusting' = [adjusting EXCEPT ![a] =
                       [phase |-> "read", inventory |-> i,
                        target |-> target, read |-> onHand[i]]]
    /\ UNCHANGED <<onHand, quantityReserved, resv, stale, movement>>

\* ... and, if the target differs from what it read, overwrites quantityOnHand
\* and records the difference to what it read.
AdjustWrite(a) ==
    LET i     == adjusting[a].inventory
        delta == adjusting[a].target - adjusting[a].read IN
    /\ adjusting[a].phase = "read"
    /\ adjusting' = [adjusting EXCEPT ![a].phase = "done"]
    /\ IF delta # 0
       THEN /\ onHand' = [onHand EXCEPT ![i] = adjusting[a].target]
            /\ movement' = [inventory |-> i, delta |-> delta]
       ELSE UNCHANGED <<onHand, movement>>
    /\ UNCHANGED <<quantityReserved, resv, stale>>

-----------------------------------------------------------------------------
(* Time and the sweepers                                                   *)

\* expiresAt passes.
Lapse(r) ==
    /\ r \in Active
    /\ ~resv[r].lapsed
    /\ resv' = [resv EXCEPT ![r].lapsed = TRUE]
    /\ UNCHANGED <<onHand, quantityReserved, stale, adjusting, movement>>

\* Variant of StaleRows whose join on the order drops the rows that have none.
StaleRows_InnerJoin(spared) ==
    {r \in Active : resv[r].lapsed /\ resv[r].order \in Orders \ spared}

\* The rows expireStaleReservations selects; `spared` is the set of orders in
\* PROCESSING or READY_FOR_PICKUP.
StaleRows(spared) ==
    {r \in Active : resv[r].lapsed /\ resv[r].order \notin spared}

SweepRead(s, spared) ==
    /\ stale[s] = {}
    /\ StaleRows(spared) # {}
    /\ stale' = [stale EXCEPT ![s] = StaleRows(spared)]
    /\ UNCHANGED <<onHand, quantityReserved, resv, adjusting, movement>>

\* Variant of SweepClaim that trusts the list: the row is stamped EXPIRED
\* whatever became of it, and only a live hold is given back.
SweepClaim_TrustRead(s, r) ==
    /\ r \in stale[s]
    /\ stale' = [stale EXCEPT ![s] = @ \ {r}]
    /\ resv' = [resv EXCEPT ![r].status = "EXPIRED"]
    /\ quantityReserved' = [i \in Inventories |->
          quantityReserved[i] - Quantity(On({r} \cap Active, i))]
    /\ UNCHANGED <<onHand, adjusting, movement>>

\* One row of the list: claimed again inside its own transaction.
SweepClaim(s, r) ==
    /\ r \in stale[s]
    /\ stale' = [stale EXCEPT ![s] = @ \ {r}]
    /\ ClaimRows({r}, "EXPIRED")
    /\ UNCHANGED <<onHand, adjusting, movement>>

\* The transaction for one row throws; the error is logged and the loop goes on.
SweepFail(s, r) ==
    /\ r \in stale[s]
    /\ stale' = [stale EXCEPT ![s] = @ \ {r}]
    /\ UNCHANGED <<onHand, quantityReserved, resv, adjusting, movement>>

-----------------------------------------------------------------------------
StockNext ==
    \/ \E r \in Reservations, i \in Inventories, q \in 1..MaxQuantity,
          o \in Orders \cup {NoOrder} : ReserveStock(r, i, q, o)
    \/ \E R \in SUBSET Reservations, o \in Orders :
          \E inv \in [R -> Inventories], qty \in [R -> 1..MaxQuantity] :
             CheckoutHolds(R, inv, qty, o)
    \/ \E r \in Reservations : ReleaseReservation(r)
    \/ \E r \in Reservations, o \in Orders : ConsumeReservation(r, o)
    \/ \E o \in Orders, next \in {"RELEASED", "EXPIRED"} :
          ReleaseOrderReservations(o, next)
    \/ \E o \in Orders, bought \in [Inventories -> 0..MaxOnHand] :
          CompleteSale(o, bought)
    \/ \E i \in Inventories, q \in 1..MaxQuantity : Restock(i, q)
    \/ \E a \in Adjusters, i \in Inventories, t \in 0..MaxOnHand : AdjustRead(a, i, t)
    \/ \E a \in Adjusters : AdjustWrite(a)
    \/ \E r \in Reservations : Lapse(r)
    \/ \E s \in Sweepers, spared \in SUBSET Orders : SweepRead(s, spared)
    \/ \E s \in Sweepers, r \in Reservations : SweepClaim(s, r)
    \/ \E s \in Sweepers, r \in Reservations : SweepFail(s, r)

StockSafety == StockInit /\ [][StockNext]_stockVars

\* Each sweep is started by a timer (server.ts) or a repeatable job (worker), so
\* a sweeper with something to read eventually reads it; a row that keeps being
\* selected is not met by a database error every single time.
StockFairness ==
    \A s \in Sweepers :
       /\ WF_stockVars(\E spared \in SUBSET Orders : SweepRead(s, spared))
       /\ WF_stockVars(\E r \in Reservations : SweepClaim(s, r) \/ SweepFail(s, r))
       /\ \A r \in Reservations : SF_stockVars(SweepClaim(s, r))

StockSpec == StockSafety /\ StockFairness

-----------------------------------------------------------------------------
(* Properties                                                              *)

\* quantityReserved of every inventory row is exactly the sum of the quantities
\* of the reservations that still hold it, whichever of the buyer, the order
\* handlers and the sweepers ended the others and in whatever order: no unit is
\* given back twice (F43) and none is lost.
HoldsMatchLedger ==
    \A i \in Inventories : quantityReserved[i] = Quantity(On(Active, i))

\* A hold ends once: after one of CONSUMED, RELEASED and EXPIRED no later claim,
\* sweep or release changes the reason, even when it read the row before.
HoldEndsOnce ==
    [][\A r \in Reservations :
          resv[r].status \in {"CONSUMED", "RELEASED", "EXPIRED"}
             => resv'[r].status = resv[r].status]_stockVars

\* A cart hold (one without an order) whose TTL has passed is eventually ended,
\* although sweeps overlap, lose rows to other claimers and fail on some rows.
LapsedCartHoldsEnd ==
    \A r \in Reservations :
       (r \in Active /\ resv[r].lapsed /\ resv[r].order = NoOrder) ~> r \notin Active
=============================================================================
