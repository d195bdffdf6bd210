------------------------- MODULE OrderLifecycleProofs -------------------------
(***************************************************************************)
(* The life of an order is right for any number of orders, inventory rows, *)
(* buyers, webhook deliveries, cancellations, completions, jobs, sweepers  *)
(* and crashes, and for every bound of the model.                          *)
(*                                                                         *)
(* None of the properties is inductive alone.  A refund is of captured     *)
(* money because the request that sends it read a row with a reference,    *)
(* that reference was stored by an event, and the event was a capture; the *)
(* row is still there because rows are never deleted.  OrderInv says this  *)
(* for every step a request can be at (RequestKnows), next to what the     *)
(* tables say of each other.                                               *)
(*                                                                         *)
(* The proof has one lemma per part of the state: the orders' own columns, *)
(* the gateway's books, the payment rows, the requests, the jobs' lists    *)
(* and the lines.  Each goes through the handlers once; OrderInvStep puts  *)
(* them together.                                                          *)
(*                                                                         *)
(* The stock ledger comes first, for every number of inventory rows,       *)
(* reservations, orders, sweepers and adjustments.  Its inductive          *)
(* invariant is the conjunction of the type invariant and                  *)
(* HoldsMatchLedger.  Neither is inductive alone: that quantityReserved    *)
(* never goes below zero follows from its being a number of held units,    *)
(* and the count of units needs the rows to be well typed.  The orders     *)
(* move the stock tables only as InventoryStock allows, so this invariant  *)
(* and its theorems carry over to them.                                    *)
(***************************************************************************)
EXTENDS OrderLifecycle, FiniteSetTheorems, TLAPS

-----------------------------------------------------------------------------
(* The stock ledger                                                        *)

StockInv == StockTypeOK /\ HoldsMatchLedger

-----------------------------------------------------------------------------
(* Counting units                                                          *)

\* Finitely many rows hold finitely many units.
LEMMA UnitsFinite ==
    ASSUME NEW R \in SUBSET Reservations, NEW qty
    PROVE  /\ IsFiniteSet(UnitsOf(R, qty))
           /\ Cardinality(UnitsOf(R, qty)) \in Nat
<1>1. IsFiniteSet(R)
  BY StockConstants, FS_Subset
<1>2. IsFiniteSet(1..MaxQuantity)
  BY StockConstants, FS_Interval
<1>3. IsFiniteSet(R \X (1..MaxQuantity))
  BY <1>1, <1>2, FS_Product
<1>4. UnitsOf(R, qty) \in SUBSET (R \X (1..MaxQuantity))
  BY DEF UnitsOf
<1>5. IsFiniteSet(UnitsOf(R, qty))
  BY <1>3, <1>4, FS_Subset
<1> QED
  BY <1>5, FS_CardinalityType

\* The units of two disjoint sets of rows add up.
LEMMA UnitsAdd ==
    ASSUME NEW R \in SUBSET Reservations, NEW T \in SUBSET Reservations,
           R \cap T = {}, NEW qty
    PROVE  Cardinality(UnitsOf(R \cup T, qty))
             = Cardinality(UnitsOf(R, qty)) + Cardinality(UnitsOf(T, qty))
<1>1. UnitsOf(R \cup T, qty) = UnitsOf(R, qty) \cup UnitsOf(T, qty)
  BY DEF UnitsOf
<1>2. UnitsOf(R, qty) \cap UnitsOf(T, qty) = {}
  BY DEF UnitsOf
<1>3. /\ IsFiniteSet(UnitsOf(R, qty)) /\ Cardinality(UnitsOf(R, qty)) \in Nat
      /\ IsFiniteSet(UnitsOf(T, qty)) /\ Cardinality(UnitsOf(T, qty)) \in Nat
  BY UnitsFinite
<1>4. Cardinality(UnitsOf(R, qty) \cup UnitsOf(T, qty))
        = Cardinality(UnitsOf(R, qty)) + Cardinality(UnitsOf(T, qty)) - Cardinality({})
  BY <1>2, <1>3, FS_Union
<1>5. Cardinality({}) = 0
  BY FS_EmptySet
<1> DEFINE cR == Cardinality(UnitsOf(R, qty))
           cT == Cardinality(UnitsOf(T, qty))
<1>6. Cardinality(UnitsOf(R \cup T, qty)) = cR + cT - 0
  BY <1>1, <1>4, <1>5, Zenon
<1>7. cR \in Nat /\ cT \in Nat
  BY <1>3
<1> HIDE DEF cR, cT
<1>8. cR + cT - 0 = cR + cT
  BY <1>7
<1> QED
  BY <1>6, <1>8, Zenon DEF cR, cT

\* Only the quantities of the rows counted matter.
LEMMA UnitsCongruent ==
    ASSUME NEW R \in SUBSET Reservations, NEW p, NEW q,
           \A r \in R : p[r] = q[r]
    PROVE  UnitsOf(R, p) = UnitsOf(R, q)
BY DEF UnitsOf

-----------------------------------------------------------------------------
(* What a claim and a reservation do to the ledger                         *)

\* When exactly the rows of C stop being held, no row changes its inventory or
\* its quantity, and the units of C are given back, the ledger stays right.
LEMMA EndingHolds ==
    ASSUME StockInv, NEW C \in SUBSET Active,
           resv' \in [Reservations -> Reservation],
           Active' = Active \ C,
           \A r \in Reservations : /\ resv'[r].inventory = resv[r].inventory
                                   /\ resv'[r].quantity = resv[r].quantity,
           quantityReserved' = [i \in Inventories |->
                                  quantityReserved[i] - Quantity(On(C, i))]
    PROVE  /\ quantityReserved' \in [Inventories -> Nat]
           /\ \A r \in Active' : resv'[r].inventory \in Inventories
           /\ HoldsMatchLedger'
<1>1. QuantityOf' = QuantityOf
  BY DEF QuantityOf
<1>2. ASSUME NEW i \in Inventories
      PROVE  /\ quantityReserved'[i] = Cardinality(UnitsOf(On(Active, i)', QuantityOf'))
             /\ quantityReserved'[i] \in Nat
  <2> DEFINE kept == On(Active \ C, i)
  <2>1. /\ On(C, i) \in SUBSET Reservations /\ kept \in SUBSET Reservations
        /\ On(C, i) \cap kept = {}
        /\ On(Active, i) = On(C, i) \cup kept
    BY DEF On, Active
  <2>2. On(Active, i)' = kept
    BY DEF On, Active
  <2>3. Quantity(On(Active, i)) = Quantity(On(C, i)) + Quantity(kept)
    <3> DEFINE ended == On(C, i)
    <3> HIDE DEF kept, ended
    <3>1. Cardinality(UnitsOf(ended \cup kept, QuantityOf))
            = Cardinality(UnitsOf(ended, QuantityOf)) + Cardinality(UnitsOf(kept, QuantityOf))
      BY <2>1, UnitsAdd DEF ended
    <3> QED
      BY <2>1, <3>1, Zenon DEF Quantity, ended
  <2>4. Quantity(On(C, i)) \in Nat /\ Quantity(kept) \in Nat
    BY <2>1, UnitsFinite DEF Quantity
  <2>5. quantityReserved[i] = Quantity(On(Active, i))
    BY DEF StockInv, HoldsMatchLedger
  <2>6. quantityReserved'[i] = Quantity(kept)
    BY <2>3, <2>4, <2>5
  <2> QED
    BY <2>2, <2>4, <2>6, <1>1 DEF Quantity
<1>3. HoldsMatchLedger'
  BY <1>2 DEF HoldsMatchLedger, Quantity
<1>4. \A r \in Active' : resv'[r].inventory \in Inventories
  BY DEF StockInv, StockTypeOK, Active
<1> QED
  BY <1>2, <1>3, <1>4

\* claimReservation and claimOrderReservations keep the ledger right, whichever
\* rows they are asked to claim.
LEMMA ClaimKeepsLedger ==
    ASSUME StockInv, NEW C \in SUBSET Reservations,
           NEW next \in {"CONSUMED", "RELEASED", "EXPIRED"}, ClaimRows(C, next)
    PROVE  /\ resv' \in [Reservations -> Reservation]
           /\ quantityReserved' \in [Inventories -> Nat]
           /\ \A r \in Active' : resv'[r].inventory \in Inventories
           /\ HoldsMatchLedger'
<1> DEFINE claimed == C \cap Active
<1>1. /\ resv' = [r \in Reservations |->
                    IF r \in claimed THEN [resv[r] EXCEPT !.status = next] ELSE resv[r]]
      /\ quantityReserved' = [i \in Inventories |->
                                quantityReserved[i] - Quantity(On(claimed, i))]
  BY DEF ClaimRows
<1>2. \A r \in Reservations : resv[r] \in Reservation
  BY DEF StockInv, StockTypeOK
<1>3. \A r \in Reservations : /\ resv'[r] \in Reservation
                              /\ resv'[r].inventory = resv[r].inventory
                              /\ resv'[r].quantity = resv[r].quantity
  BY <1>1, <1>2 DEF Reservation, ReservationStatus
<1>4. resv' \in [Reservations -> Reservation]
  BY <1>1, <1>3
<1>5. Active' = Active \ claimed
  BY <1>1, <1>2 DEF Active, Reservation
<1>6. claimed \in SUBSET Active
  OBVIOUS
<1> HIDE DEF claimed
<1> QED
  BY <1>1, <1>3, <1>4, <1>5, <1>6, EndingHolds

\* tryReserve adds to quantityReserved exactly the units of the rows created.
LEMMA ReserveKeepsLedger ==
    ASSUME StockInv, NEW R \in SUBSET Free,
           NEW inv \in [R -> Inventories], NEW qty \in [R -> 1..MaxQuantity],
           NEW o \in Orders \cup {NoOrder}, ReserveRows(R, inv, qty, o)
    PROVE  /\ resv' \in [Reservations -> Reservation]
           /\ quantityReserved' \in [Inventories -> Nat]
           /\ \A r \in Active' : resv'[r].inventory \in Inventories
           /\ HoldsMatchLedger'
<1> DEFINE row(r) == [status |-> "RESERVED", inventory |-> inv[r],
                      quantity |-> qty[r], order |-> o, lapsed |-> FALSE]
           new(i) == {r \in R : inv[r] = i}
<1>1. /\ resv' = [r \in Reservations |-> IF r \in R THEN row(r) ELSE resv[r]]
      /\ quantityReserved' = [i \in Inventories |->
            quantityReserved[i] + Cardinality(UnitsOf(new(i), qty))]
  BY DEF ReserveRows
<1>2. R \in SUBSET Reservations /\ R \cap Active = {}
  BY DEF Free, Active
<1>3. \A r \in Reservations : resv[r] \in Reservation
  BY DEF StockInv, StockTypeOK
<1>4. \A r \in R : row(r) \in Reservation
  BY StockConstants DEF Reservation, ReservationStatus
<1>5. resv' \in [Reservations -> Reservation]
  BY <1>1, <1>3, <1>4
<1>6. Active' = Active \cup R
  BY <1>1, <1>2 DEF Active
<1>7. \A r \in Active' : resv'[r].inventory \in Inventories
  <2>1. ASSUME NEW r \in R PROVE resv'[r].inventory \in Inventories
    BY <1>1, <1>2
  <2>2. ASSUME NEW r \in Active PROVE resv'[r].inventory \in Inventories
    <3>1. r \in Reservations /\ r \notin R
      BY <1>2 DEF Active
    <3>2. resv'[r] = resv[r]
      BY <1>1, <3>1
    <3> QED
      BY <3>2 DEF StockInv, StockTypeOK
  <2> QED
    BY <1>6, <2>1, <2>2
<1>8. ASSUME NEW i \in Inventories
      PROVE  /\ quantityReserved'[i] = Cardinality(UnitsOf(On(Active, i)', QuantityOf'))
             /\ quantityReserved'[i] \in Nat
  <2>1. /\ On(Active, i) \in SUBSET Reservations /\ new(i) \in SUBSET Reservations
        /\ On(Active, i) \cap new(i) = {}
    BY <1>2 DEF On, Active
  <2>2. On(Active, i)' = On(Active, i) \cup new(i)
    <3>1. \A r \in R : resv'[r].inventory = inv[r]
      BY <1>1, <1>2
    <3>2. \A r \in Active : resv'[r] = resv[r]
      BY <1>1, <1>2 DEF Active
    <3>3. On(Active, i)' = {r \in Active \cup R : resv'[r].inventory = i}
      BY <1>6 DEF On
    <3> QED
      BY <3>1, <3>2, <3>3 DEF On
  <2>3. \A r \in On(Active, i) : QuantityOf'[r] = QuantityOf[r]
    BY <1>1, <1>2, <2>1 DEF QuantityOf, On
  <2>4. \A r \in new(i) : QuantityOf'[r] = qty[r]
    BY <1>1, <1>2 DEF QuantityOf
  <2>5. UnitsOf(On(Active, i), QuantityOf') = UnitsOf(On(Active, i), QuantityOf)
    BY <2>1, <2>3, UnitsCongruent
  <2>6. UnitsOf(new(i), QuantityOf') = UnitsOf(new(i), qty)
    BY <2>1, <2>4, UnitsCongruent
  <2>7. Cardinality(UnitsOf(On(Active, i) \cup new(i), QuantityOf'))
          = Cardinality(UnitsOf(On(Active, i), QuantityOf'))
            + Cardinality(UnitsOf(new(i), QuantityOf'))
    BY <2>1, UnitsAdd
  <2>8. /\ Cardinality(UnitsOf(On(Active, i), QuantityOf)) \in Nat
        /\ Cardinality(UnitsOf(new(i), qty)) \in Nat
    BY <2>1, UnitsFinite
  <2>9. quantityReserved[i] = Cardinality(UnitsOf(On(Active, i), QuantityOf))
    BY DEF StockInv, HoldsMatchLedger, Quantity
  <2> HIDE DEF new
  <2> QED
    BY <1>1, <2>2, <2>5, <2>6, <2>7, <2>8, <2>9
<1>9. HoldsMatchLedger'
  BY <1>8 DEF HoldsMatchLedger, Quantity
<1> QED
  BY <1>1, <1>5, <1>7, <1>8, <1>9

-----------------------------------------------------------------------------
(* The invariant                                                           *)

\* The tables of a fresh database: no row holds stock and nothing is reserved.
LEMMA StockInvInit == StockInit => StockInv
<1> SUFFICES ASSUME StockInit PROVE StockInv
  OBVIOUS
<1>1. Active = {}
  BY DEF StockInit, Active, NoReservation
<1>2. NoReservation \in Reservation
  BY StockConstants DEF NoReservation, Reservation, ReservationStatus
<1>3. StockTypeOK
  BY <1>1, <1>2, StockConstants DEF StockInit, StockTypeOK, NoMovement
<1>4. ASSUME NEW i \in Inventories PROVE Quantity(On(Active, i)) = 0
  <2>1. UnitsOf(On(Active, i), QuantityOf) = {}
    BY <1>1 DEF UnitsOf, On
  <2> QED
    BY <2>1, FS_EmptySet DEF Quantity
<1> QED
  BY <1>3, <1>4 DEF StockInv, StockInit, HoldsMatchLedger

\* A step that leaves the two tables of the ledger alone keeps it right.
LEMMA LedgerUntouched ==
    ASSUME StockInv, UNCHANGED <<quantityReserved, resv>>
    PROVE  /\ resv' \in [Reservations -> Reservation]
           /\ quantityReserved' \in [Inventories -> Nat]
           /\ \A r \in Active' : resv'[r].inventory \in Inventories
           /\ HoldsMatchLedger'
BY DEF StockInv, StockTypeOK, HoldsMatchLedger, Active, On, Quantity, QuantityOf

\* Every operation on the stock tables keeps the types and the ledger, one case
\* per operation of the code.
LEMMA StockInvStep == StockInv /\ [StockNext]_stockVars => StockInv'
<1> SUFFICES ASSUME StockInv, [StockNext]_stockVars PROVE StockInv'
  OBVIOUS
<1> DEFINE Ledger == /\ resv' \in [Reservations -> Reservation]
                     /\ quantityReserved' \in [Inventories -> Nat]
                     /\ \A r \in Active' : resv'[r].inventory \in Inventories
                     /\ HoldsMatchLedger'
           Rest == /\ onHand' \in [Inventories -> Nat]
                   /\ stale' \in [Sweepers -> SUBSET Reservations]
                   /\ adjusting' \in [Adjusters -> [phase : {"idle", "read", "done"},
                                       inventory : Inventories \cup {NoInventory},
                                       target : 0..MaxOnHand, read : Nat]]
                   /\ movement' \in [inventory : Inventories \cup {NoInventory},
                                     delta : Int]
<1> SUFFICES Ledger /\ Rest
  BY DEF StockInv, StockTypeOK
<1> USE StockConstants
<1>0. /\ onHand \in [Inventories -> Nat]
      /\ stale \in [Sweepers -> SUBSET Reservations]
      /\ adjusting \in [Adjusters -> [phase : {"idle", "read", "done"},
                          inventory : Inventories \cup {NoInventory},
                          target : 0..MaxOnHand, read : Nat]]
      /\ movement \in [inventory : Inventories \cup {NoInventory}, delta : Int]
      /\ resv \in [Reservations -> Reservation]
      /\ \A r \in Active : r \in Reservations /\ resv[r].inventory \in Inventories
  BY DEF StockInv, StockTypeOK, Active
<1>1. ASSUME NEW r \in Reservations, NEW i \in Inventories, NEW q \in 1..MaxQuantity,
             NEW o \in Orders \cup {NoOrder}, ReserveStock(r, i, q, o)
      PROVE  Ledger /\ Rest
  <2>1. /\ {r} \in SUBSET Free
        /\ [x \in {r} |-> i] \in [{r} -> Inventories]
        /\ [x \in {r} |-> q] \in [{r} -> 1..MaxQuantity]
        /\ ReserveRows({r}, [x \in {r} |-> i], [x \in {r} |-> q], o)
    BY <1>1 DEF ReserveStock
  <2>2. Ledger
    BY <2>1, ReserveKeepsLedger
  <2> QED
    BY <1>0, <1>1, <2>2 DEF ReserveStock
<1>2. ASSUME NEW R \in SUBSET Reservations, NEW o \in Orders,
             NEW inv \in [R -> Inventories], NEW qty \in [R -> 1..MaxQuantity],
             CheckoutHolds(R, inv, qty, o)
      PROVE  Ledger /\ Rest
  <2>1. R \in SUBSET Free /\ ReserveRows(R, inv, qty, o)
    BY <1>2 DEF CheckoutHolds
  <2>2. Ledger
    BY <2>1, ReserveKeepsLedger
  <2> QED
    BY <1>0, <1>2, <2>2 DEF CheckoutHolds
<1>3. ASSUME NEW r \in Reservations, ReleaseReservation(r)
      PROVE  Ledger /\ Rest
  <2>1. Ledger
    BY <1>3, ClaimKeepsLedger DEF ReleaseReservation
  <2> QED
    BY <1>0, <1>3, <2>1 DEF ReleaseReservation
<1>4. ASSUME NEW r \in Reservations, NEW o \in Orders, ConsumeReservation(r, o)
      PROVE  Ledger /\ Rest
  <2> DEFINE i == resv[r].inventory
             q == resv[r].quantity
  <2>1. /\ r \in Active /\ i \in Inventories /\ q \in Nat
        /\ onHand[i] >= q
        /\ onHand' = [onHand EXCEPT ![i] = @ - q]
        /\ quantityReserved' = [quantityReserved EXCEPT ![i] = @ - Quantity({r})]
        /\ resv' = [resv EXCEPT ![r].status = "CONSUMED", ![r].order = o]
        /\ movement' = [inventory |-> i, delta |-> -q]
        /\ UNCHANGED <<stale, adjusting>>
    BY <1>0, <1>4 DEF ConsumeReservation, Reservation
  <2>2. \A x \in Reservations : /\ resv'[x] \in Reservation
                                /\ resv'[x].inventory = resv[x].inventory
                                /\ resv'[x].quantity = resv[x].quantity
    <3> SUFFICES ASSUME NEW x \in Reservations
                 PROVE  /\ resv'[x] \in Reservation
                        /\ resv'[x].inventory = resv[x].inventory
                        /\ resv'[x].quantity = resv[x].quantity
      OBVIOUS
    <3>1. CASE x = r
      <4>0. resv[x] \in Reservation
        BY <1>0
      <4>1. resv'[x] = [resv[x] EXCEPT !.status = "CONSUMED", !.order = o]
        BY <1>0, <2>1, <3>1
      <4> QED
        BY <4>0, <4>1 DEF Reservation, ReservationStatus
    <3>2. CASE x # r
      BY <1>0, <2>1, <3>2
    <3> QED
      BY <3>1, <3>2
  <2>3. resv' \in [Reservations -> Reservation]
    BY <1>0, <2>1, <2>2
  <2>4. Active' = Active \ {r}
    BY <1>0, <2>1 DEF Active, Reservation
  <2>5. ASSUME NEW j \in Inventories
        PROVE  quantityReserved'[j] = quantityReserved[j] - Quantity(On({r}, j))
    <3>0. quantityReserved \in [Inventories -> Nat]
      BY DEF StockInv, StockTypeOK
    <3>1. CASE j = i
      <4>1. On({r}, j) = {r}
        BY <3>1 DEF On
      <4> QED
        BY <2>1, <3>0, <3>1, <4>1
    <3>2. CASE j # i
      <4>1. UnitsOf(On({r}, j), QuantityOf) = {}
        BY <3>2 DEF UnitsOf, On
      <4>2. Quantity(On({r}, j)) = 0
        BY <4>1, FS_EmptySet DEF Quantity
      <4> QED
        BY <2>1, <3>0, <3>2, <4>2
    <3> QED
      BY <3>1, <3>2
  <2>6. quantityReserved' = [j \in Inventories |->
                               quantityReserved[j] - Quantity(On({r}, j))]
    <3>1. quantityReserved \in [Inventories -> Nat]
      BY DEF StockInv, StockTypeOK
    <3> QED
      BY <2>1, <2>5, <3>1
  <2>7. {r} \in SUBSET Active
    BY <2>1
  <2>8. Ledger
    BY <2>2, <2>3, <2>4, <2>6, <2>7, EndingHolds
  <2>9. onHand' \in [Inventories -> Nat]
    BY <1>0, <2>1
  <2>10. movement' \in [inventory : Inventories \cup {NoInventory}, delta : Int]
    BY <2>1
  <2> QED
    BY <1>0, <2>1, <2>8, <2>9, <2>10
<1>5. ASSUME NEW o \in Orders, NEW next \in {"RELEASED", "EXPIRED"},
             ReleaseOrderReservations(o, next)
      PROVE  Ledger /\ Rest
  <2>1. HoldsOf(o) \in SUBSET Reservations
    BY DEF HoldsOf, Active
  <2>2. Ledger
    BY <1>5, <2>1, ClaimKeepsLedger DEF ReleaseOrderReservations
  <2> QED
    BY <1>0, <1>5, <2>2 DEF ReleaseOrderReservations
<1>6. ASSUME NEW o \in Orders, NEW bought \in [Inventories -> 0..MaxOnHand],
             CompleteSale(o, bought)
      PROVE  Ledger /\ Rest
  <2>1. HoldsOf(o) \in SUBSET Reservations
    BY DEF HoldsOf, Active
  <2>2. Ledger
    BY <1>6, <2>1, ClaimKeepsLedger DEF CompleteSale
  <2>3. onHand' \in [Inventories -> Nat]
    BY <1>0, <1>6 DEF CompleteSale
  <2> QED
    BY <1>0, <1>6, <2>2, <2>3 DEF CompleteSale
<1>7. ASSUME NEW i \in Inventories, NEW q \in 1..MaxQuantity, Restock(i, q)
      PROVE  Ledger /\ Rest
  <2>1. Ledger
    BY <1>7, LedgerUntouched DEF Restock
  <2> QED
    <3>1. onHand' \in [Inventories -> Nat]
      BY <1>0, <1>7 DEF Restock
    <3> QED
      BY <1>0, <1>7, <2>1, <3>1 DEF Restock
<1>8. ASSUME NEW a \in Adjusters, NEW i \in Inventories, NEW t \in 0..MaxOnHand,
             AdjustRead(a, i, t)
      PROVE  Ledger /\ Rest
  <2>1. Ledger
    BY <1>8, LedgerUntouched DEF AdjustRead
  <2> QED
    BY <1>0, <1>8, <2>1 DEF AdjustRead
<1>9. ASSUME NEW a \in Adjusters, AdjustWrite(a)
      PROVE  Ledger /\ Rest
  <2>1. Ledger
    BY <1>9, LedgerUntouched DEF AdjustWrite
  <2> QED
    BY <1>0, <1>9, <2>1 DEF AdjustWrite
<1>10. ASSUME NEW r \in Reservations, Lapse(r)
       PROVE  Ledger /\ Rest
  <2>1. \A x \in Reservations : /\ resv'[x] \in Reservation
                                /\ resv'[x].inventory = resv[x].inventory
                                /\ resv'[x].quantity = resv[x].quantity
                                /\ resv'[x].status = resv[x].status
    <3> SUFFICES ASSUME NEW x \in Reservations
                 PROVE  /\ resv'[x] \in Reservation
                        /\ resv'[x].inventory = resv[x].inventory
                        /\ resv'[x].quantity = resv[x].quantity
                        /\ resv'[x].status = resv[x].status
      OBVIOUS
    <3>1. CASE x = r
      <4>0. resv[x] \in Reservation
        BY <1>0
      <4>1. resv'[x] = [resv[x] EXCEPT !.lapsed = TRUE]
        BY <1>0, <1>10, <3>1 DEF Lapse
      <4> QED
        BY <4>0, <4>1 DEF Reservation
    <3>2. CASE x # r
      BY <1>0, <1>10, <3>2 DEF Lapse
    <3> QED
      BY <3>1, <3>2
  <2>2. resv' \in [Reservations -> Reservation]
    BY <1>0, <1>10, <2>1 DEF Lapse
  <2>3. Active' = Active \ {}
    BY <2>1 DEF Active
  <2>4. \A j \in Inventories : Quantity(On({}, j)) = 0
    <3>1. \A j \in Inventories : UnitsOf(On({}, j), QuantityOf) = {}
      BY DEF UnitsOf, On
    <3> QED
      BY <3>1, FS_EmptySet DEF Quantity
  <2>5. quantityReserved' = [j \in Inventories |->
                               quantityReserved[j] - Quantity(On({}, j))]
    <3>1. quantityReserved \in [Inventories -> Nat]
      BY DEF StockInv, StockTypeOK
    <3> QED
      BY <1>10, <2>4, <3>1 DEF Lapse
  <2> DEFINE none == {}
  <2>6. none \in SUBSET Active
    OBVIOUS
  <2>7. /\ Active' = Active \ none
        /\ quantityReserved' = [j \in Inventories |->
                                  quantityReserved[j] - Quantity(On(none, j))]
    BY <2>3, <2>5
  <2>8. Ledger
    <3> HIDE DEF none
    <3> QED
      BY <2>1, <2>2, <2>6, <2>7, EndingHolds
  <2> QED
    BY <1>0, <1>10, <2>8 DEF Lapse
<1>11. ASSUME NEW s \in Sweepers, NEW spared \in SUBSET Orders, SweepRead(s, spared)
       PROVE  Ledger /\ Rest
  <2>1. Ledger
    BY <1>11, LedgerUntouched DEF SweepRead
  <2>2. StaleRows(spared) \in SUBSET Reservations
    BY DEF StaleRows, Active
  <2> QED
    BY <1>0, <1>11, <2>1, <2>2 DEF SweepRead
<1>12. ASSUME NEW s \in Sweepers, NEW r \in Reservations, SweepClaim(s, r)
       PROVE  Ledger /\ Rest
  <2>1. Ledger
    BY <1>12, ClaimKeepsLedger DEF SweepClaim
  <2> QED
    BY <1>0, <1>12, <2>1 DEF SweepClaim
<1>13. ASSUME NEW s \in Sweepers, NEW r \in Reservations, SweepFail(s, r)
       PROVE  Ledger /\ Rest
  <2>1. Ledger
    BY <1>13, LedgerUntouched DEF SweepFail
  <2> QED
    BY <1>0, <1>13, <2>1 DEF SweepFail
<1>14. CASE UNCHANGED stockVars
  <2>1. Ledger
    BY <1>14, LedgerUntouched DEF stockVars
  <2> QED
    BY <1>0, <1>14, <2>1 DEF stockVars
<1> HIDE DEF Ledger, Rest
<1> QED
  BY <1>1, <1>2, <1>3, <1>4, <1>5, <1>6, <1>7, <1>8, <1>9, <1>10, <1>11, <1>12,
     <1>13, <1>14 DEF StockNext

-----------------------------------------------------------------------------
(* The theorems                                                            *)

\* The inductive invariant holds throughout.
THEOREM StockInvariant == StockSafety => []StockInv
<1>1. StockInit => StockInv
  BY StockInvInit
<1>2. StockInv /\ [StockNext]_stockVars => StockInv'
  BY StockInvStep
<1> QED
  BY <1>1, <1>2, PTL DEF StockSafety

\* Type correctness of the stock tables; in particular no interleaving of
\* claims, sales and adjustments takes quantityOnHand or quantityReserved
\* below zero.
THEOREM StockTypeCorrect == StockSafety => []StockTypeOK
<1>1. StockInv => StockTypeOK
  BY DEF StockInv
<1> QED
  BY <1>1, StockInvariant, PTL

\* quantityReserved is the sum of the live holds, in every reachable state of
\* reserve, release, confirm, complete, restock, adjust and any number of
\* overlapping sweeps.
THEOREM LedgerCorrect == StockSafety => []HoldsMatchLedger
<1>1. StockInv => HoldsMatchLedger
  BY DEF StockInv
<1> QED
  BY <1>1, StockInvariant, PTL

\* Of several processes that try to end the same hold exactly one does: the
\* claim is conditional on RESERVED, so an ended hold keeps its reason.
THEOREM EndedHoldsStay == StockSafety => HoldEndsOnce
<1> DEFINE Ended(r) == resv[r].status \in {"CONSUMED", "RELEASED", "EXPIRED"}
           Kept == \A r \in Reservations : Ended(r) => resv'[r].status = resv[r].status
<1>1. StockInv /\ [StockNext]_stockVars => [Kept]_stockVars
  <2> SUFFICES ASSUME StockInv, StockNext PROVE Kept
    OBVIOUS
  <2> SUFFICES ASSUME NEW r \in Reservations, Ended(r) PROVE resv'[r] = resv[r]
    OBVIOUS
  <2>0. r \notin Active /\ r \notin Free
    BY DEF Active, Free
  <2>1. resv \in [Reservations -> Reservation]
    BY DEF StockInv, StockTypeOK
  <2>2. ASSUME NEW C, NEW next, ClaimRows(C, next)
        PROVE  resv'[r] = resv[r]
    BY <2>0, <2>2 DEF ClaimRows
  <2>3. ASSUME NEW R \in SUBSET Free, NEW inv, NEW qty, NEW o, ReserveRows(R, inv, qty, o)
        PROVE  resv'[r] = resv[r]
    BY <2>0, <2>3 DEF ReserveRows
  <2>4. ASSUME NEW x, NEW i, NEW q, NEW o, ReserveStock(x, i, q, o)
        PROVE  resv'[r] = resv[r]
    <3>1. {x} \in SUBSET Free
      BY <2>4 DEF ReserveStock
    <3> QED
      BY <2>3, <2>4, <3>1 DEF ReserveStock
  <2>5. ASSUME NEW R, NEW inv, NEW qty, NEW o, CheckoutHolds(R, inv, qty, o)
        PROVE  resv'[r] = resv[r]
    BY <2>3, <2>5 DEF CheckoutHolds
  <2>6. ASSUME NEW x, ReleaseReservation(x) PROVE resv'[r] = resv[r]
    BY <2>2, <2>6 DEF ReleaseReservation
  <2>7. ASSUME NEW x, NEW o, ConsumeReservation(x, o) PROVE resv'[r] = resv[r]
    BY <2>0, <2>1, <2>7 DEF ConsumeReservation
  <2>8. ASSUME NEW o, NEW next, ReleaseOrderReservations(o, next)
        PROVE  resv'[r] = resv[r]
    BY <2>2, <2>8 DEF ReleaseOrderReservations
  <2>9. ASSUME NEW o, NEW bought, CompleteSale(o, bought) PROVE resv'[r] = resv[r]
    BY <2>2, <2>9 DEF CompleteSale
  <2>10. ASSUME NEW x, Lapse(x) PROVE resv'[r] = resv[r]
    BY <2>0, <2>1, <2>10 DEF Lapse
  <2>11. ASSUME NEW s, NEW x, SweepClaim(s, x) PROVE resv'[r] = resv[r]
    BY <2>2, <2>11 DEF SweepClaim
  <2>12. ASSUME UNCHANGED resv PROVE resv'[r] = resv[r]
    BY <2>12
  <2> QED
    BY <2>4, <2>5, <2>6, <2>7, <2>8, <2>9, <2>10, <2>11, <2>12
       DEF StockNext, Restock, AdjustRead, AdjustWrite, SweepRead, SweepFail
<1> QED
  BY <1>1, StockInvariant, PTL DEF StockSafety, HoldEndsOnce

-----------------------------------------------------------------------------
(* The inductive invariant                                                 *)

\* No sale or return of the model takes the stock over its bound.
StockBounded == \A i \in Inventories : onHand[i] <= MaxOnHand

\* An order exists as long as its payment rows do, and before any session or
\* gateway call for it.
OrdersHavePayments ==
    \A o \in Orders :
       /\ Exists(o) <=> Len(payments[o]) >= 1
       /\ checkout[o] # "none" => Exists(o)
       /\ opened[o] > 0 => Exists(o)
       /\ paid[o] \subseteq 1..opened[o]

\* The holds named by an order's lines are its own, and are never new rows again.
LinesAreHolds ==
    \A o \in Orders : \A r \in items[o] : resv[r].order = o /\ resv[r].status # "NONE"

\* The gateway reports what happened.
EventsAreTrue ==
    \A e \in Events : events[e] # NoEvent =>
       /\ opened[events[e].order] > 0
       /\ events[e].kind = "success" => paid[events[e].order] # {}

\* The steps that write the payment row the request has read.
RowSteps == {"read", "closed", "refunding", "refunded", "refused", "marking",
             "cancelling", "rechecked", "completing", "reconciling"}

\* The steps at which a request is about to send money back, or has just tried.
RefundSteps == {"marking", "closed", "refunding", "refunded", "refused"}

\* What a request relies on between its steps: the order and the row it read are
\* still there, an event is about its order, a refund is of captured money, and
\* what is recorded as refunded was refunded.
RequestKnows(c) ==
    LET o == call[c].order
        pc == call[c].pc
        arg == call[c].arg IN
    /\ pc # "idle" => o \in Orders /\ Exists(o)
    /\ pc \in RowSteps => call[c].row \in DOMAIN payments[o]
    /\ pc = "saving" => call[c].row \in 0..Len(payments[o])
    /\ pc \in {"checked", "read"} =>
          arg \in Events /\ events[arg] # NoEvent /\ events[arg].order = o
    /\ pc = "updating" => arg \in {"PROCESSING", "READY_FOR_PICKUP"}
    /\ pc \in {"opening", "saving"} => arg \in {"CASH", "GATEWAY"}
    /\ pc \in RefundSteps => paid[o] # {}
    /\ pc = "refunded" => refunds[o] > 0
    /\ pc = "cancelling" => arg = "none"
    /\ pc = "rechecked" /\ arg = "refund" => refunds[o] > 0
    /\ pc = "reconciling" /\ arg = "succeeded" => paid[o] # {}

RequestsKnow == \A c \in Requests : RequestKnows(c)

\* A reference is stored on a row only by an event of captured money.
ReferencesAreOfPaidOrders ==
    \A o \in Orders : \A n \in DOMAIN payments[o] : payments[o][n].ref => paid[o] # {}

PendingRowsExist ==
    \A j \in Reconcilers : \A p \in pendingRows[j] :
       p.order \in Orders /\ Exists(p.order) /\ p.row \in DOMAIN payments[p.order]

OrderInv ==
    /\ OrderTypeOK /\ HoldsMatchLedger /\ StockBounded
    /\ OrdersHavePayments /\ LinesAreHolds /\ EventsAreTrue /\ RequestsKnow
    /\ ReferencesAreOfPaidOrders /\ PendingRowsExist
    /\ ClosedOrdersHoldNothing /\ ConsumedMeansBooked /\ RefundsAreOfCapturedMoney

-----------------------------------------------------------------------------
(* Payment rows                                                            *)

\* What replaces every row of a table by a row is a table again.
LEMMA RowwiseTyped ==
    ASSUME NEW S, NEW s \in Seq(S), NEW t \in [DOMAIN s -> S]
    PROVE  t \in Seq(S)
<1>1. DOMAIN s = 1..Len(s) /\ Len(s) \in Nat
  OBVIOUS
<1> QED
  BY <1>1

RowsKept(o) ==
    /\ payments' \in [Orders -> Seq(Payment)]
    /\ \A x \in Orders : x # o => payments'[x] = payments[x]
    /\ DOMAIN payments'[o] = DOMAIN payments[o]
    /\ \A n \in DOMAIN payments[o] : payments'[o][n].ref = payments[o][n].ref

\* Writing the status of one row leaves the rows and their references as they are.
LEMMA SetPaymentRows ==
    ASSUME payments \in [Orders -> Seq(Payment)], NEW o \in Orders,
           NEW row \in DOMAIN payments[o], NEW status \in PaymentStatus,
           SetPayment(o, row, status)
    PROVE  /\ RowsKept(o)
           /\ payments'[o][row].status = status
           /\ \A n \in DOMAIN payments[o] : n # row => payments'[o][n] = payments[o][n]
<1> DEFINE new == [payments[o] EXCEPT ![row].status = status]
<1>1. payments' = [payments EXCEPT ![o] = new]
  BY DEF SetPayment
<1>2. payments[o] \in Seq(Payment)
  OBVIOUS
<1>3. /\ payments[o][row] \in Payment
      /\ [payments[o][row] EXCEPT !.status = status] \in Payment
  <2>1. payments[o][row] \in Payment
    BY <1>2
  <2> QED
    BY <2>1 DEF Payment
<1>4. new \in Seq(Payment)
  BY <1>2, <1>3
<1>5. /\ DOMAIN new = DOMAIN payments[o]
      /\ new[row] = [payments[o][row] EXCEPT !.status = status]
      /\ \A n \in DOMAIN payments[o] : n # row => new[n] = payments[o][n]
  BY <1>2
<1>6. new[row].ref = payments[o][row].ref /\ new[row].status = status
  BY <1>3, <1>5 DEF Payment
<1> HIDE DEF new
<1>7. payments'[o] = new
  BY <1>1
<1>8. \A x \in Orders : x # o => payments'[x] = payments[x]
  BY <1>1
<1>9. payments' \in [Orders -> Seq(Payment)]
  BY <1>1, <1>4
<1> QED
  BY <1>5, <1>6, <1>7, <1>8, <1>9 DEF RowsKept

\* So does writing the status of all of them.
LEMMA SetPaymentsRows ==
    ASSUME payments \in [Orders -> Seq(Payment)], NEW o \in Orders,
           NEW status \in PaymentStatus, SetPayments(o, status)
    PROVE  /\ RowsKept(o)
           /\ \A n \in DOMAIN payments[o] : payments'[o][n].status = status
<1> DEFINE new == [n \in DOMAIN payments[o] |-> [payments[o][n] EXCEPT !.status = status]]
<1>1. payments' = [payments EXCEPT ![o] = new]
  BY DEF SetPayments
<1>2. payments[o] \in Seq(Payment)
  OBVIOUS
<1>3. DOMAIN payments[o] = 1..Len(payments[o]) /\ Len(payments[o]) \in Nat
  BY <1>2
<1>4. ASSUME NEW n \in DOMAIN payments[o]
      PROVE  /\ new[n] \in Payment
             /\ new[n].ref = payments[o][n].ref /\ new[n].status = status
  <2>1. payments[o][n] \in Payment
    BY <1>2
  <2> QED
    BY <2>1 DEF Payment
<1>5. new \in Seq(Payment)
  BY <1>3, <1>4
<1>6. DOMAIN new = DOMAIN payments[o]
  OBVIOUS
<1> HIDE DEF new
<1>7. payments'[o] = new
  BY <1>1
<1>8. \A x \in Orders : x # o => payments'[x] = payments[x]
  BY <1>1
<1>9. payments' \in [Orders -> Seq(Payment)]
  BY <1>1, <1>5
<1> QED
  BY <1>4, <1>6, <1>7, <1>8, <1>9 DEF RowsKept

-----------------------------------------------------------------------------
(* The orders move stock only through the operations of InventoryStock     *)

\* The pcs of requests that have read an order.
LEMMA RequestHasOrder ==
    ASSUME OrderInv, NEW c \in Requests, call[c].pc # "idle"
    PROVE  call[c].order \in Orders /\ Exists(call[c].order)
BY DEF OrderInv, RequestsKnow, RequestKnows

\* What an order bought is within what the ledger can count, when it is on the shelf.
LEMMA BoughtTyped ==
    ASSUME OrderInv, NEW o \in Orders,
           \A i \in Inventories : onHand[i] >= Bought(o)[i]
    PROVE  Bought(o) \in [Inventories -> 0..MaxOnHand]
<1> SUFFICES ASSUME NEW i \in Inventories
             PROVE  Quantity(On(items[o], i)) \in 0..MaxOnHand
  BY DEF Bought
<1>1. On(items[o], i) \in SUBSET Reservations
  BY DEF OrderInv, OrderTypeOK, On
<1>2. Quantity(On(items[o], i)) \in Nat
  BY <1>1, UnitsFinite DEF Quantity
<1>3. onHand[i] \in Nat /\ onHand[i] <= MaxOnHand
  BY DEF OrderInv, OrderTypeOK, StockTypeOK, StockBounded
<1>4. onHand[i] >= Quantity(On(items[o], i))
  BY DEF Bought
<1> QED
  BY <1>2, <1>3, <1>4, StockConstants

\* The requests, jobs and gateway change the stock tables only by reserving,
\* releasing, claiming and selling, as InventoryStock allows at any time.
LEMMA OrderStepIsStockStep ==
    ASSUME OrderInv, [OrderNext]_vars
    PROVE  [StockNext]_stockVars /\ StockBounded'
<1> USE DEF stockVars
<1>0. ASSUME NEW o \in Orders, NEW next \in {"RELEASED", "EXPIRED"},
             ReleaseOrderReservations(o, next)
      PROVE  StockNext /\ StockBounded'
  <2>1. StockNext
    BY <1>0 DEF StockNext
  <2>2. UNCHANGED onHand
    BY <1>0 DEF ReleaseOrderReservations
  <2> QED
    BY <2>1, <2>2 DEF OrderInv, StockBounded
<1>1. ASSUME UNCHANGED stockVars PROVE [StockNext]_stockVars /\ StockBounded'
  BY <1>1 DEF OrderInv, StockBounded
<1>2. ASSUME CheckoutNext PROVE [StockNext]_stockVars /\ StockBounded'
  <2>1. ASSUME NEW o \in Orders, NEW R \in SUBSET (Reservations \ ClientRows),
               NEW m \in Methods, NEW inv \in [R -> Inventories],
               NEW qty \in [R -> 1..MaxQuantity], CreateOrder(o, R, inv, qty, m)
        PROVE  [StockNext]_stockVars /\ StockBounded'
    <3>1. CheckoutHolds(R, inv, qty, o) /\ R \in SUBSET Reservations
      BY <2>1 DEF CreateOrder
    <3>2. StockNext
      BY <3>1 DEF StockNext
    <3>3. UNCHANGED onHand
      BY <3>1 DEF CheckoutHolds
    <3> QED
      BY <3>2, <3>3 DEF OrderInv, StockBounded
  <2>2. ASSUME NEW o \in Orders, CheckoutFails(o)
        PROVE  [StockNext]_stockVars /\ StockBounded'
    BY <1>0, <2>2 DEF CheckoutFails
  <2>3. ASSUME NEW o \in Orders, CheckoutOpens(o) PROVE UNCHANGED stockVars
    BY <2>3 DEF CheckoutOpens
  <2> QED
    BY <1>1, <1>2, <2>1, <2>2, <2>3 DEF CheckoutNext
<1>3. ASSUME GatewayNext PROVE UNCHANGED stockVars
  BY <1>3 DEF GatewayNext, Pay, DeclinePayment, GatewayRefund
<1>4. ASSUME NEW d \in Deliveries, DeliveryNext(d)
      PROVE  [StockNext]_stockVars /\ StockBounded'
  <2>1. ASSUME DeliveryFailure(d) PROVE [StockNext]_stockVars /\ StockBounded'
    <3>1. call[d].order \in Orders
      BY <2>1, RequestHasOrder, SMTT(30) DEF DeliveryFailure, Requests
    <3> QED
      BY <1>0, <2>1, <3>1 DEF DeliveryFailure
  <2>2. ASSUME ~DeliveryFailure(d) PROVE UNCHANGED stockVars
    BY <1>4, <2>2 DEF DeliveryNext, DeliveryStart, DeliveryRead, DeliverySuccess,
                      LateRefundClaim, LateRefundRecord
  <2> QED
    BY <1>1, <2>1, <2>2
<1>5. ASSUME NEW c \in Deliveries \cup Cancels, RefundFailed(c) PROVE UNCHANGED stockVars
  BY <1>5 DEF RefundFailed
<1>6. ASSUME NEW d \in Deliveries, DeliveryCrash(d) PROVE UNCHANGED stockVars
  BY <1>6 DEF DeliveryCrash
<1>7. ASSUME NEW c \in Cancels, CancelNext(c) PROVE [StockNext]_stockVars /\ StockBounded'
  <2>1. ASSUME CancelCommit(c) PROVE [StockNext]_stockVars /\ StockBounded'
    <3>1. call[c].order \in Orders
      BY <2>1, RequestHasOrder DEF CancelCommit, Requests
    <3> QED
      BY <1>0, <2>1, <3>1 DEF CancelCommit
  <2>2. ASSUME ~CancelCommit(c) PROVE UNCHANGED stockVars
    BY <1>7, <2>2 DEF CancelNext, CancelRead, CancelMark, CancelRecheck
  <2> QED
    BY <1>1, <2>1, <2>2
<1>8. ASSUME NEW k \in Completions, CompletionNext(k)
      PROVE  [StockNext]_stockVars /\ StockBounded'
  <2>1. ASSUME CompleteCommit(k) PROVE [StockNext]_stockVars /\ StockBounded'
    <3> DEFINE o == call[k].order
    <3>1. o \in Orders
      BY <2>1, RequestHasOrder DEF CompleteCommit, Requests
    <3>2. CompleteSale(o, Bought(o))
      BY <2>1 DEF CompleteCommit
    <3> HIDE DEF o
    <3>3. \A i \in Inventories : onHand[i] >= Bought(o)[i]
      BY <3>2 DEF CompleteSale
    <3>4. Bought(o) \in [Inventories -> 0..MaxOnHand]
      BY <3>1, <3>3, BoughtTyped
    <3>5. StockNext
      BY <3>1, <3>2, <3>4 DEF StockNext
    <3>6. onHand' = [i \in Inventories |-> onHand[i] - Bought(o)[i]]
      BY <3>2 DEF CompleteSale
    <3>7. StockBounded'
      <4> SUFFICES ASSUME NEW i \in Inventories PROVE onHand'[i] <= MaxOnHand
        BY DEF StockBounded
      <4>1. onHand[i] \in Nat /\ onHand[i] <= MaxOnHand /\ Bought(o)[i] \in Nat
        BY <3>4, StockConstants DEF OrderInv, OrderTypeOK, StockTypeOK, StockBounded
      <4> QED
        BY <3>6, <4>1, StockConstants
    <3> QED
      BY <3>5, <3>7
  <2>2. ASSUME ~CompleteCommit(k) PROVE UNCHANGED stockVars
    BY <1>8, <2>2 DEF CompletionNext, CompleteRead, CompleteAbort
  <2> QED
    BY <1>1, <2>1, <2>2
<1>9. ASSUME NEW u \in Updates, UpdateNext(u) PROVE UNCHANGED stockVars
  BY <1>9, SMTT(30) DEF UpdateNext, UpdateRead, UpdateWrite
<1>10. ASSUME NEW n \in Initiations, InitiationNext(n) PROVE UNCHANGED stockVars
  BY <1>10 DEF InitiationNext, InitiateRead, InitiateOpen, InitiateSave
<1>11. ASSUME NEW o \in Orders, Age(o) PROVE UNCHANGED stockVars
  BY <1>11 DEF Age
<1>12. ASSUME NEW s \in OrderSweepers, OrderSweepNext(s)
       PROVE  [StockNext]_stockVars /\ StockBounded'
  <2>1. ASSUME NEW o \in Orders, SweepOrder(s, o), orderStatus[o] = "PENDING"
        PROVE  [StockNext]_stockVars /\ StockBounded'
    BY <1>0, <2>1 DEF SweepOrder
  <2>2. ASSUME NEW o \in Orders, SweepOrder(s, o), orderStatus[o] # "PENDING"
        PROVE  UNCHANGED stockVars
    BY <2>2 DEF SweepOrder
  <2>3. ASSUME \A o \in Orders : ~SweepOrder(s, o) PROVE UNCHANGED stockVars
    BY <1>12, <2>3 DEF OrderSweepNext, SweepOrdersRead, SweepOrderFails
  <2> QED
    BY <1>1, <2>1, <2>2, <2>3
<1>13. ASSUME NEW j \in Reconcilers, ReconcileNext(j)
       PROVE  [StockNext]_stockVars /\ StockBounded'
  <2>1. ASSUME ReconcileApply(j) PROVE [StockNext]_stockVars /\ StockBounded'
    <3>1. call[j].order \in Orders
      BY <2>1, RequestHasOrder DEF ReconcileApply, Requests
    <3>2. UNCHANGED stockVars \/ ReleaseOrderReservations(call[j].order, "RELEASED")
      BY <2>1 DEF ReconcileApply
    <3> QED
      BY <1>0, <1>1, <3>1, <3>2
  <2>2. ASSUME ~ReconcileApply(j) PROVE UNCHANGED stockVars
    BY <1>13, <2>2 DEF ReconcileNext, ReconcileRead, ReconcileLookup
  <2> QED
    BY <1>1, <2>1, <2>2
<1>14. ASSUME HoldNext PROVE [StockNext]_stockVars /\ StockBounded'
  <2>1. StockNext
    <3>1. ASSUME NEW r \in ClientRows, NEW i \in Inventories, NEW q \in 1..MaxQuantity,
                 NEW o \in Orders \cup {NoOrder}, ClientReserve(r, i, q, o)
          PROVE  StockNext
      BY <3>1, OrderConstants DEF ClientReserve, StockNext
    <3>2. ASSUME NEW r \in Releasable, ClientRelease(r) PROVE StockNext
      BY <3>2, OrderConstants DEF ClientRelease, StockNext
    <3>3. ASSUME NEW r \in Reservations, HoldLapses(r) PROVE StockNext
      BY <3>3 DEF HoldLapses, StockNext
    <3>4. ASSUME NEW s \in Sweepers, HoldSweepRead(s) PROVE StockNext
      <4>1. PaidOrders \in SUBSET Orders
        BY DEF PaidOrders
      <4> QED
        BY <3>4, <4>1 DEF HoldSweepRead, StockNext
    <3>5. ASSUME NEW s \in Sweepers, NEW r \in Reservations, HoldSweepClaim(s, r)
          PROVE  StockNext
      BY <3>5 DEF HoldSweepClaim, StockNext
    <3> QED
      BY <1>14, <3>1, <3>2, <3>3, <3>4, <3>5 DEF HoldNext
  <2>2. UNCHANGED onHand
    BY <1>14 DEF HoldNext, ClientReserve, ClientRelease, HoldLapses, HoldSweepRead,
                 HoldSweepClaim, ReserveStock, ReleaseReservation, Lapse, SweepRead, SweepClaim
  <2> QED
    BY <2>1, <2>2 DEF OrderInv, StockBounded
<1>15. ASSUME UNCHANGED vars PROVE UNCHANGED stockVars
  BY <1>15 DEF vars
<1> QED
  BY <1>1, <1>2, <1>3, <1>4, <1>5, <1>6, <1>7, <1>8, <1>9, <1>10, <1>11, <1>12,
     <1>13, <1>14, <1>15 DEF OrderNext

-----------------------------------------------------------------------------
(* What never goes back                                                    *)

\* Orders are never deleted, sessions and captured money never disappear, refunds
\* are not undone and an event keeps its meaning.
Grows ==
    /\ \A o \in Orders : /\ orderStatus[o] # "NONE" => orderStatus'[o] # "NONE"
                         /\ opened[o] <= opened'[o]
                         /\ paid[o] \subseteq paid'[o]
                         /\ refunds[o] <= refunds'[o]
    /\ \A e \in Events : events[e] # NoEvent => events'[e] = events[e]

\* An order's own columns keep their types, and once there it stays.
LEMMA OrderTablesStep ==
    ASSUME OrderInv, [OrderNext]_vars
    PROVE  /\ orderStatus' \in [Orders -> OrderStatus]
           /\ items' \in [Orders -> SUBSET Reservations]
           /\ aged' \in [Orders -> BOOLEAN]
           /\ booked' \in [Orders -> BOOLEAN]
           /\ totalSold' \in [Inventories -> Nat]
           /\ checkout' \in [Orders -> {"none", "CASH", "GATEWAY", "done"}]
           /\ \A o \in Orders : /\ Exists(o) => orderStatus'[o] # "NONE"
                                /\ checkout'[o] # "none" => orderStatus'[o] # "NONE"
                                /\ orderStatus'[o] # "NONE" => Exists(o) \/ Len(payments'[o]) = 1
<1> DEFINE Status == /\ orderStatus' \in [Orders -> OrderStatus]
                     /\ \A o \in Orders :
                           /\ Exists(o) => orderStatus'[o] # "NONE"
                           /\ orderStatus'[o] # "NONE" => Exists(o) \/ Len(payments'[o]) = 1
           Rest == UNCHANGED <<items, aged, booked, totalSold, checkout>>
           Goal == /\ Status
                   /\ items' \in [Orders -> SUBSET Reservations]
                   /\ aged' \in [Orders -> BOOLEAN]
                   /\ booked' \in [Orders -> BOOLEAN]
                   /\ totalSold' \in [Inventories -> Nat]
                   /\ checkout' \in [Orders -> {"none", "CASH", "GATEWAY", "done"}]
                   /\ \A o \in Orders : checkout'[o] # "none" => orderStatus'[o] # "NONE"
<1> SUFFICES Goal
  OBVIOUS
<1> USE DEF orderVars
<1>0. /\ orderStatus \in [Orders -> OrderStatus]
      /\ items \in [Orders -> SUBSET Reservations]
      /\ aged \in [Orders -> BOOLEAN]
      /\ booked \in [Orders -> BOOLEAN]
      /\ totalSold \in [Inventories -> Nat]
      /\ checkout \in [Orders -> {"none", "CASH", "GATEWAY", "done"}]
      /\ payments \in [Orders -> Seq(Payment)]
      /\ \A o \in Orders : checkout[o] # "none" => Exists(o)
  BY DEF OrderInv, OrderTypeOK, OrdersHavePayments
<1>a. ASSUME UNCHANGED orderVars PROVE Goal
  BY <1>0, <1>a DEF Exists
<1>b. ASSUME NEW o \in Orders, Exists(o), NEW to \in OrderStatus \ {"NONE"}, Rest,
             orderStatus' = [orderStatus EXCEPT ![o] = to]
      PROVE  Goal
  <2>1. Status
    BY <1>0, <1>b DEF Exists
  <2> QED
    BY <1>0, <1>b, <2>1
<1>c. \A c \in Requests : call[c].pc # "idle" => call[c].order \in Orders /\ Exists(call[c].order)
  BY RequestHasOrder
<1> HIDE DEF Goal
<1>1. ASSUME CheckoutNext PROVE Goal
  <2>1. ASSUME NEW o \in Orders, NEW R \in SUBSET (Reservations \ ClientRows),
               NEW m \in Methods, NEW inv, NEW qty, CreateOrder(o, R, inv, qty, m)
        PROVE  Goal
    <3>1. /\ orderStatus' = [orderStatus EXCEPT ![o] = "PENDING"]
          /\ items' = [items EXCEPT ![o] = R]
          /\ checkout' = [checkout EXCEPT ![o] = m]
          /\ UNCHANGED <<aged, booked, totalSold>>
      BY <2>1 DEF CreateOrder
    <3>2. Len(payments'[o]) = 1
      BY <1>0, <2>1 DEF CreateOrder
    <3>3. Status
      BY <1>0, <3>1, <3>2 DEF Exists, OrderStatus
    <3>4. m \in {"CASH", "GATEWAY"}
      BY OrderConstants
    <3> QED
      BY <1>0, <3>1, <3>3, <3>4 DEF Goal, Exists
  <2>2. ASSUME NEW o \in Orders, CheckoutOpens(o) PROVE Goal
    <3>1. Exists(o)
      BY <1>0, <2>2, OrderConstants DEF CheckoutOpens
    <3> QED
      BY <1>0, <2>2, <3>1 DEF Goal, Exists, CheckoutOpens
  <2>3. ASSUME NEW o \in Orders, CheckoutFails(o) PROVE Goal
    <3>1. Exists(o)
      BY <1>0, <2>3 DEF CheckoutFails
    <3> QED
      BY <1>0, <2>3, <3>1 DEF Goal, Exists, CheckoutFails, OrderStatus
  <2> QED
    BY <1>1, <2>1, <2>2, <2>3 DEF CheckoutNext
<1>2. ASSUME GatewayNext PROVE Goal
  BY <1>2, <1>a DEF GatewayNext, Pay, DeclinePayment, GatewayRefund
<1>3. ASSUME NEW d \in Deliveries, DeliveryNext(d) PROVE Goal
  <2>1. ASSUME DeliverySuccess(d) \/ DeliveryFailure(d) PROVE Goal
    <3>1. call[d].order \in Orders /\ Exists(call[d].order)
      BY <1>c, <2>1 DEF DeliverySuccess, DeliveryFailure, Requests
    <3> QED
      BY <1>a, <1>b, <2>1, <3>1 DEF DeliverySuccess, DeliveryFailure, OrderStatus
  <2>2. ASSUME ~DeliverySuccess(d), ~DeliveryFailure(d) PROVE UNCHANGED orderVars
    BY <1>3, <2>2 DEF DeliveryNext, DeliveryStart, DeliveryRead, LateRefundClaim,
                      LateRefundRecord
  <2> QED
    BY <1>a, <2>1, <2>2, SMTT(30)
<1>4. ASSUME NEW c \in Deliveries \cup Cancels, RefundFailed(c) PROVE Goal
  BY <1>a, <1>4 DEF RefundFailed
<1>5. ASSUME NEW d \in Deliveries, DeliveryCrash(d) PROVE Goal
  BY <1>a, <1>5 DEF DeliveryCrash
<1>6. ASSUME NEW c \in Cancels, CancelNext(c) PROVE Goal
  <2>1. ASSUME CancelCommit(c) PROVE Goal
    <3>1. call[c].order \in Orders /\ Exists(call[c].order)
      BY <1>c, <2>1 DEF CancelCommit, Requests
    <3> QED
      BY <1>b, <2>1, <3>1 DEF CancelCommit, OrderStatus
  <2>2. ASSUME ~CancelCommit(c) PROVE UNCHANGED orderVars
    BY <1>6, <2>2 DEF CancelNext, CancelRead, CancelMark, CancelRecheck
  <2> QED
    BY <1>a, <2>1, <2>2
<1>7. ASSUME NEW k \in Completions, CompletionNext(k) PROVE Goal
  <2>1. ASSUME CompleteCommit(k) PROVE Goal
    <3> DEFINE o == call[k].order
    <3>1. o \in Orders /\ Exists(o)
      BY <1>c, <2>1 DEF CompleteCommit, Requests
    <3>2. /\ orderStatus' = [orderStatus EXCEPT ![o] = "COMPLETED"]
          /\ booked' = [booked EXCEPT ![o] = TRUE]
          /\ totalSold' = [i \in Inventories |-> totalSold[i] + Bought(o)[i]]
          /\ \A i \in Inventories : onHand[i] >= Bought(o)[i]
          /\ UNCHANGED <<items, aged, checkout>>
      BY <2>1 DEF CompleteCommit, CompleteSale
    <3> HIDE DEF o
    <3>3. Bought(o) \in [Inventories -> 0..MaxOnHand]
      BY <3>1, <3>2, BoughtTyped
    <3>4. totalSold' \in [Inventories -> Nat]
      BY <1>0, <3>2, <3>3, StockConstants
    <3> QED
      BY <1>0, <3>1, <3>2, <3>4 DEF Goal, Exists, OrderStatus
  <2>2. ASSUME ~CompleteCommit(k) PROVE UNCHANGED orderVars
    BY <1>7, <2>2 DEF CompletionNext, CompleteRead, CompleteAbort
  <2> QED
    BY <1>a, <2>1, <2>2
<1>8. ASSUME NEW u \in Updates, UpdateNext(u) PROVE Goal
  <2>1. ASSUME UpdateWrite(u) PROVE Goal
    <3>1. u \in Requests
      BY DEF Requests
    <3>2. /\ call[u].order \in Orders /\ Exists(call[u].order)
          /\ call[u].arg \in {"PROCESSING", "READY_FOR_PICKUP"}
      BY <1>c, <2>1, <3>1 DEF UpdateWrite, OrderInv, RequestsKnow, RequestKnows
    <3> QED
      BY <1>b, <2>1, <3>2 DEF UpdateWrite, OrderStatus
  <2>2. ASSUME ~UpdateWrite(u) PROVE UNCHANGED orderVars
    BY <1>8, <2>2, SMTT(30) DEF UpdateNext, UpdateRead
  <2> QED
    BY <1>a, <2>1, <2>2
<1>9. ASSUME NEW n \in Initiations, InitiationNext(n) PROVE Goal
  BY <1>a, <1>9 DEF InitiationNext, InitiateRead, InitiateOpen, InitiateSave
<1>10. ASSUME NEW o \in Orders, Age(o) PROVE Goal
  BY <1>0, <1>10 DEF Goal, Age, Exists
<1>11. ASSUME NEW s \in OrderSweepers, OrderSweepNext(s) PROVE Goal
  <2>1. ASSUME NEW o \in Orders, SweepOrder(s, o) PROVE Goal
    <3>1. orderStatus[o] = "PENDING" => Exists(o)
      BY DEF Exists
    <3> QED
      BY <1>a, <1>b, <2>1, <3>1 DEF SweepOrder, OrderStatus
  <2>2. ASSUME \A o \in Orders : ~SweepOrder(s, o) PROVE UNCHANGED orderVars
    BY <1>11, <2>2 DEF OrderSweepNext, SweepOrdersRead, SweepOrderFails
  <2> QED
    BY <1>a, <2>1, <2>2
<1>12. ASSUME NEW j \in Reconcilers, ReconcileNext(j) PROVE Goal
  <2>1. ASSUME ReconcileApply(j) PROVE Goal
    <3>1. call[j].order \in Orders /\ Exists(call[j].order)
      BY <1>c, <2>1 DEF ReconcileApply, Requests
    <3> QED
      BY <1>a, <1>b, <2>1, <3>1 DEF ReconcileApply, OrderStatus
  <2>2. ASSUME ~ReconcileApply(j) PROVE UNCHANGED orderVars
    BY <1>12, <2>2 DEF ReconcileNext, ReconcileRead, ReconcileLookup
  <2> QED
    BY <1>a, <2>1, <2>2
<1>13. ASSUME HoldNext PROVE Goal
  BY <1>a, <1>13 DEF HoldNext, ClientReserve, ClientRelease, HoldLapses, HoldSweepRead,
                     HoldSweepClaim, lifeVars
<1>14. ASSUME UNCHANGED vars PROVE Goal
  BY <1>a, <1>14 DEF vars, lifeVars
<1> QED
  BY <1>1, <1>2, <1>3, <1>4, <1>5, <1>6, <1>7, <1>8, <1>9, <1>10, <1>11, <1>12,
     <1>13, <1>14 DEF OrderNext

\* The gateway's books and what the deliveries record of them.
LEMMA GatewayStep ==
    ASSUME OrderInv, [OrderNext]_vars
    PROVE  /\ feeKept' \in [Orders -> BOOLEAN]
           /\ processed' \in [Events -> BOOLEAN]
           /\ opened' \in [Orders -> 0..MaxSessions]
           /\ paid' \in [Orders -> SUBSET (1..MaxSessions)]
           /\ refunds' \in [Orders -> Nat]
           /\ events' \in [Events -> [order : Orders, kind : {"success", "failure"}]
                                     \cup {NoEvent}]
           /\ Grows
           /\ \A o \in Orders : /\ opened'[o] > 0 => orderStatus'[o] # "NONE"
                                /\ paid'[o] \subseteq 1..opened'[o]
           /\ EventsAreTrue'
<1> DEFINE Typed == /\ opened' \in [Orders -> 0..MaxSessions]
                    /\ paid' \in [Orders -> SUBSET (1..MaxSessions)]
                    /\ refunds' \in [Orders -> Nat]
                    /\ events' \in [Events -> [order : Orders, kind : {"success", "failure"}]
                                              \cup {NoEvent}]
           Books == /\ Typed
                    /\ \A o \in Orders : /\ opened[o] <= opened'[o]
                                         /\ paid[o] \subseteq paid'[o]
                                         /\ refunds[o] <= refunds'[o]
                                         /\ opened'[o] > 0 => Exists(o)
                                         /\ paid'[o] \subseteq 1..opened'[o]
                    /\ \A e \in Events : events[e] # NoEvent => events'[e] = events[e]
                    /\ EventsAreTrue'
           Marks == /\ feeKept' \in [Orders -> BOOLEAN]
                    /\ processed' \in [Events -> BOOLEAN]
<1> USE DEF paymentVars, gatewayVars
<1>0. /\ opened \in [Orders -> 0..MaxSessions]
      /\ paid \in [Orders -> SUBSET (1..MaxSessions)]
      /\ refunds \in [Orders -> Nat]
      /\ events \in [Events -> [order : Orders, kind : {"success", "failure"}] \cup {NoEvent}]
      /\ feeKept \in [Orders -> BOOLEAN]
      /\ processed \in [Events -> BOOLEAN]
      /\ \A o \in Orders : /\ opened[o] > 0 => Exists(o)
                           /\ checkout[o] # "none" => Exists(o)
                           /\ paid[o] \subseteq 1..opened[o]
      /\ EventsAreTrue
  BY DEF OrderInv, OrderTypeOK, OrdersHavePayments
<1>a. ASSUME UNCHANGED gatewayVars PROVE Books
  BY <1>0, <1>a, OrderConstants DEF EventsAreTrue
<1>b. ASSUME UNCHANGED <<feeKept, processed>> PROVE Marks
  BY <1>0, <1>b
<1>c. ASSUME NEW o \in Orders, Exists(o), opened[o] + 1 <= MaxSessions,
             opened' = [opened EXCEPT ![o] = opened[o] + 1], UNCHANGED <<paid, refunds, events>>
      PROVE  Books
  <2>1. Typed
    BY <1>0, <1>c, OrderConstants
  <2>2. \A x \in Orders : opened[x] \in Nat /\ opened'[x] \in Nat /\ opened[x] <= opened'[x]
    BY <1>0, <1>c, OrderConstants
  <2>3. EventsAreTrue'
    BY <1>0, <1>c, <2>2 DEF EventsAreTrue
  <2>4. \A x \in Orders : paid'[x] \subseteq 1..opened'[x]
    BY <1>0, <1>c, <2>2
  <2>5. \A x \in Orders : opened'[x] > 0 => Exists(x)
    BY <1>0, <1>c
  <2> QED
    BY <1>0, <1>c, <2>1, <2>2, <2>3, <2>4, <2>5
<1> HIDE DEF Books, Marks
<1>1. ASSUME CheckoutNext PROVE Books /\ Marks
  <2>1. ASSUME NEW o \in Orders, NEW R, NEW m, NEW inv, NEW qty, CreateOrder(o, R, inv, qty, m)
        PROVE  Books /\ Marks
    BY <1>a, <1>b, <2>1 DEF CreateOrder
  <2>2. ASSUME NEW o \in Orders, CheckoutOpens(o) PROVE Books /\ Marks
    <3>1. Exists(o)
      BY <1>0, <2>2, OrderConstants DEF CheckoutOpens
    <3> QED
      BY <1>a, <1>b, <1>c, <2>2, <3>1 DEF CheckoutOpens
  <2>3. ASSUME NEW o \in Orders, CheckoutFails(o) PROVE Books /\ Marks
    BY <1>a, <1>b, <2>3 DEF CheckoutFails
  <2> QED
    BY <1>1, <2>1, <2>2, <2>3 DEF CheckoutNext
<1>2. ASSUME GatewayNext PROVE Books /\ Marks
  <2>1. ASSUME NEW o \in Orders, NEW e \in Events, NEW s \in 1..MaxSessions, Pay(o, s, e)
        PROVE  Books
    <3>1. /\ paid' = [paid EXCEPT ![o] = @ \cup {s}]
          /\ events' = [events EXCEPT ![e] = [order |-> o, kind |-> "success"]]
          /\ events[e] = NoEvent /\ s \in 1..opened[o]
          /\ UNCHANGED <<opened, refunds>>
      BY <2>1 DEF Pay
    <3>2. opened[o] \in Nat /\ opened[o] > 0
      BY <1>0, <3>1, OrderConstants
    <3>3. Typed
      BY <1>0, <3>1
    <3>4. EventsAreTrue'
      <4> SUFFICES ASSUME NEW x \in Events, events'[x] # NoEvent
                   PROVE  /\ opened[events'[x].order] > 0
                          /\ events'[x].kind = "success" => paid'[events'[x].order] # {}
        BY <3>1 DEF EventsAreTrue
      <4>1. CASE x = e
        BY <1>0, <3>1, <3>2, <4>1
      <4>2. CASE x # e
        <5>1. events'[x] = events[x]
          BY <1>0, <3>1, <4>2
        <5>2. events[x].order \in Orders
          BY <1>0, <5>1
        <5>3. paid[events[x].order] \subseteq paid'[events[x].order]
          BY <1>0, <3>1, <5>2
        <5> QED
          BY <1>0, <5>1, <5>3 DEF EventsAreTrue
      <4> QED
        BY <4>1, <4>2
    <3>5. \A x \in Orders : paid[x] \subseteq paid'[x] /\ paid'[x] \subseteq 1..opened[x]
      BY <1>0, <3>1
    <3> QED
      BY <1>0, <3>1, <3>3, <3>4, <3>5, OrderConstants DEF Books
  <2>2. ASSUME NEW o \in Orders, NEW e \in Events, DeclinePayment(o, e)
        PROVE  Books
    <3>1. /\ events' = [events EXCEPT ![e] = [order |-> o, kind |-> "failure"]]
          /\ events[e] = NoEvent /\ paid[o] # 1..opened[o]
          /\ UNCHANGED <<opened, paid, refunds>>
      BY <2>2 DEF DeclinePayment
    <3>2. opened[o] \in Nat /\ opened[o] > 0
      <4>1. opened[o] \in Nat
        BY <1>0, OrderConstants
      <4>2. opened[o] = 0 => paid[o] = 1..opened[o]
        BY <1>0
      <4> QED
        BY <3>1, <4>1, <4>2
    <3>3. Typed
      BY <1>0, <3>1
    <3>4. EventsAreTrue'
      BY <1>0, <3>1, <3>2 DEF EventsAreTrue
    <3> QED
      BY <1>0, <3>1, <3>3, <3>4, OrderConstants DEF Books
  <2>3. ASSUME NEW c \in Deliveries \cup Cancels, NEW out, GatewayRefund(c, out)
        PROVE  Books
    <3>1. call[c].order \in Orders
      BY <2>3, RequestHasOrder DEF GatewayRefund, Requests
    <3>2. /\ refunds' = refunds \/ refunds' = [refunds EXCEPT ![call[c].order] = @ + 1]
          /\ UNCHANGED <<opened, paid, events>>
      BY <2>3 DEF GatewayRefund
    <3>3. EventsAreTrue'
      BY <1>0, <3>2 DEF EventsAreTrue
    <3> QED
      BY <1>0, <3>1, <3>2, <3>3, OrderConstants DEF Books
  <2>4. Marks
    BY <1>b, <1>2 DEF GatewayNext, Pay, DeclinePayment, GatewayRefund
  <2> QED
    BY <1>2, <2>1, <2>2, <2>3, <2>4 DEF GatewayNext
<1>3. ASSUME NEW d \in Deliveries, DeliveryNext(d) PROVE Books /\ Marks
  <2>1. Books
    BY <1>a, <1>3 DEF DeliveryNext, DeliveryStart, DeliveryRead, DeliverySuccess,
                      DeliveryFailure, LateRefundClaim, LateRefundRecord
  <2>2. Marks
    <3>1. \/ UNCHANGED processed
          \/ processed' = [processed EXCEPT ![call[d].arg] = TRUE]
      BY <1>3 DEF DeliveryNext, DeliveryStart, DeliveryRead, DeliverySuccess,
                  DeliveryFailure, LateRefundClaim, LateRefundRecord
    <3>2. \/ UNCHANGED feeKept
          \/ feeKept' = [feeKept EXCEPT ![call[d].order] = TRUE]
      BY <1>3 DEF DeliveryNext, DeliveryStart, DeliveryRead, DeliverySuccess,
                  DeliveryFailure, LateRefundClaim, LateRefundRecord
    <3> QED
      BY <1>0, <3>1, <3>2 DEF Marks
  <2> QED
    BY <2>1, <2>2, SMTT(30)
<1>4. ASSUME NEW c \in Deliveries \cup Cancels, RefundFailed(c) PROVE Books /\ Marks
  BY <1>a, <1>b, <1>4 DEF RefundFailed
<1>5. ASSUME NEW d \in Deliveries, DeliveryCrash(d) PROVE Books /\ Marks
  BY <1>a, <1>b, <1>5 DEF DeliveryCrash
<1>6. ASSUME NEW c \in Cancels, CancelNext(c) PROVE Books /\ Marks
  <2>1. Books
    BY <1>a, <1>6 DEF CancelNext, CancelRead, CancelMark, CancelRecheck, CancelCommit
  <2>2. UNCHANGED processed
    BY <1>6 DEF CancelNext, CancelRead, CancelMark, CancelRecheck, CancelCommit
  <2>3. UNCHANGED feeKept \/ feeKept' = [feeKept EXCEPT ![call[c].order] = TRUE]
    BY <1>6 DEF CancelNext, CancelRead, CancelMark, CancelRecheck, CancelCommit
  <2> QED
    BY <1>0, <2>1, <2>2, <2>3 DEF Marks
<1>7. ASSUME NEW k \in Completions, CompletionNext(k) PROVE Books /\ Marks
  BY <1>a, <1>b, <1>7 DEF CompletionNext, CompleteRead, CompleteCommit, CompleteAbort
<1>8. ASSUME NEW u \in Updates, UpdateNext(u) PROVE Books /\ Marks
  BY <1>a, <1>b, <1>8 DEF UpdateNext, UpdateRead, UpdateWrite
<1>9. ASSUME NEW n \in Initiations, InitiationNext(n) PROVE Books /\ Marks
  <2>1. ASSUME InitiateOpen(n) PROVE Books /\ Marks
    <3>1. call[n].order \in Orders /\ Exists(call[n].order)
      BY <2>1, RequestHasOrder, SMTT(30) DEF InitiateOpen, Requests
    <3> QED
      BY <1>a, <1>b, <1>c, <2>1, <3>1 DEF InitiateOpen
  <2>2. ASSUME ~InitiateOpen(n) PROVE UNCHANGED <<gatewayVars, feeKept, processed>>
    BY <1>9, <2>2 DEF InitiationNext, InitiateRead, InitiateSave
  <2> QED
    BY <1>a, <1>b, <2>1, <2>2
<1>10. ASSUME NEW o \in Orders, Age(o) PROVE Books /\ Marks
  BY <1>a, <1>b, <1>10 DEF Age
<1>11. ASSUME NEW s \in OrderSweepers, OrderSweepNext(s) PROVE Books /\ Marks
  BY <1>a, <1>b, <1>11, SMTT(30) DEF OrderSweepNext, SweepOrdersRead, SweepOrder, SweepOrderFails
<1>12. ASSUME NEW j \in Reconcilers, ReconcileNext(j) PROVE Books /\ Marks
  BY <1>a, <1>b, <1>12 DEF ReconcileNext, ReconcileRead, ReconcileLookup, ReconcileApply
<1>13. ASSUME HoldNext PROVE Books /\ Marks
  BY <1>a, <1>b, <1>13 DEF HoldNext, ClientReserve, ClientRelease, HoldLapses,
                           HoldSweepRead, HoldSweepClaim, lifeVars
<1>14. ASSUME UNCHANGED vars PROVE Books /\ Marks
  BY <1>a, <1>b, <1>14 DEF vars, lifeVars
<1>15. Books /\ Marks
  BY <1>1, <1>2, <1>3, <1>4, <1>5, <1>6, <1>7, <1>8, <1>9, <1>10, <1>11, <1>12,
     <1>13, <1>14 DEF OrderNext
<1> QED
  BY <1>15, OrderTablesStep DEF Books, Marks, Grows, Exists

\* Whatever rewrites payment rows keeps them where they are, never invents a
\* reference, and calls a row REFUNDED only after a refund.
LEMMA PaymentsStep ==
    ASSUME OrderInv, [OrderNext]_vars
    PROVE  /\ payments' \in [Orders -> Seq(Payment)]
           /\ \A o \in Orders : /\ Exists(o) => DOMAIN payments[o] \subseteq DOMAIN payments'[o]
                                /\ orderStatus'[o] # "NONE" <=> Len(payments'[o]) >= 1
                                /\ RowsWith(o, "REFUNDED")' # {} => refunds'[o] > 0
           /\ ReferencesAreOfPaidOrders'
<1> DEFINE Rows == /\ payments' \in [Orders -> Seq(Payment)]
                   /\ \A x \in Orders :
                        /\ Exists(x) => DOMAIN payments[x] \subseteq DOMAIN payments'[x]
                        /\ DOMAIN payments'[x] # {} => DOMAIN payments[x] # {} \/ orderStatus'[x] # "NONE"
                        /\ \A n \in DOMAIN payments'[x] :
                             /\ payments'[x][n].ref => paid'[x] # {}
                             /\ payments'[x][n].status = "REFUNDED" => refunds'[x] > 0
<1>0. /\ payments \in [Orders -> Seq(Payment)]
      /\ \A x \in Orders : \A n \in DOMAIN payments[x] :
            /\ payments[x][n].ref => paid[x] # {}
            /\ payments[x][n].status = "REFUNDED" => refunds[x] > 0
  BY DEF OrderInv, OrderTypeOK, ReferencesAreOfPaidOrders, RefundsAreOfCapturedMoney, RowsWith
<1>g. \A x \in Orders : /\ paid[x] # {} => paid'[x] # {}
                        /\ refunds[x] > 0 => refunds'[x] > 0
  <2>1. \A x \in Orders : refunds[x] \in Nat
    BY DEF OrderInv, OrderTypeOK
  <2> QED
    BY <2>1, GatewayStep DEF Grows
<1>r. ASSUME NEW c \in Requests, call[c].pc # "idle"
      PROVE  /\ call[c].order \in Orders
             /\ call[c].pc \in RowSteps => call[c].row \in DOMAIN payments[call[c].order]
  BY <1>r DEF OrderInv, RequestsKnow, RequestKnows
<1>a. ASSUME UNCHANGED payments PROVE Rows
  BY <1>0, <1>a, <1>g
<1>b. ASSUME NEW o \in Orders, RowsKept(o),
             \A n \in DOMAIN payments[o] :
                payments'[o][n].status = "REFUNDED" =>
                   payments[o][n].status = "REFUNDED" \/ refunds'[o] > 0
      PROVE  Rows
  <2> SUFFICES ASSUME NEW x \in Orders
               PROVE  /\ DOMAIN payments[x] = DOMAIN payments'[x]
                      /\ \A n \in DOMAIN payments'[x] :
                           /\ payments'[x][n].ref => paid'[x] # {}
                           /\ payments'[x][n].status = "REFUNDED" => refunds'[x] > 0
    BY <1>b DEF RowsKept
  <2>1. CASE x = o
    BY <1>0, <1>b, <1>g, <2>1 DEF RowsKept
  <2>2. CASE x # o
    BY <1>0, <1>b, <1>g, <2>2 DEF RowsKept
  <2> QED
    BY <2>1, <2>2
<1>c. ASSUME NEW o \in Orders, NEW row \in DOMAIN payments[o], NEW status \in PaymentStatus,
             SetPayment(o, row, status), status = "REFUNDED" => refunds'[o] > 0
      PROVE  Rows
  <2>1. /\ RowsKept(o)
        /\ payments'[o][row].status = status
        /\ \A n \in DOMAIN payments[o] : n # row => payments'[o][n] = payments[o][n]
    BY <1>0, <1>c, SetPaymentRows
  <2> QED
    BY <1>b, <1>c, <2>1
<1>d. ASSUME NEW o \in Orders, NEW status \in PaymentStatus \ {"REFUNDED"},
             SetPayments(o, status)
      PROVE  Rows
  <2>1. RowsKept(o) /\ \A n \in DOMAIN payments[o] : payments'[o][n].status = status
    BY <1>0, <1>d, SetPaymentsRows
  <2> QED
    BY <1>b, <1>d, <2>1
<1>e. ASSUME NEW o \in Orders, NEW status \in PaymentStatus \ {"REFUNDED"},
             NEW row \in DOMAIN payments[o], NEW ref \in BOOLEAN,
             ref => payments[o][row].ref \/ paid[o] # {},
             payments' = [payments EXCEPT ![o][row].status = status, ![o][row].ref = ref]
      PROVE  Rows
  <2> DEFINE old == payments[o][row]
             new == [payments[o] EXCEPT ![row] = [old EXCEPT !.status = status, !.ref = ref]]
  <2>1. payments[o] \in Seq(Payment)
    BY <1>0
  <2>2. old \in Payment
    BY <2>1
  <2>3. /\ [old EXCEPT !.status = status, !.ref = ref] \in Payment
        /\ [old EXCEPT !.status = status, !.ref = ref].ref = ref
        /\ [old EXCEPT !.status = status, !.ref = ref].status = status
    BY <2>2 DEF Payment
  <2>4. payments' = [payments EXCEPT ![o] = new]
    BY <1>0, <1>e
  <2>5. /\ new \in Seq(Payment) /\ DOMAIN new = DOMAIN payments[o]
        /\ new[row].ref = ref /\ new[row].status = status
        /\ \A n \in DOMAIN payments[o] : n # row => new[n] = payments[o][n]
    BY <2>1, <2>3
  <2> HIDE DEF new, old
  <2>6. payments'[o] = new /\ \A x \in Orders : x # o => payments'[x] = payments[x]
    BY <1>0, <2>4
  <2>7. payments' \in [Orders -> Seq(Payment)]
    BY <1>0, <2>4, <2>5
  <2>8. \A n \in DOMAIN payments'[o] :
           /\ payments'[o][n].ref => paid'[o] # {}
           /\ payments'[o][n].status = "REFUNDED" => refunds'[o] > 0
    BY <1>0, <1>e, <1>g, <2>5, <2>6
  <2> QED
    BY <1>0, <1>g, <2>5, <2>6, <2>7, <2>8
<1> HIDE DEF Rows
<1>1. ASSUME CheckoutNext PROVE Rows
  <2>1. ASSUME NEW o \in Orders, NEW R, NEW m \in Methods, NEW inv, NEW qty,
               CreateOrder(o, R, inv, qty, m)
        PROVE  Rows
    <3> DEFINE row == [status |-> "PENDING", method |-> m, ref |-> FALSE, session |-> 0]
    <3>1. payments' = [payments EXCEPT ![o] = <<row>>] /\ ~Exists(o) /\ orderStatus'[o] # "NONE"
      BY <2>1 DEF CreateOrder, Exists, OrderInv, OrderTypeOK
    <3>2. row \in Payment
      BY OrderConstants DEF Payment, PaymentStatus
    <3>3. row.ref = FALSE /\ row.status = "PENDING"
      OBVIOUS
    <3> HIDE DEF row
    <3>4. <<row>> \in Seq(Payment) /\ DOMAIN <<row>> = {1} /\ <<row>>[1] = row
      BY <3>2
    <3>5. /\ payments' \in [Orders -> Seq(Payment)] /\ payments'[o] = <<row>>
          /\ \A x \in Orders : x # o => payments'[x] = payments[x]
      BY <1>0, <3>1, <3>4
    <3> QED
      BY <1>0, <1>g, <3>1, <3>3, <3>4, <3>5 DEF Rows
  <2>2. ASSUME NEW o \in Orders, CheckoutOpens(o) PROVE Rows
    <3> DEFINE session == IF checkout[o] = "GATEWAY" THEN opened[o] + 1 ELSE 0
               new == [n \in DOMAIN payments[o] |-> [payments[o][n] EXCEPT !.session = session]]
    <3>1. payments' = [payments EXCEPT ![o] = new] /\ session <= MaxSessions
      BY <2>2 DEF CheckoutOpens
    <3>2. payments[o] \in Seq(Payment) /\ session \in 0..MaxSessions
      BY <1>0, <3>1, OrderConstants DEF OrderInv, OrderTypeOK
    <3> HIDE DEF session
    <3>3. ASSUME NEW n \in DOMAIN payments[o]
          PROVE  /\ new[n] \in Payment
                 /\ new[n].ref = payments[o][n].ref /\ new[n].status = payments[o][n].status
      <4>1. payments[o][n] \in Payment
        BY <3>2
      <4> QED
        BY <3>2, <4>1 DEF Payment
    <3>4. DOMAIN payments[o] = 1..Len(payments[o]) /\ Len(payments[o]) \in Nat
      BY <3>2
    <3>5. new \in Seq(Payment)
      <4>1. new \in [DOMAIN payments[o] -> Payment]
        BY <3>3
      <4> HIDE DEF new
      <4> QED
        BY <3>2, <4>1, RowwiseTyped
    <3>6. DOMAIN new = DOMAIN payments[o]
      OBVIOUS
    <3> HIDE DEF new
    <3>7. payments'[o] = new /\ payments' \in [Orders -> Seq(Payment)]
          /\ \A x \in Orders : x # o => payments'[x] = payments[x]
      BY <1>0, <3>1, <3>5
    <3>8. RowsKept(o)
      BY <3>3, <3>6, <3>7 DEF RowsKept
    <3> QED
      BY <1>b, <3>3, <3>7, <3>8
  <2>3. ASSUME NEW o \in Orders, CheckoutFails(o) PROVE Rows
    BY <1>a, <2>3 DEF CheckoutFails, paymentVars
  <2> QED
    BY <1>1, <2>1, <2>2, <2>3 DEF CheckoutNext
<1>2. ASSUME GatewayNext PROVE Rows
  BY <1>2, <1>a DEF GatewayNext, Pay, DeclinePayment, GatewayRefund, paymentVars
<1>3. ASSUME NEW d \in Deliveries, DeliveryNext(d) PROVE Rows
  <2> DEFINE o == call[d].order
             row == call[d].row
  <2>0. d \in Requests
    BY DEF Requests
  <2>1. ASSUME DeliverySuccess(d) PROVE Rows
    <3>1. /\ call[d].pc = "read" /\ events[call[d].arg].kind = "success"
          /\ payments' = [payments EXCEPT ![o][row].status = "COMPLETED", ![o][row].ref = TRUE]
      BY <2>1 DEF DeliverySuccess
    <3>2. o \in Orders /\ row \in DOMAIN payments[o] /\ paid[o] # {}
      BY <2>0, <3>1 DEF OrderInv, RequestsKnow, RequestKnows, RowSteps, EventsAreTrue
    <3> HIDE DEF o, row
    <3> QED
      BY <1>e, <3>1, <3>2 DEF PaymentStatus
  <2>2. ASSUME DeliveryFailure(d) PROVE Rows
    <3>1. o \in Orders /\ row \in DOMAIN payments[o] /\ SetPayment(o, row, "FAILED")
      BY <1>r, <2>0, <2>2 DEF DeliveryFailure, RowSteps
    <3> QED
      BY <1>c, <3>1 DEF PaymentStatus
  <2>3. ASSUME LateRefundClaim(d) PROVE Rows
    <3>1. /\ o \in Orders /\ row \in DOMAIN payments[o]
          /\ SetPayment(o, row, "REFUND_PENDING") \/ UNCHANGED payments
      BY <1>r, <2>0, <2>3 DEF LateRefundClaim, RowSteps
    <3> QED
      BY <1>a, <1>c, <3>1 DEF PaymentStatus
  <2>4. ASSUME LateRefundRecord(d) PROVE Rows
    <3>1. /\ o \in Orders /\ row \in DOMAIN payments[o] /\ SetPayment(o, row, "REFUNDED")
          /\ call[d].pc = "refunded"
      BY <1>r, <2>0, <2>4 DEF LateRefundRecord, RowSteps
    <3>2. refunds[o] > 0
      BY <2>0, <3>1 DEF OrderInv, RequestsKnow, RequestKnows
    <3> QED
      BY <1>c, <1>g, <3>1, <3>2 DEF PaymentStatus
  <2>5. ASSUME ~DeliverySuccess(d), ~DeliveryFailure(d), ~LateRefundClaim(d), ~LateRefundRecord(d)
        PROVE  UNCHANGED payments
    BY <1>3, <2>5 DEF DeliveryNext, DeliveryStart, DeliveryRead, paymentVars
  <2> QED
    BY <1>a, <2>1, <2>2, <2>3, <2>4, <2>5
<1>4. ASSUME NEW c \in Deliveries \cup Cancels, RefundFailed(c) PROVE Rows
  <2>1. /\ call[c].order \in Orders /\ call[c].row \in DOMAIN payments[call[c].order]
        /\ SetPayment(call[c].order, call[c].row, "COMPLETED")
    BY <1>r, <1>4 DEF RefundFailed, RowSteps, Requests
  <2> QED
    BY <1>c, <2>1 DEF PaymentStatus
<1>5. ASSUME NEW d \in Deliveries, DeliveryCrash(d) PROVE Rows
  BY <1>a, <1>5 DEF DeliveryCrash, paymentVars
<1>6. ASSUME NEW c \in Cancels, CancelNext(c) PROVE Rows
  <2> DEFINE o == call[c].order
             row == call[c].row
  <2>0. c \in Requests
    BY DEF Requests
  <2>1. ASSUME CancelMark(c) PROVE Rows
    <3>1. o \in Orders /\ row \in DOMAIN payments[o] /\ SetPayment(o, row, "REFUND_PENDING")
      BY <1>r, <2>0, <2>1 DEF CancelMark, RowSteps
    <3> QED
      BY <1>c, <3>1 DEF PaymentStatus
  <2>2. ASSUME CancelCommit(c) PROVE Rows
    <3>1. /\ o \in Orders /\ row \in DOMAIN payments[o] /\ call[c].pc = "rechecked"
          /\ IF call[c].arg = "refund" THEN SetPayment(o, row, "REFUNDED")
                                      ELSE SetPayments(o, "FAILED")
      BY <1>r, <2>0, <2>2 DEF CancelCommit, RowSteps
    <3>2. call[c].arg = "refund" => refunds[o] > 0
      BY <2>0, <3>1 DEF OrderInv, RequestsKnow, RequestKnows
    <3> QED
      BY <1>c, <1>d, <1>g, <3>1, <3>2 DEF PaymentStatus
  <2>3. ASSUME ~CancelMark(c), ~CancelCommit(c) PROVE UNCHANGED payments
    BY <1>6, <2>3 DEF CancelNext, CancelRead, CancelRecheck, paymentVars
  <2> QED
    BY <1>a, <2>1, <2>2, <2>3
<1>7. ASSUME NEW k \in Completions, CompletionNext(k) PROVE Rows
  <2>1. ASSUME CompleteCommit(k) PROVE Rows
    <3>1. call[k].order \in Orders /\ SetPayments(call[k].order, "COMPLETED")
      BY <1>r, <2>1 DEF CompleteCommit, Requests
    <3> QED
      BY <1>d, <3>1 DEF PaymentStatus
  <2>2. ASSUME ~CompleteCommit(k) PROVE UNCHANGED payments
    BY <1>7, <2>2 DEF CompletionNext, CompleteRead, CompleteAbort, paymentVars
  <2> QED
    BY <1>a, <2>1, <2>2
<1>8. ASSUME NEW u \in Updates, UpdateNext(u) PROVE Rows
  BY <1>a, <1>8 DEF UpdateNext, UpdateRead, UpdateWrite, paymentVars
<1>9. ASSUME NEW n \in Initiations, InitiationNext(n) PROVE Rows
  <2>1. ASSUME InitiateSave(n) PROVE Rows
    <3> DEFINE o == call[n].order
               row == call[n].row
               session == call[n].session
               method == call[n].arg
               added == [status |-> "PENDING", method |-> method, ref |-> FALSE,
                         session |-> session]
               changed == [payments[o][row] EXCEPT !.status = "PENDING", !.method = method,
                                                   !.session = session]
    <3>1. /\ n \in Requests /\ call[n].pc = "saving"
          /\ row = 0 => payments' = [payments EXCEPT ![o] = Append(payments[o], added)]
          /\ row # 0 => payments' = [payments EXCEPT ![o] = [payments[o] EXCEPT
                            ![row].status = "PENDING", ![row].method = method,
                            ![row].session = session]]
      BY <2>1 DEF InitiateSave, Requests
    <3>2. /\ o \in Orders /\ row \in 0..Len(payments[o])
          /\ method \in {"CASH", "GATEWAY"}
      BY <3>1 DEF OrderInv, RequestsKnow, RequestKnows
    <3>3. session \in 0..MaxSessions
      BY <3>1 DEF OrderInv, OrderTypeOK, RequestState
    <3>4. added \in Payment /\ added.ref = FALSE /\ added.status = "PENDING"
      BY <3>2, <3>3 DEF Payment, PaymentStatus
    <3>5. payments[o] \in Seq(Payment)
      BY <1>0, <3>2
    <3>0. orderStatus'[o] # "NONE"
      <4>1. Exists(o)
        BY <3>1, RequestHasOrder
      <4> QED
        BY <3>2, <4>1, OrderTablesStep, SMTT(30)
    <3> HIDE DEF o, row, session, method
    <3>6. CASE row = 0
      <4> DEFINE new == Append(payments[o], added)
      <4> HIDE DEF added
      <4>1. /\ new \in Seq(Payment) /\ DOMAIN new = 1..(Len(payments[o]) + 1)
            /\ DOMAIN payments[o] = 1..Len(payments[o]) /\ Len(payments[o]) \in Nat
            /\ new[Len(payments[o]) + 1] = added
            /\ \A m \in DOMAIN payments[o] : new[m] = payments[o][m]
        BY <3>4, <3>5
      <4> HIDE DEF new
      <4>2. /\ payments'[o] = new /\ payments' \in [Orders -> Seq(Payment)]
            /\ \A x \in Orders : x # o => payments'[x] = payments[x]
        BY <1>0, <3>1, <3>2, <3>6, <4>1 DEF new
      <4>3. DOMAIN payments[o] \subseteq DOMAIN payments'[o] /\ orderStatus'[o] # "NONE"
        BY <3>0, <4>1, <4>2
      <4>4. \A m \in DOMAIN payments'[o] : m \in DOMAIN payments[o] \/ payments'[o][m] = added
        BY <4>1, <4>2
      <4>5. \A m \in DOMAIN payments'[o] :
               /\ payments'[o][m].ref => paid'[o] # {}
               /\ payments'[o][m].status = "REFUNDED" => refunds'[o] > 0
        BY <1>0, <1>g, <3>2, <3>4, <4>1, <4>2, <4>4
      <4> QED
        BY <1>0, <1>g, <4>2, <4>3, <4>5 DEF Rows
    <3>7. CASE row # 0
      <4> DEFINE new == [payments[o] EXCEPT ![row] = changed]
      <4>1. row \in DOMAIN payments[o]
        BY <3>2, <3>5, <3>7
      <4>2. payments[o][row] \in Payment
        BY <3>5, <4>1
      <4>3. /\ changed \in Payment /\ changed.ref = payments[o][row].ref
            /\ changed.status = "PENDING"
        BY <3>2, <3>3, <4>2 DEF Payment, PaymentStatus
      <4>4. payments' = [payments EXCEPT ![o] = new]
        BY <3>1, <3>5, <3>7, <4>1
      <4> HIDE DEF changed
      <4>5. /\ new \in Seq(Payment) /\ DOMAIN new = DOMAIN payments[o]
            /\ new[row] = changed
            /\ \A m \in DOMAIN payments[o] : m # row => new[m] = payments[o][m]
        BY <3>5, <4>1, <4>3
      <4> HIDE DEF new
      <4>6. /\ payments'[o] = new /\ payments' \in [Orders -> Seq(Payment)]
            /\ \A x \in Orders : x # o => payments'[x] = payments[x]
        BY <1>0, <3>2, <4>4, <4>5
      <4>7. RowsKept(o)
        BY <4>3, <4>5, <4>6 DEF RowsKept
      <4> QED
        BY <1>b, <3>2, <4>3, <4>5, <4>6, <4>7
    <3> QED
      BY <3>6, <3>7, SMTT(30)
  <2>2. ASSUME ~InitiateSave(n) PROVE UNCHANGED payments
    BY <1>9, <2>2 DEF InitiationNext, InitiateRead, InitiateOpen, paymentVars
  <2> QED
    BY <1>a, <2>1, <2>2
<1>10. ASSUME NEW o \in Orders, Age(o) PROVE Rows
  BY <1>a, <1>10 DEF Age, paymentVars
<1>11. ASSUME NEW s \in OrderSweepers, OrderSweepNext(s) PROVE Rows
  <2>1. ASSUME NEW o \in Orders, SweepOrder(s, o), orderStatus[o] = "PENDING" PROVE Rows
    <3> DEFINE new == [n \in DOMAIN payments[o] |->
                         IF payments[o][n].status = "PENDING"
                         THEN [payments[o][n] EXCEPT !.status = "FAILED"]
                         ELSE payments[o][n]]
    <3>1. payments' = [payments EXCEPT ![o] = new]
      BY <2>1 DEF SweepOrder
    <3>2. /\ payments[o] \in Seq(Payment)
          /\ DOMAIN payments[o] = 1..Len(payments[o]) /\ Len(payments[o]) \in Nat
      BY <1>0
    <3>3. ASSUME NEW n \in DOMAIN payments[o]
          PROVE  /\ new[n] \in Payment /\ new[n].ref = payments[o][n].ref
                 /\ new[n].status = "REFUNDED" => payments[o][n].status = "REFUNDED"
      <4>1. payments[o][n] \in Payment
        BY <3>2
      <4> QED
        BY <4>1 DEF Payment, PaymentStatus
    <3>4. new \in Seq(Payment)
      <4>1. new \in [DOMAIN payments[o] -> Payment]
        BY <3>3
      <4> HIDE DEF new
      <4> QED
        BY <3>2, <4>1, RowwiseTyped
    <3>5. DOMAIN new = DOMAIN payments[o]
      OBVIOUS
    <3> HIDE DEF new
    <3>6. /\ payments'[o] = new /\ payments' \in [Orders -> Seq(Payment)]
          /\ \A x \in Orders : x # o => payments'[x] = payments[x]
      BY <1>0, <3>1, <3>4
    <3>7. RowsKept(o)
      BY <3>3, <3>5, <3>6 DEF RowsKept
    <3> QED
      BY <1>b, <3>3, <3>6, <3>7
  <2>2. ASSUME NEW o \in Orders, SweepOrder(s, o), orderStatus[o] # "PENDING"
        PROVE  UNCHANGED payments
    BY <2>2 DEF SweepOrder
  <2>3. ASSUME \A o \in Orders : ~SweepOrder(s, o) PROVE UNCHANGED payments
    BY <1>11, <2>3 DEF OrderSweepNext, SweepOrdersRead, SweepOrderFails, paymentVars
  <2> QED
    BY <1>a, <2>1, <2>2, <2>3
<1>12. ASSUME NEW j \in Reconcilers, ReconcileNext(j) PROVE Rows
  <2>1. ASSUME ReconcileApply(j) PROVE Rows
    <3> DEFINE o == call[j].order
               row == call[j].row
               succeeded == call[j].arg = "succeeded"
               status == IF succeeded THEN "COMPLETED" ELSE "FAILED"
               ref == payments[o][row].ref \/ succeeded
    <3>1. /\ j \in Requests /\ call[j].pc = "reconciling"
          /\ \/ UNCHANGED payments
             \/ payments' = [payments EXCEPT ![o][row].status = status, ![o][row].ref = ref]
      BY <2>1 DEF ReconcileApply, Requests
    <3>2. /\ o \in Orders /\ row \in DOMAIN payments[o]
          /\ succeeded => paid[o] # {}
      BY <3>1 DEF OrderInv, RequestsKnow, RequestKnows, RowSteps
    <3>3. ref \in BOOLEAN /\ (ref => payments[o][row].ref \/ paid[o] # {})
      BY <3>2
    <3>4. status \in PaymentStatus \ {"REFUNDED"}
      BY DEF PaymentStatus
    <3> HIDE DEF o, row, succeeded, status, ref
    <3> QED
      BY <1>a, <1>e, <3>1, <3>2, <3>3, <3>4
  <2>2. ASSUME ~ReconcileApply(j) PROVE UNCHANGED payments
    BY <1>12, <2>2 DEF ReconcileNext, ReconcileRead, ReconcileLookup, paymentVars
  <2> QED
    BY <1>a, <2>1, <2>2
<1>13. ASSUME HoldNext PROVE Rows
  BY <1>a, <1>13 DEF HoldNext, ClientReserve, ClientRelease, HoldLapses, HoldSweepRead,
                     HoldSweepClaim, lifeVars, paymentVars
<1>14. ASSUME UNCHANGED vars PROVE Rows
  BY <1>a, <1>14 DEF vars, lifeVars, paymentVars
<1>15. Rows
  BY <1>1, <1>2, <1>3, <1>4, <1>5, <1>6, <1>7, <1>8, <1>9, <1>10, <1>11, <1>12,
     <1>13, <1>14 DEF OrderNext
<1>16. ASSUME NEW o \in Orders PROVE orderStatus'[o] # "NONE" <=> Len(payments'[o]) >= 1
  <2>1. /\ payments[o] \in Seq(Payment) /\ payments'[o] \in Seq(Payment)
        /\ Exists(o) <=> Len(payments[o]) >= 1
    BY <1>0, <1>15 DEF Rows, OrderInv, OrdersHavePayments
  <2>2. /\ Exists(o) <=> DOMAIN payments[o] # {}
        /\ Exists(o) => 1 \in DOMAIN payments[o]
    BY <2>1
  <2>3. CASE Exists(o)
    <3>1. 1 \in DOMAIN payments'[o]
      BY <1>15, <2>2, <2>3 DEF Rows
    <3>2. orderStatus'[o] # "NONE"
      BY <2>3, OrderTablesStep
    <3>3. Len(payments'[o]) >= 1
      BY <2>1, <3>1
    <3> QED
      BY <3>2, <3>3
  <2>4. CASE ~Exists(o)
    <3>1. orderStatus'[o] # "NONE" => Len(payments'[o]) = 1
      BY <2>4, OrderTablesStep
    <3>2. orderStatus'[o] = "NONE" => DOMAIN payments'[o] = {}
      BY <1>15, <2>2, <2>4 DEF Rows
    <3>3. orderStatus'[o] = "NONE" => Len(payments'[o]) = 0
      <4>1. Len(payments'[o]) # 0 => 1 \in DOMAIN payments'[o]
        BY <2>1
      <4> QED
        BY <3>2, <4>1
    <3>4. CASE orderStatus'[o] # "NONE"
      BY <3>1, <3>4
    <3>5. CASE orderStatus'[o] = "NONE"
      BY <3>3, <3>5
    <3> QED
      BY <3>4, <3>5
  <2> QED
    BY <2>3, <2>4
<1> QED
  BY <1>15, <1>16 DEF Rows, ReferencesAreOfPaidOrders, RowsWith

-----------------------------------------------------------------------------
(* Requests                                                                *)

\* A set of row numbers has a latest one.
LEMMA LatestExists ==
    ASSUME NEW n \in Nat, NEW S \in SUBSET (1..n), S # {}
    PROVE  \E r \in S : \A q \in S : q <= r
<1> DEFINE R == StrictSubsetOrdering(1..n)
           T == {(r + 1)..n : r \in S}
<1>1. T \subseteq SUBSET (1..n) /\ T # {}
  <2>1. \A r \in S : r \in Nat /\ r >= 1
    OBVIOUS
  <2>2. \A r \in S : (r + 1)..n \in SUBSET (1..n)
    BY <2>1
  <2>3. \E r \in S : TRUE
    OBVIOUS
  <2> QED
    BY <2>2, <2>3
<1>2. IsWellFoundedOn(R, SUBSET (1..n))
  <2>1. IsFiniteSet(1..n)
    BY FS_Interval
  <2> QED
    BY <2>1, FS_StrictSubsetOrderingWellFounded, FS_FiniteSubsetsOfFinite
<1> HIDE DEF R
<1>3. \E x \in T : \A y \in T : ~ (<<y, x>> \in R)
  <2> HIDE DEF T
  <2> QED
    BY <1>1, <1>2, WFMin
<1>4. PICK r \in S : \A y \in T : <<y, (r + 1)..n>> \notin R
  BY <1>3
<1>5. ASSUME NEW q \in S, r < q PROVE FALSE
  <2>1. /\ (q + 1)..n \in T
        /\ (q + 1)..n \subseteq (r + 1)..n
        /\ q \in (r + 1)..n /\ q \notin (q + 1)..n
    BY <1>5
  <2>2. <<(q + 1)..n, (r + 1)..n>> \in R
    BY <2>1 DEF R, StrictSubsetOrdering
  <2> QED
    BY <1>4, <2>1, <2>2
<1> QED
  BY <1>5

\* The steps of all requests.
Steps == {"idle", "done", "crashed", "checked", "read", "closed", "refunding", "refunded",
          "refused", "marking", "cancelling", "rechecked", "completing", "updating",
          "opening", "saving", "reconciling"}

\* What a request knows stays true while others run, and each of its own steps
\* leads to one whose needs are met.
LEMMA RequestsStep ==
    ASSUME OrderInv, [OrderNext]_vars
    PROVE  call' \in [Requests -> RequestState] /\ RequestsKnow'
<1> DEFINE Goal == call' \in [Requests -> RequestState] /\ RequestsKnow'
           O(c) == call[c].order
           Set(c, v) == call' = [call EXCEPT ![c] = v]
<1> USE DEF actorVars
<1>0. /\ call \in [Requests -> RequestState]
      /\ \A c \in Requests : RequestKnows(c)
      /\ payments \in [Orders -> Seq(Payment)]
      /\ \A o \in Orders : /\ refunds[o] \in Nat
                           /\ Exists(o) => Len(payments[o]) \in DOMAIN payments[o]
                           /\ opened[o] > 0 => Exists(o)
  <2>1. \A o \in Orders : Exists(o) => Len(payments[o]) \in DOMAIN payments[o]
    BY DEF OrderInv, OrderTypeOK, OrdersHavePayments
  <2> QED
    BY <2>1 DEF OrderInv, OrderTypeOK, RequestsKnow, OrdersHavePayments
<1>1. \A o \in Orders : /\ Exists(o) => /\ orderStatus'[o] # "NONE"
                                        /\ DOMAIN payments[o] \subseteq DOMAIN payments'[o]
                                        /\ Len(payments[o]) <= Len(payments'[o])
                        /\ Len(payments[o]) \in Nat /\ Len(payments'[o]) \in Nat
                        /\ paid[o] # {} => paid'[o] # {}
                        /\ refunds[o] > 0 => refunds'[o] > 0
                        /\ refunds'[o] \in Nat
  <2>1. \A o \in Orders : refunds[o] \in Nat /\ refunds'[o] \in Nat /\ refunds[o] <= refunds'[o]
    BY <1>0, GatewayStep DEF Grows
  <2>2. \A o \in Orders : Exists(o) => DOMAIN payments[o] \subseteq DOMAIN payments'[o]
    BY PaymentsStep
  <2>3. ASSUME NEW o \in Orders, Exists(o) PROVE Len(payments[o]) <= Len(payments'[o])
    <3>1. payments[o] \in Seq(Payment) /\ payments'[o] \in Seq(Payment)
      BY <1>0, PaymentsStep
    <3>2. Len(payments[o]) \in DOMAIN payments'[o]
      BY <1>0, <2>2, <2>3
    <3> QED
      BY <3>1, <3>2
  <2>4. \A o \in Orders : Len(payments[o]) \in Nat /\ Len(payments'[o]) \in Nat
    BY <1>0, PaymentsStep
  <2> QED
    BY <2>1, <2>2, <2>3, <2>4, GatewayStep DEF Grows, Exists
<1>2. \A e \in Events : events[e] # NoEvent => events'[e] = events[e]
  BY GatewayStep DEF Grows
<1>3. ASSUME NEW c \in Requests, call'[c] = call[c] PROVE RequestKnows(c)'
  <2> DEFINE o == call[c].order
  <2>0. call'[c].order = o /\ call'[c].pc = call[c].pc /\ call'[c].arg = call[c].arg
        /\ call'[c].row = call[c].row
    BY <1>3
  <2>1. RequestKnows(c)
    BY <1>0
  <2>2. CASE call[c].pc = "idle"
    BY <2>0, <2>2 DEF RequestKnows, RowSteps, RefundSteps
  <2>3. CASE call[c].pc # "idle"
    <3>1. /\ o \in Orders /\ Exists(o)
      BY <2>1, <2>3 DEF RequestKnows
    <3>2. /\ orderStatus'[o] # "NONE"
          /\ DOMAIN payments[o] \subseteq DOMAIN payments'[o]
          /\ Len(payments[o]) \in Nat /\ Len(payments'[o]) \in Nat
          /\ Len(payments[o]) <= Len(payments'[o])
          /\ paid[o] # {} => paid'[o] # {}
          /\ refunds[o] > 0 => refunds'[o] > 0
      BY <1>1, <3>1
    <3> HIDE DEF o
    <3>3. /\ call[c].pc \in RowSteps => call[c].row \in DOMAIN payments'[o]
          /\ call[c].pc = "saving" => call[c].row \in 0..Len(payments'[o])
      BY <2>1, <3>2 DEF RequestKnows, o
    <3>4. call[c].pc \in {"checked", "read"} =>
             /\ call[c].arg \in Events /\ events'[call[c].arg] # NoEvent
             /\ events'[call[c].arg].order = o
      BY <1>2, <2>1 DEF RequestKnows, o
    <3>5. /\ call[c].pc = "updating" => call[c].arg \in {"PROCESSING", "READY_FOR_PICKUP"}
          /\ call[c].pc \in {"opening", "saving"} => call[c].arg \in {"CASH", "GATEWAY"}
          /\ call[c].pc \in RefundSteps => paid'[o] # {}
          /\ call[c].pc = "refunded" => refunds'[o] > 0
          /\ call[c].pc = "cancelling" => call[c].arg = "none"
          /\ call[c].pc = "rechecked" /\ call[c].arg = "refund" => refunds'[o] > 0
          /\ call[c].pc = "reconciling" /\ call[c].arg = "succeeded" => paid'[o] # {}
      BY <2>1, <3>2 DEF RequestKnows, o
    <3> QED
      BY <2>0, <3>1, <3>2, <3>3, <3>4, <3>5 DEF RequestKnows, Exists
  <2> QED
    BY <2>2, <2>3
<1>a. ASSUME UNCHANGED call PROVE Goal
  BY <1>0, <1>3, <1>a DEF RequestsKnow
<1>b. ASSUME NEW c \in Requests, NEW v \in RequestState, Set(c, v), RequestKnows(c)'
      PROVE  Goal
  <2>1. call' \in [Requests -> RequestState] /\ \A x \in Requests : x # c => call'[x] = call[x]
    BY <1>0, <1>b
  <2> QED
    BY <1>3, <1>b, <2>1 DEF RequestsKnow
<1>c. ASSUME NEW c \in Requests, NEW pc \in Steps, Goto(c, pc), call[c].pc # "idle",
             pc \in {"done", "crashed"} \cup RowSteps, pc \notin {"read", "cancelling", "reconciling"},
             pc \in RowSteps => call[c].row \in DOMAIN payments[O(c)],
             pc \in RefundSteps => paid[O(c)] # {},
             pc = "refunded" => refunds'[O(c)] > 0,
             pc = "rechecked" /\ call[c].arg = "refund" => refunds[O(c)] > 0
      PROVE  Goal
  <2> DEFINE v == [call[c] EXCEPT !.pc = pc]
             o == call[c].order
  <2>1. call[c] \in RequestState
    BY <1>0
  <2>2. /\ v \in RequestState
        /\ v.pc = pc /\ v.order = o /\ v.row = call[c].row /\ v.arg = call[c].arg
    BY <2>1 DEF RequestState, Steps
  <2>3. Set(c, v)
    BY <1>c DEF Goto
  <2> HIDE DEF v
  <2>4. call'[c] = v
    BY <1>0, <2>3
  <2>5. o \in Orders /\ Exists(o)
    BY <1>0, <1>c DEF RequestKnows
  <2> HIDE DEF o
  <2>6. /\ orderStatus'[o] # "NONE"
        /\ pc \in RowSteps => call[c].row \in DOMAIN payments'[o]
        /\ pc \in RefundSteps => paid'[o] # {}
        /\ pc = "rechecked" /\ call[c].arg = "refund" => refunds'[o] > 0
    BY <1>1, <1>c, <2>5 DEF o
  <2>7. pc = "refunded" => refunds'[o] > 0
    BY <1>c DEF o
  <2>8. RequestKnows(c)'
    BY <1>c, <2>2, <2>4, <2>5, <2>6, <2>7 DEF RequestKnows, Exists, RowSteps, RefundSteps
  <2> QED
    BY <1>b, <2>2, <2>3, <2>8
<1>d. ASSUME NEW c \in Requests, NEW pc \in Steps, NEW o \in Orders, NEW row \in Nat, NEW arg,
             Begin(c, pc, o, row, arg), Exists(o),
             arg \in Events \cup OrderStatus \cup {"none", "refund", "CASH", "GATEWAY",
                                                   "succeeded", "dead", "open"},
             pc \in {"done", "checked", "marking", "cancelling", "completing", "updating",
                     "opening", "reconciling"},
             pc \in RowSteps => row \in DOMAIN payments[o],
             pc = "checked" => arg \in Events /\ events[arg] # NoEvent /\ events[arg].order = o,
             pc = "marking" => paid[o] # {},
             pc = "cancelling" => arg = "none",
             pc = "updating" => arg \in {"PROCESSING", "READY_FOR_PICKUP"},
             pc = "opening" => arg \in {"CASH", "GATEWAY"},
             pc = "reconciling" /\ arg = "succeeded" => paid[o] # {}
      PROVE  Goal
  <2> DEFINE v == [pc |-> pc, order |-> o, row |-> row, session |-> 0, arg |-> arg]
  <2>1. v \in RequestState
    BY <1>d, OrderConstants DEF RequestState, Steps
  <2>2. Set(c, v)
    BY <1>d DEF Begin
  <2>3. v.pc = pc /\ v.order = o /\ v.row = row /\ v.arg = arg
    OBVIOUS
  <2> HIDE DEF v
  <2>4. call'[c] = v
    BY <1>0, <2>2
  <2>5. /\ orderStatus'[o] # "NONE"
        /\ pc \in RowSteps => row \in DOMAIN payments'[o]
        /\ paid[o] # {} => paid'[o] # {}
    BY <1>1, <1>d
  <2>6. pc = "checked" => arg \in Events /\ events'[arg] # NoEvent /\ events'[arg].order = o
    BY <1>2, <1>d
  <2>7. RequestKnows(c)'
    BY <1>d, <2>3, <2>4, <2>5, <2>6 DEF RequestKnows, Exists, RowSteps, RefundSteps
  <2> QED
    BY <1>b, <2>1, <2>2, <2>7
<1>e. ASSUME NEW o \in Orders, Exists(o)
      PROVE  /\ Latest(o) \in Nat /\ Latest(o) \in DOMAIN payments[o]
             /\ payments[o][Latest(o)].ref => paid[o] # {}
  BY <1>0, <1>e DEF Latest, OrderInv, ReferencesAreOfPaidOrders
<1> HIDE DEF Goal, Set
<1>4. ASSUME CheckoutNext PROVE Goal
  BY <1>a, <1>4 DEF CheckoutNext, CreateOrder, CheckoutOpens, CheckoutFails
<1>5. ASSUME GatewayNext PROVE Goal
  <2>1. ASSUME NEW c \in Deliveries \cup Cancels, NEW outcome, GatewayRefund(c, outcome)
        PROVE  Goal
    <3> DEFINE pc == IF outcome = "ok" THEN "refunded" ELSE "refused"
               o == call[c].order
    <3>1. /\ c \in Requests /\ call[c].pc = "refunding" /\ Goto(c, pc)
          /\ outcome # "refused" => refunds' = [refunds EXCEPT ![o] = @ + 1]
      BY <2>1 DEF GatewayRefund, Requests
    <3>2. /\ call[c].pc # "idle" /\ o \in Orders /\ call[c].row \in DOMAIN payments[o]
          /\ paid[o] # {}
      BY <1>0, <3>1 DEF RequestKnows, RowSteps, RefundSteps
    <3>3. pc = "refunded" => refunds'[o] > 0
      <4>1. refunds \in [Orders -> Nat]
        BY DEF OrderInv, OrderTypeOK
      <4> QED
        BY <3>1, <3>2, <4>1
    <3> QED
      BY <1>c, <3>1, <3>2, <3>3 DEF Steps, RowSteps
  <2>2. ASSUME NEW o, NEW s, NEW e, Pay(o, s, e) \/ DeclinePayment(o, e) PROVE Goal
    BY <1>a, <2>2 DEF Pay, DeclinePayment
  <2> QED
    BY <1>5, <2>1, <2>2 DEF GatewayNext
<1>6. ASSUME NEW d \in Deliveries, DeliveryNext(d) PROVE Goal
  <2> DEFINE o == call[d].order
             row == call[d].row
             arg == call[d].arg
  <2>0. d \in Requests
    BY DEF Requests
  <2>1. ASSUME NEW e \in Events, DeliveryStart(d, e) PROVE Goal
    <3>1. events[e] # NoEvent /\ Begin(d, IF processed[e] THEN "done" ELSE "checked", events[e].order, 0, e)
      BY <2>1 DEF DeliveryStart
    <3>2. events[e].order \in Orders /\ Exists(events[e].order)
      BY <1>0, <3>1 DEF OrderInv, OrderTypeOK, EventsAreTrue
    <3> QED
      BY <1>d, <2>0, <3>1, <3>2 DEF Steps, RowSteps
  <2>2. ASSUME DeliveryRead(d) PROVE Goal
    <3> DEFINE pc == IF payments[o][Latest(o)].status = "COMPLETED" THEN "done" ELSE "read"
               v == [call[d] EXCEPT !.pc = pc, !.row = Latest(o)]
    <3>1. call[d].pc = "checked" /\ Set(d, v)
      BY <1>0, <2>0, <2>2 DEF DeliveryRead, Set
    <3>2. /\ o \in Orders /\ Exists(o)
          /\ arg \in Events /\ events[arg] # NoEvent /\ events[arg].order = o
      BY <1>0, <2>0, <3>1 DEF RequestKnows
    <3>3. Latest(o) \in Nat /\ Latest(o) \in DOMAIN payments[o]
      BY <1>e, <3>2
    <3>4. /\ v \in RequestState
          /\ v.pc = pc /\ v.order = o /\ v.row = Latest(o) /\ v.arg = arg
      <4>1. call[d] \in RequestState
        BY <1>0, <2>0
      <4> QED
        BY <3>3, <4>1 DEF RequestState
    <3> DEFINE last == Latest(o)
    <3>5. pc \in {"done", "read"}
      OBVIOUS
    <3> HIDE DEF v, pc
    <3>6. call'[d] = v
      BY <1>0, <2>0, <3>1 DEF Set
    <3> HIDE DEF o, arg, last
    <3>7. /\ orderStatus'[o] # "NONE" /\ last \in DOMAIN payments'[o]
          /\ events'[arg] # NoEvent /\ events'[arg].order = o
      BY <1>1, <1>2, <3>2, <3>3 DEF last
    <3>8. RequestKnows(d)'
      BY <3>2, <3>4, <3>5, <3>6, <3>7 DEF RequestKnows, Exists, RowSteps, RefundSteps, last
    <3> QED
      BY <1>b, <2>0, <3>1, <3>4, <3>8
  <2>3. ASSUME DeliverySuccess(d) PROVE Goal
    <3> DEFINE pc == IF orderStatus[o] \in Closed THEN "closed" ELSE "done"
    <3>1. call[d].pc = "read" /\ events[arg].kind = "success" /\ Goto(d, pc)
      BY <2>3 DEF DeliverySuccess
    <3>2. /\ row \in DOMAIN payments[o]
          /\ arg \in Events /\ events[arg] # NoEvent /\ events[arg].order = o
      BY <1>0, <2>0, <3>1 DEF RequestKnows, RowSteps
    <3>3. paid[o] # {}
      BY <3>1, <3>2 DEF OrderInv, EventsAreTrue
    <3> QED
      BY <1>c, <2>0, <3>1, <3>2, <3>3 DEF Steps, RowSteps
  <2>4. ASSUME DeliveryFailure(d) PROVE Goal
    BY <1>c, <2>0, <2>4 DEF DeliveryFailure, Steps, RowSteps, RefundSteps
  <2>5. ASSUME LateRefundClaim(d) PROVE Goal
    <3>1. /\ call[d].pc = "closed"
          /\ Goto(d, "refunding") \/ Goto(d, "done")
      BY <2>5 DEF LateRefundClaim
    <3>2. row \in DOMAIN payments[o] /\ paid[o] # {}
      BY <1>0, <2>0, <3>1 DEF RequestKnows, RowSteps, RefundSteps
    <3> QED
      BY <1>c, <2>0, <3>1, <3>2 DEF Steps, RowSteps, RefundSteps
  <2>6. ASSUME LateRefundRecord(d) PROVE Goal
    BY <1>c, <2>0, <2>6 DEF LateRefundRecord, Steps, RowSteps, RefundSteps
  <2> QED
    BY <1>6, <2>1, <2>2, <2>3, <2>4, <2>5, <2>6 DEF DeliveryNext
<1>7. ASSUME NEW c \in Deliveries \cup Cancels, RefundFailed(c) PROVE Goal
  BY <1>c, <1>7 DEF RefundFailed, Steps, RowSteps, RefundSteps, Requests
<1>8. ASSUME NEW d \in Deliveries, DeliveryCrash(d) PROVE Goal
  BY <1>c, <1>8 DEF DeliveryCrash, Steps, RowSteps, RefundSteps, Requests
<1>9. ASSUME NEW c \in Cancels, CancelNext(c) PROVE Goal
  <2>0. c \in Requests
    BY DEF Requests
  <2>1. ASSUME NEW o \in Orders, CancelRead(c, o) PROVE Goal
    <3> DEFINE needs == /\ payments[o][Latest(o)].status = "COMPLETED"
                        /\ payments[o][Latest(o)].method # "CASH"
    <3>1. /\ Exists(o)
          /\ needs => payments[o][Latest(o)].ref
          /\ Begin(c, IF needs THEN "marking" ELSE "cancelling", o, Latest(o),
                   IF needs THEN "refund" ELSE "none")
      BY <2>1 DEF CancelRead
    <3> HIDE DEF needs
    <3>2. /\ Latest(o) \in Nat /\ Latest(o) \in DOMAIN payments[o]
          /\ needs => paid[o] # {}
      BY <1>e, <3>1
    <3>3. CASE needs
      BY <1>d, <2>0, <3>1, <3>2, <3>3 DEF Steps
    <3>4. CASE ~needs
      BY <1>d, <2>0, <3>1, <3>2, <3>4 DEF Steps
    <3> QED
      BY <3>3, <3>4
  <2>2. ASSUME CancelMark(c) PROVE Goal
    <3>1. call[c].pc = "marking" /\ Goto(c, "refunding")
      BY <2>2 DEF CancelMark
    <3>2. call[c].row \in DOMAIN payments[call[c].order] /\ paid[call[c].order] # {}
      BY <1>0, <2>0, <3>1 DEF RequestKnows, RowSteps, RefundSteps
    <3> QED
      BY <1>c, <2>0, <3>1, <3>2 DEF Steps, RowSteps
  <2>3. ASSUME CancelRecheck(c) PROVE Goal
    <3>1. /\ call[c].pc \in {"refunded", "cancelling"}
          /\ Goto(c, "rechecked") \/ Goto(c, "done")
      BY <2>3 DEF CancelRecheck
    <3>2. /\ call[c].row \in DOMAIN payments[call[c].order]
          /\ call[c].arg = "refund" => refunds[call[c].order] > 0
      BY <1>0, <2>0, <3>1 DEF RequestKnows, RowSteps
    <3> QED
      BY <1>c, <2>0, <3>1, <3>2 DEF Steps, RowSteps, RefundSteps
  <2>4. ASSUME CancelCommit(c) PROVE Goal
    BY <1>c, <2>0, <2>4 DEF CancelCommit, Steps, RowSteps, RefundSteps
  <2> QED
    BY <1>9, <2>1, <2>2, <2>3, <2>4 DEF CancelNext
<1>10. ASSUME NEW k \in Completions, CompletionNext(k) PROVE Goal
  <2>0. k \in Requests
    BY DEF Requests
  <2>1. ASSUME NEW o \in Orders, CompleteRead(k, o) PROVE Goal
    <3>1. Exists(o) /\ Begin(k, "completing", o, Latest(o), "none")
      BY <2>1 DEF CompleteRead
    <3> QED
      BY <1>d, <1>e, <2>0, <3>1 DEF Steps
  <2>2. ASSUME CompleteCommit(k) \/ CompleteAbort(k) PROVE Goal
    BY <1>c, <2>0, <2>2 DEF CompleteCommit, CompleteAbort, Steps, RowSteps, RefundSteps
  <2> QED
    BY <1>10, <2>1, <2>2 DEF CompletionNext
<1>11. ASSUME NEW u \in Updates, UpdateNext(u) PROVE Goal
  <2>0. u \in Requests
    BY DEF Requests
  <2>1. ASSUME NEW o \in Orders, NEW t \in {"PROCESSING", "READY_FOR_PICKUP"}, UpdateRead(u, o, t)
        PROVE  Goal
    BY <1>d, <2>0, <2>1 DEF UpdateRead, Steps, RowSteps, OrderStatus
  <2>2. ASSUME UpdateWrite(u) PROVE Goal
    BY <1>c, <2>0, <2>2 DEF UpdateWrite, Steps, RowSteps, RefundSteps
  <2> QED
    BY <1>11, <2>1, <2>2 DEF UpdateNext
<1>12. ASSUME NEW n \in Initiations, InitiationNext(n) PROVE Goal
  <2>0. n \in Requests
    BY DEF Requests
  <2>1. ASSUME NEW o \in Orders, NEW m \in Methods, InitiateRead(n, o, m) PROVE Goal
    <3>1. Exists(o) /\ Begin(n, "opening", o, 0, m) /\ m \in {"CASH", "GATEWAY"}
      BY <2>1, OrderConstants DEF InitiateRead
    <3> QED
      BY <1>d, <2>0, <3>1 DEF Steps, RowSteps
  <2>2. ASSUME InitiateOpen(n) PROVE Goal
    <3> DEFINE o == call[n].order
               arg == call[n].arg
               pending == RowsWith(o, "PENDING")
               session == IF arg = "GATEWAY" THEN opened[o] + 1 ELSE 0
               row == IF pending = {} THEN 0
                      ELSE CHOOSE r \in pending : \A q \in pending : q <= r
               v == [call[n] EXCEPT !.pc = "saving", !.session = session, !.row = row]
    <3>1. call[n].pc = "opening" /\ session <= MaxSessions /\ Set(n, v)
      <4>1. /\ call[n].pc = "opening" /\ session <= MaxSessions
            /\ call' = [call EXCEPT ![n].pc = "saving", ![n].session = session, ![n].row = row]
        BY <2>2 DEF InitiateOpen
      <4> HIDE DEF session, row
      <4> QED
        BY <1>0, <2>0, <4>1 DEF Set
    <3>2. o \in Orders /\ Exists(o) /\ arg \in {"CASH", "GATEWAY"}
      BY <1>0, <2>0, <3>1 DEF RequestKnows
    <3>3. session \in 0..MaxSessions
      <4>1. opened[o] \in Nat
        BY <3>2, OrderConstants DEF OrderInv, OrderTypeOK
      <4> QED
        BY <3>1, <4>1, OrderConstants
    <3>4. row \in 0..Len(payments[o])
      <4>1. payments[o] \in Seq(Payment) /\ Len(payments[o]) \in Nat
        BY <1>0, <3>2
      <4>2. pending \in SUBSET (1..Len(payments[o]))
        BY <4>1 DEF RowsWith
      <4> HIDE DEF pending
      <4>3. CASE pending = {}
        BY <4>1, <4>3
      <4>4. CASE pending # {}
        <5>1. \E r \in pending : \A q \in pending : q <= r
          BY <4>1, <4>2, <4>4, LatestExists
        <5> DEFINE Last(r) == r \in pending /\ \A q \in pending : q <= r
        <5>2. Last(CHOOSE r : Last(r))
          <6>1. \E r : Last(r)
            BY <5>1
          <6> HIDE DEF Last
          <6> QED
            BY <6>1
        <5>3. row = CHOOSE r : Last(r)
          BY <4>4, Zenon
        <5>4. row \in pending
          BY <5>2, <5>3, Zenon
        <5> HIDE DEF row
        <5> QED
          BY <4>1, <4>2, <5>4
      <4> QED
        BY <4>3, <4>4
    <3> HIDE DEF session, row
    <3>5. /\ v \in RequestState
          /\ v.pc = "saving" /\ v.order = o /\ v.row = row /\ v.arg = arg
      <4>1. call[n] \in RequestState
        BY <1>0, <2>0
      <4>2. row \in Nat
        BY <1>1, <3>2, <3>4
      <4> QED
        BY <3>3, <4>1, <4>2 DEF RequestState
    <3> HIDE DEF v
    <3>6. call'[n] = v
      BY <1>0, <2>0, <3>1 DEF Set
    <3> HIDE DEF o, arg
    <3>7. orderStatus'[o] # "NONE" /\ row \in 0..Len(payments'[o])
      BY <1>1, <3>2, <3>4
    <3>8. RequestKnows(n)'
      BY <3>2, <3>5, <3>6, <3>7, SMTT(30) DEF RequestKnows, Exists, RowSteps, RefundSteps
    <3> QED
      BY <1>b, <2>0, <3>1, <3>5, <3>8
  <2>3. ASSUME InitiateSave(n) PROVE Goal
    BY <1>c, <2>0, <2>3 DEF InitiateSave, Steps, RowSteps, RefundSteps
  <2> QED
    BY <1>12, <2>1, <2>2, <2>3 DEF InitiationNext
<1>13. ASSUME NEW o \in Orders, Age(o) PROVE Goal
  BY <1>a, <1>13 DEF Age
<1>14. ASSUME NEW s \in OrderSweepers, OrderSweepNext(s) PROVE Goal
  BY <1>a, <1>14 DEF OrderSweepNext, SweepOrdersRead, SweepOrder, SweepOrderFails
<1>15. ASSUME NEW j \in Reconcilers, ReconcileNext(j) PROVE Goal
  <2>0. j \in Requests
    BY DEF Requests
  <2>1. ASSUME NEW p \in pendingRows[j], NEW found \in {"succeeded", "dead", "open"},
               ReconcileLookup(j, p, found), ~UNCHANGED call
        PROVE  Goal
    <3>1. /\ Begin(j, "reconciling", p.order, p.row, found)
          /\ found = "succeeded" => p.session \in paid[p.order]
      BY <2>1 DEF ReconcileLookup
    <3>2. p.order \in Orders /\ Exists(p.order) /\ p.row \in DOMAIN payments[p.order]
      BY DEF OrderInv, PendingRowsExist
    <3>3. p.row \in Nat
      BY <1>0, <3>2
    <3> QED
      BY <1>d, <2>0, <3>1, <3>2, <3>3 DEF Steps
  <2>2. ASSUME ReconcileApply(j) PROVE Goal
    <3>1. Set(j, Idle)
      BY <2>2 DEF ReconcileApply, Set
    <3>2. Idle \in RequestState /\ Idle.pc = "idle"
      BY OrderConstants DEF Idle, RequestState
    <3>3. call'[j] = Idle
      BY <1>0, <2>0, <3>1 DEF Set
    <3>4. RequestKnows(j)'
      BY <3>2, <3>3 DEF RequestKnows, RowSteps, RefundSteps
    <3> QED
      BY <1>b, <2>0, <3>1, <3>2, <3>4
  <2>3. ASSUME ReconcileRead(j) PROVE UNCHANGED call
    BY <2>3 DEF ReconcileRead
  <2> QED
    BY <1>15, <1>a, <2>1, <2>2, <2>3 DEF ReconcileNext
<1>16. ASSUME HoldNext PROVE Goal
  BY <1>a, <1>16 DEF HoldNext, ClientReserve, ClientRelease, HoldLapses, HoldSweepRead,
                     HoldSweepClaim, lifeVars
<1>17. ASSUME UNCHANGED vars PROVE Goal
  BY <1>a, <1>17 DEF vars, lifeVars
<1>18. Goal
  BY <1>4, <1>5, <1>6, <1>7, <1>8, <1>9, <1>10, <1>11, <1>12, <1>13, <1>14, <1>15,
     <1>16, <1>17 DEF OrderNext
<1> QED
  BY <1>18 DEF Goal

\* The lists of the jobs: an order sweeper's orders are orders, and the rows a
\* reconciliation job still has to look up are there when it gets to them.
LEMMA JobsStep ==
    ASSUME OrderInv, [OrderNext]_vars
    PROVE  /\ staleOrders' \in [OrderSweepers -> SUBSET Orders]
           /\ DOMAIN pendingRows' = Reconcilers
           /\ PendingRowsExist'
<1> DEFINE Row(p) == p.order \in Orders /\ Exists(p.order) /\ p.row \in DOMAIN payments[p.order]
           Kept(p) == /\ p.order \in Orders
                      /\ orderStatus'[p.order] # "NONE"
                      /\ p.row \in DOMAIN payments'[p.order]
           Lists == staleOrders' \in [OrderSweepers -> SUBSET Orders]
           Rows == /\ DOMAIN pendingRows' = Reconcilers
                   /\ \A j \in Reconcilers : \A p \in pendingRows'[j] : Kept(p)
<1> USE DEF actorVars
<1>0. /\ staleOrders \in [OrderSweepers -> SUBSET Orders]
      /\ DOMAIN pendingRows = Reconcilers
      /\ \A j \in Reconcilers : \A p \in pendingRows[j] : Row(p)
  BY DEF OrderInv, OrderTypeOK, PendingRowsExist
<1>1. \A p : Row(p) => Kept(p)
  BY OrderTablesStep, PaymentsStep
<1>2. ASSUME UNCHANGED staleOrders PROVE Lists
  BY <1>0, <1>2
<1>3. ASSUME UNCHANGED pendingRows PROVE Rows
  BY <1>0, <1>1, <1>3
<1>4. PendingRowsExist' <=> \A j \in Reconcilers : \A p \in pendingRows'[j] : Kept(p)
  BY DEF PendingRowsExist, Exists
<1> SUFFICES Lists /\ Rows
  BY <1>4
<1> HIDE DEF Lists, Rows
<1>5. ASSUME NEW s \in OrderSweepers, OrderSweepNext(s) PROVE Lists /\ Rows
  <2>1. UNCHANGED pendingRows
    BY <1>5 DEF OrderSweepNext, SweepOrdersRead, SweepOrder, SweepOrderFails
  <2>2. /\ StalePendingOrders \in SUBSET Orders
        /\ \A o : staleOrders[s] \ {o} \in SUBSET Orders
    BY <1>0 DEF StalePendingOrders
  <2>3. \E S \in SUBSET Orders : staleOrders' = [staleOrders EXCEPT ![s] = S]
    <3>1. ASSUME SweepOrdersRead(s) PROVE staleOrders' = [staleOrders EXCEPT ![s] = StalePendingOrders]
      BY <3>1 DEF SweepOrdersRead
    <3>2. ASSUME NEW o \in Orders, SweepOrder(s, o) \/ SweepOrderFails(s, o)
          PROVE  staleOrders' = [staleOrders EXCEPT ![s] = staleOrders[s] \ {o}]
      BY <3>2 DEF SweepOrder, SweepOrderFails
    <3> QED
      BY <1>5, <2>2, <3>1, <3>2 DEF OrderSweepNext
  <2>4. Lists
    BY <1>0, <2>3 DEF Lists
  <2> QED
    BY <1>3, <2>1, <2>4
<1>6. ASSUME NEW j \in Reconcilers, ReconcileNext(j) PROVE Lists /\ Rows
  <2>1. UNCHANGED staleOrders
    BY <1>6 DEF ReconcileNext, ReconcileRead, ReconcileLookup, ReconcileApply
  <2>2. ASSUME NEW p \in ReconcilableRows PROVE Row(p)
    <3>0. PICK o \in Orders : \E row \in RowsWith(o, "PENDING") :
             p = [order |-> o, row |-> row, session |-> payments[o][row].session]
      BY DEF ReconcilableRows
    <3>1. PICK row \in RowsWith(o, "PENDING") :
             p = [order |-> o, row |-> row, session |-> payments[o][row].session]
      BY <3>0
    <3>2. row \in DOMAIN payments[o] /\ p.order = o /\ p.row = row
      BY <3>1 DEF RowsWith
    <3>3. payments[o] \in Seq(Payment)
      BY DEF OrderInv, OrderTypeOK
    <3>4. Len(payments[o]) >= 1
      BY <3>2, <3>3
    <3> QED
      BY <3>2, <3>4 DEF OrderInv, OrdersHavePayments
  <2>3. ASSUME ReconcileRead(j) PROVE Rows
    <3>1. pendingRows' = [pendingRows EXCEPT ![j] = ReconcilableRows]
      BY <2>3 DEF ReconcileRead
    <3>2. \A p \in ReconcilableRows : Kept(p)
      BY <1>1, <2>2
    <3>3. \A i \in Reconcilers : \A p \in pendingRows[i] : Kept(p)
      BY <1>0, <1>1
    <3> HIDE DEF Kept
    <3> QED
      BY <1>0, <3>1, <3>2, <3>3 DEF Rows
  <2>4. ASSUME NEW p \in pendingRows[j], NEW found, ReconcileLookup(j, p, found) PROVE Rows
    <3>1. pendingRows' = [pendingRows EXCEPT ![j] = @ \ {p}]
      BY <2>4 DEF ReconcileLookup
    <3>2. \A i \in Reconcilers : \A q \in pendingRows[i] : Kept(q)
      BY <1>0, <1>1
    <3> HIDE DEF Kept
    <3> QED
      BY <1>0, <3>1, <3>2 DEF Rows
  <2>5. ASSUME ReconcileApply(j) PROVE Rows
    BY <1>3, <2>5 DEF ReconcileApply
  <2> QED
    BY <1>2, <1>6, <2>1, <2>3, <2>4, <2>5, SMTT(30) DEF ReconcileNext
<1>7. ASSUME CheckoutNext PROVE Lists /\ Rows
  BY <1>2, <1>3, <1>7 DEF CheckoutNext, CreateOrder, CheckoutOpens, CheckoutFails
<1>8. ASSUME GatewayNext PROVE Lists /\ Rows
  BY <1>2, <1>3, <1>8, SMTT(30) DEF GatewayNext, Pay, DeclinePayment, GatewayRefund
<1>9. ASSUME NEW d \in Deliveries, DeliveryNext(d) \/ DeliveryCrash(d) PROVE Lists /\ Rows
  BY <1>2, <1>3, <1>9 DEF DeliveryNext, DeliveryStart, DeliveryRead, DeliverySuccess,
     DeliveryFailure, LateRefundClaim, LateRefundRecord, DeliveryCrash
<1>10. ASSUME NEW c \in Deliveries \cup Cancels, RefundFailed(c) PROVE Lists /\ Rows
  BY <1>2, <1>3, <1>10 DEF RefundFailed
<1>11. ASSUME NEW c \in Cancels, CancelNext(c) PROVE Lists /\ Rows
  BY <1>2, <1>3, <1>11 DEF CancelNext, CancelRead, CancelMark, CancelRecheck, CancelCommit
<1>12. ASSUME NEW k \in Completions, CompletionNext(k) PROVE Lists /\ Rows
  BY <1>2, <1>3, <1>12 DEF CompletionNext, CompleteRead, CompleteCommit, CompleteAbort
<1>13. ASSUME NEW u \in Updates, UpdateNext(u) PROVE Lists /\ Rows
  BY <1>2, <1>3, <1>13, SMTT(30) DEF UpdateNext, UpdateRead, UpdateWrite
<1>14. ASSUME NEW n \in Initiations, InitiationNext(n) PROVE Lists /\ Rows
  BY <1>2, <1>3, <1>14 DEF InitiationNext, InitiateRead, InitiateOpen, InitiateSave
<1>15. ASSUME NEW o \in Orders, Age(o) PROVE Lists /\ Rows
  BY <1>2, <1>3, <1>15 DEF Age
<1>16. ASSUME HoldNext PROVE Lists /\ Rows
  BY <1>2, <1>3, <1>16 DEF HoldNext, ClientReserve, ClientRelease, HoldLapses, HoldSweepRead,
     HoldSweepClaim, lifeVars
<1>17. ASSUME UNCHANGED vars PROVE Lists /\ Rows
  BY <1>2, <1>3, <1>17 DEF vars, lifeVars
<1> QED
  BY <1>5, <1>6, <1>7, <1>8, <1>9, <1>10, <1>11, <1>12, <1>13, <1>14, <1>15, <1>16,
     <1>17 DEF OrderNext

-----------------------------------------------------------------------------
(* The lines of the orders                                                 *)

\* A line's hold belongs to its order and is claimed whenever the order closes.
\* Another order's release, a sweep or a reservation never brings one back, and
\* only the booked sale of the order consumes it.
LEMMA LinesStep ==
    ASSUME OrderInv, [OrderNext]_vars
    PROVE  LinesAreHolds' /\ ClosedOrdersHoldNothing' /\ ConsumedMeansBooked'
<1> DEFINE Ended == Closed \cup {"COMPLETED"}
           Status(r) == resv[r].status
           Loose(o) == \A r \in items[o] : resv'[r].status # "RESERVED"
           Quiet == \A r \in Reservations : Status(r) # "NONE" =>
                       /\ resv'[r].order = resv[r].order
                       /\ resv'[r].status \in {Status(r), "RELEASED", "EXPIRED"}
           Held == \A o \in Orders : \A r \in items'[o] :
                      /\ resv'[r].order = o
                      /\ resv'[r].status # "NONE"
                      /\ orderStatus'[o] \in Ended => resv'[r].status # "RESERVED"
                      /\ resv'[r].status = "CONSUMED" => booked'[o]
<1>0. /\ resv \in [Reservations -> Reservation]
      /\ items \in [Orders -> SUBSET Reservations]
      /\ orderStatus \in [Orders -> OrderStatus]
      /\ booked \in [Orders -> BOOLEAN]
      /\ \A o \in Orders : \A r \in items[o] :
            /\ r \in Reservations
            /\ resv[r].order = o
            /\ Status(r) # "NONE"
            /\ orderStatus[o] \in Ended => Status(r) # "RESERVED"
            /\ Status(r) = "CONSUMED" => booked[o]
  <2>1. \A o \in Orders : items[o] \subseteq Reservations
    BY DEF OrderInv, OrderTypeOK
  <2> QED
    BY <2>1 DEF OrderInv, OrderTypeOK, StockTypeOK, LinesAreHolds, ClosedOrdersHoldNothing,
                ConsumedMeansBooked, Active
<1>s. SUFFICES Held
  <2>1. \A o \in Orders : \A r \in items'[o] : r \in Reservations
    BY OrderTablesStep
  <2> QED
    BY <2>1 DEF LinesAreHolds, ClosedOrdersHoldNothing, ConsumedMeansBooked, Active
<1>a. ASSUME UNCHANGED <<items, booked>>, Quiet,
             \A o \in Orders : orderStatus'[o] \in Ended => orderStatus[o] \in Ended \/ Loose(o)
      PROVE  Held
  BY <1>0, <1>a
<1>b. ASSUME UNCHANGED <<items, booked, orderStatus>>, Quiet PROVE Held
  BY <1>a, <1>b
<1>c. ASSUME UNCHANGED resv PROVE Quiet
  BY <1>c
<1>d. ASSUME NEW o \in Orders, NEW next \in {"RELEASED", "EXPIRED"},
             ReleaseOrderReservations(o, next)
      PROVE  Quiet /\ Loose(o)
  <2>1. resv' = [r \in Reservations |->
                   IF r \in HoldsOf(o) \cap Active THEN [resv[r] EXCEPT !.status = next]
                                                   ELSE resv[r]]
    BY <1>d DEF ReleaseOrderReservations, ClaimRows
  <2>2. \A r \in Reservations : resv[r] \in Reservation
    BY <1>0
  <2>3. \A r \in Reservations : r \in HoldsOf(o) \cap Active <=> Status(r) = "RESERVED" /\ resv[r].order = o
    BY DEF HoldsOf, Active
  <2>4. ASSUME NEW r \in Reservations
        PROVE  /\ resv'[r].order = resv[r].order
               /\ resv'[r].status = IF Status(r) = "RESERVED" /\ resv[r].order = o
                                    THEN next ELSE Status(r)
    <3>1. resv[r] \in Reservation
      BY <2>2
    <3> QED
      BY <2>1, <2>3, <3>1 DEF Reservation
  <2> QED
    BY <1>0, <2>4
<1>e. ASSUME NEW C, NEW next \in {"RELEASED", "EXPIRED"}, ClaimRows(C, next) PROVE Quiet
  <2>1. \A r \in Reservations : resv[r] \in Reservation
    BY <1>0
  <2> QED
    BY <1>e, <2>1 DEF ClaimRows, Reservation
<1>f. ASSUME NEW R \in SUBSET Free, NEW inv, NEW qty, NEW o, ReserveRows(R, inv, qty, o)
      PROVE  /\ Quiet
             /\ \A r \in R : resv'[r].status = "RESERVED" /\ resv'[r].order = o
  <2>1. \A r \in R : r \in Reservations
    BY DEF Free
  <2>2. \A r \in Reservations : Status(r) # "NONE" => r \notin R
    BY DEF Free
  <2>3. resv' = [r \in Reservations |->
                  IF r \in R
                  THEN [status |-> "RESERVED", inventory |-> inv[r],
                        quantity |-> qty[r], order |-> o, lapsed |-> FALSE]
                  ELSE resv[r]]
    BY <1>f DEF ReserveRows
  <2> QED
    BY <2>1, <2>2, <2>3
<1> HIDE DEF Held, Quiet, Loose
<1> USE DEF orderVars, stockVars
<1>1. ASSUME CheckoutNext PROVE Held
  <2>1. ASSUME NEW o \in Orders, NEW R \in SUBSET (Reservations \ ClientRows),
               NEW m, NEW inv, NEW qty, CreateOrder(o, R, inv, qty, m)
        PROVE  Held
    <3>1. /\ R \in SUBSET Free /\ ReserveRows(R, inv, qty, o)
          /\ orderStatus' = [orderStatus EXCEPT ![o] = "PENDING"]
          /\ items' = [items EXCEPT ![o] = R]
          /\ UNCHANGED booked
      BY <2>1 DEF CreateOrder, CheckoutHolds
    <3>2. Quiet /\ \A r \in R : resv'[r].status = "RESERVED" /\ resv'[r].order = o
      BY <1>f, <3>1
    <3> SUFFICES ASSUME NEW x \in Orders, NEW r \in items'[x]
                 PROVE  /\ resv'[r].order = x
                        /\ resv'[r].status # "NONE"
                        /\ orderStatus'[x] \in Ended => resv'[r].status # "RESERVED"
                        /\ resv'[r].status = "CONSUMED" => booked'[x]
      BY DEF Held
    <3>3. CASE x = o
      BY <1>0, <3>1, <3>2, <3>3 DEF Closed
    <3>4. CASE x # o
      BY <1>0, <3>1, <3>2, <3>4 DEF Quiet
    <3> QED
      BY <3>3, <3>4
  <2>2. ASSUME NEW o \in Orders, CheckoutFails(o) PROVE Held
    <3>1. Quiet /\ Loose(o)
      BY <1>d, <2>2 DEF CheckoutFails
    <3> QED
      BY <1>0, <1>a, <2>2, <3>1 DEF CheckoutFails
  <2>3. ASSUME NEW o \in Orders, CheckoutOpens(o) PROVE Held
    BY <1>b, <1>c, <2>3 DEF CheckoutOpens
  <2> QED
    BY <1>1, <2>1, <2>2, <2>3 DEF CheckoutNext
<1>2. ASSUME GatewayNext PROVE Held
  BY <1>b, <1>c, <1>2 DEF GatewayNext, Pay, DeclinePayment, GatewayRefund
<1>3. ASSUME NEW d \in Deliveries, DeliveryNext(d) PROVE Held
  <2>1. ASSUME DeliverySuccess(d) PROVE Held
    <3>1. call[d].order \in Orders
      BY <2>1, RequestHasOrder DEF DeliverySuccess, Requests
    <3>2. UNCHANGED <<items, booked, resv>>
      BY <2>1 DEF DeliverySuccess
    <3>3. \A o \in Orders : orderStatus'[o] \in Ended => orderStatus[o] \in Ended
      BY <1>0, <2>1, <3>1 DEF DeliverySuccess, Closed
    <3> QED
      BY <1>a, <1>c, <3>2, <3>3
  <2>2. ASSUME DeliveryFailure(d) PROVE Held
    <3>1. call[d].order \in Orders
      BY <2>2, RequestHasOrder DEF DeliveryFailure, Requests
    <3>2. Quiet /\ Loose(call[d].order)
      BY <1>d, <2>2, <3>1 DEF DeliveryFailure
    <3>3. UNCHANGED <<items, booked>>
      BY <2>2 DEF DeliveryFailure
    <3>4. \A o \in Orders : o # call[d].order => orderStatus'[o] = orderStatus[o]
      BY <1>0, <2>2 DEF DeliveryFailure
    <3> QED
      BY <1>a, <3>2, <3>3, <3>4
  <2>3. ASSUME ~DeliverySuccess(d), ~DeliveryFailure(d)
        PROVE  UNCHANGED <<items, booked, orderStatus, resv>>
    BY <1>3, <2>3 DEF DeliveryNext, DeliveryStart, DeliveryRead, LateRefundClaim,
                      LateRefundRecord
  <2> QED
    BY <1>b, <1>c, <2>1, <2>2, <2>3
<1>4. ASSUME NEW c \in Deliveries \cup Cancels, RefundFailed(c) PROVE Held
  BY <1>b, <1>c, <1>4 DEF RefundFailed
<1>5. ASSUME NEW d \in Deliveries, DeliveryCrash(d) PROVE Held
  BY <1>b, <1>c, <1>5 DEF DeliveryCrash
<1>6. ASSUME NEW c \in Cancels, CancelNext(c) PROVE Held
  <2>1. ASSUME CancelCommit(c) PROVE Held
    <3>1. call[c].order \in Orders
      BY <2>1, RequestHasOrder DEF CancelCommit, Requests
    <3>2. Quiet /\ Loose(call[c].order)
      BY <1>d, <2>1, <3>1 DEF CancelCommit
    <3>3. UNCHANGED <<items, booked>>
      BY <2>1 DEF CancelCommit
    <3>4. \A o \in Orders : o # call[c].order => orderStatus'[o] = orderStatus[o]
      BY <1>0, <2>1 DEF CancelCommit
    <3> QED
      BY <1>a, <3>2, <3>3, <3>4
  <2>2. ASSUME ~CancelCommit(c) PROVE UNCHANGED <<items, booked, orderStatus, resv>>
    BY <1>6, <2>2 DEF CancelNext, CancelRead, CancelMark, CancelRecheck
  <2> QED
    BY <1>b, <1>c, <2>1, <2>2
<1>7. ASSUME NEW k \in Completions, CompletionNext(k) PROVE Held
  <2>1. ASSUME CompleteCommit(k) PROVE Held
    <3> DEFINE o == call[k].order
    <3>1. o \in Orders
      BY <2>1, RequestHasOrder DEF CompleteCommit, Requests
    <3>2. /\ ClaimRows(HoldsOf(o), "CONSUMED")
          /\ orderStatus' = [orderStatus EXCEPT ![o] = "COMPLETED"]
          /\ booked' = [booked EXCEPT ![o] = TRUE]
          /\ UNCHANGED items
      BY <2>1 DEF CompleteCommit, CompleteSale
    <3> HIDE DEF o
    <3>3. ASSUME NEW r \in Reservations
          PROVE  /\ resv'[r].order = resv[r].order
                 /\ resv'[r].status = IF Status(r) = "RESERVED" /\ resv[r].order = o
                                      THEN "CONSUMED" ELSE Status(r)
      <4>1. resv[r] \in Reservation
        BY <1>0
      <4>2. r \in HoldsOf(o) \cap Active <=> Status(r) = "RESERVED" /\ resv[r].order = o
        BY DEF HoldsOf, Active
      <4>3. resv'[r] = IF r \in HoldsOf(o) \cap Active
                       THEN [resv[r] EXCEPT !.status = "CONSUMED"] ELSE resv[r]
        BY <3>2 DEF ClaimRows
      <4> QED
        BY <4>1, <4>2, <4>3 DEF Reservation
    <3> SUFFICES ASSUME NEW x \in Orders, NEW r \in items[x]
                 PROVE  /\ resv'[r].order = x
                        /\ resv'[r].status # "NONE"
                        /\ orderStatus'[x] \in Ended => resv'[r].status # "RESERVED"
                        /\ resv'[r].status = "CONSUMED" => booked'[x]
      BY <3>2 DEF Held
    <3>4. r \in Reservations
      BY <1>0
    <3>5. CASE x = o
      BY <1>0, <3>1, <3>2, <3>3, <3>4, <3>5
    <3>6. CASE x # o
      BY <1>0, <3>1, <3>2, <3>3, <3>4, <3>6
    <3> QED
      BY <3>5, <3>6
  <2>2. ASSUME ~CompleteCommit(k) PROVE UNCHANGED <<items, booked, orderStatus, resv>>
    BY <1>7, <2>2 DEF CompletionNext, CompleteRead, CompleteAbort
  <2> QED
    BY <1>b, <1>c, <2>1, <2>2
<1>8. ASSUME NEW u \in Updates, UpdateNext(u) PROVE Held
  <2>1. ASSUME UpdateWrite(u) PROVE Held
    <3>1. u \in Requests
      BY DEF Requests
    <3>2. /\ call[u].order \in Orders
          /\ call[u].arg \in {"PROCESSING", "READY_FOR_PICKUP"}
      BY <2>1, <3>1, RequestHasOrder DEF UpdateWrite, OrderInv, RequestsKnow, RequestKnows
    <3>3. \A o \in Orders : orderStatus'[o] \in Ended => orderStatus[o] \in Ended
      BY <1>0, <2>1, <3>2 DEF UpdateWrite, Closed
    <3>4. UNCHANGED <<items, booked, resv>>
      BY <2>1 DEF UpdateWrite
    <3> QED
      BY <1>a, <1>c, <3>3, <3>4
  <2>2. ASSUME ~UpdateWrite(u) PROVE UNCHANGED <<items, booked, orderStatus, resv>>
    BY <1>8, <2>2, SMTT(30) DEF UpdateNext, UpdateRead
  <2> QED
    BY <1>b, <1>c, <2>1, <2>2
<1>9. ASSUME NEW n \in Initiations, InitiationNext(n) PROVE Held
  BY <1>b, <1>c, <1>9 DEF InitiationNext, InitiateRead, InitiateOpen, InitiateSave
<1>10. ASSUME NEW o \in Orders, Age(o) PROVE Held
  BY <1>b, <1>c, <1>10 DEF Age
<1>11. ASSUME NEW s \in OrderSweepers, OrderSweepNext(s) PROVE Held
  <2>1. ASSUME NEW o \in Orders, SweepOrder(s, o), orderStatus[o] = "PENDING" PROVE Held
    <3>1. Quiet /\ Loose(o)
      BY <1>d, <2>1 DEF SweepOrder
    <3> QED
      BY <1>0, <1>a, <2>1, <3>1 DEF SweepOrder
  <2>2. ASSUME NEW o \in Orders, SweepOrder(s, o), orderStatus[o] # "PENDING"
        PROVE  UNCHANGED <<items, booked, orderStatus, resv>>
    BY <2>2 DEF SweepOrder
  <2>3. ASSUME \A o \in Orders : ~SweepOrder(s, o)
        PROVE  UNCHANGED <<items, booked, orderStatus, resv>>
    BY <1>11, <2>3 DEF OrderSweepNext, SweepOrdersRead, SweepOrderFails
  <2> QED
    BY <1>b, <1>c, <2>1, <2>2, <2>3
<1>12. ASSUME NEW j \in Reconcilers, ReconcileNext(j) PROVE Held
  <2>1. ASSUME ReconcileApply(j), resv' # resv \/ orderStatus' # orderStatus PROVE Held
    <3> DEFINE o == call[j].order
    <3>1. o \in Orders
      BY <2>1, RequestHasOrder DEF ReconcileApply, Requests
    <3>2. UNCHANGED <<items, booked>>
      BY <2>1 DEF ReconcileApply
    <3>3. CASE call[j].arg = "succeeded"
      <4>1. UNCHANGED resv
        BY <2>1, <3>3 DEF ReconcileApply
      <4>2. \A x \in Orders : orderStatus'[x] \in Ended => orderStatus[x] \in Ended
        BY <1>0, <2>1, <3>1, <3>3 DEF ReconcileApply, Closed
      <4> QED
        BY <1>a, <1>c, <3>2, <4>1, <4>2
    <3>4. CASE call[j].arg # "succeeded"
      <4>1. Quiet /\ Loose(o)
        BY <1>d, <2>1, <3>1, <3>4 DEF ReconcileApply
      <4>2. \A x \in Orders : x # o => orderStatus'[x] = orderStatus[x]
        BY <1>0, <2>1, SMTT(30) DEF ReconcileApply
      <4> QED
        BY <1>a, <3>2, <4>1, <4>2
    <3> QED
      BY <3>3, <3>4
  <2>2. ASSUME ~(ReconcileApply(j) /\ (resv' # resv \/ orderStatus' # orderStatus))
        PROVE  UNCHANGED <<items, booked, orderStatus, resv>>
    BY <1>12, <2>2 DEF ReconcileNext, ReconcileRead, ReconcileLookup, ReconcileApply
  <2> QED
    BY <1>b, <1>c, <2>1, <2>2
<1>13. ASSUME HoldNext PROVE Held
  <2>1. UNCHANGED <<items, booked, orderStatus>>
    BY <1>13 DEF HoldNext, ClientReserve, ClientRelease, HoldLapses, HoldSweepRead,
                 HoldSweepClaim, lifeVars
  <2>2. ASSUME NEW r, NEW i, NEW q, NEW o, ClientReserve(r, i, q, o) PROVE Quiet
    <3>1. {r} \in SUBSET Free
      BY <2>2 DEF ClientReserve, ReserveStock
    <3> QED
      BY <1>f, <2>2, <3>1 DEF ClientReserve, ReserveStock
  <2>3. ASSUME NEW r, ClientRelease(r) PROVE Quiet
    BY <1>e, <2>3 DEF ClientRelease, ReleaseReservation
  <2>4. ASSUME NEW r \in Reservations, HoldLapses(r) PROVE Quiet
    <3>1. resv' = [resv EXCEPT ![r].lapsed = TRUE]
      BY <2>4 DEF HoldLapses, Lapse
    <3>2. resv[r] \in Reservation
      BY <1>0
    <3>3. resv'[r].status = resv[r].status /\ resv'[r].order = resv[r].order
      BY <1>0, <3>1, <3>2 DEF Reservation
    <3>4. \A x \in Reservations : x # r => resv'[x] = resv[x]
      BY <1>0, <3>1
    <3> QED
      BY <3>3, <3>4 DEF Quiet
  <2>5. ASSUME NEW s, HoldSweepRead(s) PROVE Quiet
    BY <1>c, <2>5 DEF HoldSweepRead, SweepRead
  <2>6. ASSUME NEW s, NEW r, HoldSweepClaim(s, r) PROVE Quiet
    BY <1>e, <2>6 DEF HoldSweepClaim, SweepClaim
  <2> QED
    BY <1>13, <1>b, <2>1, <2>2, <2>3, <2>4, <2>5, <2>6 DEF HoldNext
<1>14. ASSUME UNCHANGED vars PROVE Held
  BY <1>b, <1>c, <1>14 DEF vars, lifeVars
<1> QED
  BY <1>1, <1>2, <1>3, <1>4, <1>5, <1>6, <1>7, <1>8, <1>9, <1>10, <1>11, <1>12,
     <1>13, <1>14 DEF OrderNext

-----------------------------------------------------------------------------
(* The invariant                                                           *)

\* Nothing has been ordered yet.
LEMMA OrderInvInit == OrderInit => OrderInv
<1> SUFFICES ASSUME OrderInit PROVE OrderInv
  OBVIOUS
<1>1. StockTypeOK /\ HoldsMatchLedger
  BY StockInvInit DEF OrderInit, StockInv
<1>2. StockBounded
  BY StockConstants DEF OrderInit, StockInit, StockBounded
<1>3. Idle \in RequestState
  BY OrderConstants DEF Idle, RequestState
<1>4. OrderTypeOK
  BY <1>1, <1>3, OrderConstants DEF OrderInit, OrderTypeOK, OrderStatus
<1>5. RequestsKnow
  BY DEF OrderInit, RequestsKnow, RequestKnows, Idle, RowSteps, RefundSteps
<1>6. \A o \in Orders : /\ orderStatus[o] = "NONE" /\ checkout[o] = "none"
                        /\ payments[o] = << >> /\ items[o] = {}
                        /\ opened[o] = 0 /\ paid[o] = {} /\ refunds[o] = 0
  BY DEF OrderInit
<1>7. /\ OrdersHavePayments /\ LinesAreHolds /\ ReferencesAreOfPaidOrders
      /\ ClosedOrdersHoldNothing /\ ConsumedMeansBooked /\ RefundsAreOfCapturedMoney
  BY <1>6 DEF OrdersHavePayments, Exists, LinesAreHolds, ReferencesAreOfPaidOrders,
              ClosedOrdersHoldNothing, ConsumedMeansBooked, RefundsAreOfCapturedMoney, RowsWith
<1>8. EventsAreTrue /\ PendingRowsExist
  BY DEF OrderInit, EventsAreTrue, PendingRowsExist
<1> QED
  BY <1>1, <1>2, <1>4, <1>5, <1>7, <1>8 DEF OrderInv

\* A refund is only made by a request that knows of captured money.
LEMMA RefundsStep ==
    ASSUME OrderInv, [OrderNext]_vars, NEW o \in Orders, refunds'[o] > 0
    PROVE  paid'[o] # {}
<1>0. refunds \in [Orders -> Nat] /\ paid[o] \subseteq paid'[o]
  BY GatewayStep DEF OrderInv, OrderTypeOK, Grows
<1>1. CASE refunds[o] > 0
  BY <1>0, <1>1 DEF OrderInv, RefundsAreOfCapturedMoney
<1>2. CASE ~(refunds[o] > 0)
  <2>1. refunds' # refunds
    BY <1>2
  <2>2. PICK c \in Deliveries \cup Cancels, out \in RefundOutcomes : GatewayRefund(c, out)
    <3> USE DEF gatewayVars
    <3>1. GatewayNext
      <4>1. ~CheckoutNext
        BY <2>1, SMTT(30) DEF CheckoutNext, CreateOrder, CheckoutOpens, CheckoutFails
      <4>2. \A d \in Deliveries : ~DeliveryNext(d) /\ ~DeliveryCrash(d)
        BY <2>1 DEF DeliveryNext, DeliveryStart, DeliveryRead, DeliverySuccess,
           DeliveryFailure, LateRefundClaim, LateRefundRecord, DeliveryCrash
      <4>3. \A c \in Deliveries \cup Cancels : ~RefundFailed(c)
        BY <2>1 DEF RefundFailed
      <4>4. \A c \in Cancels : ~CancelNext(c)
        BY <2>1 DEF CancelNext, CancelRead, CancelMark, CancelRecheck, CancelCommit
      <4>5. \A k \in Completions : ~CompletionNext(k)
        BY <2>1, SMTT(30) DEF CompletionNext, CompleteRead, CompleteCommit, CompleteAbort
      <4>6. /\ \A u \in Updates : ~UpdateNext(u)
            /\ \A n \in Initiations : ~InitiationNext(n)
        BY <2>1 DEF UpdateNext, UpdateRead, UpdateWrite, InitiationNext, InitiateRead,
           InitiateOpen, InitiateSave
      <4>7. /\ \A x \in Orders : ~Age(x)
            /\ \A s \in OrderSweepers : ~OrderSweepNext(s)
        BY <2>1 DEF Age, OrderSweepNext, SweepOrdersRead, SweepOrder, SweepOrderFails
      <4>8. \A j \in Reconcilers : ~ReconcileNext(j)
        BY <2>1 DEF ReconcileNext, ReconcileRead, ReconcileLookup, ReconcileApply
      <4>9. ~HoldNext /\ ~UNCHANGED vars
        BY <2>1 DEF HoldNext, ClientReserve, ClientRelease, HoldLapses, HoldSweepRead,
           HoldSweepClaim, lifeVars, vars
      <4> QED
        BY <4>1, <4>2, <4>3, <4>4, <4>5, <4>6, <4>7, <4>8, <4>9 DEF OrderNext
    <3> QED
      BY <2>1, <3>1 DEF GatewayNext, Pay, DeclinePayment
  <2>3. /\ c \in Requests /\ call[c].pc = "refunding"
        /\ refunds' = [refunds EXCEPT ![call[c].order] = @ + 1]
        /\ paid' = paid
    BY <2>1, <2>2 DEF GatewayRefund, Requests
  <2>4. call[c].order = o
    BY <1>0, <1>2, <2>3
  <2>5. paid[o] # {}
    BY <2>3, <2>4 DEF OrderInv, RequestsKnow, RequestKnows, RefundSteps
  <2> QED
    BY <2>3, <2>5
<1> QED
  BY <1>1, <1>2

\* Every step of every request, webhook delivery and job keeps it.
LEMMA OrderInvStep == OrderInv /\ [OrderNext]_vars => OrderInv'
<1> SUFFICES ASSUME OrderInv, [OrderNext]_vars PROVE OrderInv'
  OBVIOUS
<1>1. StockTypeOK' /\ HoldsMatchLedger' /\ StockBounded'
  <2>1. StockInv
    BY DEF OrderInv, OrderTypeOK, StockInv
  <2> QED
    BY <2>1, OrderStepIsStockStep, StockInvStep DEF StockInv
<1>2. OrderTypeOK'
  BY <1>1, OrderTablesStep, GatewayStep, PaymentsStep, RequestsStep, JobsStep DEF OrderTypeOK
<1>3. OrdersHavePayments'
  BY OrderTablesStep, GatewayStep, PaymentsStep DEF OrdersHavePayments, Exists
<1>4. RefundsAreOfCapturedMoney'
  BY RefundsStep, PaymentsStep DEF RefundsAreOfCapturedMoney
<1>5. /\ LinesAreHolds' /\ ClosedOrdersHoldNothing' /\ ConsumedMeansBooked'
      /\ EventsAreTrue' /\ RequestsKnow' /\ ReferencesAreOfPaidOrders' /\ PendingRowsExist'
  BY LinesStep, GatewayStep, RequestsStep, PaymentsStep, JobsStep
<1> QED
  BY <1>1, <1>2, <1>3, <1>4, <1>5 DEF OrderInv

-----------------------------------------------------------------------------
(* The theorems                                                            *)

\* The inductive invariant holds throughout, for any number of orders, requests,
\* deliveries, crashes, jobs and sweepers.
THEOREM OrderInvariant == OrderSafety => []OrderInv
<1> QED
  BY OrderInvInit, OrderInvStep, PTL DEF OrderSafety

\* Every table and every request of the order lifecycle keeps its type; no
\* request writes to a payment row that is not there.
THEOREM OrderTypeCorrect == OrderSafety => []OrderTypeOK
<1>1. OrderInv => OrderTypeOK
  BY DEF OrderInv
<1> QED
  BY <1>1, OrderInvariant, PTL

\* However its closing raced with payment, expiry, cancellation and completion,
\* an order that is over holds no stock through its lines.
THEOREM ClosedOrdersReleased == OrderSafety => []ClosedOrdersHoldNothing
<1>1. OrderInv => ClosedOrdersHoldNothing
  BY DEF OrderInv
<1> QED
  BY <1>1, OrderInvariant, PTL

\* A line's hold is CONSUMED only by the sale that booked the order.
THEOREM ConsumedOnlyBooked == OrderSafety => []ConsumedMeansBooked
<1>1. OrderInv => ConsumedMeansBooked
  BY DEF OrderInv
<1> QED
  BY <1>1, OrderInvariant, PTL

\* Every refund sent to the gateway, by a cancellation or a late webhook, is for
\* an order the gateway was paid for, and no row says REFUNDED without one.
THEOREM RefundsCaptured == OrderSafety => []RefundsAreOfCapturedMoney
<1>1. OrderInv => RefundsAreOfCapturedMoney
  BY DEF OrderInv
<1> QED
  BY <1>1, OrderInvariant, PTL

\* The handlers and jobs of the order lifecycle move stock only as InventoryStock
\* allows: checkout, release, completion and expiry are operations of its.
THEOREM OrdersImplementStock == OrderSafety => StockSafety
<1>1. OrderInit => StockInit
  BY DEF OrderInit
<1>2. OrderInv /\ [OrderNext]_vars => [StockNext]_stockVars
  BY OrderStepIsStockStep
<1> QED
  BY <1>1, <1>2, OrderInvariant, PTL DEF OrderSafety, StockSafety

\* What InventoryStock promises of the ledger therefore holds of the orders: the
\* reserved quantities are the live holds, and a hold that has ended stays ended.
THEOREM OrdersKeepLedger == OrderSafety => []HoldsMatchLedger /\ HoldEndsOnce
<1> QED
  BY OrdersImplementStock, LedgerCorrect, EndedHoldsStay, PTL

-----------------------------------------------------------------------------
(* When stock is oversold                                                  *)

\* A completion of an order some of whose lines are no longer held: completeOrder
\* takes the goods off the shelf all the same.
CompletesUnheld == \E k \in Completions :
                      CompleteCommit(k) /\ ~(items[call[k].order] \subseteq Active)

\* Reserving tests the stock that is free, releasing and expiring only add to it,
\* and selling what is held takes as much off the promises as off the shelf.
LEMMA OversellStep ==
    ASSUME OrderInv, [OrderNext]_vars, NoOversell, ~CompletesUnheld
    PROVE  NoOversell'
<1> USE DEF stockVars
<1>0. /\ onHand \in [Inventories -> Nat]
      /\ quantityReserved \in [Inventories -> Nat]
      /\ \A i \in Inventories : quantityReserved[i] <= onHand[i]
  BY DEF OrderInv, OrderTypeOK, StockTypeOK, NoOversell
<1>a. ASSUME UNCHANGED stockVars PROVE NoOversell'
  BY <1>0, <1>a DEF NoOversell
<1>b. ASSUME NEW C \in SUBSET Reservations, NEW next, ClaimRows(C, next), UNCHANGED onHand
      PROVE  NoOversell'
  <2> SUFFICES ASSUME NEW i \in Inventories PROVE quantityReserved'[i] <= onHand[i]
    BY <1>b DEF NoOversell
  <2> DEFINE given == Quantity(On(C \cap Active, i))
  <2>1. quantityReserved'[i] = quantityReserved[i] - given
    BY <1>b DEF ClaimRows
  <2>2. On(C \cap Active, i) \in SUBSET Reservations
    BY DEF On, Active
  <2>3. given \in Nat
    BY <2>2, UnitsFinite DEF Quantity
  <2> HIDE DEF given
  <2> QED
    BY <1>0, <2>1, <2>3
<1>c. ASSUME NEW R \in SUBSET Free, NEW inv, NEW qty, NEW o, ReserveRows(R, inv, qty, o),
             UNCHANGED onHand
      PROVE  NoOversell'
  <2> SUFFICES ASSUME NEW i \in Inventories PROVE quantityReserved'[i] <= onHand[i]
    BY <1>c DEF NoOversell
  <2> DEFINE taken == Cardinality(UnitsOf({r \in R : inv[r] = i}, qty))
  <2>1. /\ quantityReserved'[i] = quantityReserved[i] + taken
        /\ onHand[i] - quantityReserved[i] >= taken \/ taken = 0
    BY <1>c DEF ReserveRows, Available
  <2>2. {r \in R : inv[r] = i} \in SUBSET Reservations
    BY DEF Free
  <2>3. taken \in Nat
    BY <2>2, UnitsFinite
  <2> HIDE DEF taken
  <2> QED
    BY <1>0, <2>1, <2>3
<1>d. ASSUME NEW o, NEW next, ReleaseOrderReservations(o, next) PROVE NoOversell'
  <2>1. HoldsOf(o) \in SUBSET Reservations
    BY DEF HoldsOf, Active
  <2> QED
    BY <1>b, <1>d, <2>1 DEF ReleaseOrderReservations
<1>1. ASSUME CheckoutNext PROVE NoOversell'
  <2>1. ASSUME NEW o, NEW R, NEW m, NEW inv, NEW qty, CreateOrder(o, R, inv, qty, m)
        PROVE  NoOversell'
    BY <1>c, <2>1 DEF CreateOrder, CheckoutHolds
  <2>2. ASSUME NEW o, CheckoutFails(o) PROVE NoOversell'
    BY <1>d, <2>2 DEF CheckoutFails
  <2>3. ASSUME NEW o, CheckoutOpens(o) PROVE NoOversell'
    BY <1>a, <2>3 DEF CheckoutOpens
  <2> QED
    BY <1>1, <2>1, <2>2, <2>3 DEF CheckoutNext
<1>2. ASSUME GatewayNext PROVE NoOversell'
  BY <1>a, <1>2, SMTT(30) DEF GatewayNext, Pay, DeclinePayment, GatewayRefund
<1>3. ASSUME NEW d \in Deliveries, DeliveryNext(d) PROVE NoOversell'
  BY <1>a, <1>d, <1>3 DEF DeliveryNext, DeliveryStart, DeliveryRead, DeliverySuccess,
     DeliveryFailure, LateRefundClaim, LateRefundRecord
<1>4. ASSUME NEW c \in Deliveries \cup Cancels, RefundFailed(c) PROVE NoOversell'
  BY <1>a, <1>4 DEF RefundFailed
<1>5. ASSUME NEW d \in Deliveries, DeliveryCrash(d) PROVE NoOversell'
  BY <1>a, <1>5 DEF DeliveryCrash
<1>6. ASSUME NEW c \in Cancels, CancelNext(c) PROVE NoOversell'
  BY <1>a, <1>d, <1>6 DEF CancelNext, CancelRead, CancelMark, CancelRecheck, CancelCommit
<1>7. ASSUME NEW k \in Completions, CompletionNext(k) PROVE NoOversell'
  <2>1. ASSUME CompleteCommit(k) PROVE NoOversell'
    <3> DEFINE o == call[k].order
               holds == HoldsOf(o) \cap Active
    <3>1. o \in Orders
      BY <2>1, RequestHasOrder DEF CompleteCommit, Requests
    <3>2. items[o] \subseteq Active
      BY <2>1 DEF CompletesUnheld
    <3>3. /\ onHand' = [i \in Inventories |-> onHand[i] - Bought(o)[i]]
          /\ quantityReserved' = [i \in Inventories |->
                quantityReserved[i] - Quantity(On(holds, i))]
      BY <2>1 DEF CompleteCommit, CompleteSale, ClaimRows
    <3>4. items[o] \subseteq holds
      BY <3>1, <3>2 DEF OrderInv, LinesAreHolds, HoldsOf
    <3>5. holds \in SUBSET Reservations
      BY DEF Active
    <3> HIDE DEF o, holds
    <3> SUFFICES ASSUME NEW i \in Inventories PROVE quantityReserved'[i] <= onHand'[i]
      BY DEF NoOversell
    <3> DEFINE sold == Quantity(On(items[o], i))
               given == Quantity(On(holds, i))
    <3>6. /\ On(items[o], i) \in SUBSET On(holds, i)
          /\ On(holds, i) \in SUBSET Reservations
          /\ On(items[o], i) \in SUBSET Reservations
      BY <3>4, <3>5 DEF On
    <3>7. UnitsOf(On(items[o], i), QuantityOf) \in SUBSET UnitsOf(On(holds, i), QuantityOf)
      BY <3>6 DEF UnitsOf
    <3>8. sold <= given /\ sold \in Nat /\ given \in Nat
      BY <3>6, <3>7, UnitsFinite, FS_Subset DEF Quantity
    <3>9. onHand'[i] = onHand[i] - sold /\ quantityReserved'[i] = quantityReserved[i] - given
      BY <3>3 DEF Bought
    <3> HIDE DEF sold, given
    <3> QED
      BY <1>0, <3>8, <3>9
  <2>2. ASSUME ~CompleteCommit(k) PROVE UNCHANGED stockVars
    BY <1>7, <2>2 DEF CompletionNext, CompleteRead, CompleteAbort
  <2> QED
    BY <1>a, <2>1, <2>2
<1>8. ASSUME NEW u \in Updates, UpdateNext(u) PROVE NoOversell'
  BY <1>a, <1>8, SMTT(30) DEF UpdateNext, UpdateRead, UpdateWrite
<1>9. ASSUME NEW n \in Initiations, InitiationNext(n) PROVE NoOversell'
  BY <1>a, <1>9 DEF InitiationNext, InitiateRead, InitiateOpen, InitiateSave
<1>10. ASSUME NEW o \in Orders, Age(o) PROVE NoOversell'
  BY <1>a, <1>10 DEF Age
<1>11. ASSUME NEW s \in OrderSweepers, OrderSweepNext(s) PROVE NoOversell'
  BY <1>a, <1>d, <1>11 DEF OrderSweepNext, SweepOrdersRead, SweepOrder, SweepOrderFails
<1>12. ASSUME NEW j \in Reconcilers, ReconcileNext(j) PROVE NoOversell'
  BY <1>a, <1>d, <1>12 DEF ReconcileNext, ReconcileRead, ReconcileLookup, ReconcileApply
<1>13. ASSUME HoldNext PROVE NoOversell'
  <2>1. ASSUME NEW r, NEW i, NEW q, NEW o, ClientReserve(r, i, q, o) PROVE NoOversell'
    <3>1. {r} \in SUBSET Free
      BY <2>1 DEF ClientReserve, ReserveStock
    <3> QED
      BY <1>c, <2>1, <3>1 DEF ClientReserve, ReserveStock
  <2>2. ASSUME NEW r, ClientRelease(r) PROVE NoOversell'
    <3>1. {r} \in SUBSET Reservations
      BY <2>2 DEF ClientRelease, ReleaseReservation, Active
    <3> QED
      BY <1>b, <2>2, <3>1 DEF ClientRelease, ReleaseReservation
  <2>3. ASSUME NEW r, HoldLapses(r) PROVE NoOversell'
    BY <1>0, <2>3 DEF HoldLapses, Lapse, NoOversell
  <2>4. ASSUME NEW s, HoldSweepRead(s) PROVE NoOversell'
    BY <1>0, <2>4 DEF HoldSweepRead, SweepRead, NoOversell
  <2>5. ASSUME NEW s, NEW r \in Reservations, HoldSweepClaim(s, r) PROVE NoOversell'
    <3>1. {r} \in SUBSET Reservations
      OBVIOUS
    <3> QED
      BY <1>b, <2>5, <3>1 DEF HoldSweepClaim, SweepClaim
  <2> QED
    BY <1>13, <2>1, <2>2, <2>3, <2>4, <2>5 DEF HoldNext
<1>14. ASSUME UNCHANGED vars PROVE NoOversell'
  BY <1>a, <1>14 DEF vars
<1> QED
  BY <1>1, <1>2, <1>3, <1>4, <1>5, <1>6, <1>7, <1>8, <1>9, <1>10, <1>11, <1>12,
     <1>13, <1>14 DEF OrderNext

\* The only way stock is promised twice is the one the run shows: an order is
\* completed although a hold of one of its lines has been given back.  Checkout,
\* holds, sweeps, releases and every other completion keep what is reserved on
\* the shelf.
THEOREM OversoldOnlyUnheld == OrderSafety => [][NoOversell => NoOversell' \/ CompletesUnheld]_vars
<1>1. OrderInv /\ [OrderNext]_vars => [NoOversell => NoOversell' \/ CompletesUnheld]_vars
  BY OversellStep
<1> QED
  BY <1>1, OrderInvariant, PTL DEF OrderSafety

-----------------------------------------------------------------------------
(* When a payment is refunded once                                         *)

\* The successes the gateway reports of order o, those already processed, and the
\* deliveries that are going to refund it.
CapturedEvents(o) ==
    {e \in Events : events[e] # NoEvent /\ events[e].order = o /\ events[e].kind = "success"}
Spent(o) == {e \in CapturedEvents(o) : processed[e]}
ToRefund(o) == {d \in Deliveries : call[d].order = o /\ call[d].pc \in {"closed", "refunding"}}

\* A gateway that waits for its answer has one attempt at an event under way, and
\* nobody else processes the event meanwhile.
OneAtATime ==
    \A d \in Deliveries : call[d].pc \in {"checked", "read"} =>
       /\ ~processed[call[d].arg]
       /\ \A x \in Deliveries :
             call[x].arg = call[d].arg /\ call[x].pc \notin {"done", "crashed"} => x = d

\* One captured session stands behind every success reported, and one success
\* processed behind every refund made or about to be made.
RefundBudget ==
    \A o \in Orders :
       /\ IsFiniteSet(CapturedEvents(o))
       /\ Cardinality(CapturedEvents(o)) <= Cardinality(paid[o])
       /\ refunds[o] + Cardinality(ToRefund(o)) <= Cardinality(Spent(o))

OnceInv == OrderInv /\ OneAtATime /\ RefundBudget

LEMMA RefundSetsFinite ==
    ASSUME OrderInv, RefundBudget, NEW o \in Orders
    PROVE  /\ IsFiniteSet(ToRefund(o)) /\ IsFiniteSet(Spent(o)) /\ IsFiniteSet(paid[o])
           /\ Cardinality(ToRefund(o)) \in Nat /\ Cardinality(Spent(o)) \in Nat
           /\ Cardinality(paid[o]) \in Nat /\ Cardinality(CapturedEvents(o)) \in Nat
           /\ refunds[o] \in Nat
<1>1. /\ ToRefund(o) \in SUBSET Deliveries /\ Spent(o) \in SUBSET CapturedEvents(o)
      /\ paid[o] \in SUBSET (1..MaxSessions) /\ refunds[o] \in Nat
  BY DEF ToRefund, Spent, OrderInv, OrderTypeOK
<1>2. /\ IsFiniteSet(Deliveries) /\ IsFiniteSet(1..MaxSessions)
      /\ IsFiniteSet(CapturedEvents(o))
  <2>1. IsFiniteSet(Deliveries) /\ MaxSessions \in Nat
    BY OrderConstants
  <2>2. IsFiniteSet(1..MaxSessions)
    BY <2>1, FS_Interval
  <2> QED
    BY <2>1, <2>2 DEF RefundBudget
<1>3. IsFiniteSet(ToRefund(o)) /\ IsFiniteSet(Spent(o)) /\ IsFiniteSet(paid[o])
  BY <1>1, <1>2, FS_Subset
<1> QED
  BY <1>1, <1>2, <1>3, FS_CardinalityType

\* The actions that touch neither the gateway's books nor the deliveries.
LEMMA OnceUntouched ==
    ASSUME OnceInv, \A d \in Deliveries : call'[d] = call[d],
           UNCHANGED <<paid, refunds, events, processed>>
    PROVE  OneAtATime' /\ RefundBudget'
<1>1. OneAtATime'
  BY DEF OnceInv, OneAtATime
<1>2. \A o \in Orders : /\ CapturedEvents(o)' = CapturedEvents(o)
                        /\ Spent(o)' = Spent(o) /\ ToRefund(o)' = ToRefund(o)
  BY DEF CapturedEvents, Spent, ToRefund
<1> QED
  BY <1>1, <1>2 DEF OnceInv, RefundBudget

\* One delivery moves on without reading or processing an event: its refund, if
\* it was about to make one, is off the list, and is made at most once.
LEMMA OnceMovesOn ==
    ASSUME OnceInv, NEW d \in Deliveries, NEW pc, pc \notin {"checked", "read", "closed"},
           Goto(d, pc), call[d].pc # "idle",
           pc = "refunding" => call[d].pc = "closed",
           UNCHANGED <<paid, events, processed>>,
           \/ UNCHANGED refunds
           \/ /\ call[d].pc = "refunding" /\ pc # "refunding"
              /\ refunds' = [refunds EXCEPT ![call[d].order] = @ + 1],
           call[d].pc \in {"done", "crashed"} => pc \in {"done", "crashed"}
    PROVE  OneAtATime' /\ RefundBudget'
<1>0. call \in [Requests -> RequestState] /\ d \in Requests /\ refunds \in [Orders -> Nat]
  BY DEF OnceInv, OrderInv, OrderTypeOK, Requests
<1>2. PICK o \in Orders : o = call[d].order
  BY <1>0, RequestHasOrder DEF OnceInv
<1>1. /\ call'[d].pc = pc /\ call'[d].order = o /\ call'[d].arg = call[d].arg
      /\ \A x \in Deliveries : x # d => call'[x] = call[x]
  <2>1. call' = [call EXCEPT ![d] = [call[d] EXCEPT !.pc = pc]]
    BY <1>0 DEF Goto
  <2>2. call[d] \in RequestState
    BY <1>0
  <2>3. call'[d] = [call[d] EXCEPT !.pc = pc]
    BY <1>0, <2>1
  <2>4. \A x \in Deliveries : x # d => call'[x] = call[x]
    BY <1>0, <2>1 DEF Requests
  <2> QED
    BY <1>2, <2>2, <2>3, <2>4 DEF RequestState
<1>3. OneAtATime'
  BY <1>1 DEF OnceInv, OneAtATime
<1>4. \A x \in Orders : CapturedEvents(x)' = CapturedEvents(x) /\ Spent(x)' = Spent(x)
  BY DEF CapturedEvents, Spent
<1>5. \A x \in Orders : x # o => ToRefund(x)' = ToRefund(x) /\ refunds'[x] = refunds[x]
  BY <1>0, <1>1, <1>2 DEF ToRefund
<1>6. refunds'[o] + Cardinality(ToRefund(o)') <= refunds[o] + Cardinality(ToRefund(o))
  <2>1. /\ IsFiniteSet(ToRefund(o)) /\ Cardinality(ToRefund(o)) \in Nat /\ refunds[o] \in Nat
    BY <1>2, RefundSetsFinite DEF OnceInv
  <2>2. CASE UNCHANGED refunds
    <3>1. ToRefund(o)' \in SUBSET ToRefund(o)
      BY <1>1, <1>2 DEF ToRefund
    <3>2. Cardinality(ToRefund(o)') <= Cardinality(ToRefund(o)) /\ Cardinality(ToRefund(o)') \in Nat
      BY <2>1, <3>1, FS_Subset, FS_CardinalityType
    <3> QED
      BY <2>1, <2>2, <3>2
  <2>3. CASE call[d].pc = "refunding" /\ pc # "refunding"
             /\ refunds' = [refunds EXCEPT ![o] = @ + 1]
    <3>1. ToRefund(o)' = ToRefund(o) \ {d} /\ d \in ToRefund(o)
      BY <1>1, <1>2, <2>3 DEF ToRefund
    <3>2. Cardinality(ToRefund(o)') = Cardinality(ToRefund(o)) - 1
      BY <2>1, <3>1, FS_RemoveElement
    <3>3. refunds'[o] = refunds[o] + 1
      BY <1>0, <1>2, <2>3
    <3> QED
      BY <2>1, <3>2, <3>3
  <2> QED
    BY <1>2, <2>2, <2>3
<1>7. RefundBudget'
  <2> SUFFICES ASSUME NEW x \in Orders
               PROVE  /\ IsFiniteSet(CapturedEvents(x))
                      /\ Cardinality(CapturedEvents(x)) <= Cardinality(paid[x])
                      /\ refunds'[x] + Cardinality(ToRefund(x)') <= Cardinality(Spent(x))
    BY <1>4 DEF RefundBudget
  <2>1. CASE x # o
    BY <1>5, <2>1 DEF OnceInv, RefundBudget
  <2>2. CASE x = o
    <3> DEFINE before == refunds[o] + Cardinality(ToRefund(o))
               after == refunds'[o] + Cardinality(ToRefund(o)')
               spent == Cardinality(Spent(o))
    <3>1. before \in Nat /\ spent \in Nat /\ before <= spent
      BY <1>2, RefundSetsFinite DEF OnceInv, RefundBudget
    <3>2. after <= before
      BY <1>6
    <3>3. after \in Int
      <4>1. IsFiniteSet(ToRefund(o)')
        <5>1. ToRefund(o)' \in SUBSET Deliveries
          BY DEF ToRefund
        <5> QED
          BY <5>1, OrderConstants, FS_Subset
      <4>2. Cardinality(ToRefund(o)') \in Nat
        BY <4>1, FS_CardinalityType
      <4>3. refunds'[o] \in Nat
        BY <1>0, <1>2
      <4> QED
        BY <4>2, <4>3
    <3> HIDE DEF before, after, spent
    <3>4. after <= spent
      BY <3>1, <3>2, <3>3
    <3>5. /\ IsFiniteSet(CapturedEvents(o))
          /\ Cardinality(CapturedEvents(o)) <= Cardinality(paid[o])
      BY <1>2 DEF OnceInv, RefundBudget
    <3> QED
      BY <2>2, <3>4, <3>5 DEF after, spent
  <2> QED
    BY <2>1, <2>2
<1> QED
  BY <1>3, <1>7

\* Each step of the orders keeps both, while the gateway waits for its answers
\* and nobody cancels.
LEMMA OnceStep ==
    ASSUME ~Overlapping, Cancels = {}, OnceInv, [OrderNext]_vars
    PROVE  OneAtATime' /\ RefundBudget'
<1> DEFINE Goal == OneAtATime' /\ RefundBudget'
           Books == UNCHANGED <<paid, refunds, events, processed>>
<1> USE DEF gatewayVars, paymentVars, actorVars
<1>0. /\ call \in [Requests -> RequestState]
      /\ \A d \in Deliveries : d \in Requests
      /\ processed \in [Events -> BOOLEAN]
      /\ events \in [Events -> [order : Orders, kind : {"success", "failure"}] \cup {NoEvent}]
      /\ paid \in [Orders -> SUBSET (1..MaxSessions)]
  BY DEF OnceInv, OrderInv, OrderTypeOK, Requests
<1>a. ASSUME UNCHANGED call, Books PROVE Goal
  BY <1>a, OnceUntouched
<1>b. ASSUME NEW d \in Deliveries, call[d].pc \in {"checked", "read"}
      PROVE  /\ call[d].order \in Orders /\ call[d].arg \in Events
             /\ events[call[d].arg] # NoEvent
             /\ events[call[d].arg].order = call[d].order
             /\ ~processed[call[d].arg]
             /\ \A x \in Deliveries :
                   x # d /\ call[x].arg = call[d].arg => call[x].pc \in {"done", "crashed"}
  BY <1>0, <1>b DEF OnceInv, OrderInv, RequestsKnow, RequestKnows, OneAtATime
<1>c. \A o \in Orders : /\ IsFiniteSet(ToRefund(o)) /\ IsFiniteSet(Spent(o))
                        /\ IsFiniteSet(CapturedEvents(o))
                        /\ Cardinality(ToRefund(o)) \in Nat /\ Cardinality(Spent(o)) \in Nat
                        /\ Cardinality(paid[o]) \in Nat /\ refunds[o] \in Nat
                        /\ Cardinality(CapturedEvents(o)) \in Nat
                        /\ IsFiniteSet(paid[o])
                        /\ Cardinality(CapturedEvents(o)) <= Cardinality(paid[o])
                        /\ refunds[o] + Cardinality(ToRefund(o)) <= Cardinality(Spent(o))
  BY RefundSetsFinite DEF OnceInv, RefundBudget
<1> HIDE DEF Goal
\* An event is processed by the delivery that holds it, which moves on.
<1>d. ASSUME NEW d \in Deliveries, NEW pc \in {"done", "closed"},
             call[d].pc \in {"checked", "read"},
             pc = "closed" => events[call[d].arg].kind = "success",
             call'[d].pc = pc, call'[d].order = call[d].order, call'[d].arg = call[d].arg,
             \A x \in Deliveries : x # d => call'[x] = call[x],
             processed' = [processed EXCEPT ![call[d].arg] = TRUE],
             UNCHANGED <<paid, refunds, events>>
      PROVE  Goal
  <2>0. PICK o \in Orders, e \in Events : o = call[d].order /\ e = call[d].arg
    BY <1>b, <1>d
  <2>1. /\ events[e] # NoEvent /\ events[e].order = o /\ ~processed[e]
        /\ \A x \in Deliveries : x # d /\ call[x].arg = e => call[x].pc \in {"done", "crashed"}
    BY <1>b, <1>d, <2>0
  <2>2. OneAtATime'
    <3> SUFFICES ASSUME NEW y \in Deliveries, call'[y].pc \in {"checked", "read"}
                 PROVE  /\ ~processed'[call'[y].arg]
                        /\ \A x \in Deliveries :
                              call'[x].arg = call'[y].arg
                              /\ call'[x].pc \notin {"done", "crashed"} => x = y
      BY DEF OneAtATime
    <3>1. y # d /\ call'[y] = call[y]
      BY <1>d, <2>0
    <3>2. call[y].arg # e /\ call[y].arg \in Events /\ ~processed[call[y].arg]
      BY <1>b, <2>1, <3>1
    <3>3. ~processed'[call[y].arg]
      BY <1>0, <1>d, <2>0, <3>2
    <3>4. ASSUME NEW x \in Deliveries, call'[x].arg = call[y].arg,
                 call'[x].pc \notin {"done", "crashed"}
          PROVE  x = y
      BY <1>b, <1>d, <2>0, <3>1, <3>2, <3>4
    <3> QED
      BY <3>1, <3>3, <3>4
  <2>3. \A x \in Orders : CapturedEvents(x)' = CapturedEvents(x)
    BY <1>d, <2>0 DEF CapturedEvents
  <2>4. \A x \in Orders : x # o => Spent(x)' = Spent(x) /\ ToRefund(x)' = ToRefund(x)
    <3> SUFFICES ASSUME NEW x \in Orders, x # o
                 PROVE  Spent(x)' = Spent(x) /\ ToRefund(x)' = ToRefund(x)
      OBVIOUS
    <3>1. e \notin CapturedEvents(x)
      BY <2>1 DEF CapturedEvents
    <3>2. \A f \in Events : f # e => processed'[f] = processed[f]
      BY <1>0, <1>d, <2>0
    <3>3. Spent(x)' = {f \in CapturedEvents(x) : processed'[f]}
      BY <2>3 DEF Spent
    <3>4. \A f \in CapturedEvents(x) : f \in Events /\ f # e
      BY <3>1 DEF CapturedEvents
    <3>5. Spent(x)' = Spent(x)
      BY <3>2, <3>3, <3>4 DEF Spent
    <3>6. ToRefund(x)' = ToRefund(x)
      BY <1>d, <2>0 DEF ToRefund
    <3> QED
      BY <3>5, <3>6
  <2>5. refunds[o] + Cardinality(ToRefund(o)') <= Cardinality(Spent(o)')
    <3>1. Spent(o) \in SUBSET Spent(o)' /\ Spent(o)' \in SUBSET CapturedEvents(o)
      <4>1. \A f \in Events : processed[f] => processed'[f]
        BY <1>0, <1>d, <2>0
      <4> QED
        BY <2>1, <2>3, <4>1 DEF Spent, CapturedEvents
    <3>2. IsFiniteSet(Spent(o)') /\ Cardinality(Spent(o)') \in Nat
      BY <1>c, <2>1, <3>1, FS_Subset, FS_CardinalityType
    <3>3. CASE pc = "done"
      <4>1. ToRefund(o)' = ToRefund(o)
        BY <1>d, <2>0, <3>3 DEF ToRefund
      <4>2. Cardinality(Spent(o)) <= Cardinality(Spent(o)')
        BY <3>1, <3>2, FS_Subset
      <4> DEFINE r == refunds[o] + Cardinality(ToRefund(o))
                 a == Cardinality(Spent(o))
                 b == Cardinality(Spent(o)')
      <4>3. r \in Nat /\ a \in Nat /\ b \in Nat /\ r <= a /\ a <= b
        BY <1>c, <2>1, <3>2, <4>2
      <4> HIDE DEF r, a, b
      <4>4. r <= b
        BY <4>3
      <4> QED
        BY <4>1, <4>4 DEF r, b
    <3>4. CASE pc = "closed"
      <4>1. ToRefund(o)' = ToRefund(o) \cup {d} /\ d \notin ToRefund(o)
        BY <1>d, <2>0, <3>4 DEF ToRefund
      <4>2. Cardinality(ToRefund(o)') = Cardinality(ToRefund(o)) + 1
        BY <1>c, <2>1, <4>1, FS_AddElement
      <4>3. e \in CapturedEvents(o) /\ e \notin Spent(o)
        BY <1>d, <2>0, <2>1, <3>4 DEF CapturedEvents, Spent
      <4>4. processed'[e]
        BY <1>0, <1>d, <2>0, <2>1
      <4>5. Spent(o) \cup {e} \in SUBSET Spent(o)'
        BY <2>3, <3>1, <4>3, <4>4, <2>1 DEF Spent
      <4>6. Cardinality(Spent(o) \cup {e}) = Cardinality(Spent(o)) + 1
        BY <1>c, <2>1, <4>3, FS_AddElement
      <4>7. Cardinality(Spent(o) \cup {e}) <= Cardinality(Spent(o)')
        BY <3>2, <4>5, FS_Subset
      <4> DEFINE t == Cardinality(ToRefund(o))
                 a == Cardinality(Spent(o))
                 b == Cardinality(Spent(o)')
      <4>8. t \in Nat /\ a \in Nat /\ b \in Nat /\ refunds[o] \in Nat
            /\ refunds[o] + t <= a /\ a + 1 <= b
        BY <1>c, <2>1, <3>2, <4>6, <4>7
      <4> HIDE DEF t, a, b
      <4>9. refunds[o] + (t + 1) <= b
        BY <4>8
      <4> QED
        BY <4>2, <4>9 DEF t, b
    <3> QED
      BY <3>3, <3>4
  <2>6. RefundBudget'
    <3> SUFFICES ASSUME NEW x \in Orders
                 PROVE  /\ IsFiniteSet(CapturedEvents(x))
                        /\ Cardinality(CapturedEvents(x)) <= Cardinality(paid[x])
                        /\ refunds[x] + Cardinality(ToRefund(x)') <= Cardinality(Spent(x)')
      BY <1>d, <2>0, <2>3 DEF RefundBudget
    <3>1. CASE x = o
      BY <1>c, <2>5, <3>1
    <3>2. CASE x # o
      BY <1>c, <2>4, <3>2
    <3> QED
      BY <3>1, <3>2
  <2> QED
    BY <2>2, <2>6 DEF Goal
<1>e. ASSUME NEW c \in Requests \ Deliveries, Books, NEW v, call' = [call EXCEPT ![c] = v]
      PROVE  Goal
  <2>1. \A d \in Deliveries : call'[d] = call[d]
    BY <1>0, <1>e
  <2> QED
    BY <1>e, <2>1, OnceUntouched DEF Goal
<1>f. ASSUME NEW c \in Completions \cup Updates \cup Initiations \cup Reconcilers
      PROVE  c \in Requests \ Deliveries
  BY OrderConstants DEF Requests
<1>1. ASSUME CheckoutNext PROVE Goal
  BY <1>a, <1>1 DEF CheckoutNext, CreateOrder, CheckoutOpens, CheckoutFails
<1>2. ASSUME GatewayNext PROVE Goal
  <2>1. ASSUME NEW o \in Orders, NEW e \in Events, NEW s \in 1..MaxSessions, Pay(o, s, e)
        PROVE  Goal
    <3>1. /\ s \notin paid[o] /\ events[e] = NoEvent
          /\ paid' = [paid EXCEPT ![o] = @ \cup {s}]
          /\ events' = [events EXCEPT ![e] = [order |-> o, kind |-> "success"]]
          /\ UNCHANGED <<call, refunds, processed>>
      BY <2>1 DEF Pay
    <3>2. OneAtATime'
      BY <3>1 DEF OnceInv, OneAtATime
    <3>3. events'[e] = [order |-> o, kind |-> "success"] /\ \A f \in Events : f # e => events'[f] = events[f]
      BY <1>0, <3>1
    <3>4. events'[e] # NoEvent \/ CapturedEvents(o)' = CapturedEvents(o)
      BY <3>1, <3>3 DEF CapturedEvents
    <3>5. \A x \in Orders : x # o => CapturedEvents(x)' = CapturedEvents(x) /\ paid'[x] = paid[x]
      BY <1>0, <3>1, <3>3 DEF CapturedEvents
    <3>6. \/ CapturedEvents(o)' = CapturedEvents(o)
          \/ CapturedEvents(o)' = CapturedEvents(o) \cup {e} /\ e \notin CapturedEvents(o)
      BY <3>1, <3>3, <3>4 DEF CapturedEvents
    <3>7. /\ IsFiniteSet(CapturedEvents(o)')
          /\ Cardinality(CapturedEvents(o)') <= Cardinality(paid'[o])
      <4>1. paid'[o] = paid[o] \cup {s}
        BY <1>0, <3>1
      <4>2. Cardinality(paid'[o]) = Cardinality(paid[o]) + 1
        BY <1>c, <3>1, <4>1, FS_AddElement
      <4>3. CASE CapturedEvents(o)' = CapturedEvents(o)
        BY <1>c, <4>2, <4>3
      <4>4. CASE CapturedEvents(o)' = CapturedEvents(o) \cup {e} /\ e \notin CapturedEvents(o)
        <5>1. /\ IsFiniteSet(CapturedEvents(o)')
              /\ Cardinality(CapturedEvents(o)') = Cardinality(CapturedEvents(o)) + 1
          BY <1>c, <4>4, FS_AddElement
        <5> QED
          BY <1>c, <4>2, <5>1
      <4> QED
        BY <3>6, <4>3, <4>4
    <3>8. \A x \in Orders : ToRefund(x)' = ToRefund(x)
      BY <3>1 DEF ToRefund
    <3>9. \A x \in Orders : Spent(x) \in SUBSET Spent(x)'
      BY <3>1, <3>5, <3>6 DEF Spent
    <3>10. ASSUME NEW x \in Orders
           PROVE  /\ IsFiniteSet(CapturedEvents(x)')
                  /\ Cardinality(CapturedEvents(x)') <= Cardinality(paid'[x])
                  /\ refunds[x] + Cardinality(ToRefund(x)') <= Cardinality(Spent(x)')
      <4>1. IsFiniteSet(CapturedEvents(x)') /\ Cardinality(CapturedEvents(x)') <= Cardinality(paid'[x])
        <5>1. CASE x = o
          BY <3>7, <5>1
        <5>2. CASE x # o
          BY <1>c, <3>5, <5>2
        <5> QED
          BY <5>1, <5>2
      <4>2. Spent(x)' \in SUBSET CapturedEvents(x)'
        BY DEF Spent
      <4>3. IsFiniteSet(Spent(x)') /\ Cardinality(Spent(x)') \in Nat
        BY <4>1, <4>2, FS_Subset, FS_CardinalityType
      <4>4. Cardinality(Spent(x)) <= Cardinality(Spent(x)')
        BY <3>9, <4>3, FS_Subset
      <4> DEFINE r == refunds[x] + Cardinality(ToRefund(x))
                 a == Cardinality(Spent(x))
                 b == Cardinality(Spent(x)')
      <4>5. r \in Nat /\ a \in Nat /\ b \in Nat /\ r <= a /\ a <= b
        BY <1>c, <4>3, <4>4
      <4> HIDE DEF r, a, b
      <4>6. r <= b
        BY <4>5
      <4> QED
        BY <3>8, <4>1, <4>6 DEF r, b
    <3> QED
      BY <3>1, <3>2, <3>10 DEF Goal, RefundBudget
  <2>2. ASSUME NEW o \in Orders, NEW e \in Events, DeclinePayment(o, e) PROVE Goal
    <3>1. /\ events[e] = NoEvent
          /\ events' = [events EXCEPT ![e] = [order |-> o, kind |-> "failure"]]
          /\ UNCHANGED <<call, paid, refunds, processed>>
      BY <2>2 DEF DeclinePayment
    <3>2. OneAtATime'
      BY <3>1 DEF OnceInv, OneAtATime
    <3>3. events'[e].kind # "success" /\ \A f \in Events : f # e => events'[f] = events[f]
      BY <1>0, <3>1
    <3>4. \A x \in Orders : CapturedEvents(x)' = CapturedEvents(x)
      BY <3>1, <3>3 DEF CapturedEvents
    <3>5. \A x \in Orders : Spent(x)' = Spent(x) /\ ToRefund(x)' = ToRefund(x)
      BY <3>1, <3>4 DEF Spent, ToRefund
    <3> QED
      BY <3>1, <3>2, <3>4, <3>5 DEF Goal, OnceInv, RefundBudget
  <2>3. ASSUME NEW d \in Deliveries, NEW out, GatewayRefund(d, out) PROVE Goal
    <3> DEFINE pc == IF out = "ok" THEN "refunded" ELSE "refused"
    <3>1. /\ call[d].pc = "refunding" /\ Goto(d, pc) /\ UNCHANGED <<paid, events, processed>>
          /\ \/ UNCHANGED refunds
             \/ refunds' = [refunds EXCEPT ![call[d].order] = @ + 1]
      BY <2>3 DEF GatewayRefund
    <3> QED
      BY <3>1, OnceMovesOn DEF Goal
  <2> QED
    BY <1>2, <2>1, <2>2, <2>3 DEF GatewayNext
<1>3. ASSUME NEW d \in Deliveries, DeliveryNext(d) PROVE Goal
  <2>0. call[d] \in RequestState /\ d \in Requests
    BY <1>0
  <2>1. ASSUME NEW e \in Events, DeliveryStart(d, e) PROVE Goal
    <3> DEFINE pc == IF processed[e] THEN "done" ELSE "checked"
    <3>1. /\ call[d].pc = "idle"
          /\ \A x \in Deliveries : call[x].arg = e => call[x].pc \in {"done", "crashed"}
          /\ Begin(d, pc, events[e].order, 0, e)
          /\ Books
      BY <2>1 DEF DeliveryStart, AttemptsAt
    <3>2. /\ call'[d].pc = pc /\ call'[d].arg = e
          /\ \A x \in Deliveries : x # d => call'[x] = call[x]
      BY <1>0, <2>0, <3>1 DEF Begin
    <3>3. OneAtATime'
      <4> SUFFICES ASSUME NEW y \in Deliveries, call'[y].pc \in {"checked", "read"}
                   PROVE  /\ ~processed[call'[y].arg]
                          /\ \A x \in Deliveries :
                                call'[x].arg = call'[y].arg
                                /\ call'[x].pc \notin {"done", "crashed"} => x = y
        BY <3>1 DEF OneAtATime
      <4>1. CASE y = d
        BY <3>1, <3>2, <4>1
      <4>2. CASE y # d
        BY <1>b, <3>1, <3>2, <4>2
      <4> QED
        BY <4>1, <4>2
    <3>4. \A x \in Orders : /\ CapturedEvents(x)' = CapturedEvents(x)
                            /\ Spent(x)' = Spent(x) /\ ToRefund(x)' = ToRefund(x)
      BY <3>1, <3>2 DEF CapturedEvents, Spent, ToRefund
    <3> QED
      BY <3>1, <3>3, <3>4 DEF Goal, OnceInv, RefundBudget
  <2>2. ASSUME DeliveryRead(d) PROVE Goal
    <3> DEFINE o == call[d].order
               settled == payments[o][Latest(o)].status = "COMPLETED"
               pc == IF settled THEN "done" ELSE "read"
    <3>1. /\ call[d].pc = "checked"
          /\ call' = [call EXCEPT ![d].pc = pc, ![d].row = Latest(o)]
          /\ processed' = IF settled THEN [processed EXCEPT ![call[d].arg] = TRUE] ELSE processed
          /\ UNCHANGED <<paid, refunds, events>>
      BY <2>2 DEF DeliveryRead
    <3> HIDE DEF settled, o
    <3>s. pc = IF settled THEN "done" ELSE "read"
      OBVIOUS
    <3> HIDE DEF pc
    <3>2. /\ call'[d].pc = pc /\ call'[d].order = call[d].order /\ call'[d].arg = call[d].arg
          /\ \A x \in Deliveries : x # d => call'[x] = call[x]
      <4>1. call'[d] = [call[d] EXCEPT !.pc = pc, !.row = Latest(o)]
        BY <1>0, <2>0, <3>1
      <4>2. \A x \in Deliveries : x # d => call'[x] = call[x]
        BY <1>0, <3>1
      <4> QED
        BY <2>0, <4>1, <4>2 DEF RequestState
    <3>3. CASE settled
      BY <1>d, <3>s, <3>1, <3>2, <3>3
    <3>4. CASE ~settled
      <4>1. OneAtATime'
        <5>1. \A x \in Deliveries : /\ call'[x].arg = call[x].arg
                                    /\ call'[x].pc \in {"checked", "read"}
                                         <=> call[x].pc \in {"checked", "read"}
                                    /\ call'[x].pc \in {"done", "crashed"}
                                         <=> call[x].pc \in {"done", "crashed"}
          <6> SUFFICES ASSUME NEW x \in Deliveries
                       PROVE  /\ call'[x].arg = call[x].arg
                              /\ call'[x].pc \in {"checked", "read"}
                                   <=> call[x].pc \in {"checked", "read"}
                              /\ call'[x].pc \in {"done", "crashed"}
                                   <=> call[x].pc \in {"done", "crashed"}
            OBVIOUS
          <6>1. CASE x = d
            BY <3>s, <3>1, <3>2, <3>4, <6>1
          <6>2. CASE x # d
            BY <3>2, <6>2
          <6> QED
            BY <6>1, <6>2
        <5>2. processed' = processed
          BY <3>1, <3>4
        <5> QED
          BY <5>1, <5>2 DEF OnceInv, OneAtATime
      <4>2. \A x \in Orders : CapturedEvents(x)' = CapturedEvents(x) /\ Spent(x)' = Spent(x)
        BY <3>1, <3>4 DEF CapturedEvents, Spent
      <4>3. \A x \in Orders : ToRefund(x)' = ToRefund(x)
        <5>1. call'[d].pc \notin {"closed", "refunding"} /\ call[d].pc \notin {"closed", "refunding"}
          BY <3>s, <3>1, <3>2, <3>4
        <5> QED
          BY <3>2, <5>1 DEF ToRefund
      <4> QED
        BY <3>1, <4>1, <4>2, <4>3 DEF Goal, OnceInv, RefundBudget
    <3> QED
      BY <3>3, <3>4
  <2>g. ASSUME NEW pc, Goto(d, pc)
        PROVE  /\ call'[d].pc = pc /\ call'[d].order = call[d].order /\ call'[d].arg = call[d].arg
               /\ \A x \in Deliveries : x # d => call'[x] = call[x]
    <3>1. call'[d] = [call[d] EXCEPT !.pc = pc]
      BY <1>0, <2>0, <2>g DEF Goto
    <3>2. \A x \in Deliveries : x # d => call'[x] = call[x]
      BY <1>0, <2>g DEF Goto
    <3> QED
      BY <2>0, <3>1, <3>2 DEF RequestState
  <2>3. ASSUME DeliverySuccess(d) PROVE Goal
    <3> DEFINE pc == IF orderStatus[call[d].order] \in Closed THEN "closed" ELSE "done"
    <3>1. /\ call[d].pc = "read" /\ events[call[d].arg].kind = "success" /\ Goto(d, pc)
          /\ processed' = [processed EXCEPT ![call[d].arg] = TRUE]
          /\ UNCHANGED <<paid, refunds, events>>
      BY <2>3 DEF DeliverySuccess
    <3>2. pc \in {"done", "closed"}
      OBVIOUS
    <3> HIDE DEF pc
    <3> QED
      BY <1>d, <2>g, <3>1, <3>2
  <2>4. ASSUME DeliveryFailure(d) PROVE Goal
    <3>1. /\ call[d].pc = "read" /\ Goto(d, "done")
          /\ processed' = [processed EXCEPT ![call[d].arg] = TRUE]
          /\ UNCHANGED <<paid, refunds, events>>
      BY <2>4 DEF DeliveryFailure
    <3> QED
      BY <1>d, <2>g, <3>1
  <2>5. ASSUME LateRefundClaim(d) PROVE Goal
    <3>1. /\ call[d].pc = "closed"
          /\ Goto(d, "refunding") \/ Goto(d, "done")
          /\ UNCHANGED <<paid, refunds, events, processed>>
      BY <2>5 DEF LateRefundClaim
    <3> QED
      BY <3>1, OnceMovesOn DEF Goal
  <2>6. ASSUME LateRefundRecord(d) PROVE Goal
    BY <2>6, OnceMovesOn DEF Goal, LateRefundRecord
  <2> QED
    BY <1>3, <2>1, <2>2, <2>3, <2>4, <2>5, <2>6 DEF DeliveryNext
<1>4. ASSUME NEW d \in Deliveries, RefundFailed(d) PROVE Goal
  BY <1>4, OnceMovesOn DEF Goal, RefundFailed
<1>5. ASSUME NEW d \in Deliveries, DeliveryCrash(d) PROVE Goal
  BY <1>5, OnceMovesOn DEF Goal, DeliveryCrash
<1>6. ASSUME NEW k \in Completions, CompletionNext(k) PROVE Goal
  <2>1. Books /\ \E v : call' = [call EXCEPT ![k] = v]
    BY <1>6 DEF CompletionNext, CompleteRead, CompleteCommit, CompleteAbort, Begin, Goto
  <2> QED
    BY <1>e, <1>f, <2>1
<1>7. ASSUME NEW u \in Updates, UpdateNext(u) PROVE Goal
  <2>1. Books /\ \E v : call' = [call EXCEPT ![u] = v]
    BY <1>7 DEF UpdateNext, UpdateRead, UpdateWrite, Begin, Goto
  <2> QED
    BY <1>e, <1>f, <2>1
<1>8. ASSUME NEW n \in Initiations, InitiationNext(n) PROVE Goal
  <2>1. Books /\ \E v : call' = [call EXCEPT ![n] = v]
    BY <1>8 DEF InitiationNext, InitiateRead, InitiateOpen, InitiateSave, Begin, Goto
  <2> QED
    BY <1>e, <1>f, <2>1
<1>9. ASSUME NEW o \in Orders, Age(o) PROVE Goal
  BY <1>a, <1>9 DEF Age
<1>10. ASSUME NEW s \in OrderSweepers, OrderSweepNext(s) PROVE Goal
  BY <1>a, <1>10 DEF OrderSweepNext, SweepOrdersRead, SweepOrder, SweepOrderFails
<1>11. ASSUME NEW j \in Reconcilers, ReconcileNext(j) PROVE Goal
  <2>1. Books /\ (UNCHANGED call \/ \E v : call' = [call EXCEPT ![j] = v])
    BY <1>11 DEF ReconcileNext, ReconcileRead, ReconcileLookup, ReconcileApply, Begin
  <2> QED
    BY <1>a, <1>e, <1>f, <2>1, SMTT(30)
<1>12. ASSUME HoldNext PROVE Goal
  BY <1>a, <1>12 DEF HoldNext, ClientReserve, ClientRelease, HoldLapses, HoldSweepRead,
                     HoldSweepClaim, lifeVars
<1>13. ASSUME UNCHANGED vars PROVE Goal
  BY <1>a, <1>13 DEF vars, lifeVars
<1> QED
  BY <1>1, <1>2, <1>3, <1>4, <1>5, <1>6, <1>7, <1>8, <1>9, <1>10, <1>11, <1>12,
     <1>13 DEF OrderNext, Goal

\* A gateway that waits for the answer to an event before it sends it again, for
\* orders nobody cancels, is asked for at most one refund per captured session,
\* whatever crashes, lost answers, retries, job runs and new sessions occur: the
\* double refund the run shows takes overlapping attempts or a cancellation.
THEOREM RefundedOnce ==
    ASSUME ~Overlapping, Cancels = {}
    PROVE  OrderSafety => []RefundedAtMostOnce
<1>1. OrderInit => OnceInv
  <2> SUFFICES ASSUME OrderInit PROVE OnceInv
    OBVIOUS
  <2>1. OneAtATime
    BY DEF OrderInit, OneAtATime, Idle, Requests
  <2>2. ASSUME NEW o \in Orders
        PROVE  /\ CapturedEvents(o) = {} /\ Spent(o) = {} /\ ToRefund(o) = {} /\ paid[o] = {}
               /\ refunds[o] = 0
    BY DEF OrderInit, CapturedEvents, Spent, ToRefund, Idle, Requests
  <2>3. RefundBudget
    <3>1. IsFiniteSet({}) /\ Cardinality({}) = 0
      BY FS_EmptySet
    <3> QED
      BY <2>2, <3>1 DEF RefundBudget
  <2> QED
    BY <2>1, <2>3, OrderInvInit DEF OnceInv
<1>2. OnceInv /\ [OrderNext]_vars => OnceInv'
  BY OnceStep, OrderInvStep DEF OnceInv
<1>3. OnceInv => RefundedAtMostOnce
  <2> SUFFICES ASSUME OnceInv, NEW o \in Orders PROVE refunds[o] <= Cardinality(paid[o])
    BY DEF RefundedAtMostOnce
  <2> DEFINE t == Cardinality(ToRefund(o))
             a == Cardinality(Spent(o))
             c == Cardinality(CapturedEvents(o))
             p == Cardinality(paid[o])
  <2>1. t \in Nat /\ a \in Nat /\ c \in Nat /\ p \in Nat /\ refunds[o] \in Nat
    BY RefundSetsFinite DEF OnceInv
  <2>2. a <= c
    <3>1. Spent(o) \in SUBSET CapturedEvents(o)
      BY DEF Spent
    <3> QED
      BY <3>1, FS_Subset DEF OnceInv, RefundBudget
  <2>3. c <= p /\ refunds[o] + t <= a
    BY DEF OnceInv, RefundBudget
  <2> HIDE DEF t, a, c, p
  <2>4. refunds[o] <= p
    BY <2>1, <2>2, <2>3
  <2> QED
    BY <2>4 DEF p
<1> QED
  BY <1>1, <1>2, <1>3, PTL DEF OrderSafety
=============================================================================
