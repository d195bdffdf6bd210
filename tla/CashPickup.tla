-------------------------------- MODULE CashPickup --------------------------------
(***************************************************************************)
(* The cash-on-pickup confirmation of one order (order.service.ts): the     *)
(* seller shows a code kept in Redis, the buyer redeems it under a Redis    *)
(* lock that expires by itself. Every Redis command is a step; the          *)
(* completion is the one of OrderLifecycle, which accepts an order that is  *)
(* already COMPLETED, so it is counted here.                                *)
(***************************************************************************)
EXTENDS Integers, FiniteSets

CONSTANTS
    Confirmers,     \* requests of confirmCashPickup; one may be retried any time
    Codes,          \* the codes the seller generates, each a new random value
    NoCode

ASSUME PickupConstants == NoCode \notin Codes \cup Confirmers

VARIABLES
    pickup,         \* Orders.status: READY_FOR_PICKUP or COMPLETED
    code,           \* cashPickupCodeKey
    lockHolder,     \* cashPickupLockKey: the request that set it
    confirm,        \* the requests
    drawn,          \* codes a request of generateCashPickupCode has drawn
    shown,          \* ghost: those of them that were stored
    spent,          \* ghost: the completions each code led to
    crossed,        \* ghost: codes whose request was under way when a confirmation consumed
                    \* the order's code, or began before that one had completed it
    lapsed          \* ghost: a lock ended while its request was still inside

codeVars == <<drawn, shown, crossed>>

pickupVars == <<pickup, code, lockHolder, confirm, codeVars, spent, lapsed>>

Inside(c) == confirm[c].pc \notin {"idle", "ended"}

\* generateCashPickupCode: the order waits for pickup when it is read ...
GenerateRead(k) ==
    /\ pickup = "READY_FOR_PICKUP"
    /\ k \notin drawn
    /\ drawn' = drawn \cup {k}
    /\ crossed' = IF \E c \in Confirmers : confirm[c].pc = "consumed" THEN crossed \cup {k} ELSE crossed
    /\ UNCHANGED <<pickup, code, lockHolder, confirm, shown, spent, lapsed>>

\* ... and the code is stored later, over an older one, whatever became of the order.
GenerateWrite(k) ==
    /\ k \in drawn \ shown
    /\ code' = k /\ shown' = shown \cup {k}
    /\ UNCHANGED <<pickup, lockHolder, confirm, drawn, crossed, spent, lapsed>>

\* The code's TTL runs out.
CodeExpires ==
    /\ code # NoCode
    /\ code' = NoCode
    /\ UNCHANGED <<pickup, lockHolder, confirm, codeVars, spent, lapsed>>

\* SET NX with the code the buyer typed; a held lock answers 409.
Lock(c, k) ==
    /\ confirm[c].pc \in {"idle", "ended"}
    /\ lockHolder = NoCode
    /\ lockHolder' = c
    /\ confirm' = [confirm EXCEPT ![c] = [pc |-> "locked", typed |-> k]]
    /\ UNCHANGED <<pickup, code, codeVars, spent, lapsed>>

\* The stored code is compared; a missing or a different one ends in the finally.
Compare(c) ==
    /\ confirm[c].pc = "locked"
    /\ confirm' = [confirm EXCEPT ![c].pc = IF code = confirm[c].typed THEN "matched" ELSE "finally"]
    /\ UNCHANGED <<pickup, code, lockHolder, codeVars, spent, lapsed>>

\* Variant of Consume that leaves the code for a retry.
Consume_Keep(c) ==
    /\ confirm[c].pc = "matched"
    /\ confirm' = [confirm EXCEPT ![c].pc = "consumed"]
    /\ UNCHANGED <<pickup, code, lockHolder, codeVars, spent, lapsed>>

\* The code is deleted by key, whichever it is by then.
Consume(c) ==
    /\ confirm[c].pc = "matched"
    /\ code' = NoCode
    /\ confirm' = [confirm EXCEPT ![c].pc = "consumed"]
    /\ crossed' = crossed \cup (drawn \ shown)
    /\ UNCHANGED <<pickup, lockHolder, drawn, shown, spent, lapsed>>

\* completeOrderInternal commits, or fails and leaves the order as it was.
CompletePickup(c) ==
    /\ confirm[c].pc = "consumed"
    /\ \/ /\ pickup' = "COMPLETED"
          /\ spent' = [spent EXCEPT ![confirm[c].typed] = @ + 1]
       \/ UNCHANGED <<pickup, spent>>
    /\ confirm' = [confirm EXCEPT ![c].pc = "finally"]
    /\ UNCHANGED <<code, lockHolder, codeVars, lapsed>>

\* The finally block deletes the lock by key, whoever holds it by then.
Unlock(c) ==
    /\ confirm[c].pc = "finally"
    /\ lockHolder' = NoCode
    /\ confirm' = [confirm EXCEPT ![c].pc = "ended"]
    /\ UNCHANGED <<pickup, code, codeVars, spent, lapsed>>

\* The lock's 30 seconds pass, or the process dies and never reaches its finally.
LockExpires ==
    /\ lockHolder # NoCode
    /\ lockHolder' = NoCode
    /\ lapsed' = (lapsed \/ Inside(lockHolder))
    /\ UNCHANGED <<pickup, code, confirm, codeVars, spent>>

ConfirmerDies(c) ==
    /\ Inside(c)
    /\ confirm' = [confirm EXCEPT ![c].pc = "ended"]
    /\ UNCHANGED <<pickup, code, lockHolder, codeVars, spent, lapsed>>

PickupInit ==
    /\ pickup = "READY_FOR_PICKUP"
    /\ code = NoCode /\ lockHolder = NoCode
    /\ confirm = [c \in Confirmers |-> [pc |-> "idle", typed |-> NoCode]]
    /\ drawn = {} /\ shown = {} /\ spent = [k \in Codes |-> 0]
    /\ crossed = {} /\ lapsed = FALSE

PickupNext ==
    \/ \E k \in Codes : GenerateRead(k) \/ GenerateWrite(k)
    \/ CodeExpires \/ LockExpires
    \/ \E c \in Confirmers :
          \/ \E k \in Codes : Lock(c, k)
          \/ Compare(c) \/ Consume(c) \/ CompletePickup(c) \/ Unlock(c) \/ ConfirmerDies(c)

PickupSpec == PickupInit /\ [][PickupNext]_pickupVars

-----------------------------------------------------------------------------
\* Every variable keeps its type.
PickupTypeOK ==
    /\ pickup \in {"READY_FOR_PICKUP", "COMPLETED"}
    /\ code \in Codes \cup {NoCode} /\ lockHolder \in Confirmers \cup {NoCode}
    /\ confirm \in [Confirmers ->
          [pc : {"idle", "locked", "matched", "consumed", "finally", "ended"},
           typed : Codes \cup {NoCode}]]
    /\ shown \subseteq drawn /\ drawn \subseteq Codes /\ spent \in [Codes -> Nat]
    /\ crossed \subseteq drawn /\ lapsed \in BOOLEAN

\* While no lock has lapsed under a running confirmation, one confirmation is
\* inside at a time, through retries, dead requests and wrong codes (the comment
\* over the lock promises as much).
OneConfirmationInside ==
    ~lapsed => \A c, d \in Confirmers : Inside(c) /\ Inside(d) => c = d

\* A code completes the order at most once while no lock has lapsed, however
\* often it is typed and whoever reads it: it is consumed before the completion.
CodeSpentOnce == ~lapsed => \A k \in Codes : spent[k] <= 1

\* A code that completed the order is not stored any more, so nobody confirms with it
\* later, even where two confirmations were inside at once.
RedeemedCodesAreDead == code # NoCode => spent[code] = 0

\* The order is completed by the one code it was handed over with, unless a lock lapsed. A
\* code whose request read the order before a confirmation had completed it is stored
\* nevertheless, and the buyer can complete the order with it again.
OneHandover ==
    ~lapsed => \A k, l \in Codes \ crossed : spent[k] > 0 /\ spent[l] > 0 => k = l

\* A pickup is confirmed by one request at a time, with a code that works once, and no
\* other code completes the order unless it was asked for before the confirmation ended.
PickupIsSafe ==
    /\ PickupTypeOK /\ OneConfirmationInside /\ CodeSpentOnce
    /\ RedeemedCodesAreDead /\ OneHandover
=============================================================================
