---------------------------- MODULE DispatchLocks ----------------------------
(***************************************************************************)
(* Two dispatchers on one queue: assignOrderBundle, reassignOrder and      *)
(* offerOrders as concurrent transactions, statement by statement, with    *)
(* the drivers' accept and decline and the sweep of lapsed offers, each of *)
(* which is one UPDATE.  The gates that look only at the driver, and the   *)
(* rest of an order's life, are in OrderLifecycle.                         *)
(***************************************************************************)
EXTENDS RowLocks, FiniteSetsExt

CONSTANTS
    Orders,
    Drivers,
    Nobody,
    Weight,     \* weight_kg of each order
    Limit,      \* max_weight_kg of every vehicle
    Budget      \* how many requests arrive

VARIABLES
    status,     \* orders.status; every order is placed
    assigned,   \* orders.assigned_to
    truck,      \* orders.vehicle_id, by the driver whose vehicle it is
    declined,   \* order_offer_declines
    tx,         \* where each transaction is
    left        \* requests still to come

rows == <<status, assigned, truck, declined>>
vars == <<rows, tx, left, locks>>

Truck(d) == <<"vehicle", d>>
OrderRow(o) == <<"order", o>>
LockRows == {Truck(d) : d \in Drivers} \union {OrderRow(o) : o \in Orders}
Idle == [at |-> "idle", orders |-> {}, driver |-> Nobody]
Requests == [at : {"idle", "truck", "load", "put", "asked", "offer", "order", "swap", "move"},
             orders : SUBSET Orders, driver : Drivers \union {Nobody}]

TypeOK ==
    /\ status \in [Orders -> {"PENDING", "OFFERED", "ASSIGNED", "PICKED_UP"}]
    /\ assigned \in [Orders -> Drivers \union {Nobody}]
    /\ truck \in [Orders -> Drivers \union {Nobody}]
    /\ declined \subseteq Orders \X Drivers
    /\ left \in 0 .. Budget
    /\ tx \in [Clients -> Requests]
    /\ held \in [Clients -> SUBSET LockRows] /\ need \in [Clients -> SUBSET LockRows]

Init ==
    /\ status = [o \in Orders |-> "PENDING"]
    /\ assigned = [o \in Orders |-> Nobody]
    /\ truck = [o \in Orders |-> Nobody]
    /\ declined = {}
    /\ tx = [c \in Clients |-> Idle]
    /\ left = Budget
    /\ NoLocks

At(c, place) == tx[c].at = place /\ Granted(c)

Goto(c, place, wanted) ==
    /\ tx' = [tx EXCEPT ![c].at = place]
    /\ Ask(c, wanted)

Begin(c, place, os, d, wanted) ==
    /\ tx[c].at = "idle"
    /\ left > 0
    /\ left' = left - 1
    /\ tx' = [tx EXCEPT ![c] = [at |-> place, orders |-> os, driver |-> d]]
    /\ Ask(c, wanted)

\* Mutant: a refusal leaves the transaction open.
EndOpen(c) == /\ tx' = [tx EXCEPT ![c] = Idle]
              /\ need' = [need EXCEPT ![c] = {}]
              /\ UNCHANGED held

\* COMMIT or ROLLBACK.
End(c) == tx' = [tx EXCEPT ![c] = Idle] /\ Release(c)

Refuse(c) == End(c) /\ UNCHANGED <<rows, left>>

\* What a driver's vehicle carries, but for the orders being moved.
LoadOn(d, but) ==
    MapThenSumSet(LAMBDA o : Weight[o], {o \in Orders : truck[o] = d} \ but)

Fits(c) ==
    MapThenSumSet(LAMBDA o : Weight[o], tx[c].orders)
        + LoadOn(tx[c].driver, tx[c].orders) <= Limit

\* Mutant: the queue as it was before the wait.
NotReread(os) == TRUE

\* WHERE status = 'PENDING' FOR UPDATE, evaluated again on the locked rows.
AllPending(os) == \A o \in os : status[o] = "PENDING"

OrderRows(os) == {OrderRow(o) : o \in os}

-----------------------------------------------------------------------------
(* assignOrderBundle: the vehicle, then the orders *)

\* Mutant: the vehicle is read without FOR UPDATE.
UnlockedTruck(c, os, d) == Begin(c, "truck", os, d, {})

StartAssign(c, os, d) == Begin(c, "truck", os, d, {Truck(d)})

TakeTruck(c) ==
    /\ At(c, "truck")
    /\ AllPending(tx[c].orders)
    /\ Goto(c, "load", OrderRows(tx[c].orders))
    /\ UNCHANGED <<rows, left>>

\* The load is summed from what is committed.
WeighBundle(c) ==
    /\ At(c, "load")
    /\ AllPending(tx[c].orders)
    /\ Fits(c)
    /\ Goto(c, "put", {})
    /\ UNCHANGED <<rows, left>>

Assign(c) ==
    /\ At(c, "put")
    /\ status' = [o \in Orders |-> IF o \in tx[c].orders THEN "ASSIGNED" ELSE status[o]]
    /\ assigned' = [o \in Orders |-> IF o \in tx[c].orders THEN tx[c].driver ELSE assigned[o]]
    /\ truck' = [o \in Orders |-> IF o \in tx[c].orders THEN tx[c].driver ELSE truck[o]]
    /\ End(c)
    /\ UNCHANGED <<declined, left>>

AssignRefused(c) ==
    /\ \/ At(c, "truck") /\ ~AllPending(tx[c].orders)
       \/ At(c, "load") /\ (~AllPending(tx[c].orders) \/ ~Fits(c))
    /\ Refuse(c)

-----------------------------------------------------------------------------
(* reassignOrder: the order, then the vehicle *)

StartReassign(c, o, d) == Begin(c, "order", {o}, d, {OrderRow(o)})

TheOrder(c) == CHOOSE o \in tx[c].orders : TRUE

ReassignRefusal(c) == status[TheOrder(c)] # "ASSIGNED" \/ assigned[TheOrder(c)] = tx[c].driver

\* No driver: back to the queue.
Unassign(c) ==
    /\ At(c, "order")
    /\ tx[c].driver = Nobody
    /\ status[TheOrder(c)] = "ASSIGNED"
    /\ status' = [status EXCEPT ![TheOrder(c)] = "PENDING"]
    /\ assigned' = [assigned EXCEPT ![TheOrder(c)] = Nobody]
    /\ truck' = [truck EXCEPT ![TheOrder(c)] = Nobody]
    /\ End(c)
    /\ UNCHANGED <<declined, left>>

TakeOrder(c) ==
    /\ At(c, "order")
    /\ tx[c].driver # Nobody
    /\ ~ReassignRefusal(c)
    /\ Goto(c, "swap", {Truck(tx[c].driver)})
    /\ UNCHANGED <<rows, left>>

WeighOrder(c) ==
    /\ At(c, "swap")
    /\ Fits(c)
    /\ Goto(c, "move", {})
    /\ UNCHANGED <<rows, left>>

Reassign(c) ==
    /\ At(c, "move")
    /\ assigned' = [assigned EXCEPT ![TheOrder(c)] = tx[c].driver]
    /\ truck' = [truck EXCEPT ![TheOrder(c)] = tx[c].driver]
    /\ End(c)
    /\ UNCHANGED <<status, declined, left>>

ReassignRefused(c) ==
    /\ \/ At(c, "order") /\ ReassignRefusal(c)
       \/ At(c, "swap") /\ ~Fits(c)
    /\ Refuse(c)

-----------------------------------------------------------------------------
(* offerOrders: the declines are read, then the orders are locked *)

StartOffer(c, os, d) == Begin(c, "asked", os, d, {})

RefusedAmong(c) == \E o \in tx[c].orders : <<o, tx[c].driver>> \in declined

ReadDeclines(c) ==
    /\ At(c, "asked")
    /\ ~RefusedAmong(c)
    /\ Goto(c, "offer", OrderRows({o \in tx[c].orders : status[o] = "PENDING"}))
    /\ UNCHANGED <<rows, left>>

\* The rows that were PENDING when the statement ran.
Offer(c) ==
    /\ At(c, "offer")
    /\ OrderRows(tx[c].orders) \subseteq held[c] \union need[c]
    /\ AllPending(tx[c].orders)
    /\ status' = [o \in Orders |-> IF o \in tx[c].orders THEN "OFFERED" ELSE status[o]]
    /\ assigned' = [o \in Orders |-> IF o \in tx[c].orders THEN tx[c].driver ELSE assigned[o]]
    /\ End(c)
    /\ UNCHANGED <<truck, declined, left>>

OfferRefused(c) ==
    /\ \/ At(c, "asked") /\ RefusedAmong(c)
       \/ At(c, "offer") /\ ~(/\ OrderRows(tx[c].orders) \subseteq held[c] \union need[c]
                              /\ AllPending(tx[c].orders))
    /\ Refuse(c)

-----------------------------------------------------------------------------
(* One UPDATE each, which waits for the row and looks at it anew *)

Free(o) == \A c \in Clients : OrderRow(o) \notin held[c]

Standing(o) == status[o] = "OFFERED" /\ Free(o)

AcceptOffer(o) ==
    /\ Standing(o)
    /\ status' = [status EXCEPT ![o] = "ASSIGNED"]
    /\ UNCHANGED <<assigned, truck, declined, tx, left, locks>>

DeclineOffer(o) ==
    /\ Standing(o)
    /\ status' = [status EXCEPT ![o] = "PENDING"]
    /\ assigned' = [assigned EXCEPT ![o] = Nobody]
    /\ declined' = declined \union {<<o, assigned[o]>>}
    /\ UNCHANGED <<truck, tx, left, locks>>

\* ops/expire-job-offers.js, after offer_expires_at; when that is, is left open.
ExpireOffers ==
    LET gone == {o \in Orders : Standing(o)}
    IN  /\ gone # {}
        /\ \E S \in SUBSET gone \ {{}} :
              /\ status' = [o \in Orders |-> IF o \in S THEN "PENDING" ELSE status[o]]
              /\ assigned' = [o \in Orders |-> IF o \in S THEN Nobody ELSE assigned[o]]
        /\ UNCHANGED <<truck, declined, tx, left, locks>>

\* The driver collects the cargo, and dispatch can no longer move it.
Collect(o) ==
    /\ status[o] = "ASSIGNED" /\ Free(o)
    /\ status' = [status EXCEPT ![o] = "PICKED_UP"]
    /\ UNCHANGED <<assigned, truck, declined, tx, left, locks>>

-----------------------------------------------------------------------------
Lock(c, r) == Acquire(c, r) /\ UNCHANGED <<rows, tx, left>>

\* The detector fails a statement, and the catch rolls back.
DeadlockFound(c) == Deadlocked(c) /\ Refuse(c)

Start(c) ==
    /\ \/ \E os \in SUBSET Orders \ {{}}, d \in Drivers : StartAssign(c, os, d) \/ StartOffer(c, os, d)
       \/ \E o \in Orders, d \in Drivers \union {Nobody} : StartReassign(c, o, d)
    /\ UNCHANGED <<rows>>

Step(c) ==
    \/ TakeTruck(c) \/ WeighBundle(c) \/ Assign(c) \/ AssignRefused(c)
    \/ Unassign(c) \/ TakeOrder(c) \/ WeighOrder(c) \/ Reassign(c) \/ ReassignRefused(c)
    \/ ReadDeclines(c) \/ Offer(c) \/ OfferRefused(c)
    \/ DeadlockFound(c)

Next ==
    \/ \E c \in Clients : Start(c) \/ Step(c) \/ \E r \in need[c] : Lock(c, r)
    \/ \E o \in Orders : AcceptOffer(o) \/ DeclineOffer(o) \/ Collect(o)
    \/ ExpireOffers

\* A statement that can run is run; PostgreSQL queues those that wait for a row.
Spec == Init /\ [][Next]_vars

-----------------------------------------------------------------------------
(* Properties *)

\* ORDERS_ASSIGN_CAPACITY_EXCEEDED: whoever assigns and reassigns at the same
\* time, no vehicle is given more than it may carry.
LoadWithinLimit == \A d \in Drivers : LoadOn(d, {}) <= Limit

\* orderController.js:2024: "Two dispatchers working the same queue must not be
\* able to offer one job to two drivers"; nor may either take it from a driver
\* who holds it but by reassigning.
OfferKept ==
    \A o \in Orders :
        status[o] # "PENDING" /\ status'[o] \in {"OFFERED", "ASSIGNED"} /\ assigned'[o] # assigned[o]
            => status[o] = "ASSIGNED" /\ status'[o] = "ASSIGNED"
OfferStands == [][OfferKept]_vars

\* What it rests on: no row is locked twice, and what a request found of the
\* orders it is about to write stays so, since it holds their rows.
HoldInv ==
    /\ \A c, d \in Clients : c # d => held[c] \intersect held[d] = {}
    /\ \A o \in Orders : status[o] = "OFFERED" => assigned[o] \in Drivers
    /\ \A c \in Clients :
         /\ tx[c].at = "idle" => held[c] = {} /\ need[c] = {}
         /\ tx[c].at = "load" => OrderRows(tx[c].orders) \subseteq held[c] \union need[c]
         /\ tx[c].at = "put"  => OrderRows(tx[c].orders) \subseteq held[c] /\ AllPending(tx[c].orders)
         /\ tx[c].at \in {"order", "swap", "move"} => tx[c].orders # {} /\ OrderRow(TheOrder(c)) \in held[c] \union need[c]
         /\ tx[c].at \in {"swap", "move"} => OrderRow(TheOrder(c)) \in held[c] /\ status[TheOrder(c)] = "ASSIGNED"
         /\ tx[c].at \in {"asked", "offer"} => tx[c].driver \in Drivers

\* orderController.js:2009: "Already refused is not re-offered."
NotReoffered ==
    \A o \in Orders : status[o] = "OFFERED" => <<o, assigned[o]>> \notin declined
=============================================================================
