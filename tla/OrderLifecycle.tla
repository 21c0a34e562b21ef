--------------------------- MODULE OrderLifecycle ---------------------------
(***************************************************************************)
(* One row of the orders table from booking to hand-over, and every        *)
(* handler that writes it.  A handler runs in one PostgreSQL transaction   *)
(* that holds the row's lock, so it is one action here; what happens       *)
(* between the statements of concurrent transactions is the subject of     *)
(* other modules.                                                          *)
(*                                                                         *)
(*   dispatch     controllers/orderController.js  assign, reassign, offer  *)
(*   the driver   accept, decline, PATCH status, confirm-delivery          *)
(*   money        services/paymentService.js, reduced to payment_status    *)
(*   runs         controllers/tripController.js, reduced to the order row  *)
(*   the fleet    controllers/adminController.js, driver verification      *)
(*                                                                         *)
(* A refusal changes nothing and is the action not being enabled.  The     *)
(* cash hold of assignOrderBundle can only refuse, and is left out.        *)
(***************************************************************************)
EXTENDS Naturals, FiniteSets, FiniteSetsExt

CONSTANTS
    Orders,            \* rows of orders
    Drivers,           \* usernames with role 'driver'
    NoDriver,          \* NULL in assigned_to and current_driver_id
    Vehicles,          \* fleet_vehicles.id
    NoVehicle,         \* NULL in vehicle_id
    Weight,            \* orders.weight_kg
    MaxWeight,         \* fleet_vehicles.max_weight_kg
    HasPhone,          \* orders with a number to text the hand-over code to
    MaxAttempts,       \* DELIVERY_CODE_MAX_ATTEMPTS
    MaxConfirmations,  \* bound: hand-overs recorded for one order
    SideDoors          \* which of force, runs and leaked transactions happen

ASSUME DriversAssumption == NoDriver \notin Drivers
ASSUME VehiclesAssumption ==
    /\ Vehicles \subseteq Nat
    /\ NoVehicle \notin Vehicles
ASSUME WeightAssumption ==
    /\ Weight \in [Orders -> Nat]
    /\ MaxWeight \in [Vehicles -> Nat]
ASSUME BoundsAssumption ==
    /\ HasPhone \subseteq Orders
    /\ MaxAttempts \in Nat \ {0}
    /\ MaxConfirmations \in Nat \ {0}
ASSUME SideDoorsAssumption == SideDoors \subseteq {"force", "run", "leak"}

VARIABLES
    status,            \* orders.status
    assigned_to,       \* orders.assigned_to
    vehicle_id,        \* orders.vehicle_id
    offer_expires_at,  \* "none", still "running", or "lapsed" (before NOW())
    placed,            \* pickup and delivery coordinates are known
    payment_status,    \* FAILED reads as UNPAID everywhere it is tested
    code,              \* delivery_code_hash is set
    attempts,          \* delivery_code_attempts
    confirmations,     \* rows of delivery_confirmations
    arrivals,          \* arrival statuses with a row in order_status_logs
    stops,             \* kinds of trip_stops of the order still open
    leaked,            \* arrival written by a transaction nobody ended
    doors,             \* side doors this order went through (history)
    declines,          \* rows of order_offer_declines
    driverOf,          \* fleet_vehicles.current_driver_id
    verified           \* drivers whose documents are all approved

dispatch == <<assigned_to, vehicle_id, offer_expires_at>>
proof    == <<code, attempts, confirmations, arrivals>>
run      == <<stops, doors>>
world    == <<declines, driverOf, verified>>
vars     == <<status, dispatch, placed, payment_status, proof, run, leaked, world>>

-----------------------------------------------------------------------------
(* Vocabulary *)

Status == {"PENDING", "OFFERED", "ASSIGNED", "AT_PICKUP", "PICKED_UP",
           "IN_TRANSIT", "ARRIVED", "DELIVERED", "CANCELLED"}
Terminal        == {"DELIVERED", "CANCELLED"}
ArrivalStatuses == {"AT_PICKUP", "ARRIVED"}
Carrying        == {"AT_PICKUP", "PICKED_UP", "IN_TRANSIT", "ARRIVED"}
DriverAllowed   == {"AT_PICKUP", "PICKED_UP", "IN_TRANSIT", "ARRIVED", "DELIVERED"}
DeliverableFrom == {"ARRIVED"}
Payable         == {"IN_TRANSIT", "ARRIVED", "DELIVERED"}
Plannable       == {"PENDING", "ASSIGNED", "PICKED_UP", "IN_TRANSIT", "ARRIVED"}
Collected       == {"PICKED_UP", "IN_TRANSIT", "ARRIVED"}
StopKinds       == {"PICKUP", "DROP"}
NoLeak          == "none"

Allowed(from) ==
    CASE from = "PENDING"    -> {"OFFERED", "ASSIGNED", "CANCELLED"}
      [] from = "OFFERED"    -> {"ASSIGNED", "PENDING", "CANCELLED"}
      [] from = "ASSIGNED"   -> {"ASSIGNED", "AT_PICKUP", "PICKED_UP",
                                 "IN_TRANSIT", "PENDING", "CANCELLED"}
      [] from = "AT_PICKUP"  -> {"PICKED_UP", "IN_TRANSIT", "CANCELLED"}
      [] from = "PICKED_UP"  -> {"IN_TRANSIT", "CANCELLED"}
      [] from = "IN_TRANSIT" -> {"ARRIVED", "CANCELLED"}
      [] from = "ARRIVED"    -> {"CANCELLED"}
      [] OTHER               -> {}

\* Mutant: the check there was before orderTransitions.js.
AnyKnownStatus(from, to) == to \in Status

CanTransition(from, to) == to \in Allowed(from)

\* What a DONE stop makes of its order.
StopCompletion == [kind \in StopKinds |->
                      IF kind = "PICKUP" THEN "PICKED_UP" ELSE "DELIVERED"]

\* f with every order of S mapped to v.
Put(f, S, v) == [o \in DOMAIN f |-> IF o \in S THEN v ELSE f[o]]

\* Another session's open transaction does not hold the row.
Unlocked(o) == leaked[o] = NoLeak

\* The vehicle a dispatch to d loads: of several, the one with the highest id.
Drives(d, v) ==
    /\ driverOf[v] = d
    /\ \A w \in Vehicles : driverOf[w] = d => w <= v

WeightOf(S) == MapThenSumSet(LAMBDA o : Weight[o], S)

\* The unfinished orders written against vehicle v.
LoadOn(v) == {o \in Orders : vehicle_id[o] = v /\ status[o] \notin Terminal}

\* Mutant: the new cargo alone is weighed.
FitsEmpty(v, load, S) == WeightOf(S) <= MaxWeight[v]

\* The capacity check: S on top of what the query counted as load.
Fits(v, load, S) == WeightOf(load) + WeightOf(S) <= MaxWeight[v]

UnplacedAmong(S) == {o \in S : ~placed[o]}

\* Mutant: a driver at the gate can still lose the job.
UntilCollected(o) == status[o] \in {"ASSIGNED", "AT_PICKUP"}

\* reassignOrder: "Only orders awaiting pickup can be reassigned."
Reassignable(o) == status[o] = "ASSIGNED"

\* verifyDeliveryCode: a code was issued and may still be tried.
CodeOpen(o) == code[o] /\ attempts[o] < MaxAttempts

-----------------------------------------------------------------------------
TypeOK ==
    /\ status \in [Orders -> Status]
    /\ assigned_to \in [Orders -> Drivers \union {NoDriver}]
    /\ vehicle_id \in [Orders -> Vehicles \union {NoVehicle}]
    /\ offer_expires_at \in [Orders -> {"none", "running", "lapsed"}]
    /\ placed \in [Orders -> BOOLEAN]
    /\ payment_status \in [Orders -> {"UNPAID", "PENDING", "PAID"}]
    /\ code \in [Orders -> BOOLEAN]
    /\ attempts \in [Orders -> 0 .. MaxAttempts]
    /\ confirmations \in [Orders -> 0 .. MaxConfirmations]
    /\ arrivals \in [Orders -> SUBSET ArrivalStatuses]
    /\ stops \in [Orders -> SUBSET StopKinds]
    /\ leaked \in [Orders -> ArrivalStatuses \union {NoLeak}]
    /\ doors \in [Orders -> SUBSET {"force", "run", "stop", "leak"}]
    /\ declines \in SUBSET (Orders \X Drivers)
    /\ driverOf \in [Vehicles -> Drivers \union {NoDriver}]
    /\ verified \in SUBSET Drivers

\* createOrder derives both points; a public booking has neither until placed.
Init ==
    /\ status = [o \in Orders |-> "PENDING"]
    /\ assigned_to = [o \in Orders |-> NoDriver]
    /\ vehicle_id = [o \in Orders |-> NoVehicle]
    /\ offer_expires_at = [o \in Orders |-> "none"]
    /\ placed \in [Orders -> BOOLEAN]
    /\ payment_status = [o \in Orders |-> "UNPAID"]
    /\ code = [o \in Orders |-> FALSE]
    /\ attempts = [o \in Orders |-> 0]
    /\ confirmations = [o \in Orders |-> 0]
    /\ arrivals = [o \in Orders |-> {}]
    /\ stops = [o \in Orders |-> {}]
    /\ leaked = [o \in Orders |-> NoLeak]
    /\ doors = [o \in Orders |-> {}]
    /\ declines = {}
    /\ driverOf \in [Vehicles -> Drivers \union {NoDriver}]
    /\ verified \in SUBSET Drivers

-----------------------------------------------------------------------------
(* Dispatch *)

\* PATCH place: refused once money is committed, whatever the status.
PlaceOrder(o) ==
    /\ Unlocked(o)
    /\ payment_status[o] \notin {"PAID", "PENDING"}
    /\ placed' = [placed EXCEPT ![o] = TRUE]
    /\ UNCHANGED <<status, dispatch, payment_status, proof, run, leaked, world>>

\* POST assign: all the orders or none, onto the driver's vehicle.
AssignOrderBundle(S, d, v) ==
    /\ Drives(d, v)
    /\ d \in verified
    /\ \A o \in S : Unlocked(o) /\ status[o] = "PENDING"
    /\ UnplacedAmong(S) = {}
    /\ Fits(v, LoadOn(v), S)
    /\ status' = Put(status, S, "ASSIGNED")
    /\ assigned_to' = Put(assigned_to, S, d)
    /\ vehicle_id' = Put(vehicle_id, S, v)
    /\ UNCHANGED <<offer_expires_at, placed, payment_status, proof, run, leaked, world>>

\* PATCH reassign with a driver.
ReassignOrder(o, d, v) ==
    /\ Unlocked(o)
    /\ UnplacedAmong({o}) = {}
    /\ Reassignable(o)
    /\ assigned_to[o] # d
    /\ Drives(d, v)
    /\ d \in verified
    /\ Fits(v, LoadOn(v) \ {o}, {o})
    /\ assigned_to' = [assigned_to EXCEPT ![o] = d]
    /\ vehicle_id' = [vehicle_id EXCEPT ![o] = v]
    /\ UNCHANGED <<status, offer_expires_at, placed, payment_status, proof, run,
                   leaked, world>>

\* PATCH reassign without one: back to the queue.
UnassignOrder(o) ==
    /\ Unlocked(o)
    /\ UnplacedAmong({o}) = {}
    /\ Reassignable(o)
    /\ status' = [status EXCEPT ![o] = "PENDING"]
    /\ assigned_to' = [assigned_to EXCEPT ![o] = NoDriver]
    /\ vehicle_id' = [vehicle_id EXCEPT ![o] = NoVehicle]
    /\ UNCHANGED <<offer_expires_at, placed, payment_status, proof, run, leaked, world>>

\* POST offer: neither the vehicle nor the documents of d are looked at.
OfferOrders(S, d) ==
    /\ \A o \in S : Unlocked(o) /\ status[o] = "PENDING" /\ <<o, d>> \notin declines
    /\ UnplacedAmong(S) = {}
    /\ status' = Put(status, S, "OFFERED")
    /\ assigned_to' = Put(assigned_to, S, d)
    /\ offer_expires_at' = Put(offer_expires_at, S, "running")
    /\ UNCHANGED <<vehicle_id, placed, payment_status, proof, run, leaked, world>>

\* POST accept: one guarded UPDATE; vehicle_id is not written.
AcceptOffer(o, d) ==
    /\ Unlocked(o)
    /\ status[o] = "OFFERED"
    /\ assigned_to[o] = d
    /\ offer_expires_at[o] # "lapsed"
    /\ status' = [status EXCEPT ![o] = "ASSIGNED"]
    /\ offer_expires_at' = [offer_expires_at EXCEPT ![o] = "none"]
    /\ UNCHANGED <<assigned_to, vehicle_id, placed, payment_status, proof, run,
                   leaked, world>>

\* POST decline: the refusal is kept, a lapsed offer may still be declined.
DeclineOffer(o, d) ==
    /\ Unlocked(o)
    /\ status[o] = "OFFERED"
    /\ assigned_to[o] = d
    /\ status' = [status EXCEPT ![o] = "PENDING"]
    /\ assigned_to' = [assigned_to EXCEPT ![o] = NoDriver]
    /\ offer_expires_at' = [offer_expires_at EXCEPT ![o] = "none"]
    /\ declines' = declines \union {<<o, d>>}
    /\ UNCHANGED <<vehicle_id, placed, payment_status, proof, run, leaked, driverOf,
                   verified>>

\* Time passes offer_expires_at.
LapseOffer(o) ==
    /\ offer_expires_at[o] = "running"
    /\ offer_expires_at' = [offer_expires_at EXCEPT ![o] = "lapsed"]
    /\ UNCHANGED <<status, assigned_to, vehicle_id, placed, payment_status, proof,
                   run, leaked, world>>

\* ops/expire-job-offers.js: one UPDATE over every lapsed offer.
ExpireOffers ==
    LET lapsed == {o \in Orders : status[o] = "OFFERED" /\ offer_expires_at[o] = "lapsed"} IN
    /\ lapsed # {}
    /\ \A o \in lapsed : Unlocked(o)
    /\ status' = Put(status, lapsed, "PENDING")
    /\ assigned_to' = Put(assigned_to, lapsed, NoDriver)
    /\ offer_expires_at' = Put(offer_expires_at, lapsed, "none")
    /\ UNCHANGED <<vehicle_id, placed, payment_status, proof, run, leaked, world>>

-----------------------------------------------------------------------------
(* The journey *)

\* Mutant: a new code on every move.
ReissueDeliveryCode(o) ==
    IF o \notin HasPhone
    THEN UNCHANGED <<code, attempts>>
    ELSE /\ code' = [code EXCEPT ![o] = TRUE]
         /\ attempts' = [attempts EXCEPT ![o] = 0]

\* issueDeliveryCode: an order that has a code, or no phone, is left alone.
IssueDeliveryCode(o) ==
    IF code[o] \/ o \notin HasPhone
    THEN UNCHANGED <<code, attempts>>
    ELSE /\ code' = [code EXCEPT ![o] = TRUE]
         /\ attempts' = [attempts EXCEPT ![o] = 0]

\* Mutant: previous and new status swapped in the log row.
StampPrevious(o, to) ==
    arrivals' = [arrivals EXCEPT ![o] = @ \union ({status[o]} \intersect ArrivalStatuses)]

\* The row of order_status_logs, kept when detention is read from it.
Stamp(o, to) ==
    arrivals' = [arrivals EXCEPT ![o] = @ \union ({to} \intersect ArrivalStatuses)]

\* What PATCH status writes once its checks have passed.
MoveOrder(o, to) ==
    /\ status' = [status EXCEPT ![o] = to]
    /\ IF to \in {"IN_TRANSIT", "ARRIVED"}
       THEN IssueDeliveryCode(o)
       ELSE UNCHANGED <<code, attempts>>
    /\ Stamp(o, to)
    /\ UNCHANGED <<dispatch, placed, payment_status, confirmations, run, leaked, world>>

\* PATCH status by the driver the order is assigned to.
UpdateStatusByDriver(o, to, d) ==
    /\ Unlocked(o)
    /\ to \in DriverAllowed
    /\ assigned_to[o] = d
    /\ CanTransition(status[o], to)
    /\ MoveOrder(o, to)

\* PATCH status by a dispatcher or an admin: any order, no arrivals.
UpdateStatusByDispatch(o, to) ==
    /\ Unlocked(o)
    /\ to \notin ArrivalStatuses
    /\ CanTransition(status[o], to)
    /\ ~(to = "CANCELLED" /\ payment_status[o] = "PAID")
    /\ MoveOrder(o, to)

\* The same request for an arrival answers 403 after the UPDATE and without
\* ROLLBACK: the client returns to the pool with the row written and locked.
LeakArrival(o, to) ==
    /\ "leak" \in SideDoors
    /\ Unlocked(o)
    /\ to \in ArrivalStatuses
    /\ CanTransition(status[o], to)
    /\ leaked' = [leaked EXCEPT ![o] = to]
    /\ UNCHANGED <<status, dispatch, placed, payment_status, proof, run, world>>

\* The next request served by that client commits its own work and this.
LeakCommits(o) ==
    /\ ~Unlocked(o)
    /\ status' = [status EXCEPT ![o] = leaked[o]]
    /\ leaked' = [leaked EXCEPT ![o] = NoLeak]
    /\ doors' = [doors EXCEPT ![o] = @ \union {"leak"}]
    /\ UNCHANGED <<dispatch, placed, payment_status, proof, stops, world>>

\* It rolls back, or the idle client is closed.
LeakRollsBack(o) ==
    /\ ~Unlocked(o)
    /\ leaked' = [leaked EXCEPT ![o] = NoLeak]
    /\ UNCHANGED <<status, dispatch, placed, payment_status, proof, run, world>>

\* PATCH force-status: any other status, admin only, logged as force:<user>.
ForceStatus(o, to) ==
    /\ "force" \in SideDoors
    /\ Unlocked(o)
    /\ to # status[o]
    /\ status' = [status EXCEPT ![o] = to]
    /\ Stamp(o, to)
    /\ doors' = [doors EXCEPT ![o] = @ \union {"force"}]
    /\ UNCHANGED <<dispatch, placed, payment_status, code, attempts, confirmations,
                   stops, leaked, world>>

\* confirm-delivery with a wrong code: counted, and committed, whatever the
\* order's status and whoever asks.
SubmitWrongCode(o) ==
    /\ Unlocked(o)
    /\ CodeOpen(o)
    /\ attempts' = [attempts EXCEPT ![o] = @ + 1]
    /\ UNCHANGED <<status, dispatch, placed, payment_status, code, confirmations,
                   arrivals, run, leaked, world>>

\* confirm-delivery that succeeds: a photo, or the right code within the limit,
\* from the order's driver or from dispatch (NoDriver).
ConfirmDelivery(o, by, evidence) ==
    /\ Unlocked(o)
    /\ evidence = "code" => CodeOpen(o)
    /\ status[o] \in DeliverableFrom
    /\ by \in Drivers => assigned_to[o] = by
    /\ confirmations[o] < MaxConfirmations
    /\ confirmations' = [confirmations EXCEPT ![o] = @ + 1]
    /\ status' = [status EXCEPT ![o] = "DELIVERED"]
    /\ UNCHANGED <<dispatch, placed, payment_status, code, attempts, arrivals, run,
                   leaked, world>>

-----------------------------------------------------------------------------
(* Money and runs, as the order row sees them *)

\* requestPaymentForOrder: a prompt is on the customer's phone.
RequestPayment(o) ==
    /\ Unlocked(o)
    /\ status[o] \in Payable
    /\ payment_status[o] # "PAID"
    /\ placed[o]
    /\ payment_status' = [payment_status EXCEPT ![o] = "PENDING"]
    /\ UNCHANGED <<status, dispatch, placed, proof, run, leaked, world>>

\* reconcilePaymentRequest: the provider's verdict, whatever the order is by now.
SettlePayment(o, verdict) ==
    /\ Unlocked(o)
    /\ payment_status[o] = "PENDING"
    /\ payment_status' = [payment_status EXCEPT ![o] = verdict]
    /\ UNCHANGED <<status, dispatch, placed, proof, run, leaked, world>>

\* recordCashPayment.  A prompt in flight refuses it; one that timed out leaves
\* payment_status PENDING and does not.
RecordCash(o) ==
    /\ Unlocked(o)
    /\ status[o] \in Payable
    /\ payment_status[o] # "PAID"
    /\ placed[o]
    /\ payment_status' = [payment_status EXCEPT ![o] = "PAID"]
    /\ UNCHANGED <<status, dispatch, placed, proof, run, leaked, world>>

\* The order row of a run given to d: assigned, and out of the queue.
HandRunTo(o, d) ==
    IF d = NoDriver
    THEN UNCHANGED <<status, assigned_to>>
    ELSE /\ assigned_to' = [assigned_to EXCEPT ![o] = d]
         /\ status' = [status EXCEPT ![o] = IF @ = "PENDING" THEN "ASSIGNED" ELSE @]

\* createTrip, for one of its orders.
PlanRun(o, d) ==
    LET planned == IF status[o] \in Collected THEN {"DROP"} ELSE StopKinds IN
    /\ "run" \in SideDoors
    /\ Unlocked(o)
    /\ status[o] \in Plannable
    /\ d \in Drivers => d \in verified /\ \E v \in Vehicles : driverOf[v] = d
    /\ stops[o] \intersect planned = {}
    /\ stops' = [stops EXCEPT ![o] = @ \union planned]
    /\ doors' = [doors EXCEPT ![o] = @ \union {"run"}]
    /\ HandRunTo(o, d)
    /\ UNCHANGED <<vehicle_id, offer_expires_at, placed, payment_status, proof,
                   leaked, world>>

\* updateTrip of a run the order has a stop on, finished or not.  The gate on
\* the driver is skipped when the request names none, and papers lapse, so any
\* driver may be the run's.
UpdateRun(o, d) ==
    /\ Unlocked(o)
    /\ "run" \in doors[o]
    /\ HandRunTo(o, d)
    /\ UNCHANGED <<vehicle_id, offer_expires_at, placed, payment_status, proof, run,
                   leaked, world>>

\* updateStop to DONE: the order takes the stop's status from any other.
CompleteStop(o, kind) ==
    /\ Unlocked(o)
    /\ kind \in stops[o]
    /\ stops' = [stops EXCEPT ![o] = @ \ {kind}]
    /\ status' = [status EXCEPT ![o] = StopCompletion[kind]]
    /\ doors' = [doors EXCEPT ![o] = @ \union {"stop"}]
    /\ UNCHANGED <<dispatch, placed, payment_status, proof, leaked, world>>

\* updateStop to FAILED or SKIPPED, or the run is cancelled.
CloseStop(o, kind) ==
    /\ kind \in stops[o]
    /\ stops' = [stops EXCEPT ![o] = @ \ {kind}]
    /\ UNCHANGED <<status, dispatch, placed, payment_status, proof, doors, leaked, world>>

-----------------------------------------------------------------------------
(* The fleet *)

\* assignVehicle: the orders loaded on v are not looked at.
AssignVehicle(v, d) ==
    /\ driverOf' = [driverOf EXCEPT ![v] = d]
    /\ UNCHANGED <<status, dispatch, placed, payment_status, proof, run, leaked,
                   declines, verified>>

\* A document is approved, rejected or expires.
ChangeVerification(d) ==
    /\ verified' = IF d \in verified THEN verified \ {d} ELSE verified \union {d}
    /\ UNCHANGED <<status, dispatch, placed, payment_status, proof, run, leaked,
                   declines, driverOf>>

-----------------------------------------------------------------------------
Bundles == SUBSET Orders \ {{}}

Dispatching ==
    \/ \E o \in Orders : PlaceOrder(o) \/ UnassignOrder(o) \/ LapseOffer(o)
    \/ \E S \in Bundles, d \in Drivers, v \in Vehicles : AssignOrderBundle(S, d, v)
    \/ \E S \in Bundles, d \in Drivers : OfferOrders(S, d)
    \/ \E o \in Orders, d \in Drivers, v \in Vehicles : ReassignOrder(o, d, v)
    \/ \E o \in Orders, d \in Drivers : AcceptOffer(o, d) \/ DeclineOffer(o, d)
    \/ ExpireOffers

Moving ==
    \/ \E o \in Orders, to \in Status, d \in Drivers : UpdateStatusByDriver(o, to, d)
    \/ \E o \in Orders, to \in Status : UpdateStatusByDispatch(o, to)
    \/ \E o \in Orders, to \in Status : LeakArrival(o, to) \/ ForceStatus(o, to)
    \/ \E o \in Orders : LeakCommits(o) \/ LeakRollsBack(o) \/ SubmitWrongCode(o)
    \/ \E o \in Orders, by \in Drivers \union {NoDriver}, e \in {"photo", "code"} :
          ConfirmDelivery(o, by, e)

Charging ==
    \E o \in Orders : \/ RequestPayment(o)
                      \/ \E verdict \in {"PAID", "UNPAID"} : SettlePayment(o, verdict)
                      \/ RecordCash(o)

Running ==
    \/ \E o \in Orders, d \in Drivers \union {NoDriver} : PlanRun(o, d)
    \/ \E o \in Orders, d \in Drivers : UpdateRun(o, d)
    \/ \E o \in Orders, kind \in StopKinds : CompleteStop(o, kind) \/ CloseStop(o, kind)

Managing ==
    \/ \E v \in Vehicles, d \in Drivers \union {NoDriver} : AssignVehicle(v, d)
    \/ \E d \in Drivers : ChangeVerification(d)

Next == Dispatching \/ Moving \/ Charging \/ Running \/ Managing

Spec == Init /\ [][Next]_vars

\* The clock runs.  Nothing in the repository runs the expiry sweep.
ClockSpec == Spec /\ \A o \in Orders : WF_vars(LapseOffer(o))

-----------------------------------------------------------------------------
(* Safety.  "Forced" is the admin's force-status; a DONE stop and a leaked   *)
(* transaction also write a status without its rules, and where a property   *)
(* excuses them a run with a violation shows why it has to.                  *)

Used(o, which) == doors[o] \intersect which # {}

\* An order is DELIVERED exactly when one hand-over was recorded for it: no
\* second confirmation, none on an order that later goes elsewhere, and no
\* delivery without a photo or a code (confirmDelivery, orderTransitions rule 2).
DeliveredWithProof ==
    \A o \in Orders : ~Used(o, {"force", "stop"}) =>
        confirmations[o] = (IF status[o] = "DELIVERED" THEN 1 ELSE 0)

\* Detention is charged from the newest arrival row of order_status_logs, so an
\* order standing at a gate has one, and a delivered order's timeline shows the
\* arrival (confirmDelivery refuses an order that is not ARRIVED).
ArrivalOnRecord ==
    \A o \in Orders : ~Used(o, {"leak"}) =>
        /\ status[o] \in ArrivalStatuses => status[o] \in arrivals[o]
        /\ status[o] = "DELIVERED" /\ ~Used(o, {"force", "stop"}) =>
              "ARRIVED" \in arrivals[o]

\* A vehicle never carries more than its limit in unfinished orders, however
\* assignments, reassignments, cancellations and vehicle hand-overs interleave
\* (assignOrderBundle, reassignOrder); a forced or run-revived order is excused.
LoadWithinLimit ==
    \A v \in Vehicles :
        (\A o \in LoadOn(v) : ~Used(o, {"force", "stop"})) =>
            WeightOf(LoadOn(v)) <= MaxWeight[v]

\* An order is with a driver only when somebody has said where it goes, by every
\* route of the order endpoints: assign, reassign, offer and PATCH status
\* (unplacedAmong; the test "cannot be sent to a driver by any route").  Planning
\* a run is a route that does not ask: the same formula is refuted with runs.
DispatchedIsPlaced ==
    \A o \in Orders : assigned_to[o] \in Drivers => placed[o]

(* Action properties *)

Rank == [s \in Status |->
            CASE s = "PENDING"    -> 0 [] s = "OFFERED"   -> 1
              [] s = "ASSIGNED"   -> 2 [] s = "AT_PICKUP" -> 3
              [] s = "PICKED_UP"  -> 4 [] s = "IN_TRANSIT" -> 5
              [] s = "ARRIVED"    -> 6 [] s = "DELIVERED" -> 7
              [] s = "CANCELLED"  -> 8]

\* An order goes forward or is cancelled, and never leaves a terminal status;
\* the way back is the queue, and only before collection (orderTransitions
\* rule 1, through every handler that writes a status).
JourneyOnlyForward ==
    [][\A o \in Orders : ~Used(o, {"force", "stop"})' =>
          \/ status'[o] = status[o]
          \/ status[o] \notin Terminal /\ Rank[status'[o]] > Rank[status[o]]
          \/ status[o] \in {"OFFERED", "ASSIGNED"} /\ status'[o] = "PENDING"]_vars

\* Once a driver is at the gate the cargo keeps its driver and its vehicle until
\* it is delivered or cancelled (reassignOrder: "reassigning it to someone else
\* who doesn't have the truck doesn't reflect reality").
CargoKeepsItsDriver ==
    [][\A o \in Orders :
          status[o] \in Carrying /\ ~Used(o, {"force", "run", "stop"})' =>
              /\ assigned_to'[o] = assigned_to[o]
              /\ vehicle_id'[o] = vehicle_id[o]]_vars

\* A code the recipient holds stays the code, and no guess against it is ever
\* forgotten: not by moving the order, nor by issuing again on arrival
\* (issueDeliveryCode "Idempotent", verifyDeliveryCode, the COMMIT on failure).
GuessesNeverForgotten ==
    [][\A o \in Orders : code[o] => code'[o] /\ attempts'[o] >= attempts[o]]_vars

\* The promise this keeps while no side door is used.
PhaseOf(s) ==
    CASE s = "PENDING" -> "waiting" [] s = "OFFERED" -> "offered"
      [] s = "ASSIGNED" -> "held"   [] s = "DELIVERED" -> "delivered"
      [] s = "CANCELLED" -> "cancelled" [] OTHER -> "carried"

Promise == INSTANCE JobPromise WITH
    Jobs    <- Orders,
    Holders <- (Drivers \union {NoDriver}) \X (Vehicles \union {NoVehicle}),
    phase   <- [o \in Orders |-> PhaseOf(status[o])],
    holder  <- [o \in Orders |-> <<assigned_to[o], vehicle_id[o]>>],
    proven  <- [o \in Orders |-> confirmations[o] > 0]

\* Every handler that writes an order implements a step of the promise or none.
KeepsThePromise == Promise!Spec

-----------------------------------------------------------------------------
(* What the repository says and the code does not do: TLC refutes each of    *)
(* these on a small instance.                                                *)

\* orderTransitions.js, rule 2: confirmDelivery "is the only door" to DELIVERED,
\* short of an admin forcing it.
DeliveredOnlyByProof ==
    \A o \in Orders :
        status[o] = "DELIVERED" /\ ~Used(o, {"force"}) => confirmations[o] > 0

\* confirmDelivery: a job closed "without ever being marked arrived leaves the
\* customer's timeline with no arrival on it".
DeliveryShowsArrival ==
    \A o \in Orders :
        status[o] = "DELIVERED" /\ ~Used(o, {"force"}) => "ARRIVED" \in arrivals[o]

\* updateOrderStatus refuses a cancellation that would be "money kept against a
\* job that did not happen, and appears on no board".
CancelledIsNotPaid ==
    \A o \in Orders : ~(status[o] = "CANCELLED" /\ payment_status[o] = "PAID")

\* orderTransitions.js: ASSIGNED to PENDING "is an unassignment back to the queue".
QueueIsUnassigned ==
    \A o \in Orders :
        status[o] = "PENDING" => assigned_to[o] = NoDriver /\ vehicle_id[o] = NoVehicle

\* add_job_offers.sql: "An offer nobody answers must not strand a customer's job";
\* the sweep only returns offers that carry an expiry.
OfferCanLapse ==
    \A o \in Orders : status[o] = "OFFERED" => offer_expires_at[o] # "none"

\* assignOrderBundle: "Cargo needs a truck, not just a person".
CargoHasTruck ==
    \A o \in Orders : status[o] \in Carrying => vehicle_id[o] # NoVehicle

\* assignOrderBundle: "block dispatch until all 5 required compliance documents
\* are admin-approved".
GivenOnlyToVerified ==
    [][\A o \in Orders :
          assigned_to'[o] \in Drivers /\ assigned_to'[o] # assigned_to[o] =>
              assigned_to'[o] \in verified]_vars

\* expire-job-offers.js "returns anything past its expiry to PENDING so dispatch
\* can hand it to someone else".
OffersLapse ==
    \A o \in Orders :
        (status[o] = "OFFERED" /\ offer_expires_at[o] = "running") ~> (status[o] # "OFFERED")
=============================================================================
