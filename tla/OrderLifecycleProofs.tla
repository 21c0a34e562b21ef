------------------------ MODULE OrderLifecycleProofs ------------------------
(* What holds of OrderLifecycle for every number of orders, drivers and     *)
(* vehicles, every limit and every choice of side doors.                    *)
EXTENDS OrderLifecycle, TLAPS

\* Put stays inside a function set when the new value is in its range.
LEMMA PutType ==
    ASSUME NEW S, NEW R, NEW f \in [Orders -> R], NEW v \in R
    PROVE  Put(f, S, v) \in [Orders -> R]
BY DEF Put

-----------------------------------------------------------------------------
(* Types *)

\* The booked order, with its bounded counters at 0.
LEMMA InitType == Init => TypeOK
BY BoundsAssumption DEF Init, TypeOK, Status

USE DEF dispatch, proof, run, world, vars

\* Dispatch.
LEMMA DispatchingType ==
    ASSUME TypeOK, Dispatching
    PROVE  TypeOK'
<1>1. ASSUME NEW o \in Orders, PlaceOrder(o)
      PROVE  TypeOK'
  BY <1>1 DEF TypeOK, PlaceOrder
<1>2. ASSUME NEW o \in Orders, UnassignOrder(o)
      PROVE  TypeOK'
  BY <1>2 DEF TypeOK, UnassignOrder, Status
<1>3. ASSUME NEW o \in Orders, LapseOffer(o)
      PROVE  TypeOK'
  BY <1>3 DEF TypeOK, LapseOffer
<1>4. ASSUME NEW S \in Bundles, NEW d \in Drivers, NEW v \in Vehicles,
             AssignOrderBundle(S, d, v)
      PROVE  TypeOK'
  BY <1>4, PutType DEF TypeOK, AssignOrderBundle, Status
<1>5. ASSUME NEW S \in Bundles, NEW d \in Drivers, OfferOrders(S, d)
      PROVE  TypeOK'
  BY <1>5, PutType DEF TypeOK, OfferOrders, Status
<1>6. ASSUME NEW o \in Orders, NEW d \in Drivers, NEW v \in Vehicles,
             ReassignOrder(o, d, v)
      PROVE  TypeOK'
  BY <1>6 DEF TypeOK, ReassignOrder
<1>7. ASSUME NEW o \in Orders, NEW d \in Drivers, AcceptOffer(o, d)
      PROVE  TypeOK'
  BY <1>7 DEF TypeOK, AcceptOffer, Status
<1>8. ASSUME NEW o \in Orders, NEW d \in Drivers, DeclineOffer(o, d)
      PROVE  TypeOK'
  BY <1>8 DEF TypeOK, DeclineOffer, Status
<1>9. ASSUME ExpireOffers
      PROVE  TypeOK'
  BY <1>9, PutType DEF TypeOK, ExpireOffers, Status
<1> QED
  BY <1>1, <1>2, <1>3, <1>4, <1>5, <1>6, <1>7, <1>8, <1>9 DEF Dispatching

\* Issuing a code restarts the count at 0, which is within every limit.
LEMMA IssueType ==
    ASSUME TypeOK, NEW o \in Orders, IssueDeliveryCode(o)
    PROVE  /\ code' \in [Orders -> BOOLEAN]
           /\ attempts' \in [Orders -> 0 .. MaxAttempts]
<1>1. 0 \in 0 .. MaxAttempts
  BY BoundsAssumption
<1>2. code \in [Orders -> BOOLEAN] /\ attempts \in [Orders -> 0 .. MaxAttempts]
  BY DEF TypeOK
<1>3. CASE code[o] \/ o \notin HasPhone
  <2>1. code' = code /\ attempts' = attempts
    BY <1>3 DEF IssueDeliveryCode
  <2> QED BY <1>2, <2>1
<1>4. CASE ~(code[o] \/ o \notin HasPhone)
  <2>1. /\ code' = [code EXCEPT ![o] = TRUE]
        /\ attempts' = [attempts EXCEPT ![o] = 0]
    BY <1>4 DEF IssueDeliveryCode
  <2> HIDE DEF proof
  <2>2. code' \in [Orders -> BOOLEAN]
    BY <1>2, <2>1
  <2>3. attempts' \in [Orders -> 0 .. MaxAttempts]
    BY <1>1, <1>2, <2>1
  <2> QED BY <2>2, <2>3
<1> QED BY <1>3, <1>4

\* PATCH status, whoever sends it, writes a status and at most a code.
LEMMA MoveOrderType ==
    ASSUME TypeOK, NEW o \in Orders, NEW to \in Status, MoveOrder(o, to)
    PROVE  TypeOK'
<1>1. code' \in [Orders -> BOOLEAN] /\ attempts' \in [Orders -> 0 .. MaxAttempts]
  <2>1. CASE to \in {"IN_TRANSIT", "ARRIVED"}
    BY <2>1, IssueType DEF MoveOrder
  <2>2. CASE to \notin {"IN_TRANSIT", "ARRIVED"}
    BY <2>2 DEF MoveOrder, TypeOK
  <2> QED BY <2>1, <2>2
<1>2. arrivals' \in [Orders -> SUBSET ArrivalStatuses]
  BY DEF TypeOK, MoveOrder, Stamp
<1>3. status' \in [Orders -> Status]
  BY DEF TypeOK, MoveOrder
<1> QED
  BY <1>1, <1>2, <1>3 DEF TypeOK, MoveOrder

\* The driver's and the dispatcher's moves, the leaks, and the hand-over.
LEMMA MovingType ==
    ASSUME TypeOK, Moving
    PROVE  TypeOK'
<1>1. ASSUME NEW o \in Orders, NEW to \in Status, NEW d \in Drivers,
             UpdateStatusByDriver(o, to, d)
      PROVE  TypeOK'
  BY <1>1, MoveOrderType DEF UpdateStatusByDriver
<1>2. ASSUME NEW o \in Orders, NEW to \in Status, UpdateStatusByDispatch(o, to)
      PROVE  TypeOK'
  BY <1>2, MoveOrderType DEF UpdateStatusByDispatch
<1>3. ASSUME NEW o \in Orders, NEW to \in Status, LeakArrival(o, to)
      PROVE  TypeOK'
  BY <1>3 DEF TypeOK, LeakArrival
<1>4. ASSUME NEW o \in Orders, NEW to \in Status, ForceStatus(o, to)
      PROVE  TypeOK'
  BY <1>4 DEF TypeOK, ForceStatus, Stamp
<1>5. ASSUME NEW o \in Orders, LeakCommits(o)
      PROVE  TypeOK'
  BY <1>5 DEF TypeOK, LeakCommits, Unlocked, NoLeak, ArrivalStatuses, Status
<1>6. ASSUME NEW o \in Orders, LeakRollsBack(o)
      PROVE  TypeOK'
  BY <1>6 DEF TypeOK, LeakRollsBack
<1>7. ASSUME NEW o \in Orders, SubmitWrongCode(o)
      PROVE  TypeOK'
  BY <1>7, BoundsAssumption DEF TypeOK, SubmitWrongCode, CodeOpen
<1>8. ASSUME NEW o \in Orders, NEW by \in Drivers \union {NoDriver},
             NEW e \in {"photo", "code"}, ConfirmDelivery(o, by, e)
      PROVE  TypeOK'
  BY <1>8, BoundsAssumption DEF TypeOK, ConfirmDelivery, Status
<1> QED
  BY <1>1, <1>2, <1>3, <1>4, <1>5, <1>6, <1>7, <1>8 DEF Moving

\* Money, runs and the fleet.
LEMMA OthersType ==
    ASSUME TypeOK, Charging \/ Running \/ Managing
    PROVE  TypeOK'
<1>1. CASE Charging
  BY <1>1 DEF TypeOK, Charging, RequestPayment, SettlePayment, RecordCash
<1>2. ASSUME NEW o \in Orders, NEW d \in Drivers \union {NoDriver}, PlanRun(o, d)
      PROVE  TypeOK'
  BY <1>2 DEF TypeOK, PlanRun, HandRunTo, Status, StopKinds
<1>3. ASSUME NEW o \in Orders, NEW d \in Drivers, UpdateRun(o, d)
      PROVE  TypeOK'
  BY <1>3 DEF TypeOK, UpdateRun, HandRunTo, Status
<1>4. ASSUME NEW o \in Orders, NEW kind \in StopKinds, CompleteStop(o, kind)
      PROVE  TypeOK'
  BY <1>4 DEF TypeOK, CompleteStop, StopCompletion, Status, StopKinds
<1>5. ASSUME NEW o \in Orders, NEW kind \in StopKinds, CloseStop(o, kind)
      PROVE  TypeOK'
  BY <1>5 DEF TypeOK, CloseStop
<1>6. CASE Managing
  BY <1>6 DEF TypeOK, Managing, AssignVehicle, ChangeVerification
<1> QED
  BY <1>1, <1>2, <1>3, <1>4, <1>5, <1>6 DEF Running

\* Every variable keeps its type, the bounds on guesses and confirmations
\* included (verifyDeliveryCode's MAX_ATTEMPTS).
THEOREM TypeCorrect == Spec => []TypeOK
<1>1. TypeOK /\ [Next]_vars => TypeOK'
  <2> SUFFICES ASSUME TypeOK, [Next]_vars
               PROVE  TypeOK'
    OBVIOUS
  <2>1. CASE Next
    BY <2>1, DispatchingType, MovingType, OthersType DEF Next
  <2>2. CASE UNCHANGED vars
    BY <2>2 DEF TypeOK
  <2> QED BY <2>1, <2>2
<1> QED BY <1>1, InitType, PTL DEF Spec

-----------------------------------------------------------------------------
(* Every status an order takes, short of an admin and of a DONE stop, comes  *)
(* from the transition table or from the hand-over.                          *)

\* A leaked arrival waits on a locked row, so it still follows the status.
LeakFollows == \A o \in Orders : Unlocked(o) \/ leaked[o] \in Allowed(status[o])

Stays(o)     == status'[o] = status[o] /\ confirmations'[o] = confirmations[o]
Follows(o)   == status'[o] \in Allowed(status[o]) /\ confirmations'[o] = confirmations[o]
HandsOver(o) == /\ status[o] = "ARRIVED" /\ status'[o] = "DELIVERED"
                /\ confirmations'[o] = confirmations[o] + 1
Regular(o)   == Stays(o) \/ Follows(o) \/ HandsOver(o)

\* The moves of dispatch, looked up in the table.
LEMMA QueueMoves ==
    /\ "ASSIGNED" \in Allowed("PENDING")
    /\ "OFFERED" \in Allowed("PENDING")
    /\ "PENDING" \in Allowed("OFFERED")
BY DEF Allowed

\* assign, reassign, offer and their answers keep to ALLOWED.
LEMMA DispatchingRegular ==
    ASSUME TypeOK, Dispatching, NEW o \in Orders
    PROVE  Regular(o)
<1> USE DEF Regular, Stays, Follows
<1>1. ASSUME NEW p \in Orders, PlaceOrder(p) \/ UnassignOrder(p) \/ LapseOffer(p)
      PROVE  Regular(o)
  BY <1>1 DEF TypeOK, PlaceOrder, UnassignOrder, LapseOffer, Allowed, Reassignable
<1>2. ASSUME NEW S \in Bundles, NEW d \in Drivers, NEW v \in Vehicles,
             AssignOrderBundle(S, d, v)
      PROVE  Regular(o)
  <2>1. status'[o] = IF o \in S THEN "ASSIGNED" ELSE status[o]
    BY <1>2 DEF TypeOK, AssignOrderBundle, Put
  <2>2. o \in S => status[o] = "PENDING"
    BY <1>2 DEF AssignOrderBundle
  <2>3. UNCHANGED confirmations
    BY <1>2 DEF AssignOrderBundle
  <2> QED BY <2>1, <2>2, <2>3, QueueMoves
<1>3. ASSUME NEW S \in Bundles, NEW d \in Drivers, OfferOrders(S, d)
      PROVE  Regular(o)
  <2>1. status'[o] = IF o \in S THEN "OFFERED" ELSE status[o]
    BY <1>3 DEF TypeOK, OfferOrders, Put
  <2>2. o \in S => status[o] = "PENDING"
    BY <1>3 DEF OfferOrders
  <2>3. UNCHANGED confirmations
    BY <1>3 DEF OfferOrders
  <2> QED BY <2>1, <2>2, <2>3, QueueMoves
<1>4. ASSUME NEW p \in Orders, NEW d \in Drivers, NEW v \in Vehicles,
             ReassignOrder(p, d, v)
      PROVE  Regular(o)
  BY <1>4 DEF ReassignOrder
<1>5. ASSUME NEW p \in Orders, NEW d \in Drivers, AcceptOffer(p, d) \/ DeclineOffer(p, d)
      PROVE  Regular(o)
  BY <1>5 DEF TypeOK, AcceptOffer, DeclineOffer, Allowed
<1>6. ASSUME ExpireOffers
      PROVE  Regular(o)
  <2> DEFINE lapsed == {p \in Orders : status[p] = "OFFERED" /\ offer_expires_at[p] = "lapsed"}
  <2>1. status' = Put(status, lapsed, "PENDING") /\ UNCHANGED confirmations
    BY <1>6 DEF ExpireOffers
  <2>2. status'[o] = IF o \in lapsed THEN "PENDING" ELSE status[o]
    BY <2>1 DEF TypeOK, Put
  <2> QED BY <2>1, <2>2, QueueMoves
<1> QED
  BY <1>1, <1>2, <1>3, <1>4, <1>5, <1>6 DEF Dispatching

\* The driver, dispatch, a leaked arrival and the hand-over do too.
LEMMA MovingRegular ==
    ASSUME TypeOK, LeakFollows, Moving, NEW o \in Orders, ~Used(o, {"force", "stop"})'
    PROVE  Regular(o)
<1> USE DEF Regular, Stays, Follows, HandsOver
<1>1. ASSUME NEW p \in Orders, NEW to \in Status, CanTransition(status[p], to),
             MoveOrder(p, to)
      PROVE  Regular(o)
  BY <1>1 DEF TypeOK, MoveOrder, CanTransition
<1>2. ASSUME NEW p \in Orders, NEW to \in Status, LeakArrival(p, to)
      PROVE  Regular(o)
  BY <1>2 DEF LeakArrival
<1>3. ASSUME NEW p \in Orders, NEW to \in Status, ForceStatus(p, to)
      PROVE  Regular(o)
  <2>1. o # p
    BY <1>3 DEF ForceStatus, Used, TypeOK
  <2> QED BY <1>3, <2>1 DEF ForceStatus, TypeOK
<1>4. ASSUME NEW p \in Orders, LeakCommits(p)
      PROVE  Regular(o)
  BY <1>4 DEF LeakCommits, LeakFollows, TypeOK
<1>5. ASSUME NEW p \in Orders, LeakRollsBack(p) \/ SubmitWrongCode(p)
      PROVE  Regular(o)
  BY <1>5 DEF LeakRollsBack, SubmitWrongCode
<1>6. ASSUME NEW p \in Orders, NEW by \in Drivers \union {NoDriver},
             NEW e \in {"photo", "code"}, ConfirmDelivery(p, by, e)
      PROVE  Regular(o)
  BY <1>6 DEF ConfirmDelivery, TypeOK, DeliverableFrom
<1> QED
  BY <1>1, <1>2, <1>3, <1>4, <1>5, <1>6
     DEF Moving, UpdateStatusByDriver, UpdateStatusByDispatch

\* Runs assign a waiting order or, through a DONE stop, use the side door;
\* money and the fleet leave the status alone.
LEMMA OthersRegular ==
    ASSUME TypeOK, Charging \/ Running \/ Managing,
           NEW o \in Orders, ~Used(o, {"force", "stop"})'
    PROVE  Regular(o)
<1> USE DEF Regular, Stays, Follows
<1>1. CASE Charging
  BY <1>1 DEF Charging, RequestPayment, SettlePayment, RecordCash
<1>2. ASSUME NEW p \in Orders, NEW d \in Drivers \union {NoDriver},
             PlanRun(p, d) \/ UpdateRun(p, d)
      PROVE  Regular(o)
  BY <1>2 DEF TypeOK, PlanRun, UpdateRun, HandRunTo, Allowed
<1>3. ASSUME NEW p \in Orders, NEW kind \in StopKinds, CompleteStop(p, kind)
      PROVE  Regular(o)
  <2>1. o # p
    BY <1>3 DEF CompleteStop, Used, TypeOK
  <2> QED BY <1>3, <2>1 DEF CompleteStop, TypeOK
<1>4. ASSUME NEW p \in Orders, NEW kind \in StopKinds, CloseStop(p, kind)
      PROVE  Regular(o)
  BY <1>4 DEF CloseStop
<1>5. CASE Managing
  BY <1>5 DEF Managing, AssignVehicle, ChangeVerification
<1> QED
  BY <1>1, <1>2, <1>3, <1>4, <1>5 DEF Running

\* The three together: what any step does to an order no side door writes.
LEMMA StepRegular ==
    ASSUME TypeOK, LeakFollows, Next, NEW o \in Orders, ~Used(o, {"force", "stop"})'
    PROVE  Regular(o)
BY DispatchingRegular, MovingRegular, OthersRegular DEF Next

-----------------------------------------------------------------------------
(* The hand-over *)

\* A locked row keeps its status, and only a refused arrival locks one.
LockHolds(o) ==
    \/ leaked'[o] = leaked[o] /\ (Unlocked(o) \/ status'[o] = status[o])
    \/ leaked'[o] = NoLeak
    \/ status'[o] = status[o] /\ leaked'[o] \in Allowed(status[o])

\* No handler but the leak's own gets past the lock of a leaked transaction.
LEMMA LockStep ==
    ASSUME TypeOK, Next, NEW o \in Orders
    PROVE  LockHolds(o)
<1> USE DEF LockHolds
<1>1. ASSUME Dispatching PROVE LockHolds(o)
  <2>1. UNCHANGED leaked
    BY <1>1 DEF Dispatching, PlaceOrder, UnassignOrder, LapseOffer, AssignOrderBundle,
                OfferOrders, ReassignOrder, AcceptOffer, DeclineOffer, ExpireOffers
  <2>2. ASSUME NEW p \in Orders, PlaceOrder(p) \/ UnassignOrder(p) \/ LapseOffer(p)
        PROVE  LockHolds(o)
    BY <2>1, <2>2 DEF TypeOK, PlaceOrder, UnassignOrder, LapseOffer
  <2>3. ASSUME NEW S \in Bundles, NEW d \in Drivers, NEW v \in Vehicles,
               AssignOrderBundle(S, d, v)
        PROVE  LockHolds(o)
    BY <2>1, <2>3 DEF TypeOK, AssignOrderBundle, Put
  <2>4. ASSUME NEW S \in Bundles, NEW d \in Drivers, OfferOrders(S, d)
        PROVE  LockHolds(o)
    BY <2>1, <2>4 DEF TypeOK, OfferOrders, Put
  <2>5. ASSUME NEW p \in Orders, NEW d \in Drivers,
               AcceptOffer(p, d) \/ DeclineOffer(p, d)
        PROVE  LockHolds(o)
    BY <2>1, <2>5 DEF TypeOK, AcceptOffer, DeclineOffer
  <2>6. ASSUME NEW p \in Orders, NEW d \in Drivers, NEW v \in Vehicles,
               ReassignOrder(p, d, v)
        PROVE  LockHolds(o)
    BY <2>1, <2>6 DEF ReassignOrder
  <2>7. ASSUME ExpireOffers PROVE LockHolds(o)
    BY <2>1, <2>7 DEF TypeOK, ExpireOffers, Put
  <2> QED BY <1>1, <2>2, <2>3, <2>4, <2>5, <2>6, <2>7 DEF Dispatching
<1>2. ASSUME Moving PROVE LockHolds(o)
  <2>1. ASSUME NEW p \in Orders, NEW to \in Status, Unlocked(p), MoveOrder(p, to)
        PROVE  LockHolds(o)
    BY <2>1 DEF TypeOK, MoveOrder
  <2>2. ASSUME NEW p \in Orders, NEW to \in Status,
               LeakArrival(p, to) \/ ForceStatus(p, to)
        PROVE  LockHolds(o)
    BY <2>2 DEF TypeOK, LeakArrival, ForceStatus, CanTransition
  <2>3. ASSUME NEW p \in Orders, LeakCommits(p) \/ LeakRollsBack(p) \/ SubmitWrongCode(p)
        PROVE  LockHolds(o)
    BY <2>3 DEF TypeOK, LeakCommits, LeakRollsBack, SubmitWrongCode
  <2>4. ASSUME NEW p \in Orders, NEW by \in Drivers \union {NoDriver},
               NEW e \in {"photo", "code"}, ConfirmDelivery(p, by, e)
        PROVE  LockHolds(o)
    BY <2>4 DEF TypeOK, ConfirmDelivery
  <2> QED BY <1>2, <2>1, <2>2, <2>3, <2>4
             DEF Moving, UpdateStatusByDriver, UpdateStatusByDispatch
<1>3. ASSUME Charging PROVE LockHolds(o)
  BY <1>3 DEF Charging, RequestPayment, SettlePayment, RecordCash
<1>4. ASSUME Running PROVE LockHolds(o)
  BY <1>4 DEF TypeOK, Running, PlanRun, UpdateRun, CompleteStop, CloseStop, HandRunTo
<1>5. ASSUME Managing PROVE LockHolds(o)
  BY <1>5 DEF Managing, AssignVehicle, ChangeVerification
<1> QED BY <1>1, <1>2, <1>3, <1>4, <1>5 DEF Next

\* What an order's timeline has recorded, it keeps.
LEMMA HistoryGrows ==
    ASSUME TypeOK, Next, NEW o \in Orders
    PROVE  doors[o] \subseteq doors'[o] /\ arrivals[o] \subseteq arrivals'[o]
<1>1. CASE Dispatching
  BY <1>1 DEF Dispatching, PlaceOrder, UnassignOrder, LapseOffer, AssignOrderBundle,
              OfferOrders, ReassignOrder, AcceptOffer, DeclineOffer, ExpireOffers
<1>2. CASE Moving
  BY <1>2 DEF TypeOK, Moving, UpdateStatusByDriver, UpdateStatusByDispatch, MoveOrder,
              Stamp, LeakArrival, ForceStatus, LeakCommits, LeakRollsBack,
              SubmitWrongCode, ConfirmDelivery
<1>3. CASE Charging
  BY <1>3 DEF Charging, RequestPayment, SettlePayment, RecordCash
<1>4. CASE Running
  BY <1>4 DEF TypeOK, Running, PlanRun, UpdateRun, CompleteStop, CloseStop
<1>5. CASE Managing
  BY <1>5 DEF Managing, AssignVehicle, ChangeVerification
<1> QED BY <1>1, <1>2, <1>3, <1>4, <1>5 DEF Next

\* The strengthening of DeliveredWithProof: with LeakFollows, no leaked arrival
\* can move an order that was delivered in the meantime.
ProofInv == TypeOK /\ LeakFollows /\ DeliveredWithProof

\* The strengthening is inductive.
LEMMA ProofInvStep ==
    ASSUME ProofInv, [Next]_vars
    PROVE  ProofInv'
<1> USE DEF ProofInv
<1>1. CASE Next
  <2>1. TypeOK'
    BY <1>1, DispatchingType, MovingType, OthersType DEF Next
  <2>2. LeakFollows'
    <3> SUFFICES ASSUME NEW o \in Orders
                 PROVE  (Unlocked(o) \/ leaked[o] \in Allowed(status[o]))'
      BY DEF LeakFollows
    <3> QED BY <1>1, LockStep DEF LockHolds, LeakFollows, Unlocked, Allowed
  <2>3. DeliveredWithProof'
    <3> SUFFICES ASSUME NEW o \in Orders, ~Used(o, {"force", "stop"})'
                 PROVE  confirmations'[o] = (IF status'[o] = "DELIVERED" THEN 1 ELSE 0)
      BY DEF DeliveredWithProof
    <3>1. Regular(o)
      BY <1>1, StepRegular
    <3>2. ~Used(o, {"force", "stop"})
      BY <1>1, HistoryGrows DEF Used
    <3>3. confirmations[o] = (IF status[o] = "DELIVERED" THEN 1 ELSE 0)
      BY <3>2 DEF DeliveredWithProof
    <3>4. CASE Stays(o)
      BY <3>3, <3>4 DEF Stays
    <3>5. CASE Follows(o)
      BY <3>3, <3>5 DEF Follows, Allowed
    <3>6. CASE HandsOver(o)
      BY <3>3, <3>6 DEF HandsOver
    <3> QED BY <3>1, <3>4, <3>5, <3>6 DEF Regular
  <2> QED BY <2>1, <2>2, <2>3
<1>2. CASE UNCHANGED vars
  BY <1>2 DEF TypeOK, LeakFollows, DeliveredWithProof, Unlocked, Used
<1> QED BY <1>1, <1>2

\* It holds of a booked order, which is neither locked nor delivered.
LEMMA ProofInvInit == Init => ProofInv
BY InitType DEF Init, ProofInv, LeakFollows, DeliveredWithProof, Unlocked

\* The strengthening holds of every behaviour.
THEOREM ProofInvariant == Spec => []ProofInv
<1>1. ProofInv /\ [Next]_vars => ProofInv'
  BY ProofInvStep
<1> QED BY <1>1, ProofInvInit, PTL DEF Spec

\* An order is DELIVERED exactly when one hand-over was recorded for it, for
\* any number of orders and drivers and with leaked transactions and runs
\* about (confirmDelivery); a forced or stop-completed order is excused.
THEOREM DeliveredExactlyOnce == Spec => []DeliveredWithProof
<1>1. ProofInv => DeliveredWithProof
  BY DEF ProofInv
<1> QED BY <1>1, ProofInvariant, PTL

-----------------------------------------------------------------------------
(* The journey and the arrivals *)

\* Every entry of the table goes forward, to CANCELLED or back to the queue.
LEMMA AllowedIsForward ==
    ASSUME NEW from \in Status, NEW to \in Allowed(from)
    PROVE  \/ to = from
           \/ from \notin Terminal /\ Rank[to] > Rank[from]
           \/ from \in {"OFFERED", "ASSIGNED"} /\ to = "PENDING"
BY DEF Allowed, Status, Terminal, Rank

\* Whatever a step does, an order only an admin or a DONE stop could revive
\* never leaves a terminal status and never goes back past collection.
THEOREM OnlyForward == Spec => JourneyOnlyForward
<1>1. ProofInv /\ [Next]_vars =>
        [\A o \in Orders : ~Used(o, {"force", "stop"})' =>
           \/ status'[o] = status[o]
           \/ status[o] \notin Terminal /\ Rank[status'[o]] > Rank[status[o]]
           \/ status[o] \in {"OFFERED", "ASSIGNED"} /\ status'[o] = "PENDING"]_vars
  <2> SUFFICES ASSUME ProofInv, Next, NEW o \in Orders, ~Used(o, {"force", "stop"})'
               PROVE  \/ status'[o] = status[o]
                      \/ status[o] \notin Terminal /\ Rank[status'[o]] > Rank[status[o]]
                      \/ status[o] \in {"OFFERED", "ASSIGNED"} /\ status'[o] = "PENDING"
    OBVIOUS
  <2>1. Regular(o)
    BY StepRegular DEF ProofInv
  <2>2. status[o] \in Status
    BY DEF ProofInv, TypeOK
  <2>3. CASE Stays(o)
    BY <2>3 DEF Stays
  <2>4. CASE Follows(o)
    BY <2>2, <2>4, AllowedIsForward DEF Follows
  <2>5. CASE HandsOver(o)
    BY <2>5 DEF HandsOver, Terminal, Rank, Status
  <2> QED BY <2>1, <2>3, <2>4, <2>5 DEF Regular
<1> QED BY <1>1, ProofInvariant, PTL DEF Spec, JourneyOnlyForward

\* The strengthening of ArrivalOnRecord: the hand-over's evidence is the arrival
\* row, and that the order stands ARRIVED is what ProofInv makes of it.
ArrivalInv == ProofInv /\ ArrivalOnRecord

\* Dispatch leaves an order as it is, or settles one that waits: to somebody only
\* once it is placed.
AwaitsCollection == {"PENDING", "OFFERED", "ASSIGNED"}

Untouched(o) == /\ status'[o] = status[o]
                /\ assigned_to'[o] = assigned_to[o]
                /\ vehicle_id'[o] = vehicle_id[o]

Settled(o) == /\ status[o] \in AwaitsCollection
              /\ status'[o] \in AwaitsCollection
              /\ assigned_to'[o] \in {assigned_to[o], NoDriver} \/ placed[o]

\* No dispatch handler touches an order after collection (Reassignable, the
\* PENDING and OFFERED guards).
LEMMA DispatchingSettles ==
    ASSUME TypeOK, Dispatching, NEW o \in Orders
    PROVE  Untouched(o) \/ Settled(o)
<1> USE DEF Untouched, Settled, AwaitsCollection
<1>1. ASSUME NEW p \in Orders, PlaceOrder(p) \/ LapseOffer(p)
      PROVE  Untouched(o)
  BY <1>1 DEF PlaceOrder, LapseOffer
<1>2. ASSUME NEW S \in Bundles, NEW d \in Drivers, NEW v \in Vehicles,
             AssignOrderBundle(S, d, v)
      PROVE  Untouched(o) \/ Settled(o)
  <2>1. CASE o \in S
    BY <1>2, <2>1 DEF TypeOK, AssignOrderBundle, UnplacedAmong, Put
  <2>2. CASE o \notin S
    BY <1>2, <2>2 DEF TypeOK, AssignOrderBundle, Put
  <2> QED BY <2>1, <2>2
<1>3. ASSUME NEW S \in Bundles, NEW d \in Drivers, OfferOrders(S, d)
      PROVE  Untouched(o) \/ Settled(o)
  <2>1. CASE o \in S
    BY <1>3, <2>1 DEF TypeOK, OfferOrders, UnplacedAmong, Put
  <2>2. CASE o \notin S
    BY <1>3, <2>2 DEF TypeOK, OfferOrders, Put
  <2> QED BY <2>1, <2>2
<1>4. ASSUME NEW p \in Orders, UnassignOrder(p)
      PROVE  Untouched(o) \/ Settled(o)
  BY <1>4 DEF TypeOK, UnassignOrder, Reassignable
<1>5. ASSUME NEW p \in Orders, NEW d \in Drivers, NEW v \in Vehicles,
             ReassignOrder(p, d, v)
      PROVE  Untouched(o) \/ Settled(o)
  BY <1>5 DEF TypeOK, ReassignOrder, Reassignable, UnplacedAmong
<1>6. ASSUME NEW p \in Orders, NEW d \in Drivers, AcceptOffer(p, d) \/ DeclineOffer(p, d)
      PROVE  Untouched(o) \/ Settled(o)
  BY <1>6 DEF TypeOK, AcceptOffer, DeclineOffer
<1>7. ASSUME ExpireOffers
      PROVE  Untouched(o) \/ Settled(o)
  <2> DEFINE lapsed == {p \in Orders : status[p] = "OFFERED" /\ offer_expires_at[p] = "lapsed"}
  <2>1. /\ status' = Put(status, lapsed, "PENDING")
        /\ assigned_to' = Put(assigned_to, lapsed, NoDriver)
        /\ UNCHANGED vehicle_id
    BY <1>7 DEF ExpireOffers
  <2>2. CASE o \in lapsed
    BY <2>1, <2>2 DEF TypeOK, Put
  <2>3. CASE o \notin lapsed
    BY <2>1, <2>3 DEF TypeOK, Put
  <2> QED BY <2>2, <2>3
<1> QED
  BY <1>1, <1>2, <1>3, <1>4, <1>5, <1>6, <1>7 DEF Dispatching

\* An arrival status is stamped as it is written, except by a leak.
LEMMA ArrivalStamped ==
    ASSUME TypeOK, Next, NEW o \in Orders, status'[o] \in ArrivalStatuses,
           status'[o] # status[o], ~Used(o, {"leak"})'
    PROVE  status'[o] \in arrivals'[o]
<1>1. CASE Dispatching
  BY <1>1, DispatchingSettles DEF Untouched, Settled, AwaitsCollection, ArrivalStatuses
<1>2. CASE Moving
  <2>1. ASSUME NEW p \in Orders, NEW to \in Status, MoveOrder(p, to) \/ ForceStatus(p, to)
        PROVE  status'[o] \in arrivals'[o]
    BY <2>1 DEF TypeOK, MoveOrder, ForceStatus, Stamp
  <2>2. ASSUME NEW p \in Orders, LeakCommits(p)
        PROVE  status'[o] \in arrivals'[o]
    BY <2>2 DEF TypeOK, LeakCommits, Used
  <2>3. ASSUME NEW p \in Orders, NEW by \in Drivers \union {NoDriver},
               NEW e \in {"photo", "code"}, ConfirmDelivery(p, by, e)
        PROVE  status'[o] \in arrivals'[o]
    BY <2>3 DEF TypeOK, ConfirmDelivery, ArrivalStatuses
  <2> QED BY <1>2, <2>1, <2>2, <2>3
          DEF Moving, UpdateStatusByDriver, UpdateStatusByDispatch, LeakArrival,
              LeakRollsBack, SubmitWrongCode
<1>3. CASE Charging
  BY <1>3 DEF Charging, RequestPayment, SettlePayment, RecordCash
<1>4. CASE Running
  <2>1. ASSUME NEW p \in Orders, NEW d \in Drivers \union {NoDriver},
               PlanRun(p, d) \/ UpdateRun(p, d)
        PROVE  status'[o] \in arrivals'[o]
    BY <2>1 DEF TypeOK, PlanRun, UpdateRun, HandRunTo, ArrivalStatuses
  <2>2. ASSUME NEW p \in Orders, NEW kind \in StopKinds, CompleteStop(p, kind)
        PROVE  status'[o] \in arrivals'[o]
    BY <2>2 DEF TypeOK, CompleteStop, StopCompletion, StopKinds, ArrivalStatuses
  <2> QED BY <1>4, <2>1, <2>2 DEF Running, CloseStop
<1>5. CASE Managing
  BY <1>5 DEF Managing, AssignVehicle, ChangeVerification
<1> QED BY <1>1, <1>2, <1>3, <1>4, <1>5 DEF Next

\* The strengthening is inductive: a hand-over starts from a stamped ARRIVED.
LEMMA ArrivalInvStep ==
    ASSUME ArrivalInv, [Next]_vars
    PROVE  ArrivalInv'
<1>1. ProofInv'
  BY ProofInvStep DEF ArrivalInv
<1>2. CASE Next
  <2> SUFFICES ASSUME NEW o \in Orders, ~Used(o, {"leak"})'
               PROVE  /\ status'[o] \in ArrivalStatuses => status'[o] \in arrivals'[o]
                      /\ status'[o] = "DELIVERED" /\ ~Used(o, {"force", "stop"})' =>
                            "ARRIVED" \in arrivals'[o]
    BY <1>1 DEF ArrivalInv, ArrivalOnRecord
  <2>1. doors[o] \subseteq doors'[o] /\ arrivals[o] \subseteq arrivals'[o]
    BY <1>2, HistoryGrows DEF ArrivalInv, ProofInv
  <2>2. ~Used(o, {"leak"})
    BY <2>1 DEF Used
  <2>3. status'[o] \in ArrivalStatuses => status'[o] \in arrivals'[o]
    BY <1>2, <2>1, <2>2, ArrivalStamped DEF ArrivalInv, ProofInv, ArrivalOnRecord
  <2>4. ASSUME status'[o] = "DELIVERED", ~Used(o, {"force", "stop"})'
        PROVE  "ARRIVED" \in arrivals'[o]
    <3>1. Regular(o)
      BY <1>2, <2>4, StepRegular DEF ArrivalInv, ProofInv
    <3>2. ~Used(o, {"force", "stop"})
      BY <2>1, <2>4 DEF Used
    <3>3. status[o] \in {"ARRIVED", "DELIVERED"}
      BY <2>4, <3>1 DEF Regular, Stays, Follows, HandsOver, Allowed
    <3>4. "ARRIVED" \in arrivals[o]
      BY <2>2, <3>2, <3>3 DEF ArrivalInv, ArrivalOnRecord, ArrivalStatuses
    <3> QED BY <2>1, <3>4
  <2> QED BY <2>3, <2>4
<1>3. CASE UNCHANGED vars
  BY <1>1, <1>3 DEF ArrivalInv, ArrivalOnRecord, Used
<1> QED BY <1>2, <1>3

\* Detention is always charged from a real row: an order at a gate has one, and
\* a delivered order's timeline shows the arrival; leaks, runs and an admin may
\* do what they do to other orders.
THEOREM ArrivalsOnRecord == Spec => []ArrivalOnRecord
<1>1. Init => ArrivalInv
  BY ProofInvInit DEF Init, ArrivalInv, ArrivalOnRecord, ArrivalStatuses
<1>2. ArrivalInv /\ [Next]_vars => ArrivalInv'
  BY ArrivalInvStep
<1>3. ArrivalInv => ArrivalOnRecord
  BY DEF ArrivalInv
<1> QED BY <1>1, <1>2, <1>3, PTL DEF Spec

-----------------------------------------------------------------------------
(* Custody, guesses and placement *)

\* Once a driver is at the gate, no handler but a run, an admin or a DONE stop
\* changes the order's driver or vehicle (reassignOrder, declineOffer, the sweep).
THEOREM CustodyIsKept == Spec => CargoKeepsItsDriver
<1> DEFINE Kept(o) == /\ assigned_to'[o] = assigned_to[o]
                      /\ vehicle_id'[o] = vehicle_id[o]
<1>1. TypeOK /\ [Next]_vars =>
        [\A o \in Orders :
           status[o] \in Carrying /\ ~Used(o, {"force", "run", "stop"})' => Kept(o)]_vars
  <2> SUFFICES ASSUME TypeOK, Next, NEW o \in Orders, status[o] \in Carrying,
                      ~Used(o, {"force", "run", "stop"})'
               PROVE  Kept(o)
    OBVIOUS
  <2>1. CASE Dispatching
    BY <2>1, DispatchingSettles DEF Untouched, Settled, AwaitsCollection, Carrying
  <2>2. CASE Moving
    BY <2>2 DEF Moving, UpdateStatusByDriver, UpdateStatusByDispatch, MoveOrder,
                LeakArrival, ForceStatus, LeakCommits, LeakRollsBack, SubmitWrongCode,
                ConfirmDelivery
  <2>3. CASE Charging
    BY <2>3 DEF Charging, RequestPayment, SettlePayment, RecordCash
  <2>4. CASE Running
    <3>1. doors \in [Orders -> SUBSET {"force", "run", "stop", "leak"}]
      BY DEF TypeOK
    <3>2. vehicle_id' = vehicle_id
      BY <2>4 DEF Running, PlanRun, UpdateRun, CompleteStop, CloseStop
    <3>3. ASSUME NEW p \in Orders, NEW d \in Drivers \union {NoDriver}, PlanRun(p, d)
          PROVE  Kept(o)
      <4>1. p # o
        BY <3>1, <3>3 DEF PlanRun, Used
      <4> QED BY <3>2, <3>3, <4>1 DEF TypeOK, PlanRun, HandRunTo
    <3>4. ASSUME NEW p \in Orders, NEW d \in Drivers \union {NoDriver}, UpdateRun(p, d)
          PROVE  Kept(o)
      <4>1. p # o
        BY <3>1, <3>4 DEF UpdateRun, Used
      <4> QED BY <3>2, <3>4, <4>1 DEF TypeOK, UpdateRun, HandRunTo
    <3>5. ASSUME NEW p \in Orders, NEW kind \in StopKinds,
                 CompleteStop(p, kind) \/ CloseStop(p, kind)
          PROVE  Kept(o)
      BY <3>2, <3>5 DEF CompleteStop, CloseStop
    <3> QED BY <2>4, <3>3, <3>4, <3>5 DEF Running
  <2>5. CASE Managing
    BY <2>5 DEF Managing, AssignVehicle, ChangeVerification
  <2> QED BY <2>1, <2>2, <2>3, <2>4, <2>5 DEF Next
<1> QED BY <1>1, TypeCorrect, PTL DEF Spec, CargoKeepsItsDriver

\* The code a recipient holds is never replaced and its wrong guesses only
\* accumulate, so MaxAttempts bounds them over the order's whole life.
THEOREM GuessesAccumulate == Spec => GuessesNeverForgotten
<1> DEFINE Remembered(o) == code[o] => code'[o] /\ attempts'[o] >= attempts[o]
<1>1. TypeOK /\ [Next]_vars => [\A o \in Orders : Remembered(o)]_vars
  <2> SUFFICES ASSUME TypeOK, Next, NEW o \in Orders
               PROVE  Remembered(o)
    OBVIOUS
  <2>1. attempts[o] \in Nat
    BY BoundsAssumption DEF TypeOK
  <2>2. CASE UNCHANGED <<code, attempts>>
    BY <2>1, <2>2
  <2>3. ASSUME NEW p \in Orders, IssueDeliveryCode(p)
        PROVE  Remembered(o)
    BY <2>1, <2>3 DEF TypeOK, IssueDeliveryCode
  <2>4. ASSUME NEW p \in Orders, SubmitWrongCode(p)
        PROVE  Remembered(o)
    BY <2>1, <2>4 DEF TypeOK, SubmitWrongCode
  <2>5. CASE Dispatching
    BY <2>2, <2>5 DEF Dispatching, PlaceOrder, UnassignOrder, LapseOffer,
                AssignOrderBundle, OfferOrders, ReassignOrder, AcceptOffer, DeclineOffer,
                ExpireOffers
  <2>6. CASE Moving
    BY <2>2, <2>3, <2>4, <2>6
       DEF Moving, UpdateStatusByDriver, UpdateStatusByDispatch, MoveOrder, LeakArrival,
           ForceStatus, LeakCommits, LeakRollsBack, ConfirmDelivery
  <2>7. CASE Charging \/ Running \/ Managing
    BY <2>2, <2>7 DEF Charging, RequestPayment, SettlePayment, RecordCash, Running,
                PlanRun, UpdateRun, CompleteStop, CloseStop, Managing, AssignVehicle,
                ChangeVerification
  <2> QED BY <2>5, <2>6, <2>7 DEF Next
<1> QED BY <1>1, TypeCorrect, PTL DEF Spec, GuessesNeverForgotten

\* Without runs no order has a run's stops behind it, so only the gated routes
\* assign.
PlacedInv == TypeOK /\ DispatchedIsPlaced /\ \A o \in Orders : "run" \notin doors[o]

\* The gate of every other route is enough, because placement is never undone.
LEMMA PlacedInvStep ==
    ASSUME "run" \notin SideDoors, PlacedInv, [Next]_vars
    PROVE  PlacedInv'
<1> USE DEF PlacedInv
<1>1. TypeOK'
  BY DispatchingType, MovingType, OthersType DEF Next, TypeOK
<1>2. (\A o \in Orders : "run" \notin doors[o])'
  <2> SUFFICES ASSUME NEW o \in Orders
               PROVE  "run" \notin doors'[o]
    OBVIOUS
  <2>1. CASE Dispatching
    BY <2>1 DEF Dispatching, PlaceOrder, UnassignOrder, LapseOffer, AssignOrderBundle,
                OfferOrders, ReassignOrder, AcceptOffer, DeclineOffer, ExpireOffers
  <2>2. CASE Moving
    BY <2>2 DEF TypeOK, Moving, UpdateStatusByDriver, UpdateStatusByDispatch, MoveOrder,
                LeakArrival, ForceStatus, LeakCommits, LeakRollsBack, SubmitWrongCode,
                ConfirmDelivery
  <2>3. CASE Charging
    BY <2>3 DEF Charging, RequestPayment, SettlePayment, RecordCash
  <2>4. CASE Running
    BY <2>4 DEF TypeOK, Running, PlanRun, UpdateRun, CompleteStop, CloseStop
  <2>5. CASE Managing
    BY <2>5 DEF Managing, AssignVehicle, ChangeVerification
  <2> QED BY <2>1, <2>2, <2>3, <2>4, <2>5 DEF Next
<1>3. DispatchedIsPlaced'
  <2>1. CASE Dispatching
    <3>1. \A o \in Orders : placed[o] => placed'[o]
      BY <2>1 DEF TypeOK, Dispatching, PlaceOrder, UnassignOrder, LapseOffer,
                  AssignOrderBundle, OfferOrders, ReassignOrder, AcceptOffer,
                  DeclineOffer, ExpireOffers
    <3> QED BY <2>1, <3>1, DispatchingSettles, DriversAssumption
            DEF DispatchedIsPlaced, Untouched, Settled
  <2>2. CASE Moving
    BY <2>2 DEF DispatchedIsPlaced, Moving, UpdateStatusByDriver, UpdateStatusByDispatch,
                MoveOrder, LeakArrival, ForceStatus, LeakCommits, LeakRollsBack,
                SubmitWrongCode, ConfirmDelivery
  <2>3. CASE Charging
    BY <2>3 DEF DispatchedIsPlaced, Charging, RequestPayment, SettlePayment, RecordCash
  <2>4. CASE Running
    BY <2>4 DEF DispatchedIsPlaced, Running, PlanRun, UpdateRun, CompleteStop, CloseStop
  <2>5. CASE Managing
    BY <2>5 DEF DispatchedIsPlaced, Managing, AssignVehicle, ChangeVerification
  <2>6. CASE UNCHANGED vars
    BY <2>6 DEF DispatchedIsPlaced
  <2> QED BY <2>1, <2>2, <2>3, <2>4, <2>5, <2>6 DEF Next
<1> QED BY <1>1, <1>2, <1>3

\* An unplaced booking reaches no driver by assign, reassign, offer, accept or
\* PATCH status; planning a run is assumed not to happen, because it may.
THEOREM PlacedBeforeDispatch ==
    ASSUME "run" \notin SideDoors
    PROVE  Spec => []DispatchedIsPlaced
<1>1. Init => PlacedInv
  BY InitType, DriversAssumption DEF Init, PlacedInv, DispatchedIsPlaced
<1>2. PlacedInv /\ [Next]_vars => PlacedInv'
  BY PlacedInvStep
<1>3. PlacedInv => DispatchedIsPlaced
  BY DEF PlacedInv
<1> QED BY <1>1, <1>2, <1>3, PTL DEF Spec

-----------------------------------------------------------------------------
(* The promise to the customer *)

\* Without side doors an order has no run behind it and no lock on it.
PromiseInv == /\ TypeOK
              /\ \A o \in Orders : doors[o] = {} /\ stops[o] = {} /\ leaked[o] = NoLeak

\* Only the doors that are shut write what PromiseInv says is empty.
LEMMA PromiseInvStep ==
    ASSUME SideDoors = {}, PromiseInv, [Next]_vars
    PROVE  PromiseInv'
<1> USE DEF PromiseInv
<1>1. TypeOK'
  BY DispatchingType, MovingType, OthersType DEF Next, TypeOK
<1>2. UNCHANGED <<doors, stops, leaked>>
  <2>1. CASE Dispatching
    BY <2>1 DEF Dispatching, PlaceOrder, UnassignOrder, LapseOffer, AssignOrderBundle,
                OfferOrders, ReassignOrder, AcceptOffer, DeclineOffer, ExpireOffers
  <2>2. CASE Moving
    BY <2>2 DEF Moving, UpdateStatusByDriver, UpdateStatusByDispatch, MoveOrder,
                LeakArrival, ForceStatus, LeakCommits, LeakRollsBack, SubmitWrongCode,
                ConfirmDelivery, Unlocked
  <2>3. CASE Charging
    BY <2>3 DEF Charging, RequestPayment, SettlePayment, RecordCash
  <2>4. CASE Running
    BY <2>4 DEF Running, PlanRun, UpdateRun, CompleteStop, CloseStop
  <2>5. CASE Managing
    BY <2>5 DEF Managing, AssignVehicle, ChangeVerification
  <2> QED BY <2>1, <2>2, <2>3, <2>4, <2>5 DEF Next
<1> QED BY <1>1, <1>2

\* Settling orders that wait for collection is the promise's Arrange.
LEMMA ArrangeStep ==
    ASSUME TypeOK, TypeOK', UNCHANGED confirmations,
           \A o \in Orders : Untouched(o) \/ Settled(o)
    PROVE  Promise!Next
<1>1. \A o \in Orders : Settled(o) =>
        PhaseOf(status[o]) \in Promise!Waiting /\ PhaseOf(status'[o]) \in Promise!Waiting
  BY DEF Settled, AwaitsCollection, PhaseOf, Promise!Waiting
<1>2. [o \in Orders |-> PhaseOf(status[o])]' \in [Orders -> Promise!Phases]
  BY DEF PhaseOf, Promise!Phases
<1>3. [o \in Orders |-> <<assigned_to[o], vehicle_id[o]>>]' \in
        [Orders -> (Drivers \union {NoDriver}) \X (Vehicles \union {NoVehicle})]
  BY DEF TypeOK
<1>4. Promise!Arrange
  BY <1>1, <1>2, <1>3 DEF Promise!Arrange, Untouched
<1> QED BY <1>4 DEF Promise!Next

\* PATCH status arranges, collects, cancels, or goes on carrying.
LEMMA MoveKeepsPromise ==
    ASSUME TypeOK, TypeOK', NEW o \in Orders, NEW to \in Status,
           CanTransition(status[o], to), MoveOrder(o, to)
    PROVE  [Promise!Next]_Promise!promise
<1>1. /\ status' = [status EXCEPT ![o] = to]
      /\ UNCHANGED <<assigned_to, vehicle_id, confirmations>>
  BY DEF MoveOrder
<1>2. status \in [Orders -> Status] /\ to \in Allowed(status[o])
  BY DEF TypeOK, CanTransition
<1>3. CASE status[o] \in AwaitsCollection /\ to \in AwaitsCollection
  <2>1. \A p \in Orders : Untouched(p) \/ Settled(p)
    BY <1>1, <1>2, <1>3 DEF Untouched, Settled
  <2> QED BY <1>1, <2>1, ArrangeStep
<1>4. CASE to = "CANCELLED"
  <2>1. PhaseOf(status[o]) \in Promise!Waiting \union {"carried"}
    BY <1>2, <1>4 DEF PhaseOf, Promise!Waiting, Allowed, Status
  <2>2. Promise!Cancel(o)
    BY <1>1, <1>2, <1>4, <2>1 DEF Promise!Cancel, PhaseOf
  <2> QED BY <2>2 DEF Promise!Next
<1>5. CASE status[o] = "ASSIGNED" /\ to \in Carrying
  <2>1. Promise!Collect(o)
    BY <1>1, <1>2, <1>5 DEF Promise!Collect, PhaseOf, Carrying
  <2> QED BY <2>1 DEF Promise!Next
<1>6. CASE status[o] \in Carrying /\ to \in Carrying
  BY <1>1, <1>2, <1>6 DEF PhaseOf, Carrying, Promise!promise
<1>7. \/ status[o] \in AwaitsCollection /\ to \in AwaitsCollection
      \/ to = "CANCELLED"
      \/ status[o] = "ASSIGNED" /\ to \in Carrying
      \/ status[o] \in Carrying /\ to \in Carrying
  BY <1>2 DEF Allowed, AwaitsCollection, Carrying, Status
<1> QED BY <1>3, <1>4, <1>5, <1>6, <1>7

\* Every step is a step of the promise or changes nothing the customer was
\* promised.
LEMMA PromiseStep ==
    ASSUME SideDoors = {}, PromiseInv, PromiseInv', [Next]_vars
    PROVE  [Promise!Next]_Promise!promise
<1> USE DEF PromiseInv
<1>1. CASE Dispatching
  <2>1. UNCHANGED confirmations
    BY <1>1 DEF Dispatching, PlaceOrder, UnassignOrder, LapseOffer, AssignOrderBundle,
                OfferOrders, ReassignOrder, AcceptOffer, DeclineOffer, ExpireOffers
  <2> QED BY <1>1, <2>1, DispatchingSettles, ArrangeStep
<1>2. CASE UNCHANGED <<status, assigned_to, vehicle_id, confirmations>>
  BY <1>2 DEF Promise!promise
<1>3. CASE Moving
  <2>1. ASSUME NEW o \in Orders, NEW by \in Drivers \union {NoDriver},
               NEW e \in {"photo", "code"}, ConfirmDelivery(o, by, e)
        PROVE  [Promise!Next]_Promise!promise
    <3>1. /\ status' = [status EXCEPT ![o] = "DELIVERED"] /\ status[o] = "ARRIVED"
          /\ confirmations' = [confirmations EXCEPT ![o] = @ + 1]
          /\ UNCHANGED <<assigned_to, vehicle_id>>
      BY <2>1 DEF ConfirmDelivery, DeliverableFrom
    <3>2. confirmations \in [Orders -> Nat] /\ status \in [Orders -> Status]
      BY BoundsAssumption DEF TypeOK
    <3>3. PhaseOf(status[o]) = "carried" /\ PhaseOf("DELIVERED") = "delivered"
      BY <3>1 DEF PhaseOf
    <3>4. confirmations'[o] > 0
      BY <3>1, <3>2
    <3>5. Promise!Deliver(o)
      BY <3>1, <3>2, <3>3, <3>4 DEF Promise!Deliver
    <3> QED BY <3>5 DEF Promise!Next
  <2>2. ASSUME NEW o \in Orders, LeakCommits(o)
        PROVE  FALSE
    BY <2>2 DEF LeakCommits, Unlocked
  <2>3. ASSUME NEW o \in Orders, NEW to \in Status, LeakArrival(o, to) \/ ForceStatus(o, to)
        PROVE  FALSE
    BY <2>3 DEF LeakArrival, ForceStatus
  <2> QED BY <1>2, <1>3, <2>1, <2>2, <2>3, MoveKeepsPromise
          DEF Moving, UpdateStatusByDriver, UpdateStatusByDispatch, LeakRollsBack,
              SubmitWrongCode
<1>4. CASE Charging
  BY <1>2, <1>4 DEF Charging, RequestPayment, SettlePayment, RecordCash
<1>5. CASE Running
  BY <1>2, <1>5 DEF Running, PlanRun, UpdateRun, CompleteStop, CloseStop
<1>6. CASE Managing
  BY <1>2, <1>6 DEF Managing, AssignVehicle, ChangeVerification
<1>7. CASE UNCHANGED vars
  BY <1>2, <1>7
<1> QED BY <1>1, <1>3, <1>4, <1>5, <1>6, <1>7 DEF Next

\* While no side door is used, the handlers together implement the promise: one
\* holder from collection on, one end, and delivery only with proof.
THEOREM PromiseKept ==
    ASSUME SideDoors = {}
    PROVE  Spec => KeepsThePromise
<1>1. Init => PromiseInv
  BY InitType DEF Init, PromiseInv
<1>2. PromiseInv /\ [Next]_vars => PromiseInv'
  BY PromiseInvStep
<1>3. Init => Promise!Init
  <2> SUFFICES ASSUME Init
               PROVE  Promise!Init
    OBVIOUS
  <2>1. [o \in Orders |-> PhaseOf(status[o])] = [o \in Orders |-> "waiting"]
    BY DEF Init, PhaseOf
  <2>2. [o \in Orders |-> <<assigned_to[o], vehicle_id[o]>>] \in
          [Orders -> (Drivers \union {NoDriver}) \X (Vehicles \union {NoVehicle})]
    BY InitType DEF TypeOK
  <2>3. \A o \in Orders : (confirmations[o] > 0) = FALSE
    BY DEF Init
  <2>4. [o \in Orders |-> confirmations[o] > 0] = [o \in Orders |-> FALSE]
    BY <2>3, Zenon
  <2> QED BY <2>1, <2>2, <2>4 DEF Promise!Init
<1>4. PromiseInv /\ PromiseInv' /\ [Next]_vars => [Promise!Next]_Promise!promise
  BY PromiseStep
<1> QED BY <1>1, <1>2, <1>3, <1>4, PTL DEF Spec, KeepsThePromise, Promise!Spec
=============================================================================
