-------------------------- MODULE MCOrderLifecycle --------------------------
(* Instances of OrderLifecycle for TLC.                                     *)
EXTENDS OrderLifecycle, TLC

CONSTANTS o1, o2, d1, d2

OneOrder  == {o1}
TwoOrders == {o1, o2}
OneDriver == {d1}
TwoDrivers == {d1, d2}

OneVehicle  == {1}
TwoVehicles == {1, 2}

\* Either order fits on either vehicle; both together fit on the second only.
WeightOfEach == [o \in Orders |-> 2]
LimitOfEach  == [v \in Vehicles |-> v + 2]

AllDoors   == {"force", "run", "leak"}
NoDoors    == {}
LeakDoor   == {"leak"}
RunDoor    == {"run"}
NoPhones   == {}

DriverSymmetry == Permutations({d1, d2})
Symmetry == Permutations({d1, d2}) \union Permutations({o1, o2})

\* Capacity: placed orders and verified drivers, while the fleet, the queue and
\* the journeys move.  Payment and declines gate nothing that loads a vehicle.
CapacitySpec ==
    /\ Init /\ placed = [o \in Orders |-> TRUE] /\ verified = Drivers
    /\ [][Next /\ UNCHANGED <<payment_status, declines, verified>>]_vars
=============================================================================
