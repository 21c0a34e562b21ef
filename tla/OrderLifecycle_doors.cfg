\* One order that an admin forces, a run moves and a leaked transaction moves.
SPECIFICATION Spec
CONSTANTS
    o1 = o1
    o2 = o2
    d1 = d1
    d2 = d2
    NoDriver = NoDriver
    NoVehicle = 0
    Orders <- OneOrder
    Drivers <- TwoDrivers
    Vehicles <- OneVehicle
    Weight <- WeightOfEach
    MaxWeight <- LimitOfEach
    HasPhone <- NoPhones
    SideDoors <- AllDoors
    MaxAttempts = 1
    MaxConfirmations = 1
SYMMETRY DriverSymmetry
INVARIANTS
    ArrivalOnRecord
PROPERTIES
    JourneyOnlyForward
