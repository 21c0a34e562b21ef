\* One order through every handler but the side doors.
SPECIFICATION Spec
CONSTANTS
    o1 = o1
    o2 = o2
    d1 = d1
    d2 = d2
    NoDriver = NoDriver
    NoVehicle = 0
    Orders <- OneOrder
    Drivers <- TwoDrivers
    Vehicles <- OneVehicle
    Weight <- WeightOfEach
    MaxWeight <- LimitOfEach
    HasPhone <- OneOrder
    SideDoors <- NoDoors
    MaxAttempts = 2
    MaxConfirmations = 2
SYMMETRY DriverSymmetry
INVARIANTS
    DeliveredWithProof
PROPERTIES
    CargoKeepsItsDriver
    GuessesNeverForgotten
    KeepsThePromise
