\* The rate card a dispatcher saves loses the distance its return leg is ramped over.
SPECIFICATION AllSpec
CONSTANTS
    Drivers = {"ana"}
    Orders = {"o"}
    Routers = {"r"}
    Breaches = {"entered", "speeding"}
    MaxSamples = 3
    BatchSize = 2
    Flushes = {1, 2}
    Vehicles = {"v1"}
    DriverTypes = {"licence", "national_id"}
    VehicleTypes = {"insurance"}
    Photos = {1}
    Handlers = {1, 2}
    MaxUploads = 2
    FirstCard <- LightVan
    HourlyRates = {40, 60}
    Weight = 4
    Operators = {"x", "y"}
    DieselPrices = {3, 4}
    MaxCards = 3
    BillOperators = {"x"}
    BillDiesel = {3}
    BillCards = 2
    Waits = {0, 90}
    Routes <- TwoRoutes
    NoOne = "none"
    Dispatchers = {"c1", "c2"}
    Jobs = {"o1", "o2"}
    Takers = {"ana", "bob"}
    WeightOf <- TwoWeights
    Limit = 4
    Budget = 3
    Bookings = {"a", "b"}
    MAX_BATCH_PLACEMENTS = 1
    MaxBegun = 2
    Asks = {1}
    Managers = {"x", "y"}
    Trucks = {"t1"}
    Invited = "ana"
    Other = "bob"
    MaxCodes = 3
    MaxPresses = 2
    Tabs = {1, 2}
    MaxSecrets = 2
    MaxSheets = 2
    MaxRequests = 8
    Desks = {"x"}
    Screens = {"wall"}
    MaxDevices = 2
    Laptops = {"x", "y"}
    Commits = {1, 2}
    List <- TwoLists
    Edge <- TwoEdges
    Invalid = {2}
    MaxRuns = 2
    MaxDowns = 1
INVARIANT NoPriceCliff
CHECK_DEADLOCK FALSE
