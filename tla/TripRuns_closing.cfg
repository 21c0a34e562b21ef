CONSTANTS
    Clients = {c1, c2}
    Orders = {o1}
    Trips = {t1, t2}
    Drivers = {d1}
    Nobody = Nobody
    Moves <- Closings
    Edits <- AskedOrHanded
    Budget = 5
SPECIFICATION Spec
CHECK_DEADLOCK FALSE
INVARIANTS RunsMatchTheirStops
PROPERTIES RequestsEnd
