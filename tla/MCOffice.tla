------------------------------- MODULE MCOffice -------------------------------
(***************************************************************************)
(* What runs at the router and on a dispatcher's desk, part by part: a     *)
(* behaviour picks one part and runs it.  The variables x1, x2, ... stand  *)
(* for that part's own, in the order in which its instance names them;     *)
(* those it does not need rest at 0.                                       *)
(***************************************************************************)
EXTENDS Integers, FleetWatch

CONSTANTS
    \* LiveFleet.
    Breaches, MaxSamples, BatchSize, Flushes,
    \* Compliance.
    Vehicles, DriverTypes, VehicleTypes, Photos, Handlers, MaxUploads,
    \* RateCards: operators side by side, and those about while one job is billed.
    FirstCard, HourlyRates, Weight,
    Operators, DieselPrices, MaxCards,
    BillOperators, BillDiesel, BillCards, Waits, Routes,
    \* Nobody, no truck, no order.
    NoOne,
    \* DispatchLocks.
    Dispatchers, Jobs, Takers, WeightOf, Limit, Budget,
    \* OrderBoard.
    Bookings, MAX_BATCH_PLACEMENTS, MaxBegun,
    \* ExceptionWatch.
    Asks,
    \* Roster.
    Managers, Trucks, Invited, Other, MaxCodes, MaxPresses,
    \* StaffAccount.
    Tabs, MaxSecrets, MaxSheets, MaxRequests,
    \* WallDisplays.
    Desks, Screens, MaxDevices,
    \* Releases.
    Laptops, Commits, List, Edge, Invalid, MaxRuns, MaxDowns

VARIABLES part, x1, x2, x3, x4, x5, x6, x7, x8, x9, x10, x11, x12

others == <<x1, x2, x3, x4, x5, x6, x7, x8, x9, x10, x11, x12>>
all == <<part, vars, others>>

Rest5 == x6 = 0 /\ x7 = 0 /\ x8 = 0 /\ x9 = 0 /\ x10 = 0 /\ x11 = 0 /\ x12 = 0
Rest6 == x7 = 0 /\ x8 = 0 /\ x9 = 0 /\ x10 = 0 /\ x11 = 0 /\ x12 = 0
Rest8 == x9 = 0 /\ x10 = 0 /\ x11 = 0 /\ x12 = 0
Rest9 == x10 = 0 /\ x11 = 0 /\ x12 = 0
Rest10 == x11 = 0 /\ x12 = 0
Rest11 == x12 = 0

Live == INSTANCE LiveFleet WITH
    sent <- x1, queue <- x2, waking <- x3, flushTimer <- x4, flush <- x5, router <- x6,
    breaches <- x7, fleet <- x8, sample <- x9, alerts <- x10, handled <- x11, shaken <- x12

\* A batch is of something.
ASSUME BatchAssumption == BatchSize \in Nat \ {0}

\* Of two jobs, one vehicle can carry one.
TwoWeights == [o \in {"o1", "o2"} |-> IF o = "o1" THEN 2 ELSE 3]

D == INSTANCE DispatchLocks WITH
    status <- x1, assigned <- x2, truck <- x3, declined <- x4, tx <- x5, left <- x6,
    held <- x7, need <- x8,
    Clients <- Dispatchers, Orders <- Jobs, Drivers <- Takers, Nobody <- NoOne, Weight <- WeightOf

Board == INSTANCE OrderBoard WITH
    load <- x1, listed <- x2, cursor <- x3, pane <- x4, found <- x5, asking <- x6, map <- x7,
    flow <- x8, saves <- x9, begun <- x10, Orders <- Bookings, None <- NoOne

\* No booking is nothing, and a stack of them ends.
ASSUME BookingsAssumption == NoOne \notin Bookings /\ IsFiniteSet(Bookings)

Watch == INSTANCE ExceptionWatch WITH
    order <- x1, since <- x2, phone <- x3, prompt <- x4, asked <- x5, screen <- x6

Ros == INSTANCE Roster WITH
    invited <- x1, holder <- x2, open <- x3, issued <- x4, job <- x5, admins <- x6, tx <- x7,
    left <- x8, held <- x9, need <- x10, Clients <- Managers, None <- NoOne

\* A truck is nobody's, one of two drivers', or gone.
ASSUME RosterAssumption ==
    NoOne \notin Trucks /\ NoOne # Invited /\ NoOne # Other /\ Invited # Other /\ "gone" \notin {NoOne, Invited, Other}

\* Two jobs on a line, one already collected; two dispatchers and the driver's phone.
PlaceOf == [s \in {<<"a", "PICKUP">>, <<"a", "DROP">>, <<"b", "PICKUP">>, <<"b", "DROP">>} |->
              CASE s = <<"a", "PICKUP">> -> 1 [] s = <<"a", "DROP">> -> 2
                [] s = <<"b", "PICKUP">> -> 5 [] OTHER -> 4]

Stop == INSTANCE StopSequence WITH
    seq <- x1, status <- x2, started <- x3, byHand <- x4, tx <- x5, view <- x6, card <- x7,
    loads <- x8, presses <- x9, held <- x10, need <- x11,
    Clients <- {"x", "y", "phone"}, Orders <- <<"a", "b">>, Collected <- {1}, Place <- PlaceOf,
    Unplaced <- 99, Fixes <- {3}, Desks <- {"x", "y"}, Driver <- "phone", MaxPresses <- 1,
    MaxLoads <- 1

C == INSTANCE Compliance WITH
    paper <- x1, truck <- x2, deleting <- x3, uploads <- x4, analyses <- x5, row <- x6, Calls <- Handlers

\* Each kind of paper is a driver's or a truck's, and a truck needs some.
ASSUME PapersAssumption ==
    /\ IsFiniteSet(Vehicles) /\ IsFiniteSet(DriverTypes) /\ IsFiniteSet(VehicleTypes)
    /\ VehicleTypes # {} /\ DriverTypes \intersect VehicleTypes = {}

\* The light van's card, in hundreds of francs.
LightVan == [base |-> 80, perKm |-> 7, perKmLong |-> 1, perKg |-> 0, minimum |-> 150, litres |-> 1,
             diesel |-> 3, road |-> 16, taper |-> 250, beyond |-> 250, full |-> 750, share |-> 7,
             terrain |-> 12, commission |-> 15, minimumFee |-> 5, free |-> 60, perHour |-> 40]

TwoRoutes == {[km |-> 10, terrain |-> 0], [km |-> 40, terrain |-> 10]}

\* One operator while an order runs its course, and two while none does.
R == INSTANCE RateCards WITH
    cards <- x1, panel <- x2, order <- x3, bill <- x4, placing <- x5, late <- x6,
    Operators <- BillOperators, DieselPrices <- BillDiesel, MaxCards <- BillCards, MaxKm <- 50,
    Steepest <- 20

Cards == INSTANCE RateCards WITH
    cards <- x1, panel <- x2, order <- x3, bill <- x4, placing <- x5, late <- x6,
    Waits <- {0}, Routes <- {}, MaxKm <- 50, Steepest <- 20

\* Nothing on a card, on a form or on the road is negative.
ASSUME FiguresAssumption ==
    /\ FirstCard \in R!Card /\ Weight \in Nat
    /\ DieselPrices \subseteq Nat /\ HourlyRates \subseteq Nat /\ BillDiesel \subseteq Nat
    /\ Waits \subseteq Nat /\ Routes \subseteq [km : Nat, terrain : Nat]

Staff == INSTANCE StaffAccount WITH
    row <- x1, app <- x2, sheets <- x3, spent <- x4, tabs <- x5, sent <- x6, MaxCalls <- MaxRequests

Wall == INSTANCE WallDisplays WITH
    devices <- x1, made <- x2, panel <- x3, carried <- x4, screen <- x5

Rel == INSTANCE Releases WITH
    origin <- x1, laptops <- x2, host <- x3, image <- x4, router <- x5, db <- x6, hubs <- x7,
    down <- x8, runs <- x9

\* Two commits, the second with two more migrations and another Caddyfile.
TwoLists == <<1, 3>>
TwoEdges == <<1, 2>>

\* Commits follow one another, and the list of migrations only grows.
ASSUME CommitsAssumption ==
    /\ IsFiniteSet(Commits) /\ Commits = 1..Cardinality(Commits) /\ 1 \in Commits /\ List \in [Commits -> Nat]
    /\ \A b, c \in Commits : b <= c => List[b] <= List[c]

ASSUME BoundsAssumption ==
    {Budget, MaxBegun, MaxCodes, MaxPresses, MaxSecrets, MaxSheets, MaxRequests, MaxDevices, MaxRuns, MaxDowns,
     MaxUploads, MaxSamples, MaxCards, BillCards} \subseteq Nat

AllInit ==
    /\ Init
    /\ \/ part = "fleet"      /\ x1 = 0 /\ x2 = 0 /\ x3 = 0 /\ x4 = 0 /\ x5 = 0 /\ x6 = 0 /\ x7 = 0 /\ x8 = 0 /\ x9 = 0 /\ x10 = 0 /\ x11 = 0 /\ x12 = 0
       \/ part = "live"       /\ Live!Init
       \/ part = "queue"      /\ D!Init /\ Rest8
       \/ part = "board"      /\ Board!Init /\ Rest10
       \/ part = "watch"      /\ Watch!Init /\ Rest6
       \/ part = "roster"     /\ Ros!Init /\ Rest10
       \/ part = "stops"      /\ Stop!Init /\ Rest11
       \/ part = "compliance" /\ C!Init /\ Rest6
       \/ part = "bill"       /\ R!Init /\ Rest6
       \/ part = "cards"      /\ Cards!Init /\ Rest6
       \/ part = "staff"      /\ Staff!Init /\ Rest6
       \/ part = "walls"      /\ Wall!Init /\ Rest5
       \/ part = "releases"   /\ Rel!Init /\ Rest9

AllNext ==
    /\ UNCHANGED part
    /\ \/ part = "fleet"      /\ Next /\ UNCHANGED others
       \/ /\ UNCHANGED vars
          /\ \/ part = "live"       /\ Live!Next
             \/ part = "queue"      /\ D!Next /\ UNCHANGED <<x9, x10, x11, x12>>
             \/ part = "board"      /\ Board!Next /\ UNCHANGED <<x11, x12>>
             \/ part = "watch"      /\ Watch!Next /\ UNCHANGED <<x7, x8, x9, x10, x11, x12>>
             \/ part = "roster"     /\ Ros!Next /\ UNCHANGED <<x11, x12>>
             \/ part = "stops"      /\ Stop!Next /\ UNCHANGED <<x12>>
             \/ part = "compliance" /\ C!Next /\ UNCHANGED <<x7, x8, x9, x10, x11, x12>>
             \/ part = "bill"       /\ R!Next /\ UNCHANGED <<x7, x8, x9, x10, x11, x12>>
             \/ part = "cards"      /\ Cards!Next /\ UNCHANGED <<x7, x8, x9, x10, x11, x12>>
             \/ part = "staff"      /\ Staff!Next /\ UNCHANGED <<x7, x8, x9, x10, x11, x12>>
             \/ part = "walls"      /\ Wall!Next /\ UNCHANGED <<x6, x7, x8, x9, x10, x11, x12>>
             \/ part = "releases"   /\ Rel!Next /\ UNCHANGED <<x10, x11, x12>>

AllSpec == AllInit /\ [][AllNext]_all

\* What each part promises is stated in its module.
AllTyped ==
    /\ TypeOK
    /\ part = "live"       => Live!TypeOK
    /\ part = "queue"      => D!TypeOK
    /\ part = "board"      => Board!TypeOK
    /\ part = "watch"      => Watch!TypeOK
    /\ part = "roster"     => Ros!TypeOK
    /\ part = "stops"      => Stop!TypeOK
    /\ part = "compliance" => C!TypeOK
    /\ part = "bill"       => R!TypeOK
    /\ part = "cards"      => Cards!TypeOK
    /\ part = "staff"      => Staff!TypeOK
    /\ part = "walls"      => Wall!TypeOK
    /\ part = "releases"   => Rel!TypeOK

\* A vehicle carries no more than it can, and the driver's stops come in an order
\* they can be driven in (DispatchLocks, StopSequence).
WorkCanBeDone ==
    /\ part = "queue" => D!LoadWithinLimit
    /\ part = "stops" => Stop!OrderHolds /\ Stop!CollectedFirst

\* What dispatch sees is of the job it asked about, and "nothing is going wrong"
\* is said only when nothing is (OrderBoard, ExceptionWatch).
BoardIsHonest ==
    /\ part = "board" => Board!PinsWereAskedFor
    /\ part = "watch" => Watch!SilentIsSeen /\ Watch!ClearWasTrue

\* A code, a second factor or a link that was handed out works, and no older one
\* (Roster, StaffAccount, WallDisplays).
SecretsWork ==
    /\ part = "roster" => Ros!LatestCodeWorks
    /\ part = "staff"  => Staff!EnabledIsScanned
    /\ part = "walls"  => Wall!ShownLinkOpens

\* An offer, a truck or an approved paper is taken back only by who may
\* (DispatchLocks, Roster, Compliance).
GivenStaysGiven ==
    [][/\ part = "queue"      => D!OfferKept
       /\ part = "roster"     => Ros!InviteTakesNoTruck
       /\ part = "compliance" => C!ReopenedByRejection]_all

\* A field nobody typed in is saved as the router read it, not as an older form
\* shows it, and no older sample replaces a newer (RateCards, LiveFleet).
NewerStays ==
    [][/\ part = "cards" => Cards!UntouchedFieldsSurvive
       /\ part = "live"  => Live!NewestWins]_all

\* A vehicle is verified by papers that are in force, and an analysis is of the
\* file it is shown with (Compliance).
PapersAreSound == part = "compliance" => C!VerifiedByItsPapers /\ C!AnalysisFitsFile

\* What is billed adds up on the card the job was quoted on (RateCards).
BillAddsUp == part = "bill" => R!BillAddsUp

\* One alert for one stay in a zone, and no sample left lying (LiveFleet).
FleetIsFollowed == part = "live" => Live!OneAlertPerStay /\ Live!NoSampleStranded

\* The router serves on a schema its code knows (Releases).
ServesOnItsSchema == part = "releases" => Rel!ServesOnItsSchema

\* Refuted: a longer trip never costs less (RateCards).
NoPriceCliff == part = "bill" => R!NoPriceCliff
=============================================================================
