------------------------------- MODULE MCPhones -------------------------------
(***************************************************************************)
(* What runs on a driver's phone, on the public site and in the feeds: a   *)
(* behaviour picks one part and runs it.  The variables x1, x2, ... stand  *)
(* for that part's own, in the order in which its instance names them;     *)
(* those it does not need rest at 0.                                       *)
(***************************************************************************)
EXTENDS SignIn

VARIABLES part, x1, x2, x3, x4, x5, x6, x7, x8, x9, x10

others == <<x1, x2, x3, x4, x5, x6, x7, x8, x9, x10>>
all == <<part, vars, others>>

Rest6 == x7 = 0 /\ x8 = 0 /\ x9 = 0 /\ x10 = 0
Rest7 == x8 = 0 /\ x9 = 0 /\ x10 = 0
Rest8 == x9 = 0 /\ x10 = 0

Sh == INSTANCE Shift WITH
    os <- x1, cache <- x2, screen <- x3, begun <- x4, calls <- x5, leaving <- x6, due <- x7,
    home <- x8,
    Sessions <- {1, 2}, Calls <- {1, 2}

\* A job that never has its price, with more taps, and one whose fare is collected.
Trip == INSTANCE TripScreen WITH
    trip <- x1, arrival <- x2, shown <- x3, loads <- x4, saved <- x5, refused <- x6,
    phase <- x7, taps <- x8,
    Prices <- {FALSE}, MaxTaps <- 3, MaxLoads <- 2

Fare == INSTANCE TripScreen WITH
    trip <- x1, arrival <- x2, shown <- x3, loads <- x4, saved <- x5, refused <- x6,
    phase <- x7, taps <- x8,
    Prices <- BOOLEAN, MaxTaps <- 2, MaxLoads <- 1

Cash == INSTANCE CashCommission WITH
    job <- x1, prompt <- x2, handlers <- x3, payouts <- x4, screen <- x5, received <- x6,
    Jobs <- {1, 2}, Fee <- [j \in {1, 2} |-> IF j = 1 THEN 2 ELSE 1], Refs <- {1, 2},
    Calls <- {1, 2}, Gross <- {4}, MaxOwed <- 2

Paper == INSTANCE PaperFiles WITH
    rows <- x1, store <- x2, truck <- x3, moves <- x4, uploads <- x5, loads <- x6, phone <- x7,
    desk <- x8,
    First <- "v1", Trucks <- {"v1", "v2"}, OwnTypes <- {"licence"},
    TruckTypes <- {"insurance"}, Formats <- {"jpg"}, Calls <- {1, 2}, Loads <- {1}, MaxMoves <- 1

Checks == INSTANCE SafetyChecks WITH
    truck <- x1, record <- x2, alerts <- x3, calls <- x4, card <- x5, loads <- x6,
    Items <- {"tyres", "cargo"}, Vehicles <- {"v1"}, None <- "none", MaxTaps <- 2

Inc == INSTANCE IncidentReports WITH
    form <- x1, left <- x2, told <- x3, sending <- x4, kept <- x5, refused <- x6,
    reports <- x7, decided <- x8,
    Notes <- {1, 2}, MaxReports <- 2, MaxKept <- 2, MaxDecisions <- 2

B == INSTANCE BookingForm WITH
    form <- x1, requested <- x2, kept <- x3, timer <- x4, fetches <- x5, quote <- x6,
    quoting <- x7, sending <- x8, token <- x9, told <- x10,
    Texts <- {1}, Weights <- {1, 9}, TooHeavy <- 9, MaxFetches <- 2

Track == INSTANCE Tracking WITH
    order <- x1, log <- x2, forced <- x3, page <- x4, lookup <- x5, letter <- x6,
    Lookups <- {1}, MaxLog <- 4, MaxForced <- 1, MaxLetters <- 2

Feeds == INSTANCE LiveFeeds WITH
    job <- x1, changes <- x2, outbox <- x3, sockets <- x4, view <- x5, rounds <- x6,
    alerts <- x7,
    Drivers <- {"ana", "bob"}, MaxChanges <- 1, MaxSessions <- 2, Sockets <- {1, 2},
    Rounds <- {1, 2}

AllInit ==
    /\ Init
    /\ \/ part = "signin"   /\ x1 = 0 /\ x2 = 0 /\ x3 = 0 /\ x4 = 0 /\ x5 = 0 /\ x6 = 0 /\ x7 = 0 /\ x8 = 0 /\ x9 = 0 /\ x10 = 0
       \/ part = "shift"    /\ Sh!Init /\ Rest8
       \/ part = "trip"     /\ Trip!Init /\ Rest8
       \/ part = "fare"     /\ Fare!Init /\ Rest8
       \/ part = "cash"     /\ Cash!Init /\ Rest6
       \/ part = "papers"   /\ Paper!Init /\ Rest8
       \/ part = "checks"   /\ Checks!Init /\ Rest6
       \/ part = "incident" /\ Inc!Init /\ Rest8
       \/ part = "booking"  /\ B!Init
       \/ part = "track"    /\ Track!Init /\ Rest6
       \/ part = "feeds"    /\ Feeds!Init /\ Rest7
    /\ part # "signin" => \A p \in Phones : ~account[p].onboarded

AllNext ==
    /\ UNCHANGED part
    /\ \/ part = "signin"   /\ Next /\ UNCHANGED others
       \/ /\ UNCHANGED vars
          /\ \/ part = "shift"    /\ Sh!Next /\ UNCHANGED <<x9, x10>>
             \/ part = "trip"     /\ Trip!Next /\ UNCHANGED <<x9, x10>>
             \/ part = "fare"     /\ Fare!Next /\ UNCHANGED <<x9, x10>>
             \/ part = "cash"     /\ Cash!Next /\ UNCHANGED <<x7, x8, x9, x10>>
             \/ part = "papers"   /\ Paper!Next /\ UNCHANGED <<x9, x10>>
             \/ part = "checks"   /\ Checks!Next /\ UNCHANGED <<x7, x8, x9, x10>>
             \/ part = "incident" /\ Inc!Next /\ UNCHANGED <<x9, x10>>
             \/ part = "booking"  /\ B!Next
             \/ part = "track"    /\ Track!Next /\ UNCHANGED <<x7, x8, x9, x10>>
             \/ part = "feeds"    /\ Feeds!Next /\ UNCHANGED <<x8, x9, x10>>

AllSpec == AllInit /\ [][AllNext]_all

\* What each part promises is stated in its module.
AllTyped ==
    /\ TypeOK
    /\ part = "shift"    => Sh!TypeOK
    /\ part = "trip"     => Trip!TypeOK
    /\ part = "fare"     => Fare!TypeOK
    /\ part = "cash"     => Cash!TypeOK
    /\ part = "papers"   => Paper!TypeOK
    /\ part = "checks"   => Checks!TypeOK
    /\ part = "incident" => Inc!TypeOK
    /\ part = "booking"  => B!TypeOK
    /\ part = "track"    => Track!TypeOK
    /\ part = "feeds"    => Feeds!TypeOK

\* The driver's own steps: none that was refused is lost work, and a delivery
\* shown has its proof (TripScreen).
StepsAreSafe ==
    /\ part = "trip" => Trip!RefusedIsRedundant /\ Trip!DeliveredIsBacked
    /\ part = "fare" => Fare!RefusedIsRedundant /\ Fare!DeliveredIsBacked

\* No commission is written off that nobody paid (CashCommission).
NothingWrittenOff == part = "cash" => Cash!NothingWrittenOff

\* A location service reports as who is signed in (Shift).
ReportsAsItself == part = "shift" => Sh!ReportsAsItself

\* What a driver was told is on file is there, and what dispatch has decided
\* about it stands (IncidentReports, SafetyChecks, PaperFiles).
SentIsOnFile ==
    /\ part = "incident" => Inc!SentIsKept /\ Inc!DecisionStands
    /\ part = "checks"   => Checks!ToldIsRaised /\ Checks!NothingClobbered
    /\ part = "papers"   => Paper!FileIsThere

\* What a customer or a dispatcher is shown is so, whatever answers are late
\* (SignIn, BookingForm, Tracking, LiveFeeds).
ShownIsSo ==
    /\ PinPadFits
    /\ part = "booking" => B!QuoteFitsForm /\ B!ToldIsDone
    /\ part = "track"   => Track!StatusHasItsEntry
    /\ part = "feeds"   => Feeds!FeedsAreHonest
=============================================================================
