---------------------------- MODULE StopSequence ----------------------------
(* The order of a run's stops: the router that plans it, the dispatcher who has *)
(* it optimised or moves a stop by hand, and the driver's card, which offers    *)
(* the first stop still open.  Places are points on a line.                     *)
EXTENDS RowLocks, Integers, Sequences, SequencesExt

CONSTANTS
    Orders,      \* the orders of the run, as the plan lists them
    Collected,   \* those whose cargo the driver has already
    Place,       \* where each stop is, or Unplaced
    Unplaced,
    Fixes,       \* where the driver may be last seen, or Unplaced
    Desks, Driver,  \* the clients: a dashboard each, and the driver's phone
    MaxPresses,  \* bound on what each dashboard asks for
    MaxLoads     \* bound on copies under way to the card

VARIABLES
    seq,         \* trip_stops: the order the rows are numbered in
    status,      \* ... and their status
    started,     \* trips.status is ACTIVE, no longer PLANNED
    byHand,      \* the rows were last numbered by hand
    tx,          \* each client's request
    view, card,  \* the copies that dashboards and the phone show
    loads,       \* copies under way to the phone
    presses

vars == <<seq, status, started, byHand, tx, view, card, loads, presses, held, need>>

Pickup(o) == <<o, "PICKUP">>
Drop(o)   == <<o, "DROP">>
Stops     == {Drop(Orders[i]) : i \in DOMAIN Orders} \union {Pickup(Orders[i]) : i \in DOMAIN Orders \ Collected}
Count     == Cardinality(Stops)
Order(s)  == s[1]
IsPickup(s) == s[2] = "PICKUP"

\* A stop that failed or was skipped is as settled as one that is done.
Terminal == {"DONE"}
Statuses == {"PENDING", "ARRIVED"} \union Terminal

\* What a dashboard acts on is the order of the stops, and what the card acts on
\* is the current stop, if there is one, with its status.
Numberings == [1..Count -> Stops]
Currents  == Stops \X Statuses

-----------------------------------------------------------------------------
(* utils/routeSequencing.js *)

\* haversineMetres; nothing is further than what has no place.
Distance(a, b) == IF Unplaced \in {a, b} THEN 1000 ELSE IF a > b THEN a - b ELSE b - a

\* Mutant: every stop is free from the start.
AnyStop(stops, pickedUp) == stops

Eligible(stops, pickedUp) == SelectSeq(stops, LAMBDA s : IsPickup(s) \/ Order(s) \in pickedUp)

\* The first of the nearest.
Nearest(stops, cursor) ==
    stops[CHOOSE i \in DOMAIN stops : \A j \in DOMAIN stops :
             LET d == Distance(cursor, Place[stops[i]])
                 e == Distance(cursor, Place[stops[j]])
             IN d < e \/ (d = e /\ i <= j)]

\* One stop more of the walk: the nearest that is free, or the nearest.
Visit(walk) ==
    LET free == Eligible(walk.left, walk.pickedUp)
        best == Nearest(IF free = <<>> THEN walk.left ELSE free, walk.cursor)
    IN [left     |-> SelectSeq(walk.left, LAMBDA s : s # best),
        visited  |-> Append(walk.visited, best),
        pickedUp |-> IF IsPickup(best) THEN walk.pickedUp \union {Order(best)} ELSE walk.pickedUp,
        cursor   |-> IF Place[best] = Unplaced THEN walk.cursor ELSE Place[best]]

\* The collected orders are those with a settled pickup among these stops.
SequenceStops(stops, of, start) ==
    FoldLeft(LAMBDA walk, s : Visit(walk),
             [left |-> stops, visited |-> <<>>, cursor |-> start,
              pickedUp |-> {Order(s) : s \in {t \in Range(stops) : IsPickup(t) /\ of[t] \in Terminal}}],
             stops).visited

\* startingPoint: a recent position of the driver, or else the fallback.
Start(fix, fallback) == IF fix = Unplaced THEN Place[fallback] ELSE fix

Draft == FlattenSeq([i \in DOMAIN Orders |->
             (IF i \in Collected THEN <<>> ELSE <<Pickup(Orders[i])>>) \o <<Drop(Orders[i])>>])

-----------------------------------------------------------------------------
NoTx == [op |-> "idle", plan |-> <<>>, stop |-> Drop(Orders[1]), to |-> "PENDING"]

TypeOK ==
    /\ seq \in Numberings /\ status \in [Stops -> Statuses]
    /\ started \in BOOLEAN /\ byHand \in BOOLEAN
    /\ \A c \in Clients : /\ tx[c].op \in {"idle", "reorder", "read", "write", "mark", "start"}
                          /\ tx[c].plan = <<>> \/ tx[c].plan \in Seq(Stops)
    /\ view \in [Desks -> Numberings] /\ card \subseteq Currents /\ loads \subseteq SUBSET Currents
    /\ presses \in [Desks -> 0..MaxPresses]

\* loadTrip: currentStop is the first that is open.
CurrentStop(of) ==
    {<<seq[i], of[seq[i]]>> : i \in {k \in 1..Count : /\ of[seq[k]] \notin Terminal
                                                   /\ \A j \in 1..(k - 1) : of[seq[j]] \in Terminal}}

\* createTrip, and everyone has looked at the run since.
Init ==
    /\ \E fix \in Fixes : seq = SequenceStops(Draft, [s \in Stops |-> "PENDING"], Start(fix, Draft[1]))
    /\ status = [s \in Stops |-> "PENDING"] /\ started = FALSE /\ byHand = FALSE
    /\ tx = [c \in Clients |-> NoTx]
    /\ view = [d \in Desks |-> seq] /\ card = CurrentStop(status) /\ loads = {}
    /\ presses = [d \in Desks |-> 0] /\ NoLocks

Idle(c) == tx[c].op = "idle"
TripRow == <<"trip", "-">>

\* The request is over, its locks free.
End(c) == tx' = [tx EXCEPT ![c] = NoTx] /\ Release(c)

-----------------------------------------------------------------------------
(* A dashboard *)

Press(d) ==
    /\ Idle(d) /\ presses[d] < MaxPresses
    /\ presses' = [presses EXCEPT ![d] = @ + 1]
    /\ UNCHANGED <<seq, status, started, byHand, view, card, loads>>

PressOptimise(d) == Press(d) /\ tx' = [tx EXCEPT ![d].op = "read"] /\ Ask(d, {TripRow})

Swapped(order, i) == [order EXCEPT ![i] = order[i + 1], ![i + 1] = order[i]]

\* move: the ids as this dashboard shows them, two of them exchanged.
PressMove(d, i) ==
    /\ Press(d)
    /\ tx' = [tx EXCEPT ![d] = [NoTx EXCEPT !.op = "reorder", !.plan = Swapped(view[d], i)]]
    /\ UNCHANGED locks

Reopen(d) ==
    /\ Idle(d) /\ view' = [view EXCEPT ![d] = seq]
    /\ UNCHANGED <<seq, status, started, byHand, tx, card, loads, presses, held, need>>

-----------------------------------------------------------------------------
(* optimiseTrip and reorderTrip.  The stops are read without a lock; each is    *)
(* then numbered by a statement of its own.                                     *)

\* Mutant: the settled stops are left out of the new order.
NoneSettled == <<>>

SettledStops == SelectSeq(seq, LAMBDA s : status[s] \in Terminal)

OpenStops == SelectSeq(seq, LAMBDA s : status[s] \notin Terminal)

ReadStops(d, fix) ==
    /\ tx[d].op = "read" /\ Granted(d)
    /\ LET from == IF SettledStops = <<>> THEN OpenStops[1] ELSE Last(SettledStops)
           plan == SettledStops \o SequenceStops(OpenStops, status, Start(fix, from))
       IN IF Len(OpenStops) < 2 THEN End(d)
          ELSE tx' = [tx EXCEPT ![d] = [NoTx EXCEPT !.op = "write", !.plan = plan]] /\ Ask(d, {plan[1]})
    /\ UNCHANGED <<seq, status, started, byHand, view, card, loads, presses>>

BeginReorder(d) ==
    /\ tx[d].op = "reorder" /\ need[d] = {} /\ held[d] = {} /\ Ask(d, {tx[d].plan[1]})
    /\ UNCHANGED <<seq, status, started, byHand, tx, view, card, loads, presses>>

\* How many statements have run, or are about to.
Step(d) == Cardinality({s \in Range(tx[d].plan) : s \in held[d] \union need[d]})

WriteNext(d) ==
    /\ tx[d].op \in {"write", "reorder"} /\ need[d] \union held[d] # {} /\ Granted(d)
    /\ Step(d) < Len(tx[d].plan) /\ Ask(d, {tx[d].plan[Step(d) + 1]})
    /\ UNCHANGED <<seq, status, started, byHand, tx, view, card, loads, presses>>

\* Mutant: the rows that keep the number the dashboard shows are not written.
OnlyMoved(d) == [n \in 1..Count |-> IF tx[d].plan[n] = view[d][n] THEN seq[n] ELSE tx[d].plan[n]]

\* Every row of the run.
Written(d) == tx[d].plan

CommitOrder(d, heard) ==
    /\ tx[d].op \in {"write", "reorder"} /\ Granted(d) /\ Step(d) = Len(tx[d].plan)
    /\ seq' = Written(d) /\ byHand' = (tx[d].op = "reorder")
    /\ view' = IF heard THEN [view EXCEPT ![d] = seq'] ELSE view
    /\ End(d)
    /\ UNCHANGED <<status, started, card, loads, presses>>

\* The server fails a statement that waits in a circle; a connection may be lost.
Fails(c) ==
    /\ Deadlocked(c) /\ End(c)
    /\ UNCHANGED <<seq, status, started, byHand, view, card, loads, presses>>

-----------------------------------------------------------------------------
(* The driver's card and updateStop *)

\* The card has its buttons at the current stop only: "I'm here", then that it is
\* done, and "Can't do it" at any time.
Offered(stop, to) == \E from \in Statuses \ {to} : <<stop, from>> \in card

Tap(stop, to) ==
    /\ Idle(Driver) /\ Offered(stop, to)
    /\ tx' = [tx EXCEPT ![Driver] = [NoTx EXCEPT !.op = "mark", !.stop = stop, !.to = to]]
    /\ Ask(Driver, {stop})
    /\ UNCHANGED <<seq, status, started, byHand, view, card, loads, presses>>

StopRefused ==
    /\ tx[Driver].op = "mark" /\ Granted(Driver) /\ status[tx[Driver].stop] \in Terminal
    /\ End(Driver)
    /\ UNCHANGED <<seq, status, started, byHand, view, card, loads, presses>>

\* The first stop to move starts the run.
StartRun ==
    /\ tx[Driver].op = "mark" /\ Granted(Driver) /\ status[tx[Driver].stop] \notin Terminal /\ ~started
    /\ tx' = [tx EXCEPT ![Driver].op = "start"] /\ Ask(Driver, {TripRow})
    /\ UNCHANGED <<seq, status, started, byHand, view, card, loads, presses>>

CommitStop(heard) ==
    /\ tx[Driver].op \in {"mark", "start"} /\ Granted(Driver) /\ (tx[Driver].op = "mark" => started)
    /\ LET stop == tx[Driver].stop
       IN /\ status[stop] \notin Terminal
          /\ status' = [status EXCEPT ![stop] = tx[Driver].to]
    /\ started' = TRUE
    /\ card' = IF heard THEN CurrentStop(status') ELSE card
    /\ End(Driver)
    /\ UNCHANGED <<seq, byHand, view, loads, presses>>

\* getMyTrip answers in any order.
Load ==
    /\ Cardinality(loads) < MaxLoads /\ loads' = loads \union {CurrentStop(status)}
    /\ UNCHANGED <<seq, status, started, byHand, tx, view, card, presses, held, need>>

Loaded(current) ==
    /\ loads' = loads \ {current} /\ card' = current
    /\ UNCHANGED <<seq, status, started, byHand, tx, view, presses, held, need>>

Next ==
    \/ \E d \in Desks :
         \/ PressOptimise(d) \/ Reopen(d) \/ BeginReorder(d) \/ WriteNext(d)
         \/ \E i \in 1..(Count - 1) : PressMove(d, i)
         \/ \E fix \in Fixes : ReadStops(d, fix)
         \/ \E heard \in BOOLEAN : CommitOrder(d, heard)
    \/ \E c \in Clients : Fails(c)
    \/ \E stop \in Stops, to \in Statuses \ {"PENDING"} : Tap(stop, to)
    \/ StopRefused \/ StartRun \/ Load
    \/ \E heard \in BOOLEAN : CommitStop(heard)
    \/ \E current \in loads : Loaded(current)

Spec == Init /\ [][Next]_vars

-----------------------------------------------------------------------------
(* Properties *)

\* tripController.js:389-460: however the dispatchers' optimisations and moves
\* overlap, the run keeps every stop, each at a number of its own.
OrderHolds == Range(seq) = Stops

\* routeSequencing.js:35-41: unless somebody has moved a stop by hand, the driver
\* is not offered an order's drop while its pickup is still to be made.
CollectedFirst ==
    ~byHand => \A o \in Range(Orders) : \A i, j \in 1..Count :
        seq[i] = Pickup(o) /\ seq[j] = Drop(o) /\ status[seq[i]] \notin Terminal /\ status[seq[j]] \notin Terminal => i < j

\* routeSequencing.test.js:37-39: a drop whose pickup is already done is free to
\* be visited, so of the stops that are free the nearest comes first.
FreeStopsCompete ==
    LET start == CHOOSE fix \in Fixes : TRUE
        first == seq[1]
        free  == {s \in Stops : IsPickup(s) \/ \E i \in Collected : Order(s) = Orders[i]}
    IN ~byHand /\ ~started => \A s \in free : Distance(start, Place[first]) <= Distance(start, Place[s])

\* RunCard.tsx:49: a stop the driver has arrived at stays the current one.
ArrivedStaysCurrent == \A s \in Stops : status[s] = "ARRIVED" => <<s, "ARRIVED">> \in CurrentStop(status)

\* tripController.js:406: what is settled comes before what is open.
HistoryFirst == ~byHand => \A i, j \in 1..Count : status[seq[i]] \in Terminal /\ status[seq[j]] \notin Terminal => i < j
=============================================================================
