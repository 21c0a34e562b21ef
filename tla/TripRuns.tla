------------------------------ MODULE TripRuns ------------------------------
(***************************************************************************)
(* Multi-stop runs as concurrent transactions: the driver closing stops    *)
(* (updateStop), dispatch editing a run (updateTrip) and planning one      *)
(* (createTrip), statement by statement with the rows each statement       *)
(* locks.  A transaction's writes are computed from its record and become  *)
(* visible when it commits (READ COMMITTED).  Who may drive, and the order *)
(* endpoints, are in OrderLifecycle; the sequence of stops is in           *)
(* StopSequence.                                                           *)
(***************************************************************************)
EXTENDS RowLocks

CONSTANTS
    Orders,
    Trips,      \* ids of runs, bounding how many are planned
    Drivers,
    Nobody,     \* a run without a driver
    Moves,      \* what a stop is reported as: of ARRIVED, DONE, FAILED, SKIPPED
    Edits,      \* what dispatch asks of a run: pairs of a status and a driver
    Budget      \* how many requests arrive

Same == "same"      \* a field the PATCH leaves out

\* tripController.js:486, and the words updateStop takes.
MovesAssumption == Moves \subseteq {"ARRIVED", "DONE", "FAILED", "SKIPPED"}
EditsAssumption == Edits \subseteq {Same, "PLANNED", "ACTIVE", "CANCELLED"} \X (Drivers \union {Nobody, Same})
ASSUME RequestsAssumption == MovesAssumption /\ EditsAssumption
ASSUME BudgetAssumption == Budget \in Nat

VARIABLES
    trip,       \* trips.status, "none" before the INSERT
    driver,     \* trips.driver_username
    stop,       \* trip_stops.status by run and by order and kind
    order,      \* orders.status
    assigned,   \* orders.assigned_to
    left,       \* requests still to come
    tx,         \* where each transaction is and what it has read
    odd         \* history: runs two closings counted together, or set ACTIVE
                \* again after they were cancelled

rows == <<trip, driver, stop, order, assigned>>
vars == <<rows, tx, left, odd, locks>>

Kinds == {"PICKUP", "DROP"}
Stops == Orders \X Kinds
Open == {"PENDING", "ARRIVED"}
Terminal == {"DONE", "FAILED", "SKIPPED"}

\* Mutant: the stop's own word is written to the order.
StopWords == [PICKUP |-> "DONE", DROP |-> "DONE"]

\* STOP_COMPLETION_ORDER_STATUS.
Completion == [PICKUP |-> "PICKED_UP", DROP |-> "DELIVERED"]

Plannable == {"PENDING", "ASSIGNED", "PICKED_UP"}
TripRow(t) == <<"trip", t>>
StopRow(t, s) == <<"stop", t, s>>
OrderRow(o) == <<"order", o>>

OpenStops(t) == {s \in Stops : stop[t][s] \in Open}
OrdersOn(t) == {o \in Orders : \E k \in Kinds : stop[t][<<o, k>>] # "none"}

\* trips_one_active_per_driver.
Busy(t, d) == d # Nobody /\ \E u \in Trips \ {t} : trip[u] = "ACTIVE" /\ driver[u] = d

Idle == [at |-> "idle", run |-> "none", item |-> "none", to |-> "none",
         driver |-> Nobody, orders |-> {}, saw |-> "none", last |-> FALSE]

Places == {"idle", "stop", "begin", "move", "close", "run", "skip", "hand", "plan", "draft"}

TypeOK ==
    /\ trip \in [Trips -> {"none", "PLANNED", "ACTIVE", "COMPLETED", "CANCELLED"}]
    /\ driver \in [Trips -> Drivers \union {Nobody}]
    /\ stop \in [Trips -> [Stops -> {"none"} \union Open \union Terminal]]
    /\ order \in [Orders -> {"PENDING", "ASSIGNED", "PICKED_UP", "DELIVERED"}]
    /\ assigned \in [Orders -> Drivers \union {Nobody}]
    /\ odd \subseteq Trips
    /\ left \in 0 .. Budget
    /\ \A c \in Clients : tx[c].at \in Places /\ tx[c].orders \subseteq Orders

Init ==
    /\ trip = [t \in Trips |-> "none"]
    /\ driver = [t \in Trips |-> Nobody]
    /\ stop = [t \in Trips |-> [s \in Stops |-> "none"]]
    /\ order = [o \in Orders |-> "PENDING"]
    /\ assigned = [o \in Orders |-> Nobody]
    /\ tx = [c \in Clients |-> Idle]
    /\ left = Budget
    /\ odd = {}
    /\ NoLocks

At(c, place) == tx[c].at = place /\ Granted(c)

\* The next statement of c and the rows it locks.
Goto(c, place, wanted) ==
    /\ tx' = [tx EXCEPT ![c].at = place]
    /\ Ask(c, wanted)

\* Mutant: the connection goes back to the pool with its transaction open.
EndOpen(c) == /\ tx' = [tx EXCEPT ![c] = Idle]
              /\ need' = [need EXCEPT ![c] = {}]
              /\ UNCHANGED held

End(c) == tx' = [tx EXCEPT ![c] = Idle] /\ Release(c)

-----------------------------------------------------------------------------
(* updateStop *)

\* FOR UPDATE OF s: the stop is locked and read anew after a wait, the run's
\* status is what the statement's snapshot held.
StartStop(c, t, s, to) ==
    /\ tx[c].at = "idle"
    /\ stop[t][s] # "none"
    /\ tx' = [tx EXCEPT ![c] = [Idle EXCEPT !.at = "stop", !.run = t, !.item = s,
                                            !.to = to, !.saw = trip[t]]]
    /\ Ask(c, {StopRow(t, s)})
    /\ UNCHANGED <<rows, odd>>

StopClosed(c) == stop[tx[c].run][tx[c].item] \in Terminal

\* "Starting work on a run starts the run."
MarkStop(c) ==
    /\ At(c, "stop")
    /\ ~StopClosed(c)
    /\ Goto(c, "begin", IF tx[c].saw = "PLANNED" THEN {TripRow(tx[c].run)} ELSE {})
    /\ UNCHANGED <<rows, odd>>

StartsSecondRun(c) == tx[c].saw = "PLANNED" /\ Busy(tx[c].run, driver[tx[c].run])

\* A stop that is DONE moves its order.
BeginRun(c) ==
    /\ At(c, "begin")
    /\ ~StartsSecondRun(c)
    /\ Goto(c, "move", IF tx[c].to = "DONE" THEN {OrderRow(tx[c].item[1])} ELSE {})
    /\ UNCHANGED <<rows, odd>>

\* Mutant: a run is finished when every stop of it succeeded.
AllDone(c) ==
    tx[c].to = "DONE" /\ \A s \in Stops : stop[tx[c].run][s] \in {"none", "DONE"} \/ s = tx[c].item

\* openLeft: what other transactions have committed, and this one's own stop.
NoneLeft(c) == tx[c].to \in Terminal /\ OpenStops(tx[c].run) \subseteq {tx[c].item}

\* Another transaction has counted this run's open stops and not committed.
CountedElsewhere(c) ==
    \E d \in Clients \ {c} :
        tx[d].at = "close" /\ tx[d].run = tx[c].run /\ tx[d].to \in Terminal

CountOpen(c) ==
    /\ At(c, "move")
    /\ tx' = [tx EXCEPT ![c].at = "close", ![c].last = NoneLeft(c)]
    /\ Ask(c, IF NoneLeft(c) THEN {TripRow(tx[c].run)} ELSE {})
    /\ odd' = IF CountedElsewhere(c) THEN odd \union {tx[c].run} ELSE odd
    /\ UNCHANGED rows

CommitStop(c) ==
    LET t == tx[c].run
        s == tx[c].item
    IN  /\ At(c, "close")
        /\ tx[c].last \/ ~StartsSecondRun(c)
        /\ stop' = [stop EXCEPT ![t][s] = tx[c].to]
        /\ trip' = [trip EXCEPT ![t] = IF tx[c].last THEN "COMPLETED"
                                       ELSE IF tx[c].saw = "PLANNED" THEN "ACTIVE" ELSE @]
        /\ order' = [order EXCEPT ![s[1]] = IF tx[c].to = "DONE" THEN Completion[s[2]] ELSE @]
        /\ End(c)
        /\ UNCHANGED <<driver, assigned, odd>>

\* Finished already, or the index refuses a second ACTIVE run: ROLLBACK.
StopRefused(c) ==
    /\ \/ At(c, "stop") /\ StopClosed(c)
       \/ At(c, "begin") /\ StartsSecondRun(c)
       \/ At(c, "close") /\ ~tx[c].last /\ StartsSecondRun(c)
    /\ End(c)
    /\ UNCHANGED <<rows, odd>>

-----------------------------------------------------------------------------
(* updateTrip *)

StartEdit(c, t, to, d) ==
    /\ tx[c].at = "idle"
    /\ trip[t] # "none"
    /\ tx' = [tx EXCEPT ![c] = [Idle EXCEPT !.at = "run", !.run = t, !.to = to,
                                            !.driver = d]]
    /\ Ask(c, {TripRow(t)})
    /\ UNCHANGED <<rows, odd>>

NextDriver(c) == IF tx[c].driver = Same THEN driver[tx[c].run] ELSE tx[c].driver
NextStatus(c) == IF tx[c].to = Same THEN trip[tx[c].run] ELSE tx[c].to

EditRefusal(c) ==
    \/ trip[tx[c].run] = "COMPLETED"
    \/ NextStatus(c) = "ACTIVE" /\ Busy(tx[c].run, NextDriver(c))

TakeRun(c) ==
    /\ At(c, "run")
    /\ ~EditRefusal(c)
    /\ Goto(c, "skip", IF tx[c].to = "CANCELLED"
                       THEN {StopRow(tx[c].run, s) : s \in OpenStops(tx[c].run)} ELSE {})
    /\ UNCHANGED <<rows, odd>>

SkipStops(c) ==
    /\ At(c, "skip")
    /\ Goto(c, "hand", IF NextDriver(c) = Nobody THEN {}
                       ELSE {OrderRow(o) : o \in OrdersOn(tx[c].run)})
    /\ UNCHANGED <<rows, odd>>

\* The orders of a run go to its driver, whatever else they are on by now.
HandOver(os, d) ==
    IF d = Nobody THEN UNCHANGED <<order, assigned>>
    ELSE /\ assigned' = [o \in Orders |-> IF o \in os THEN d ELSE assigned[o]]
         /\ order' = [o \in Orders |-> IF o \in os /\ order[o] = "PENDING" THEN "ASSIGNED"
                                                                          ELSE order[o]]

CommitRun(c) ==
    LET t == tx[c].run
    IN  /\ At(c, "hand")
        /\ ~EditRefusal(c)
        /\ trip' = [trip EXCEPT ![t] = NextStatus(c)]
        /\ driver' = [driver EXCEPT ![t] = NextDriver(c)]
        /\ stop' = IF tx[c].to # "CANCELLED" THEN stop
                   ELSE [stop EXCEPT ![t] = [s \in Stops |-> IF s \in OpenStops(t) THEN "SKIPPED"
                                                                                  ELSE @[s]]]
        /\ HandOver(OrdersOn(t), NextDriver(c))
        /\ odd' = IF trip[t] = "CANCELLED" /\ NextStatus(c) # "CANCELLED"
                  THEN odd \union {t} ELSE odd
        /\ End(c)

EditRefused(c) ==
    /\ At(c, "run") \/ At(c, "hand")
    /\ EditRefusal(c)
    /\ End(c)
    /\ UNCHANGED <<rows, odd>>

-----------------------------------------------------------------------------
(* createTrip *)

Planning(c) == tx[c].at \in {"plan", "draft"}

StartPlan(c, t, os, d) ==
    /\ tx[c].at = "idle"
    /\ trip[t] = "none"
    /\ \A e \in Clients : Planning(e) => tx[e].run # t
    /\ os # {}
    /\ tx' = [tx EXCEPT ![c] = [Idle EXCEPT !.at = "plan", !.run = t, !.driver = d,
                                            !.orders = os]]
    /\ Ask(c, {OrderRow(o) : o \in os})
    /\ UNCHANGED <<rows, odd>>

\* A pickup is planned only while the cargo is not aboard.
Draft(c) == {s \in tx[c].orders \X Kinds : s[2] = "DROP" \/ order[s[1]] # "PICKED_UP"}

\* Open stops of the draft on other runs, which the index refuses.
Clashes(c) == {x \in (Trips \ {tx[c].run}) \X Draft(c) : stop[x[1]][x[2]] \in Open}

\* The INSERT waits for a transaction that is changing such a stop.
TakeOrders(c) ==
    /\ At(c, "plan")
    /\ \A o \in tx[c].orders : order[o] \in Plannable
    /\ Goto(c, "draft", {StopRow(x[1], x[2]) : x \in Clashes(c)})
    /\ UNCHANGED <<rows, odd>>

CommitPlan(c) ==
    LET t == tx[c].run
    IN  /\ At(c, "draft")
        /\ Clashes(c) = {}
        /\ trip' = [trip EXCEPT ![t] = "PLANNED"]
        /\ driver' = [driver EXCEPT ![t] = tx[c].driver]
        /\ stop' = [stop EXCEPT ![t] = [s \in Stops |-> IF s \in Draft(c) THEN "PENDING"
                                                                         ELSE "none"]]
        /\ HandOver(tx[c].orders, tx[c].driver)
        /\ End(c)
        /\ UNCHANGED odd

\* Nobody is changing the clashing stop, or the change left it open.
Clash(c) ==
    \E x \in Clashes(c) :
        \A d \in Clients \ {c} : StopRow(x[1], x[2]) \in held[d] => tx[d].at = "stop"

PlanRefused(c) ==
    /\ \/ At(c, "plan") /\ \E o \in tx[c].orders : order[o] \notin Plannable
       \/ tx[c].at = "draft" /\ Clash(c)
    /\ End(c)
    /\ UNCHANGED <<rows, odd>>

-----------------------------------------------------------------------------
(* The database *)

Lock(c, r) == Acquire(c, r) /\ UNCHANGED <<rows, tx, left, odd>>

\* The deadlock detector fails a statement, and the catch rolls back.
DeadlockFound(c) == Deadlocked(c) /\ End(c) /\ UNCHANGED <<rows, odd>>

Start(c) ==
    /\ left > 0
    /\ left' = left - 1
    /\ \E t \in Trips :
        \/ \E s \in Stops, to \in Moves : StartStop(c, t, s, to)
        \/ \E e \in Edits : StartEdit(c, t, e[1], e[2])
        \/ \E os \in SUBSET Orders, d \in Drivers \union {Nobody} : StartPlan(c, t, os, d)

Step(c) ==
    /\ \/ MarkStop(c) \/ BeginRun(c) \/ CountOpen(c) \/ CommitStop(c) \/ StopRefused(c)
       \/ TakeRun(c) \/ SkipStops(c) \/ CommitRun(c) \/ EditRefused(c)
       \/ TakeOrders(c) \/ CommitPlan(c) \/ PlanRefused(c)
       \/ DeadlockFound(c)
    /\ UNCHANGED left

Next == \E c \in Clients :
    \/ Start(c)
    \/ Step(c)
    \/ \E r \in need[c] : Lock(c, r)

\* A statement that can run is run; PostgreSQL queues those that wait for a row.
Fairness ==
    \A c \in Clients : SF_vars(Step(c)) /\ SF_vars(\E r \in need[c] : Lock(c, r))

Spec == Init /\ [][Next]_vars /\ Fairness

-----------------------------------------------------------------------------
(* Properties *)

\* updateStop closes the run with its last stop and updateTrip skips what is
\* open when it cancels: a driver has no open stop on a run that is over.
ClosedRunsAreEmpty ==
    \A t \in Trips : trip[t] \in {"COMPLETED", "CANCELLED"} => OpenStops(t) = {}

\* tripController.js:675: "a driver should not have to close it by hand, and a
\* run left ACTIVE blocks their next one".
ActiveRunHasWork == \A t \in Trips : trip[t] = "ACTIVE" => OpenStops(t) # {}

\* ... which two closings that count together, and a cancelled run that is
\* started again, break, and nothing else does.
StuckOnlyWhenOdd ==
    \A t \in Trips : trip[t] \in {"PLANNED", "ACTIVE"} /\ OpenStops(t) = {} => t \in odd

\* tripController.js:678: a run's status and its stops agree, the two known
\* ways out apart, whatever two requests do to the run at a time.
RunsMatchTheirStops == ClosedRunsAreEmpty /\ StuckOnlyWhenOdd

\* tripController.js:236: "Assigning the run assigns its orders, so the
\* existing queue and the driver's own job list agree with it".
OneOwner ==
    \A t \in Trips : \A s \in OpenStops(t) :
        trip[t] \in {"PLANNED", "ACTIVE"} /\ driver[t] # Nobody => assigned[s[1]] = driver[t]

\* updateStop locks the stop before the run, updateTrip the run before the
\* stops, createTrip the orders before the stops: the circles end in a failed
\* statement, and every request answers.
RequestsEnd == \A c \in Clients : tx[c].at # "idle" ~> tx[c].at = "idle"
=============================================================================
