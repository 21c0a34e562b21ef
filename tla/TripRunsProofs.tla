--------------------------- MODULE TripRunsProofs ---------------------------
(* That a run and its stops agree, for any number of requests, orders, runs *)
(* and drivers, whatever the transactions do between each other's           *)
(* statements: the row locks of RowLocks are what the argument rests on.    *)
EXTENDS TripRuns, FiniteSetTheorems, TLAPS

USE DEF vars, rows, locks

-----------------------------------------------------------------------------
(* The invariant *)

TripStatuses == {"none", "PLANNED", "ACTIVE", "COMPLETED", "CANCELLED"}
Asks == {Same, "PLANNED", "ACTIVE", "CANCELLED"}
Rows == {TripRow(t) : t \in Trips} \union {StopRow(t, s) : t \in Trips, s \in Stops}
            \union {OrderRow(o) : o \in Orders}

Records == [at : Places, run : Trips \union {"none"}, item : Stops \union {"none"},
            to : Moves \union Asks \union {"none"}, driver : Drivers \union {Nobody, Same},
            orders : SUBSET Orders, saw : TripStatuses, last : BOOLEAN]

ShapeInv ==
    /\ trip \in [Trips -> TripStatuses]
    /\ stop \in [Trips -> [Stops -> {"none"} \union Open \union Terminal]]
    /\ tx \in [Clients -> Records]
    /\ held \in [Clients -> SUBSET Rows]
    /\ need \in [Clients -> SUBSET Rows]
    /\ odd \subseteq Trips

\* A row is locked by one transaction at a time.
Mutex == \A c, d \in Clients : c # d => held[c] \intersect held[d] = {}

\* A run that is not planned has no stops.
NoneInv == \A t \in Trips, s \in Stops : trip[t] = "none" => stop[t][s] = "none"

Closing == {"begin", "move", "close"}
Editing == {"run", "skip", "hand"}

\* What a transaction r that holds h and waits for n may rely on: the stop it closes
\* is open and locked, the open stops of a run it cancels are locked, what it
\* counted is still so.
Good(r, h, n) ==
    /\ r.at = "idle" => h = {} /\ n = {}
    /\ r.at \in Closing \union {"stop"} =>
           r.run \in Trips /\ r.item \in Stops /\ r.to \in Moves /\ stop[r.run][r.item] # "none"
    /\ r.at \in Editing => r.run \in Trips /\ trip[r.run] # "none" /\ r.to \in Asks
    /\ r.at \in {"plan", "draft"} => r.run \in Trips /\ trip[r.run] = "none" /\ r.orders # {}
    /\ r.at = "stop" => StopRow(r.run, r.item) \in h \union n
    /\ r.at \in Closing => StopRow(r.run, r.item) \in h /\ r.item \in OpenStops(r.run)
    /\ r.at = "skip" /\ r.to = "CANCELLED" =>
           \A s \in OpenStops(r.run) : StopRow(r.run, s) \in h \union n
    /\ r.at = "hand" /\ r.to = "CANCELLED" => \A s \in OpenStops(r.run) : StopRow(r.run, s) \in h
    /\ r.at = "close" /\ r.last => r.to \in Terminal /\ OpenStops(r.run) \subseteq {r.item}
    /\ r.at = "close" /\ ~r.last /\ r.to \in Terminal /\ r.run \notin odd =>
           \E s \in OpenStops(r.run) : s # r.item

\* Two transactions never plan one run, and two that count one together leave a mark.
Apart(r, q, marks) ==
    /\ r.at \in {"plan", "draft"} /\ q.at \in {"plan", "draft"} => r.run # q.run
    /\ r.at = "close" /\ q.at = "close" /\ r.to \in Terminal /\ q.to \in Terminal
           /\ r.run = q.run => r.run \in marks

TxInv == \A c \in Clients : Good(tx[c], held[c], need[c])
PairInv == \A c, d \in Clients : c # d => Apart(tx[c], tx[d], odd)

IInv == ShapeInv /\ Mutex /\ NoneInv /\ TxInv /\ PairInv /\ RunsMatchTheirStops

-----------------------------------------------------------------------------
(* Lemmas *)

\* A transaction at rest, and the rows a statement may ask for.
LEMMA RestTypes ==
    /\ Idle \in Records /\ Idle.at = "idle"
    /\ \A t \in Trips : TripRow(t) \in Rows /\ \A s \in Stops : StopRow(t, s) \in Rows
    /\ \A o \in Orders : OrderRow(o) \in Rows
<1>1. Idle \in Records /\ Idle.at = "idle"
  BY DEF Idle, Records, Places, TripStatuses
<1> QED BY <1>1 DEF Rows

\* Rows of different stops are different rows.
LEMMA RowsDiffer ==
    \A t, u, s, x : StopRow(t, s) = StopRow(u, x) => t = u /\ s = x
BY DEF StopRow

\* A statement that was granted takes its rows from nobody.
LEMMA GrantTakes ==
    ASSUME ShapeInv, Mutex, NEW c \in Clients, Granted(c)
    PROVE  /\ held[c] \union need[c] \in SUBSET Rows
           /\ \A d \in Clients \ {c} : (held[c] \union need[c]) \intersect held[d] = {}
BY DEF ShapeInv, Mutex, Granted, HeldByOther

\* One transaction goes on, and no row of a run or of a stop changes.
LEMMA OneMoves ==
    ASSUME IInv, NEW c \in Clients, NEW r \in Records,
           NEW h \in SUBSET Rows, NEW n \in SUBSET Rows,
           tx' = [tx EXCEPT ![c] = r], held' = [held EXCEPT ![c] = h], need' = [need EXCEPT ![c] = n],
           UNCHANGED <<trip, stop>>, odd \subseteq odd', odd' \subseteq Trips,
           \A d \in Clients \ {c} : h \intersect held[d] = {},
           Good(r, h, n),
           \A d \in Clients \ {c} : Apart(r, tx[d], odd')
    PROVE  IInv'
<1>1. \A d \in Clients : /\ tx'[d] = IF d = c THEN r ELSE tx[d]
                         /\ held'[d] = IF d = c THEN h ELSE held[d]
                         /\ need'[d] = IF d = c THEN n ELSE need[d]
  BY DEF IInv, ShapeInv
<1>2. ShapeInv'
  BY DEF IInv, ShapeInv
<1>3. Mutex'
  BY <1>1 DEF IInv, Mutex
<1>4. NoneInv' /\ RunsMatchTheirStops'
  BY DEF IInv, NoneInv, RunsMatchTheirStops, ClosedRunsAreEmpty, StuckOnlyWhenOdd, OpenStops
<1>5. TxInv'
  <2> SUFFICES ASSUME NEW d \in Clients PROVE Good(tx[d], held[d], need[d])'
    BY DEF TxInv
  <2>1. CASE d = c
    BY <1>1, <2>1 DEF Good, OpenStops
  <2>2. CASE d # c
    <3>1. Good(tx[d], held[d], need[d])
      BY DEF IInv, TxInv
    <3> QED BY <1>1, <2>2, <3>1 DEF Good, OpenStops
  <2> QED BY <2>1, <2>2
<1>6. PairInv'
  <2> SUFFICES ASSUME NEW d \in Clients, NEW e \in Clients, d # e PROVE Apart(tx'[d], tx'[e], odd')
    BY DEF PairInv, Apart
  <2>1. CASE d = c
    BY <1>1, <2>1
  <2>2. CASE e = c
    BY <1>1, <2>2 DEF Apart
  <2>3. CASE d # c /\ e # c
    BY <1>1, <2>3 DEF IInv, PairInv, Apart
  <2> QED BY <2>1, <2>2, <2>3
<1> QED BY <1>2, <1>3, <1>4, <1>5, <1>6 DEF IInv

\* A request is answered without changing anything: all locks are freed.
LEMMA EndSafe ==
    ASSUME IInv, NEW c \in Clients, End(c), UNCHANGED <<trip, stop, odd>>
    PROVE  IInv'
<1>1. tx' = [tx EXCEPT ![c] = Idle] /\ held' = [held EXCEPT ![c] = {}] /\ need' = [need EXCEPT ![c] = {}]
  BY DEF End, Release
<1>2. Idle \in Records /\ Idle.at = "idle"
  BY RestTypes
<1>3. Good(Idle, {}, {}) /\ \A q : Apart(Idle, q, odd)
  BY <1>2 DEF Good, Apart, Closing, Editing
<1>4. odd \subseteq Trips
  BY DEF IInv, ShapeInv
<1> QED BY <1>1, <1>2, <1>3, <1>4, OneMoves

\* A statement that was granted runs, and the next one asks for its rows.
LEMMA AskSafe ==
    ASSUME IInv, NEW c \in Clients, NEW r \in Records, NEW wanted \in SUBSET Rows,
           Granted(c), tx' = [tx EXCEPT ![c] = r], Ask(c, wanted),
           UNCHANGED <<trip, stop>>, odd \subseteq odd', odd' \subseteq Trips,
           \A h, n : h = held[c] \union need[c] /\ wanted \subseteq h \union n => Good(r, h, n),
           \A d \in Clients \ {c} : Apart(r, tx[d], odd')
    PROVE  IInv'
<1> DEFINE h == held[c] \union need[c]
           n == wanted \ h
<1>1. h \in SUBSET Rows /\ n \in SUBSET Rows /\ \A d \in Clients \ {c} : h \intersect held[d] = {}
  BY GrantTakes DEF IInv
<1>2. held' = [held EXCEPT ![c] = h] /\ need' = [need EXCEPT ![c] = n]
  BY DEF Ask
<1>3. wanted \subseteq h \union n
  OBVIOUS
<1>4. Good(r, h, n)
  BY <1>3
<1> HIDE DEF h, n
<1> QED BY <1>1, <1>2, <1>4, OneMoves

\* A statement waiting for several rows locks one more that is free.
LEMMA LockSafe ==
    ASSUME IInv, NEW c \in Clients, NEW x \in need[c], Lock(c, x)
    PROVE  IInv'
<1> DEFINE h == held[c] \union {x}
           n == need[c] \ {x}
<1>1. tx[c] \in Records /\ h \in SUBSET Rows /\ n \in SUBSET Rows /\ odd \subseteq Trips
  BY DEF IInv, ShapeInv
<1>2. /\ tx' = [tx EXCEPT ![c] = tx[c]] /\ held' = [held EXCEPT ![c] = h]
      /\ need' = [need EXCEPT ![c] = n] /\ UNCHANGED <<trip, stop, odd>>
  BY DEF Lock, Acquire, IInv, ShapeInv
<1>3. \A d \in Clients \ {c} : h \intersect held[d] = {}
  BY DEF Lock, Acquire, HeldByOther, IInv, Mutex
<1>4. Good(tx[c], h, n)
  <2>1. Good(tx[c], held[c], need[c])
    BY DEF IInv, TxInv
  <2> QED BY <2>1 DEF Good
<1>5. \A d \in Clients \ {c} : Apart(tx[c], tx[d], odd')
  BY <1>2 DEF IInv, PairInv
<1> HIDE DEF h, n
<1> QED BY <1>1, <1>2, <1>3, <1>4, <1>5, OneMoves

-----------------------------------------------------------------------------
(* What requests read, and the statements before the last *)

\* A request arrives on a connection that holds nothing.
LEMMA StartSafe ==
    ASSUME IInv, NEW c \in Clients, tx[c].at = "idle", NEW r \in Records, NEW wanted \in SUBSET Rows,
           tx' = [tx EXCEPT ![c] = r], Ask(c, wanted), UNCHANGED <<trip, stop, odd>>,
           \A h, n : wanted \subseteq h \union n => Good(r, h, n),
           \A d \in Clients \ {c} : Apart(r, tx[d], odd)
    PROVE  IInv'
<1>1. need[c] = {} /\ odd \subseteq Trips
  BY DEF IInv, TxInv, Good, ShapeInv
<1>2. Granted(c)
  BY <1>1, FS_EmptySet DEF Granted
<1>3. \A h, n : h = held[c] \union need[c] /\ wanted \subseteq h \union n => Good(r, h, n)
  OBVIOUS
<1> QED BY <1>1, <1>2, <1>3, AskSafe

\* updateStop, updateTrip and createTrip begin.
LEMMA StartsSafe == ASSUME IInv, NEW c \in Clients, Start(c) PROVE IInv'
<1>1. Idle \in Records
  BY RestTypes
<1>2. ASSUME NEW t \in Trips, NEW s \in Stops, NEW to \in Moves, StartStop(c, t, s, to) PROVE IInv'
  <2> DEFINE r == [Idle EXCEPT !.at = "stop", !.run = t, !.item = s, !.to = to, !.saw = trip[t]]
  <2>1. /\ r \in Records /\ r.at = "stop" /\ r.run = t /\ r.item = s /\ r.to = to
    BY <1>1 DEF Records, Places, IInv, ShapeInv, Idle
  <2>2. {StopRow(t, s)} \in SUBSET Rows
    BY RestTypes
  <2>3. /\ tx' = [tx EXCEPT ![c] = r] /\ tx[c].at = "idle" /\ Ask(c, {StopRow(t, s)})
        /\ UNCHANGED <<trip, stop, odd>> /\ stop[t][s] # "none"
    BY <1>2 DEF StartStop
  <2> HIDE DEF r
  <2>4. \A h, n : {StopRow(t, s)} \subseteq h \union n => Good(r, h, n)
    BY <2>1, <2>3 DEF Good, Closing, Editing
  <2>5. \A q : Apart(r, q, odd)
    BY <2>1 DEF Apart
  <2> QED BY <2>1, <2>2, <2>3, <2>4, <2>5, StartSafe
<1>3. ASSUME NEW t \in Trips, NEW e \in Edits, StartEdit(c, t, e[1], e[2]) PROVE IInv'
  <2> DEFINE r == [Idle EXCEPT !.at = "run", !.run = t, !.to = e[1], !.driver = e[2]]
  <2>1. e[1] \in Asks /\ e[2] \in Drivers \union {Nobody, Same}
    BY RequestsAssumption DEF EditsAssumption, Asks
  <2>2. r \in Records /\ r.at = "run" /\ r.run = t /\ r.to = e[1]
    BY <1>1, <2>1 DEF Records, Places, Idle
  <2>3. {TripRow(t)} \in SUBSET Rows
    BY RestTypes
  <2>4. /\ tx' = [tx EXCEPT ![c] = r] /\ tx[c].at = "idle" /\ Ask(c, {TripRow(t)})
        /\ UNCHANGED <<trip, stop, odd>> /\ trip[t] # "none"
    BY <1>3 DEF StartEdit
  <2> HIDE DEF r
  <2>5. \A h, n : Good(r, h, n)
    BY <2>1, <2>2, <2>4 DEF Good, Closing, Editing
  <2>6. \A q : Apart(r, q, odd)
    BY <2>2 DEF Apart
  <2> QED BY <2>2, <2>3, <2>4, <2>5, <2>6, StartSafe
<1>4. ASSUME NEW t \in Trips, NEW os \in SUBSET Orders, NEW d \in Drivers \union {Nobody},
             StartPlan(c, t, os, d)
      PROVE  IInv'
  <2> DEFINE r == [Idle EXCEPT !.at = "plan", !.run = t, !.driver = d, !.orders = os]
             wanted == {OrderRow(o) : o \in os}
  <2>1. r \in Records /\ r.at = "plan" /\ r.run = t /\ r.orders = os
    BY <1>1 DEF Records, Places, Idle
  <2>2. wanted \in SUBSET Rows
    BY RestTypes
  <2>3. /\ tx' = [tx EXCEPT ![c] = r] /\ tx[c].at = "idle" /\ Ask(c, wanted)
        /\ UNCHANGED <<trip, stop, odd>> /\ trip[t] = "none" /\ os # {}
        /\ \A e \in Clients : tx[e].at \in {"plan", "draft"} => tx[e].run # t
    BY <1>4 DEF StartPlan, Planning
  <2> HIDE DEF r, wanted
  <2>4. \A h, n : Good(r, h, n)
    BY <2>1, <2>3 DEF Good, Closing, Editing
  <2>5. \A e \in Clients \ {c} : Apart(r, tx[e], odd)
    BY <2>1, <2>3 DEF Apart
  <2> QED BY <2>1, <2>2, <2>3, <2>4, <2>5, StartSafe
<1> QED BY <1>2, <1>3, <1>4 DEF Start

\* updateStop: the stop is open and locked from its UPDATE to the COMMIT.
LEMMA StopMoves ==
    ASSUME IInv, NEW c \in Clients, MarkStop(c) \/ BeginRun(c)
    PROVE  IInv'
<1> DEFINE place == IF MarkStop(c) THEN "begin" ELSE "move"
           r == [tx[c] EXCEPT !.at = place]
<1>1. tx[c] \in Records /\ Good(tx[c], held[c], need[c]) /\ odd \subseteq Trips
  BY DEF IInv, ShapeInv, TxInv
<1>2. tx[c].at \in {"stop", "begin"} /\ Granted(c)
  BY DEF MarkStop, BeginRun, At
<1>3. /\ tx[c].run \in Trips /\ tx[c].item \in Stops /\ tx[c].to \in Moves
      /\ stop[tx[c].run][tx[c].item] # "none" /\ StopRow(tx[c].run, tx[c].item) \in held[c] \union need[c]
  BY <1>1, <1>2 DEF Good, Closing
<1>4. tx[c].item \in OpenStops(tx[c].run)
  <2>1. CASE MarkStop(c)
    BY <1>3, <2>1 DEF MarkStop, StopClosed, OpenStops, IInv, ShapeInv
  <2>2. CASE BeginRun(c)
    BY <1>1, <2>2 DEF BeginRun, At, Good, Closing
  <2> QED BY <2>1, <2>2
<1>5. PICK wanted \in SUBSET Rows : tx' = [tx EXCEPT ![c] = r] /\ Ask(c, wanted)
  <2>1. CASE MarkStop(c)
    <3>1. {} \in SUBSET Rows /\ {TripRow(tx[c].run)} \in SUBSET Rows
      BY <1>3, RestTypes
    <3>2. tx' = [tx EXCEPT ![c] = r]
      BY <2>1 DEF MarkStop, Goto
    <3> QED BY <2>1, <3>1, <3>2 DEF MarkStop, Goto
  <2>2. CASE ~MarkStop(c) /\ BeginRun(c)
    <3>1. {} \in SUBSET Rows /\ {OrderRow(tx[c].item[1])} \in SUBSET Rows
      BY <1>3, RestTypes DEF Stops
    <3>2. tx' = [tx EXCEPT ![c] = r]
      BY <2>2 DEF BeginRun, Goto
    <3> QED BY <2>2, <3>1, <3>2 DEF BeginRun, Goto
  <2> QED BY <2>1, <2>2
<1>6. UNCHANGED <<trip, stop, odd>>
  BY DEF MarkStop, BeginRun
<1>7. /\ r \in Records /\ r.at \in {"begin", "move"} /\ r.run = tx[c].run
      /\ r.item = tx[c].item /\ r.to = tx[c].to
  BY <1>1 DEF Records, Places
<1> HIDE DEF r
<1>8. \A h, n : h = held[c] \union need[c] => Good(r, h, n)
  BY <1>3, <1>4, <1>7 DEF Good, Closing, Editing
<1>9. \A q : Apart(r, q, odd')
  BY <1>7 DEF Apart
<1> QED BY <1>1, <1>2, <1>5, <1>6, <1>7, <1>8, <1>9, AskSafe

\* openLeft: what is counted stays so while the stop is locked, and whoever counts
\* beside another leaves a mark.
LEMMA CountSafe == ASSUME IInv, NEW c \in Clients, CountOpen(c) PROVE IInv'
<1> DEFINE r == [tx[c] EXCEPT !.at = "close", !.last = NoneLeft(c)]
           t == tx[c].run
<1>1. tx[c] \in Records /\ Good(tx[c], held[c], need[c]) /\ odd \subseteq Trips
  BY DEF IInv, ShapeInv, TxInv
<1>2. tx[c].at = "move" /\ Granted(c) /\ UNCHANGED <<trip, stop>>
  BY DEF CountOpen, At
<1>3. /\ t \in Trips /\ tx[c].item \in Stops /\ tx[c].to \in Moves /\ stop[t][tx[c].item] # "none"
      /\ StopRow(t, tx[c].item) \in held[c] \union need[c] /\ tx[c].item \in OpenStops(t)
  BY <1>1, <1>2 DEF Good, Closing
<1>4. PICK wanted \in SUBSET Rows : Ask(c, wanted)
  <2>1. {} \in SUBSET Rows /\ {TripRow(t)} \in SUBSET Rows
    BY <1>3, RestTypes
  <2> QED BY <2>1 DEF CountOpen
<1>5. tx' = [tx EXCEPT ![c] = r]
  BY DEF CountOpen
<1>6. odd \subseteq odd' /\ odd' \subseteq Trips /\ (CountedElsewhere(c) => t \in odd')
  BY <1>1, <1>3 DEF CountOpen
<1>7. NoneLeft(c) \in BOOLEAN
  BY DEF NoneLeft
<1>8. /\ r \in Records /\ r.at = "close" /\ r.run = t /\ r.item = tx[c].item /\ r.to = tx[c].to
      /\ r.last = NoneLeft(c)
  <2> HIDE DEF t
  <2>1. PICK b \in BOOLEAN : b = NoneLeft(c)
    BY <1>7
  <2> QED BY <1>1, <2>1 DEF Records, Places, t
<1> HIDE DEF r
<1>9. /\ NoneLeft(c) => tx[c].to \in Terminal /\ OpenStops(t) \subseteq {tx[c].item}
      /\ ~NoneLeft(c) /\ tx[c].to \in Terminal => \E s \in OpenStops(t) : s # tx[c].item
  BY DEF NoneLeft
<1>10. \A h, n : h = held[c] \union need[c] => Good(r, h, n)
  BY <1>3, <1>8, <1>9 DEF Good, Closing, Editing
<1>11. \A d \in Clients \ {c} : Apart(r, tx[d], odd')
  BY <1>6, <1>8 DEF Apart, CountedElsewhere
<1> QED BY <1>2, <1>4, <1>5, <1>6, <1>8, <1>10, <1>11, AskSafe

\* updateTrip: a run that is cancelled has its open stops locked one by one.
LEMMA EditMoves ==
    ASSUME IInv, NEW c \in Clients, TakeRun(c) \/ SkipStops(c)
    PROVE  IInv'
<1> DEFINE place == IF TakeRun(c) THEN "skip" ELSE "hand"
           r == [tx[c] EXCEPT !.at = place]
           t == tx[c].run
           stops == {StopRow(t, s) : s \in OpenStops(t)}
<1>1. tx[c] \in Records /\ Good(tx[c], held[c], need[c]) /\ odd \subseteq Trips
  BY DEF IInv, ShapeInv, TxInv
<1>2. /\ tx[c].at \in {"run", "skip"} /\ Granted(c) /\ UNCHANGED <<trip, stop, odd>>
      /\ TakeRun(c) <=> tx[c].at = "run"
  BY DEF TakeRun, SkipStops, At
<1>3. t \in Trips /\ trip[t] # "none" /\ tx[c].to \in Asks
  BY <1>1, <1>2 DEF Good, Editing
<1>4. PICK wanted \in SUBSET Rows :
          /\ tx' = [tx EXCEPT ![c] = r] /\ Ask(c, wanted)
          /\ TakeRun(c) /\ tx[c].to = "CANCELLED" => stops \subseteq wanted
  <2>1. CASE TakeRun(c)
    <3>1. {} \in SUBSET Rows /\ stops \in SUBSET Rows
      BY <1>3, RestTypes DEF OpenStops
    <3>2. tx' = [tx EXCEPT ![c] = r]
      BY <2>1 DEF TakeRun, Goto
    <3>3. Ask(c, IF tx[c].to = "CANCELLED" THEN stops ELSE {})
      BY <2>1 DEF TakeRun, Goto
    <3> HIDE DEF r, stops
    <3> QED BY <3>1, <3>2, <3>3
  <2>2. CASE ~TakeRun(c) /\ SkipStops(c)
    <3> DEFINE orders == {OrderRow(o) : o \in OrdersOn(t)}
    <3>1. {} \in SUBSET Rows /\ orders \in SUBSET Rows
      BY RestTypes DEF OrdersOn
    <3>2. tx' = [tx EXCEPT ![c] = r]
      BY <2>2 DEF SkipStops, Goto
    <3>3. Ask(c, IF NextDriver(c) = Nobody THEN {} ELSE orders)
      BY <2>2 DEF SkipStops, Goto
    <3> HIDE DEF r, orders
    <3> QED BY <2>2, <3>1, <3>2, <3>3
  <2> QED BY <2>1, <2>2
<1>5. /\ r \in Records /\ r.at = place /\ r.run = t /\ r.to = tx[c].to
  BY <1>1 DEF Records, Places
<1> HIDE DEF r
<1>6. SkipStops(c) /\ tx[c].at = "skip" /\ tx[c].to = "CANCELLED" =>
          \A s \in OpenStops(t) : StopRow(t, s) \in held[c] \union need[c]
  BY <1>1 DEF Good
<1>7. \A h, n : h = held[c] \union need[c] /\ wanted \subseteq h \union n => Good(r, h, n)
  BY <1>2, <1>3, <1>4, <1>5, <1>6 DEF Good, Closing, Editing
<1>8. \A q : Apart(r, q, odd')
  BY <1>5 DEF Apart
<1> QED BY <1>1, <1>2, <1>4, <1>5, <1>7, <1>8, AskSafe

\* createTrip: the orders are locked, and then the stops it would clash with.
LEMMA PlanMoves == ASSUME IInv, NEW c \in Clients, TakeOrders(c) PROVE IInv'
<1> DEFINE r == [tx[c] EXCEPT !.at = "draft"]
           wanted == {StopRow(x[1], x[2]) : x \in Clashes(c)}
<1>1. tx[c] \in Records /\ Good(tx[c], held[c], need[c]) /\ odd \subseteq Trips
  BY DEF IInv, ShapeInv, TxInv
<1>2. tx[c].at = "plan" /\ Granted(c) /\ UNCHANGED <<trip, stop, odd>>
  BY DEF TakeOrders, At
<1>3. tx[c].run \in Trips /\ trip[tx[c].run] = "none" /\ tx[c].orders # {} /\ tx[c].orders \subseteq Orders
  BY <1>1, <1>2 DEF Good, Records
<1>4. wanted \in SUBSET Rows
  BY <1>3, RestTypes DEF Clashes, Draft, Stops
<1>5. tx' = [tx EXCEPT ![c] = r] /\ Ask(c, wanted)
  BY DEF TakeOrders, Goto
<1>6. r \in Records /\ r.at = "draft" /\ r.run = tx[c].run /\ r.orders = tx[c].orders
  BY <1>1 DEF Records, Places
<1> HIDE DEF r, wanted
<1>7. \A h, n : Good(r, h, n)
  BY <1>3, <1>6 DEF Good, Closing, Editing
<1>8. \A d \in Clients \ {c} : Apart(r, tx[d], odd')
  BY <1>2, <1>6 DEF Apart, IInv, PairInv
<1> QED BY <1>1, <1>2, <1>4, <1>5, <1>6, <1>7, <1>8, AskSafe

-----------------------------------------------------------------------------
(* The commits *)

\* A transaction that ends leaves the others theirs, and what they rely on is what
\* there is to show.
LEMMA EndsOne ==
    ASSUME IInv, NEW c \in Clients, End(c)
    PROVE  /\ \A d \in Clients \ {c} : tx'[d] = tx[d] /\ held'[d] = held[d] /\ need'[d] = need[d]
           /\ tx'[c].at = "idle" /\ held'[c] = {} /\ need'[c] = {}
           /\ tx' \in [Clients -> Records] /\ held' \in [Clients -> SUBSET Rows]
           /\ need' \in [Clients -> SUBSET Rows]
           /\ Mutex'
           /\ odd \subseteq odd' => PairInv'
           /\ (\A d \in Clients \ {c} : Good(tx[d], held[d], need[d])') => TxInv'
<1>1. Idle \in Records /\ Idle.at = "idle"
  BY RestTypes
<1>2. tx' = [tx EXCEPT ![c] = Idle] /\ held' = [held EXCEPT ![c] = {}] /\ need' = [need EXCEPT ![c] = {}]
  BY DEF End, Release
<1>3. /\ \A d \in Clients \ {c} : tx'[d] = tx[d] /\ held'[d] = held[d] /\ need'[d] = need[d]
      /\ tx'[c].at = "idle" /\ held'[c] = {} /\ need'[c] = {}
      /\ tx' \in [Clients -> Records] /\ held' \in [Clients -> SUBSET Rows]
      /\ need' \in [Clients -> SUBSET Rows]
  BY <1>1, <1>2 DEF IInv, ShapeInv
<1>4. Mutex'
  BY <1>3 DEF IInv, Mutex
<1>5. odd \subseteq odd' => PairInv'
  BY <1>3 DEF IInv, PairInv, Apart
<1>6. Good(tx[c], held[c], need[c])'
  BY <1>3 DEF Good, Closing, Editing
<1> QED BY <1>3, <1>4, <1>5, <1>6 DEF TxInv

\* updateStop commits: a run is closed with its last open stop, and one that is left
\* without any is marked.
LEMMA CommitStopSafe == ASSUME IInv, NEW c \in Clients, CommitStop(c) PROVE IInv'
<1>0. PICK t, s, to : t = tx[c].run /\ s = tx[c].item /\ to = tx[c].to
  OBVIOUS
<1>1. Good(tx[c], held[c], need[c]) /\ tx[c].at = "close" /\ tx[c] \in Records
  BY <1>0 DEF IInv, TxInv, ShapeInv, CommitStop, At
<1>2. /\ t \in Trips /\ s \in Stops /\ to \in {"ARRIVED", "DONE", "FAILED", "SKIPPED"}
      /\ StopRow(t, s) \in held[c] /\ s \in OpenStops(t)
  BY <1>0, <1>1, RequestsAssumption DEF Good, Closing, MovesAssumption
<1>3. /\ tx[c].last => to \in Terminal /\ OpenStops(t) \subseteq {s}
      /\ ~tx[c].last /\ to \in Terminal /\ t \notin odd => \E x \in OpenStops(t) : x # s
  BY <1>0, <1>1 DEF Good
<1>4. trip[t] \in {"PLANNED", "ACTIVE"}
  BY <1>2 DEF IInv, NoneInv, RunsMatchTheirStops, ClosedRunsAreEmpty, ShapeInv, TripStatuses,
              OpenStops, Open
<1>5. UNCHANGED odd /\ End(c)
  BY <1>0 DEF CommitStop
<1>6. \A u \in Trips, x \in Stops : stop'[u][x] = IF u = t /\ x = s THEN to ELSE stop[u][x]
  BY <1>0, <1>2 DEF CommitStop, IInv, ShapeInv
<1>7. /\ \A u \in Trips : u # t => trip'[u] = trip[u]
      /\ trip'[t] \in {"PLANNED", "ACTIVE", "COMPLETED"}
      /\ trip'[t] = "COMPLETED" => tx[c].last
      /\ tx[c].last => trip'[t] = "COMPLETED"
  BY <1>0, <1>2, <1>4 DEF CommitStop, IInv, ShapeInv
<1>8. /\ \A u \in Trips : u # t => OpenStops(u)' = OpenStops(u)
      /\ OpenStops(t)' = IF to \in Terminal THEN OpenStops(t) \ {s} ELSE OpenStops(t)
      /\ \A u \in Trips : OpenStops(u)' \subseteq OpenStops(u)
  BY <1>2, <1>6 DEF OpenStops, Open, Terminal
<1>9. trip' \in [Trips -> TripStatuses] /\ stop' \in [Trips -> [Stops -> {"none"} \union Open \union Terminal]]
  BY <1>0, <1>2 DEF CommitStop, IInv, ShapeInv, TripStatuses, Open, Terminal
<1>10. ShapeInv'
  BY <1>5, <1>9, EndsOne DEF IInv, ShapeInv
<1>11. NoneInv'
  BY <1>0, <1>2, <1>6, <1>7 DEF IInv, NoneInv
<1>12. ClosedRunsAreEmpty'
  BY <1>3, <1>7, <1>8 DEF IInv, RunsMatchTheirStops, ClosedRunsAreEmpty
<1>13. StuckOnlyWhenOdd'
  BY <1>2, <1>3, <1>5, <1>7, <1>8 DEF IInv, RunsMatchTheirStops, StuckOnlyWhenOdd, Terminal
<1>14. TxInv'
  <2> SUFFICES ASSUME NEW d \in Clients, d # c PROVE Good(tx[d], held[d], need[d])'
    BY <1>5, EndsOne
  <2>0. PICK e : e = tx[d].run
    OBVIOUS
  <2>1. tx'[d] = tx[d] /\ held'[d] = held[d] /\ need'[d] = need[d]
    BY <1>5, EndsOne
  <2>2. Good(tx[d], held[d], need[d]) /\ held[d] \intersect held[c] = {} /\ Apart(tx[c], tx[d], odd)
    BY DEF IInv, TxInv, Mutex, PairInv
  <2>3. tx[d].at \in Closing => e \in Trips /\ ~(e = t /\ tx[d].item = s)
    BY <2>0, <1>2, <2>2 DEF Good
  <2>4. tx[d].at = "close" /\ tx[d].to \in Terminal /\ e \notin odd =>
            OpenStops(e)' = OpenStops(e)
    BY <1>0, <1>1, <1>8, <2>0, <2>2, <2>3 DEF Apart, Closing
  <2>5. tx[d].at \in Closing \union {"stop"} => stop'[e][tx[d].item] # "none"
    BY <2>0, <1>2, <1>6, <2>2 DEF Good
  <2>6. /\ tx[d].at \in Editing => trip'[e] # "none" /\ e \in Trips
        /\ tx[d].at \in {"plan", "draft"} => trip'[e] = "none"
    BY <2>0, <1>4, <1>7, <2>2 DEF Good
  <2>7. tx[d].at \in Closing => tx[d].item \in OpenStops(e)'
    BY <2>0, <1>8, <2>2, <2>3 DEF Good
  <2> QED
    BY <2>0, <1>5, <1>8, <2>1, <2>2, <2>3, <2>4, <2>5, <2>6, <2>7 DEF Good, OpenStops, Closing, Editing
<1> QED BY <1>5, <1>10, <1>11, <1>12, <1>13, <1>14, EndsOne DEF IInv, RunsMatchTheirStops

\* updateTrip commits: whatever is cancelled has no open stop, and a run that is
\* taken up again after it was cancelled is marked.
LEMMA CommitRunSafe == ASSUME IInv, NEW c \in Clients, CommitRun(c) PROVE IInv'
<1>0. PICK t, to : t = tx[c].run /\ to = tx[c].to
  OBVIOUS
<1>1. Good(tx[c], held[c], need[c]) /\ tx[c].at = "hand" /\ tx[c] \in Records
  BY <1>0 DEF IInv, TxInv, ShapeInv, CommitRun, At
<1>2. /\ t \in Trips /\ trip[t] # "none" /\ to \in Asks
      /\ to = "CANCELLED" => \A s \in OpenStops(t) : StopRow(t, s) \in held[c]
  BY <1>0, <1>1 DEF Good, Editing
<1>3. trip[t] \in {"PLANNED", "ACTIVE", "CANCELLED"}
  BY <1>0, <1>2 DEF CommitRun, EditRefusal, IInv, ShapeInv, TripStatuses
<1>4. /\ End(c) /\ odd \subseteq odd' /\ odd' \subseteq Trips
      /\ trip[t] = "CANCELLED" /\ NextStatus(c) # "CANCELLED" => t \in odd'
  BY <1>0, <1>2 DEF CommitRun, IInv, ShapeInv
<1>5. NextStatus(c) = IF to = Same THEN trip[t] ELSE to
  BY <1>0 DEF NextStatus
<1>6. /\ \A u \in Trips : u # t => trip'[u] = trip[u]
      /\ trip'[t] = NextStatus(c) /\ NextStatus(c) \in {"PLANNED", "ACTIVE", "CANCELLED"}
  BY <1>0, <1>2, <1>3, <1>5 DEF CommitRun, IInv, ShapeInv, Asks
<1>7. /\ \A u \in Trips : u # t => stop'[u] = stop[u]
      /\ to # "CANCELLED" => stop' = stop
      /\ \A s \in Stops : stop'[t][s] = IF to = "CANCELLED" /\ s \in OpenStops(t) THEN "SKIPPED"
                                        ELSE stop[t][s]
  BY <1>0, <1>2 DEF CommitRun, IInv, ShapeInv
<1>8. /\ \A u \in Trips : u # t => OpenStops(u)' = OpenStops(u)
      /\ OpenStops(t)' = IF to = "CANCELLED" THEN {} ELSE OpenStops(t)
      /\ \A u \in Trips : OpenStops(u)' \subseteq OpenStops(u)
  BY <1>2, <1>7 DEF OpenStops, Open
<1>9. /\ trip' \in [Trips -> TripStatuses]
      /\ stop' \in [Trips -> [Stops -> {"none"} \union Open \union Terminal]]
  <2>1. trip' \in [Trips -> TripStatuses]
    BY <1>2, <1>6 DEF CommitRun, IInv, ShapeInv, TripStatuses
  <2>2. stop' \in [Trips -> [Stops -> {"none"} \union Open \union Terminal]]
    BY <1>2 DEF CommitRun, IInv, ShapeInv, Terminal
  <2> QED BY <2>1, <2>2
<1>10. ShapeInv'
  BY <1>4, <1>9, EndsOne DEF IInv, ShapeInv
<1>11. NoneInv'
  BY <1>0, <1>2, <1>6, <1>7 DEF IInv, NoneInv
<1>12. ClosedRunsAreEmpty'
  BY <1>5, <1>6, <1>8 DEF IInv, RunsMatchTheirStops, ClosedRunsAreEmpty
<1>13. StuckOnlyWhenOdd'
  BY <1>3, <1>4, <1>5, <1>6, <1>8 DEF IInv, RunsMatchTheirStops, StuckOnlyWhenOdd, Same
<1>14. TxInv'
  <2> SUFFICES ASSUME NEW d \in Clients, d # c PROVE Good(tx[d], held[d], need[d])'
    BY <1>4, EndsOne
  <2>0. PICK e : e = tx[d].run
    OBVIOUS
  <2>1. tx'[d] = tx[d] /\ held'[d] = held[d] /\ need'[d] = need[d]
    BY <1>4, EndsOne
  <2>2. Good(tx[d], held[d], need[d]) /\ held[d] \intersect held[c] = {}
    BY DEF IInv, TxInv, Mutex
  <2>3. tx[d].at \in Closing => e \in Trips /\ (e # t \/ to # "CANCELLED")
    BY <2>0, <1>2, <2>2 DEF Good
  <2>4. tx[d].at \in Closing => OpenStops(e)' = OpenStops(e)
    BY <2>0, <1>8, <2>3
  <2>5. tx[d].at \in Closing \union {"stop"} => stop'[e][tx[d].item] # "none"
    BY <2>0, <1>7, <2>2 DEF Good
  <2>6. /\ tx[d].at \in Editing => trip'[e] # "none" /\ e \in Trips
        /\ tx[d].at \in {"plan", "draft"} => trip'[e] = "none"
    BY <2>0, <1>2, <1>6, <2>2 DEF Good
  <2> QED
    BY <2>0, <1>4, <1>8, <2>1, <2>2, <2>3, <2>4, <2>5, <2>6 DEF Good, OpenStops, Closing, Editing
<1> QED BY <1>4, <1>10, <1>11, <1>12, <1>13, <1>14, EndsOne DEF IInv, RunsMatchTheirStops

\* createTrip commits: a new run has at least a drop to make.
LEMMA CommitPlanSafe == ASSUME IInv, NEW c \in Clients, CommitPlan(c) PROVE IInv'
<1>0. PICK t : t = tx[c].run
  OBVIOUS
<1>1. Good(tx[c], held[c], need[c]) /\ tx[c].at = "draft" /\ tx[c] \in Records
  BY <1>0 DEF IInv, TxInv, ShapeInv, CommitPlan, At
<1>2. t \in Trips /\ trip[t] = "none" /\ tx[c].orders # {} /\ tx[c].orders \subseteq Orders
  BY <1>0, <1>1 DEF Good, Records
<1>3. End(c) /\ UNCHANGED odd
  BY <1>0 DEF CommitPlan
<1>4. \A u \in Trips : trip'[u] = IF u = t THEN "PLANNED" ELSE trip[u]
  BY <1>0, <1>2 DEF CommitPlan, IInv, ShapeInv
<1>5. /\ \A u \in Trips : u # t => stop'[u] = stop[u]
      /\ \A s \in Stops : stop'[t][s] = IF s \in Draft(c) THEN "PENDING" ELSE "none"
  BY <1>0, <1>2 DEF CommitPlan, IInv, ShapeInv
<1>6. PICK o \in tx[c].orders : TRUE
  BY <1>2
<1>7. <<o, "DROP">> \in Draft(c) /\ <<o, "DROP">> \in Stops
  BY <1>0, <1>2, <1>6 DEF Draft, Kinds, Stops
<1>8. OpenStops(t)' # {} /\ \A u \in Trips : u # t => OpenStops(u)' = OpenStops(u)
  BY <1>2, <1>5, <1>7 DEF OpenStops, Open
<1>9. ShapeInv'
  <2>1. trip' \in [Trips -> TripStatuses]
    BY <1>2 DEF CommitPlan, IInv, ShapeInv, TripStatuses
  <2>2. stop' \in [Trips -> [Stops -> {"none"} \union Open \union Terminal]]
    BY <1>2 DEF CommitPlan, IInv, ShapeInv, Open
  <2> QED BY <1>3, <2>1, <2>2, EndsOne DEF IInv, ShapeInv
<1>10. NoneInv'
  BY <1>0, <1>2, <1>4, <1>5 DEF IInv, NoneInv
<1>11. RunsMatchTheirStops'
  BY <1>3, <1>4, <1>8 DEF IInv, RunsMatchTheirStops, ClosedRunsAreEmpty, StuckOnlyWhenOdd
<1>12. TxInv'
  <2> SUFFICES ASSUME NEW d \in Clients, d # c PROVE Good(tx[d], held[d], need[d])'
    BY <1>3, EndsOne
  <2>0. PICK e : e = tx[d].run
    OBVIOUS
  <2>1. tx'[d] = tx[d] /\ held'[d] = held[d] /\ need'[d] = need[d]
    BY <1>3, EndsOne
  <2>2. Good(tx[d], held[d], need[d]) /\ Apart(tx[c], tx[d], odd)
    BY DEF IInv, TxInv, PairInv
  <2>3. tx[d].at # "idle" => e \in Trips \ {t}
    <3>1. tx[d].at \in Places
      BY <2>0 DEF IInv, ShapeInv, Records
    <3>2. tx[d].at \in Closing \union {"stop"} => e \in Trips \ {t}
      BY <2>0, <1>2, <2>2 DEF Good, IInv, NoneInv
    <3>3. tx[d].at \in Editing => e \in Trips \ {t}
      BY <2>0, <1>2, <2>2 DEF Good
    <3>4. tx[d].at \in {"plan", "draft"} => e \in Trips \ {t}
      BY <1>0, <1>1, <2>0, <2>2 DEF Good, Apart
    <3> QED BY <3>1, <3>2, <3>3, <3>4 DEF Places, Closing, Editing
  <2>4. tx[d].at # "idle" => /\ OpenStops(e)' = OpenStops(e)
                             /\ stop'[e] = stop[e]
                             /\ trip'[e] = trip[e]
    BY <2>0, <1>4, <1>5, <1>8, <2>3
  <2> QED BY <1>3, <2>0, <2>1, <2>2, <2>4 DEF Good, OpenStops, Closing, Editing
<1> QED BY <1>3, <1>9, <1>10, <1>11, <1>12, EndsOne DEF IInv

-----------------------------------------------------------------------------
(* The theorem *)

\* Nothing is planned, locked or under way.
LEMMA InitSafe == Init => IInv
<1> SUFFICES ASSUME Init PROVE IInv
  OBVIOUS
<1>1. Idle \in Records /\ Idle.at = "idle"
  BY RestTypes
<1>2. ShapeInv
  BY <1>1 DEF Init, NoLocks, ShapeInv, TripStatuses
<1>3. Mutex /\ NoneInv
  BY DEF Init, NoLocks, Mutex, NoneInv
<1>4. TxInv /\ PairInv
  BY <1>1 DEF Init, NoLocks, TxInv, PairInv, Good, Apart, Closing, Editing
<1>5. RunsMatchTheirStops
  BY DEF Init, RunsMatchTheirStops, ClosedRunsAreEmpty, StuckOnlyWhenOdd
<1> QED BY <1>2, <1>3, <1>4, <1>5 DEF IInv

\* Every step keeps the invariant.
LEMMA Inductive == IInv /\ [Next]_vars => IInv'
<1> SUFFICES ASSUME IInv, [Next]_vars PROVE IInv'
  OBVIOUS
<1>1. ASSUME NEW c \in Clients, Step(c) PROVE IInv'
  <2>1. CASE MarkStop(c) \/ BeginRun(c)
    BY <2>1, StopMoves
  <2>2. CASE CountOpen(c)
    BY <2>2, CountSafe
  <2>3. CASE TakeRun(c) \/ SkipStops(c)
    BY <2>3, EditMoves
  <2>4. CASE TakeOrders(c)
    BY <2>4, PlanMoves
  <2>5. CASE CommitStop(c) \/ CommitRun(c) \/ CommitPlan(c)
    BY <2>5, CommitStopSafe, CommitRunSafe, CommitPlanSafe
  <2>6. CASE StopRefused(c) \/ EditRefused(c) \/ PlanRefused(c) \/ DeadlockFound(c)
    <3>1. End(c) /\ UNCHANGED <<trip, stop, odd>>
      BY <2>6 DEF StopRefused, EditRefused, PlanRefused, DeadlockFound
    <3> QED BY <3>1, EndSafe
  <2> QED BY <1>1, <2>1, <2>2, <2>3, <2>4, <2>5, <2>6 DEF Step
<1>2. CASE UNCHANGED vars
  <2>1. UNCHANGED <<trip, stop, tx, held, need, odd>>
    BY <1>2
  <2> QED BY <2>1 DEF IInv, ShapeInv, Mutex, NoneInv, TxInv, PairInv, Good, Apart, OpenStops,
                      RunsMatchTheirStops, ClosedRunsAreEmpty, StuckOnlyWhenOdd
<1> QED BY <1>1, <1>2, StartsSafe, LockSafe DEF Next

\* tripController.js:678: a run that is over has no open stop, and one that is under
\* way has one, the two known ways out apart, whatever requests run beside each other
\* and in whatever order their locks are granted.
THEOREM RunsAgreeWithStops == Spec => []RunsMatchTheirStops
<1>1. IInv => RunsMatchTheirStops
  BY DEF IInv
<1> QED BY InitSafe, Inductive, <1>1, PTL DEF Spec
=============================================================================
