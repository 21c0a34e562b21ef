------------------------------ MODULE LiveFeeds ------------------------------
(* One job as three screens follow it: a dispatcher's board, which fetches its  *)
(* feeds and then hears of changes on a socket, a wall display that does the    *)
(* same without anybody in front of it, and the alerts of a driver's phone.     *)
(* The router commits a change first and emits its event afterwards.            *)
EXTENDS Naturals, Sequences, SequencesExt

CONSTANTS
    Drivers,
    MaxChanges,   \* bound on the commits of the router
    MaxSessions,  \* bound on the sessions of the board
    Sockets,      \* those it opens, each a positive number
    Rounds        \* the rounds of refreshes it begins, each a positive number

VARIABLES
    job,       \* the row in orders
    changes,   \* the commits so far
    outbox,    \* the events of commits that are not emitted yet
    sockets,   \* those a browser or a phone has opened
    view,      \* what the board or the wall shows
    rounds,    \* the rounds of refreshFeeds under way
    alerts     \* the driver's phone

vars == <<job, changes, outbox, sockets, view, rounds, alerts>>

None     == "none"
Sessions == 0..MaxSessions
Statuses == {"none", "PENDING", "OFFERED", "ASSIGNED", "PICKED_UP", "DELIVERED", "CANCELLED"}
Events   == [kind : {"created", "dispatched", "reassigned", "unassigned", "status"}, status : Statuses, driver : Drivers \union {None},
             named : BOOLEAN, byDriver : BOOLEAN]

NoSocket == [at |-> "none", session |-> 0, inbox |-> <<>>]
NoRound  == [at |-> "free", session |-> 0, read |-> <<>>, ok |-> TRUE, alone |-> FALSE]

TypeOK ==
    /\ job \in [status : Statuses, driver : Drivers \union {None}] /\ changes \in 0..MaxChanges
    /\ outbox \in Seq(Seq(Events)) /\ Len(outbox) <= MaxChanges
    /\ \A s \in Sockets : sockets[s].at \in {"none", "up", "down", "closed"} /\ sockets[s].session \in Sessions /\ sockets[s].inbox \in Seq(Events)
    /\ view.kind \in {"board", "wall", "phone"} /\ view.session \in Sessions /\ view.socket \in Sockets \union {0}
    /\ {view.connected, view.stale, view.fresh} \subseteq BOOLEAN /\ {view.queue, view.inFlight} \subseteq Seq(Drivers \union {None})
    /\ view.begun \in Sessions /\ view.expired \subseteq Sessions
    /\ \A r \in Rounds : rounds[r].at \in {"free", "queue", "queueRead", "inFlight", "inFlightRead", "over"} /\ rounds[r].session \in Sessions
    /\ alerts.user \in Drivers \union {None} /\ alerts.events \subseteq Drivers /\ alerts.loading \in BOOLEAN
    /\ alerts.found \subseteq Drivers /\ alerts.store \in [Drivers -> SUBSET Drivers]

Init ==
    /\ \/ job \in [status : {"none", "PENDING"}, driver : {None}]
       \/ \E d \in Drivers : job \in [status : {"OFFERED", "ASSIGNED", "PICKED_UP"}, driver : {d}]
    /\ changes = 0 /\ outbox = <<>>
    /\ sockets = [s \in Sockets |-> NoSocket] /\ rounds = [r \in Rounds |-> NoRound]
    /\ \E kind \in {"board", "wall", "phone"} :
         view = [kind |-> kind, session |-> 0, begun |-> 0, expired |-> {}, socket |-> 0, connected |-> FALSE,
                 queue |-> <<>>, inFlight |-> <<>>, stale |-> FALSE, fresh |-> FALSE]
    /\ alerts = [user |-> None, events |-> {}, loading |-> FALSE, found |-> {}, store |-> [d \in Drivers |-> {}]]

-----------------------------------------------------------------------------
(* The router: what a handler commits, and what it emits                        *)

Event(kind, status, driver, named, byDriver) ==
    [kind |-> kind, status |-> status, driver |-> driver, named |-> named, byDriver |-> byDriver]

Plain(kind, driver) == Event(kind, job.status, driver, FALSE, FALSE)

\* Nothing is fresh any more, and no round under way is alone with the router.
Commit(status, driver, events) ==
    /\ changes < MaxChanges /\ changes' = changes + 1
    /\ job' = [status |-> status, driver |-> driver]
    /\ outbox' = IF events = <<>> THEN outbox ELSE Append(outbox, events)
    /\ view' = [view EXCEPT !.fresh = FALSE]
    /\ rounds' = [r \in Rounds |-> [rounds[r] EXCEPT !.alone = FALSE]]
    /\ UNCHANGED <<sockets, alerts>>

\* From the dispatcher's form.  A customer's own booking emits nothing.
CreateOrder(byCustomer) ==
    job.status = "none" /\ Commit("PENDING", None, IF byCustomer THEN <<>> ELSE <<Plain("created", None)>>)

AssignOrderBundle(d) == job.status = "PENDING" /\ Commit("ASSIGNED", d, <<Plain("dispatched", d)>>)

\* order:offered and order:offer-declined have no listener.
OfferOrders(d) == job.status = "PENDING" /\ Commit("OFFERED", d, <<>>)
OfferEnds      == job.status = "OFFERED" /\ Commit("PENDING", None, <<>>)

\* The event says what the status is, and not whose the job is.
AcceptOffer ==
    job.status = "OFFERED" /\ Commit("ASSIGNED", job.driver, <<Event("status", "ASSIGNED", job.driver, FALSE, TRUE)>>)

ReassignOrder(d) ==
    /\ job.status = "ASSIGNED" /\ job.driver # d
    /\ IF d = None THEN Commit("PENDING", None, <<Plain("unassigned", None), Plain("created", None)>>)
                   ELSE Commit("ASSIGNED", d, <<Plain("reassigned", d)>>)

\* updateOrderStatus and confirmDelivery name the driver, updateStop does not.
UpdateStatus(status, named, byDriver) ==
    /\ <<job.status, status>> \in {<<"ASSIGNED", "PICKED_UP">>, <<"PICKED_UP", "DELIVERED">>, <<"ASSIGNED", "CANCELLED">>}
    /\ Commit(status, job.driver, <<Event("status", status, job.driver, named, byDriver)>>)

\* forceOrderStatus: what it would emit is lost with an error after the commit.
ForceOrderStatus(status) ==
    /\ job.status \in {"ASSIGNED", "PICKED_UP"} /\ status # job.status
    /\ Commit(status, job.driver, <<>>)

\* toDispatch, and toDriver for the event that says whose it is.  The rooms are
\* decided when a socket connects: a wall display is in none of them.
Hears(s, e) ==
    /\ sockets[s].at = "up"
    /\ CASE view.kind = "board" -> TRUE
         [] view.kind = "wall"  -> FALSE
         [] OTHER -> e.kind = "status" /\ e.driver = alerts.user

\* Handlers emit in the order in which they get there, not that of the commits.
Emit(i) ==
    /\ i \in DOMAIN outbox /\ outbox' = RemoveAt(outbox, i)
    /\ sockets' = [s \in Sockets |-> [sockets[s] EXCEPT !.inbox = @ \o SelectSeq(outbox[i], LAMBDA e : Hears(s, e))]]
    /\ UNCHANGED <<job, changes, view, rounds, alerts>>

-----------------------------------------------------------------------------
(* Sockets.  What is emitted while one is down does not come later.             *)

Opened(s, session) == [sockets EXCEPT ![s] = [at |-> "down", session |-> session, inbox |-> <<>>]]
Free(s)            == sockets[s].at = "none" /\ \A t \in Sockets : t < s => sockets[t].at # "none"

Connect(s) ==
    /\ sockets[s].at = "down" /\ sockets[s].session \notin view.expired
    /\ sockets' = [sockets EXCEPT ![s].at = "up"] /\ view' = [view EXCEPT !.connected = TRUE]
    /\ UNCHANGED <<job, changes, outbox, rounds, alerts>>

Drop(s) ==
    /\ sockets[s].at = "up"
    /\ sockets' = [sockets EXCEPT ![s].at = "down", ![s].inbox = <<>>] /\ view' = [view EXCEPT !.connected = FALSE]
    /\ UNCHANGED <<job, changes, outbox, rounds, alerts>>

Closed(s) == IF s = 0 THEN sockets ELSE [sockets EXCEPT ![s] = [NoSocket EXCEPT !.at = "closed"]]

\* attachSocketListeners: the lists of the board, after one event.
Applied(v, e) ==
    CASE e.kind = "created"    -> [v EXCEPT !.queue = <<None>> \o @]
      [] e.kind = "dispatched" -> [v EXCEPT !.queue = <<>>, !.inFlight = <<e.driver>> \o @]
      [] e.kind = "reassigned" -> [v EXCEPT !.inFlight = [i \in DOMAIN @ |-> e.driver]]
      [] e.kind = "unassigned" -> [v EXCEPT !.inFlight = <<>>]
      [] OTHER -> IF e.status = "ASSIGNED" THEN v ELSE [v EXCEPT !.inFlight = <<>>]

\* On the phone: what dispatch has done to a job that the event says is theirs.
Heard(e) ==
    IF e.named /\ e.driver = alerts.user /\ ~e.byDriver THEN alerts.events \union {e.driver} ELSE alerts.events

Persisted(events) == [alerts.store EXCEPT ![alerts.user] = events]

Receive(s) ==
    /\ sockets[s].inbox # <<>> /\ sockets' = [sockets EXCEPT ![s].inbox = Tail(@)]
    /\ LET e == Head(sockets[s].inbox)
       IN IF view.kind = "phone"
          THEN alerts' = [alerts EXCEPT !.events = Heard(e), !.store = Persisted(Heard(e))] /\ UNCHANGED view
          ELSE view' = Applied(view, e) /\ UNCHANGED alerts
    /\ UNCHANGED <<job, changes, outbox, rounds>>

-----------------------------------------------------------------------------
(* The board: its session, its stream, and the rounds of refreshFeeds           *)

Quiet == outbox = <<>> /\ \A s \in Sockets : sockets[s].inbox = <<>>

Begun(r, session) ==
    [q \in Rounds |->
       IF q = r THEN [at |-> "queue", session |-> session, read |-> <<>>, ok |-> TRUE,
                      alone |-> Quiet /\ \A p \in Rounds : rounds[p].at \in {"free", "over"}]
                ELSE [rounds[q] EXCEPT !.alone = FALSE]]

FreeRound(r) == rounds[r].at = "free" /\ \A q \in Rounds : q < r => rounds[q].at # "free"

\* login and verifyMfa, and the mount of a browser that has a token.
FinalizeLogin(s, r) ==
    /\ view.kind = "board" /\ view.session = 0 /\ view.begun < MaxSessions /\ Free(s) /\ FreeRound(r)
    /\ LET session == view.begun + 1
       IN /\ view' = [view EXCEPT !.session = session, !.begun = session, !.socket = s, !.fresh = FALSE]
          /\ sockets' = Opened(s, session) /\ rounds' = Begun(r, session)
    /\ UNCHANGED <<job, changes, outbox, alerts>>

\* After a mutation of its own.
RefreshFeeds(r) ==
    /\ view.kind = "board" /\ view.session # 0 /\ FreeRound(r) /\ rounds' = Begun(r, view.session)
    /\ UNCHANGED <<job, changes, outbox, sockets, view, alerts>>

\* A quarter of an hour after it was issued.
TokenExpires ==
    /\ view.kind = "board" /\ view.session \notin {0} \union view.expired
    /\ view' = [view EXCEPT !.expired = @ \union {view.session}]
    /\ UNCHANGED <<job, changes, outbox, sockets, rounds, alerts>>

\* disconnectSocket: the one that React holds.
Logout ==
    /\ view.kind = "board" /\ view.session # 0 /\ sockets' = Closed(view.socket)
    /\ view' = [view EXCEPT !.session = 0, !.socket = 0, !.connected = FALSE]
    /\ UNCHANGED <<job, changes, outbox, rounds, alerts>>

\* The pill: another socket is opened while the first may still reconnect.
ToggleNetworkStream(s) ==
    /\ view.kind = "board" /\ view.session # 0
    /\ IF view.connected
       THEN sockets' = Closed(view.socket) /\ view' = [view EXCEPT !.socket = 0, !.connected = FALSE]
       ELSE Free(s) /\ sockets' = Opened(s, view.session) /\ view' = [view EXCEPT !.socket = s]
    /\ UNCHANGED <<job, changes, outbox, rounds, alerts>>

\* The bar over the board: what waits and what moves, and beside them "Not current".
SaysCurrent == view.kind = "board" /\ view.session # 0 /\ ~view.stale

\* getActiveOrders and getInFlightOrders.
Queue    == IF job.status = "PENDING" THEN <<None>> ELSE <<>>
InFlight == IF job.status = "ASSIGNED" THEN <<job.driver>> ELSE <<>>

\* The router reads the rows for a request; its answer comes later.
Read(r) ==
    /\ rounds[r].at \in {"queue", "inFlight"} /\ rounds[r].session \notin view.expired
    /\ rounds' = [rounds EXCEPT ![r].read = IF rounds[r].at = "queue" THEN Queue ELSE InFlight,
                                ![r].at = IF @ = "queue" THEN "queueRead" ELSE "inFlightRead"]
    /\ UNCHANGED <<job, changes, outbox, sockets, view, alerts>>

\* Its last feed ends a round: it was stale unless every feed has answered, the
\* others (restOk) included.
Goes(r, ok, restOk, shown) ==
    IF rounds[r].at \in {"queue", "queueRead"}
    THEN rounds' = [rounds EXCEPT ![r].at = "inFlight", ![r].read = <<>>, ![r].ok = ok] /\ view' = shown
    ELSE /\ rounds' = [rounds EXCEPT ![r] = [NoRound EXCEPT !.at = "over"]]
         /\ view' = [shown EXCEPT !.stale = ~(rounds[r].ok /\ ok /\ restOk), !.fresh = @ \/ rounds[r].alone]

Answered(r, restOk) ==
    /\ rounds[r].at \in {"queueRead", "inFlightRead"}
    /\ Goes(r, rounds[r].ok, restOk, IF rounds[r].at = "queueRead" THEN [view EXCEPT !.queue = rounds[r].read] ELSE [view EXCEPT !.inFlight = rounds[r].read])
    /\ UNCHANGED <<job, changes, outbox, sockets, alerts>>

\* Mutant: a feed that failed is taken for one that has refreshed.
TakenForDone(r) == Goes(r, rounds[r].ok, TRUE, view)

\* fetchFeed keeps the rows it has, and the round will say so.
Unanswered(r) == Goes(r, FALSE, TRUE, view)

FeedFails(r) ==
    /\ rounds[r].at \notin {"free", "over"} /\ Unanswered(r)
    /\ UNCHANGED <<job, changes, outbox, sockets, alerts>>

\* 401: the session that is there now ends, whichever the round belonged to.
FeedRefused(r) ==
    /\ rounds[r].at \in {"queue", "inFlight"} /\ rounds[r].session \in view.expired /\ sockets' = Closed(view.socket)
    /\ LET out == [view EXCEPT !.session = 0, !.socket = 0, !.connected = FALSE, !.fresh = FALSE]
       IN Goes(r, FALSE, FALSE, IF rounds[r].at = "queue" THEN [out EXCEPT !.queue = <<>>] ELSE [out EXCEPT !.inFlight = <<>>])
    /\ UNCHANGED <<job, changes, outbox, alerts>>

-----------------------------------------------------------------------------
(* The wall display, and the phone                                              *)

\* Once when it is loaded, all at the same time: a list that fails is empty, and
\* the display does not say so (stale is kept here for WallFollows alone).
LoadWall(s, gotQueue, gotInFlight) ==
    /\ view.kind = "wall" /\ view.socket \in {0, s} /\ Free(s)
    /\ sockets' = Opened(s, 1)
    /\ view' = [view EXCEPT !.socket = s, !.queue = IF gotQueue THEN Queue ELSE <<>>, !.inFlight = IF gotInFlight THEN InFlight ELSE <<>>,
                          !.stale = ~(gotQueue /\ gotInFlight)]
    /\ UNCHANGED <<job, changes, outbox, rounds, alerts>>

\* Six hours later the page loads itself again.
ReloadWall ==
    /\ view.kind = "wall" /\ view.socket # 0 /\ sockets' = Closed(view.socket)
    /\ view' = [view EXCEPT !.socket = 0, !.connected = FALSE, !.queue = <<>>, !.inFlight = <<>>]
    /\ UNCHANGED <<job, changes, outbox, rounds, alerts>>

\* Mutant: one key for the whole phone.
OneKey(d) == UNION {alerts.store[e] : e \in Drivers}

StoredFor(d) == alerts.store[d]

\* The list is asked for; then the empty one is kept, before it has come.
MountAlerts(d) ==
    /\ view.kind = "phone" /\ alerts.user = None /\ sockets' = Opened(1, 1)
    /\ alerts' = [alerts EXCEPT !.user = d, !.loading = TRUE, !.found = StoredFor(d), !.store[d] = {}]
    /\ UNCHANGED <<job, changes, outbox, view, rounds>>

Restored ==
    /\ alerts.loading
    /\ LET events == IF alerts.found = {} THEN alerts.events ELSE alerts.found
       IN alerts' = [alerts EXCEPT !.loading = FALSE, !.found = {}, !.events = events, !.store = Persisted(events)]
    /\ UNCHANGED <<job, changes, outbox, sockets, view, rounds>>

\* Signing out and a killed process alike: what is stored stays.
Unmount ==
    /\ alerts.user # None /\ sockets' = Closed(1)
    /\ alerts' = [alerts EXCEPT !.user = None, !.events = {}, !.loading = FALSE, !.found = {}]
    /\ view' = [view EXCEPT !.connected = FALSE] /\ UNCHANGED <<job, changes, outbox, rounds>>

ClearEvents ==
    /\ alerts.user # None /\ alerts.events # {}
    /\ alerts' = [alerts EXCEPT !.events = {}, !.store = Persisted({})]
    /\ UNCHANGED <<job, changes, outbox, sockets, view, rounds>>

Next ==
    \/ \E b \in BOOLEAN : CreateOrder(b)
    \/ \E d \in Drivers : AssignOrderBundle(d) \/ OfferOrders(d) \/ MountAlerts(d)
    \/ \E d \in Drivers \union {None} : ReassignOrder(d)
    \/ \E status \in Statuses \ {"none"}, n, b \in BOOLEAN : UpdateStatus(status, n, b)
    \/ \E status \in {"PENDING", "DELIVERED", "CANCELLED"} : ForceOrderStatus(status)
    \/ OfferEnds \/ AcceptOffer \/ \E i \in 1..MaxChanges : Emit(i)
    \/ \E s \in Sockets : Connect(s) \/ Drop(s) \/ Receive(s) \/ ToggleNetworkStream(s) \/ \E r \in Rounds : FinalizeLogin(s, r)
    \/ \E s \in Sockets, p, q \in BOOLEAN : LoadWall(s, p, q)
    \/ \E r \in Rounds : RefreshFeeds(r) \/ Read(r) \/ FeedFails(r) \/ FeedRefused(r) \/ \E b \in BOOLEAN : Answered(r, b)
    \/ TokenExpires \/ Logout \/ ReloadWall \/ Restored \/ Unmount \/ ClearEvents

Spec == Init /\ [][Next]_vars

-----------------------------------------------------------------------------
(* Properties *)

BoardIsRight == view.queue = Queue /\ view.inFlight = InFlight

\* SocketContext.tsx:60-74, 198-200: once nothing is under way, one round of
\* refreshes puts the board right, whatever it showed before: rows doubled by a
\* second socket, rows of events that were missed; or the board says it is stale.
FreshIsRight == SaysCurrent /\ view.fresh /\ Quiet => BoardIsRight

\* liveEvents.ts:8-12: what a phone keeps and shows for a driver is about them.
AlertsAreTheirs ==
    /\ alerts.user # None => alerts.events \subseteq {alerts.user}
    /\ \A d \in Drivers : alerts.store[d] \subseteq {d}

FeedsAreHonest == FreshIsRight /\ AlertsAreTheirs

Listening == {s \in Sockets : sockets[s].at \in {"up", "down"}}

\* SocketContext.tsx:258-265: no event is applied twice.
HandlersOnce == view.kind = "board" => \A s, t \in Listening : s = t

\* KioskDashboard.tsx:79: a display that says it is connected shows what there is.
WallFollows == view.kind = "wall" /\ view.connected /\ Quiet /\ ~view.stale => BoardIsRight

\* SocketContext.tsx:66-74: rows are not replaced by an empty list out of the air.
LiveIsRight == SaysCurrent /\ view.connected /\ Quiet
                 /\ (\A r \in Rounds : rounds[r].at \in {"free", "over"}) => BoardIsRight
=============================================================================
