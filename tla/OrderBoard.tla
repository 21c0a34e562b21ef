----------------------------- MODULE OrderBoard -----------------------------
(* A dispatcher's board: the queue as it last heard of it, the order open beside *)
(* it, and how bookings that came as two lines of text are pinned on the map,    *)
(* one at a time from the open order or as a stack (BulkPlaceFlow).  Both share  *)
(* the map's one placement (MapInteractionContext).                              *)
EXTENDS Naturals, FiniteSets, Sequences

CONSTANTS
    Orders,
    None,
    MAX_BATCH_PLACEMENTS,
    MaxBegun     \* bound on the placements begun

VARIABLES
    load,        \* the router's order: queued or taken, and where its pins came from
    listed,      \* activeOrders: how the board last saw each
    cursor,      \* OrdersPanel's cursorId
    pane,        \* Dashboard's openOrder
    found,       \* the return loads that the open order shows, by the order they are for
    asking,      \* the order whose return loads are being looked for
    map,         \* MapInteractionContext's placement
    flow,        \* BulkPlaceFlow
    saves,       \* placements sent from a row or the pane, not answered yet
    begun

vars == <<load, listed, cursor, pane, found, asking, map, flow, saves, begun>>

OrderOrNone == Orders \union {None}

\* A click on the map: the order whose placement was begun last, and every order
\* whose points the board was asking for.
Clicks  == [for : OrderOrNone, asked : SUBSET Orders]
NoClick == [for |-> None, asked |-> {}]

NoPlacement == [order |-> None, step |-> "none", pickup |-> NoClick, delivery |-> NoClick,
                batch |-> FALSE, armed |-> FALSE]
NoFlow == [at |-> "off", list |-> <<>>, banked |-> {}]

\* Whose points a pair of pins are, when it is o that is given them.
Origins == {"own", "asked", "stray"}
Origin(o, m) ==
    IF m.pickup.for = o /\ m.delivery.for = o THEN "own"
    ELSE IF o \in m.pickup.asked \intersect m.delivery.asked THEN "asked" ELSE "stray"

Placements == [order : Orders, from : Origins]

TypeOK ==
    /\ load \in [Orders -> [queued : BOOLEAN, pins : Origins \union {"none"}]]
    /\ listed \in [Orders -> {"absent", "bare", "placed"}]
    /\ cursor \in OrderOrNone /\ pane \in OrderOrNone /\ found \in OrderOrNone /\ asking \in OrderOrNone
    /\ map \in [order : OrderOrNone, step : {"none", "pickup", "delivery"}, pickup : Clicks, delivery : Clicks,
                batch : BOOLEAN, armed : BOOLEAN]
    /\ flow.at \in {"off", "walking", "saving", "saved", "failed"}
    /\ flow.list \in Seq(Orders) /\ flow.banked \subseteq Placements
    /\ saves \subseteq [order : Orders, from : Origins, by : {"row", "pane"}]
    /\ begun \in 0..MaxBegun

\* An order's row, whole when it is the open one: its tick and its state.
OnBoard(o) == listed[o] # "absent"

\* A booking that is two lines of text until it is pinned.
NeedsPlacing(o) == listed[o] = "bare"

\* What the open order says was found, or not found, near its drop.
ReturnLoadsShown == pane # None /\ found # None

\* Bookings from the public site, none of them placed, on a board just opened.
Init ==
    /\ load = [o \in Orders |-> [queued |-> TRUE, pins |-> "none"]]
    /\ listed = [o \in Orders |-> "bare"]
    /\ cursor = None /\ pane = None /\ found = None /\ asking = None
    /\ map = NoPlacement /\ flow = NoFlow /\ saves = {} /\ begun = 0

-----------------------------------------------------------------------------
(* The router *)

\* One UPDATE per order; each is placed, or fails, on its own.  A placement is
\* taken whatever has become of the order, unless money is committed to it.
PlaceOneOrder(placements) ==
    load' = [o \in Orders |->
                IF \E p \in placements : p.order = o
                THEN [load[o] EXCEPT !.pins = (CHOOSE p \in placements : p.order = o).from]
                ELSE load[o]]

\* getActiveOrders: what is PENDING, and whether it has coordinates.
ActiveOrders ==
    [o \in Orders |-> IF ~load[o].queued THEN "absent" ELSE IF load[o].pins = "none" THEN "bare" ELSE "placed"]

\* Another dispatcher assigns it or takes it back, or a driver answers an offer.
MovedElsewhere(o) ==
    /\ load' = [load EXCEPT ![o].queued = ~@]
    /\ UNCHANGED <<listed, cursor, pane, found, asking, map, flow, saves, begun>>

-----------------------------------------------------------------------------
(* Rows *)

\* The queue's row of an order and the open order's pane are both an OrderRow,
\* each with the effect that sends a placement once both pins are down.
Rows(q, open) == {[order |-> o, by |-> "row"] : o \in {o \in Orders : q[o] # "absent"}}
                 \union {[order |-> o, by |-> "pane"] : o \in {open} \ {None}}

BothPins(m) == m.pickup # NoClick /\ m.delivery # NoClick

\* What the rows send: not while a stack is being walked.  A row may be sending
\* already: one that was unmounted meanwhile does not know.
Sent(rows, m) ==
    IF BothPins(m) /\ ~m.batch
    THEN {[order |-> r.order, from |-> Origin(r.order, m), by |-> r.by] : r \in {r \in rows : r.order = m.order}}
    ELSE {}

\* A row that appears with the pins down sends them again.
Appear(q, open) == saves' = saves \union Sent(Rows(q, open) \ Rows(listed, pane), map)

\* The pane's row stays the same one when another order is opened, and keeps what
\* it was showing; it is gone only when the pane closes.
Open(o) ==
    /\ pane' = o
    /\ IF o = None THEN found' = None /\ asking' = None ELSE UNCHANGED <<found, asking>>

\* refreshFeeds and the socket's events: the board catches up with the router.
\* The order under the cursor is opened again, or closed if it has left the queue.
Hear ==
    /\ listed' = ActiveOrders /\ listed' # listed
    /\ Open(IF cursor # None /\ listed'[cursor] # "absent" THEN cursor ELSE None)
    /\ Appear(listed', pane')
    /\ UNCHANGED <<load, cursor, map, flow, begun>>

\* A click on a row, or j and k; on the order already there, a click lets go.
Select(o) ==
    /\ OnBoard(o) /\ cursor' = IF cursor = o THEN None ELSE o
    /\ Open(cursor') /\ Appear(listed, cursor')
    /\ UNCHANGED <<load, listed, map, flow, begun>>

\* The pane's own cross; OrdersPanel's cursor stays.
ClosePane ==
    /\ pane # None /\ Open(None)
    /\ UNCHANGED <<load, listed, cursor, map, flow, saves, begun>>

\* handleFindReturn and its answer.
FindReturn ==
    /\ pane # None /\ asking = None /\ asking' = pane
    /\ UNCHANGED <<load, listed, cursor, pane, found, map, flow, saves, begun>>

ReturnLoadsFound ==
    /\ asking # None /\ found' = asking /\ asking' = None
    /\ UNCHANGED <<load, listed, cursor, pane, map, flow, saves, begun>>

\* Assign and Offer are under the open order and on the bar over those ticked.
Assignable(os) == \A o \in os : OnBoard(o)

\* handleAssign and handleOffer from the pane, BulkActionBar and BatchSuggestions:
\* all of them or none, and the board asks for its feeds again.
AssignOrders(os) ==
    /\ Assignable(os) /\ \A o \in os : load[o].queued
    /\ load' = [o \in Orders |-> IF o \in os THEN [load[o] EXCEPT !.queued = FALSE] ELSE load[o]]
    /\ UNCHANGED <<listed, cursor, pane, found, asking, map, flow, saves, begun>>

-----------------------------------------------------------------------------
(* The map's one placement *)

\* Mutant: the pins of the last placement stay until they are clicked over.
BeginOver(m, o, batch) == [m EXCEPT !.order = o, !.step = "pickup", !.batch = batch, !.armed = FALSE]

BeginPlacement(m, o, batch) ==
    [order |-> o, step |-> "pickup", pickup |-> NoClick, delivery |-> NoClick, batch |-> batch, armed |-> FALSE]

CancelPlacement(m) == [NoPlacement EXCEPT !.armed = m.armed]

MayBegin == begun < MaxBegun /\ begun' = begun + 1

BeingPlaced(o) == map.order = o /\ map.step # "none"

\* "Place on map", in the pane.
PlaceOnMap ==
    /\ pane # None /\ NeedsPlacing(pane) /\ ~BeingPlaced(pane) /\ MayBegin
    /\ \A s \in saves : ~(s.by = "pane")
    /\ map' = BeginPlacement(map, pane, FALSE)
    /\ saves' = saves \union Sent(Rows(listed, pane), map')
    /\ UNCHANGED <<load, listed, cursor, pane, found, asking, flow>>

CancelPlacing ==
    /\ pane # None /\ NeedsPlacing(pane) /\ BeingPlaced(pane)
    /\ map' = CancelPlacement(map)
    /\ UNCHANGED <<load, listed, cursor, pane, found, asking, flow, saves, begun>>

\* The button turns it on or off, as under the form of a new order.
Arm(m) == [m EXCEPT !.armed = ~@]

\* A geofence, a hub, a target or a new order's delivery point is to be clicked:
\* it takes the clicks before a placement does.
ArmAnother ==
    /\ map' = Arm(map)
    /\ UNCHANGED <<load, listed, cursor, pane, found, asking, flow, saves, begun>>

\* The answer to a placement sent from a row: whatever is being placed by then
\* is cancelled.
PlacementSaved(s) ==
    /\ s \in saves /\ saves' = saves \ {s}
    /\ PlaceOneOrder({s}) /\ map' = CancelPlacement(map)
    /\ UNCHANGED <<listed, cursor, pane, found, asking, flow, begun>>

\* It failed, before or after the router took it.
PlacementFailed(s, taken) ==
    /\ s \in saves /\ saves' = saves \ {s}
    /\ IF taken THEN PlaceOneOrder({s}) ELSE UNCHANGED load
    /\ UNCHANGED <<listed, cursor, pane, found, asking, map, flow, begun>>

-----------------------------------------------------------------------------
(* BulkPlaceFlow *)

Walking == flow.at = "walking"
Asked   == ({map.order} \ {None}) \union (IF Walking THEN {Head(flow.list)} ELSE {})

\* On to the next booking, or off the end of the stack: what is banked is sent.
MoveOn(banked, m) ==
    LET rest == Tail(flow.list)
    IN  IF rest # <<>>
        THEN /\ flow' = [at |-> "walking", list |-> rest, banked |-> banked]
             /\ map' = BeginPlacement(m, Head(rest), TRUE)
        ELSE /\ flow' = IF banked = {} THEN NoFlow ELSE [at |-> "saving", list |-> <<>>, banked |-> banked]
             /\ map' = CancelPlacement(m)

\* Of the rows ticked by hand, by key or all that the filter shows, those that
\* the queue says have no pins.
Placeable(os) == os # {} /\ \A o \in os : NeedsPlacing(o)

\* A stack, in the queue's own order.
InOrder(os) == CHOOSE list \in [1..Cardinality(os) -> os] : \A o \in os : \E i \in DOMAIN list : list[i] = o

PlaceSelected(os) ==
    /\ flow.at = "off" /\ Placeable(os)
    /\ MayBegin
    /\ flow' = [at |-> "walking", list |-> InOrder(os), banked |-> {}]
    /\ map' = BeginPlacement(map, Head(flow'.list), TRUE)
    /\ UNCHANGED <<load, listed, cursor, pane, found, asking, saves>>

SkipThisOne ==
    /\ Walking /\ MoveOn(flow.banked, map)
    /\ UNCHANGED <<load, listed, cursor, pane, found, asking, saves, begun>>

StopAndSave ==
    /\ Walking
    /\ flow' = IF flow.banked = {} THEN NoFlow ELSE [flow EXCEPT !.at = "saving", !.list = <<>>]
    /\ map' = CancelPlacement(map)
    /\ UNCHANGED <<load, listed, cursor, pane, found, asking, saves, begun>>

\* A click on the map that is a pin: the second one sends the pair from a row,
\* or banks it for the booking in hand, or both.
ClickMap ==
    /\ map.step # "none" /\ ~map.armed
    /\ LET click == [for |-> map.order, asked |-> Asked]
           m == IF map.step = "pickup" THEN [map EXCEPT !.pickup = click, !.step = "delivery"]
                ELSE [map EXCEPT !.delivery = click, !.step = "none"]
       IN /\ saves' = saves \union Sent(Rows(listed, pane), m)
          /\ IF Walking /\ BothPins(m)
             THEN MoveOn(flow.banked \union {[order |-> Head(flow.list), from |-> Origin(Head(flow.list), m)]}, m)
             ELSE map' = m /\ UNCHANGED flow
    /\ UNCHANGED <<load, listed, cursor, pane, found, asking, begun>>

\* placeOrderBatch: refused whole when too many, else each on its own; the answer
\* may be lost.
BatchSaved(placed, heard) ==
    /\ flow.at = "saving" /\ placed \subseteq flow.banked
    /\ Cardinality(flow.banked) > MAX_BATCH_PLACEMENTS => placed = {} /\ ~heard
    /\ PlaceOneOrder(placed)
    /\ flow' = [flow EXCEPT !.at = IF heard THEN "saved" ELSE "failed"]
    /\ UNCHANGED <<listed, cursor, pane, found, asking, map, saves, begun>>

Done ==
    /\ flow.at \in {"saved", "failed"} /\ flow' = NoFlow
    /\ UNCHANGED <<load, listed, cursor, pane, found, asking, map, saves, begun>>

\* The other workspace: the queue, the pane and the stack are not kept, and what
\* the router did with a stack being saved is not heard; the map's placement stays.
ShowMonitor(placed) ==
    /\ placed # {} => flow.at = "saving" /\ Cardinality(flow.banked) <= MAX_BATCH_PLACEMENTS
    /\ PlaceOneOrder(placed)
    /\ flow' = NoFlow /\ cursor' = None /\ Open(None)
    /\ UNCHANGED <<listed, map, saves, begun>>

Next ==
    \/ \E o \in Orders : MovedElsewhere(o) \/ Select(o)
    \/ Hear \/ ClosePane \/ FindReturn \/ ReturnLoadsFound
    \/ \E os \in SUBSET Orders \ {{}} : AssignOrders(os) \/ PlaceSelected(os)
    \/ PlaceOnMap \/ CancelPlacing \/ ArmAnother \/ ClickMap
    \/ \E s \in saves : PlacementSaved(s) \/ \E taken \in BOOLEAN : PlacementFailed(s, taken)
    \/ SkipThisOne \/ StopAndSave \/ Done
    \/ \E placed \in SUBSET flow.banked : ShowMonitor(placed) \/ \E heard \in BOOLEAN : BatchSaved(placed, heard)

Spec == Init /\ [][Next]_vars

-----------------------------------------------------------------------------
(* Properties *)

\* MapInteractionContext.tsx:249-271: an order is never given a pin that was
\* clicked while the board asked for the points of others only, whichever of the
\* stack, the pane and late answers begins and cancels placements in between.
PinsWereAskedFor ==
    \A o \in Orders :
        /\ load[o].pins # "stray"
        /\ \A p \in saves \union flow.banked : p.from # "stray"

\* What it rests on: no pin on the map is older than the placement it belongs to,
\* nor than the booking in hand.
Keys == /\ DOMAIN load = Orders /\ \A o \in Orders : DOMAIN load[o] = {"queued", "pins"}
        /\ DOMAIN map = DOMAIN NoPlacement /\ DOMAIN flow = DOMAIN NoFlow
PinInv ==
    /\ Keys
    /\ \A c \in {map.pickup, map.delivery} : c # NoClick =>
           /\ map.order # None => map.order \in c.asked
           /\ Walking => Head(flow.list) \in c.asked

\* BulkPlaceFlow.tsx:43: "Both pins are down for the booking in hand", so they are
\* those the dispatcher clicked for it and not for the order opened meanwhile.
PinsAreItsOwn == \A o \in Orders : load[o].pins \in {"none", "own"}

\* OrderRow.tsx:99-104: what the open order says of return loads was looked up
\* for it, and is no "statement about the world" made on anything else.
ReturnLoadsAreItsOwn == ReturnLoadsShown => found = pane

\* OrdersPanel.tsx:135-136, "OrdersPanel never unmounts": pins that were banked
\* are sent, or the dispatcher is told that they were not.
BankedKept == flow.banked # {} /\ flow'.at = "off" => flow.at \in {"saved", "failed"}
BankedPinsAreKept == [][BankedKept]_vars
=============================================================================
