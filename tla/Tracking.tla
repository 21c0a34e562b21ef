------------------------------ MODULE Tracking ------------------------------
(* A customer follows a shipment on the public site: the code in the address,   *)
(* the look-ups the page makes, the three statements trackOrder answers one     *)
(* with, and the milestones drawn from the answer; beside it the contact form.  *)
(* Meanwhile dispatch and the driver move the order.                            *)
EXTENDS Naturals, Sequences, SequencesExt

CONSTANTS
    Lookups,    \* the look-ups the page makes, each once
    MaxLog,     \* bound on the entries of the order's history
    MaxForced,  \* bound on the statuses an admin forces
    MaxLetters  \* bound on the times the form is sent

VARIABLES
    order,    \* the row: its status, whom it is assigned to, its proof of delivery
    log,      \* its history in order_status_logs
    forced,   \* the statuses forced on it
    page,     \* the tracking page: the code in the address, and what is drawn
    lookup,   \* per look-up: the code asked for, how far it is, and what it read
    letter    \* the contact form, and the messages kept of it

vars == <<order, log, forced, page, lookup, letter>>

None     == "none"
Statuses == {"PENDING", "OFFERED", "ASSIGNED", "AT_PICKUP", "PICKED_UP", "IN_TRANSIT", "ARRIVED",
             "DELIVERED", "CANCELLED"}
\* The code of this order, one of no order, and no code at all.
Codes    == {"ours", "mistyped", ""}
Row      == [status : Statuses, driver : {None, "ana"}]
NoRow    == [status |-> "PENDING", driver |-> None]
Answers  == [row : Row, proof : BOOLEAN, timeline : 0..MaxLog]

TypeOK ==
    /\ order \in [status : Statuses, driver : {None, "ana"}, proof : BOOLEAN]
    /\ log \in Seq(Statuses) /\ Len(log) <= MaxLog /\ forced \in 0..MaxForced
    /\ page.address \in Codes /\ page.loading \in BOOLEAN /\ page.error \in BOOLEAN
    /\ page.shipment \in {<<>>} \union {<<a>> : a \in Answers}
    /\ lookup \in [Lookups -> [code : Codes, at : {"-", "reading", "answered"}, reads : 0..3, got : Answers]]
    /\ letter \in [state : {"idle", "sending", "sent"}, kept : 0..MaxLetters, tries : 0..MaxLetters]

Nothing == [row |-> NoRow, proof |-> FALSE, timeline |-> 0]

Init ==
    /\ order = [status |-> "PENDING", driver |-> None, proof |-> FALSE] /\ log = <<>> /\ forced = 0
    /\ page = [address |-> "", shipment |-> <<>>, error |-> FALSE, loading |-> FALSE]
    /\ lookup = [k \in Lookups |-> [code |-> "", at |-> "-", reads |-> 0, got |-> Nothing]]
    /\ letter = [state |-> "idle", kept |-> 0, tries |-> 0]

-----------------------------------------------------------------------------
(* The order moves.  Each of these is one transaction: the row and its entry.   *)

Logged(status) == Len(log) < MaxLog /\ log' = Append(log, status)

Becomes(status, driver, proof) ==
    /\ order' = [status |-> status, driver |-> driver, proof |-> proof]
    /\ UNCHANGED <<page, lookup, letter>>

\* An offer puts the driver's name on the row, and is not an entry.
OfferOrders ==
    /\ order.status = "PENDING" /\ Becomes("OFFERED", "ana", order.proof)
    /\ UNCHANGED <<log, forced>>

AcceptOffer ==
    /\ order.status = "OFFERED" /\ Logged("ASSIGNED") /\ Becomes("ASSIGNED", "ana", order.proof)
    /\ UNCHANGED forced

\* Declined, lapsed, or taken back: the order returns to the queue.
Returns ==
    /\ order.status \in {"OFFERED", "ASSIGNED"} /\ Logged("PENDING") /\ Becomes("PENDING", None, order.proof)
    /\ UNCHANGED forced

Assign ==
    /\ order.status \in {"PENDING", "ASSIGNED"} /\ Logged("ASSIGNED") /\ Becomes("ASSIGNED", "ana", order.proof)
    /\ UNCHANGED forced

Allowed(from) ==
    CASE from = "ASSIGNED"   -> {"AT_PICKUP", "PICKED_UP", "IN_TRANSIT", "CANCELLED"}
      [] from = "AT_PICKUP"  -> {"PICKED_UP", "IN_TRANSIT", "CANCELLED"}
      [] from = "PICKED_UP"  -> {"IN_TRANSIT", "CANCELLED"}
      [] from = "IN_TRANSIT" -> {"ARRIVED", "CANCELLED"}
      [] from \in {"PENDING", "OFFERED", "ARRIVED"} -> {"CANCELLED"}
      [] OTHER -> {}

UpdateOrderStatus ==
    /\ \E s \in Allowed(order.status) : Logged(s) /\ Becomes(s, order.driver, order.proof)
    /\ UNCHANGED forced

ConfirmDelivery ==
    /\ order.status = "ARRIVED" /\ Logged("DELIVERED") /\ Becomes("DELIVERED", order.driver, TRUE)
    /\ UNCHANGED forced

\* A stop of a run is ticked off; what the order was is not asked.
UpdateStop ==
    /\ order.driver # None
    /\ \E s \in {"PICKED_UP", "DELIVERED"} \ {order.status} : Logged(s) /\ Becomes(s, order.driver, order.proof)
    /\ UNCHANGED forced

ForceOrderStatus ==
    /\ forced < MaxForced /\ forced' = forced + 1
    /\ \E s \in Statuses \ {order.status} : Logged(s) /\ Becomes(s, order.driver, order.proof)

-----------------------------------------------------------------------------
(* The page.  Every look-up clears what is drawn and draws what comes back;     *)
(* nothing tells a look-up that another has been begun since.                   *)

Asks(k, code, address) ==
    /\ lookup[k].at = "-" /\ \A j \in Lookups : j < k => lookup[j].at # "-"
    /\ lookup' = [lookup EXCEPT ![k].code = code, ![k].at = "reading"]
    /\ page' = [address |-> address, shipment |-> <<>>, error |-> FALSE, loading |-> TRUE]
    /\ UNCHANGED <<order, log, forced, letter>>

\* A link of the site, or the browser's own back: the page stays mounted.
Navigate(k, code) ==
    /\ code # page.address
    /\ IF code = ""
       THEN page' = [page EXCEPT !.address = code] /\ UNCHANGED <<order, log, forced, lookup, letter>>
       ELSE Asks(k, code, code)

\* A code typed and sent; the address stays as it was.
Submit(k, code) == code # "" /\ ~page.loading /\ Asks(k, code, page.address)

\* Mutant: the history is read before the row it is to explain.
HistoryFirst == <<"history", "order", "proof">>

\* What trackOrder reads, and in which order; each is a statement of its own.
Reads == <<"order", "proof", "history">>

Read(got, what) ==
    CASE what = "order"   -> [got EXCEPT !.row = [status |-> order.status, driver |-> order.driver]]
      [] what = "proof"   -> [got EXCEPT !.proof = got.row.status = "DELIVERED" /\ order.proof]
      [] what = "history" -> [got EXCEPT !.timeline = Len(log)]

TrackOrder(k) ==
    /\ lookup[k].at = "reading" /\ lookup[k].code = "ours" /\ lookup[k].reads < 3
    /\ lookup' = [lookup EXCEPT ![k].reads = @ + 1, ![k].got = Read(@, Reads[lookup[k].reads + 1])]
    /\ UNCHANGED <<order, log, forced, page, letter>>

\* What is kept of a look-up once it is answered is that it was.
Ends(k) == lookup' = [lookup EXCEPT ![k] = [code |-> "", at |-> "answered", reads |-> 0, got |-> Nothing]]

Answered(k) ==
    /\ lookup[k].at = "reading" /\ lookup[k].reads = 3 /\ Ends(k)
    /\ page' = [page EXCEPT !.shipment = <<lookup[k].got>>, !.loading = FALSE]
    /\ UNCHANGED <<order, log, forced, letter>>

\* No such code, a failed statement, or an answer that does not arrive.
Fails(k) ==
    /\ lookup[k].at = "reading" /\ Ends(k)
    /\ page' = [page EXCEPT !.error = TRUE, !.loading = FALSE]
    /\ UNCHANGED <<order, log, forced, letter>>

-----------------------------------------------------------------------------
(* The contact form, and the pre-launch page's that asks to be told.            *)

SendContactMessage ==
    /\ letter.state = "idle" /\ letter.tries < MaxLetters /\ log = <<>> /\ page.address = ""
    /\ letter' = [letter EXCEPT !.state = "sending", !.tries = @ + 1]
    /\ UNCHANGED <<order, log, forced, page, lookup>>

\* The message is inserted and dispatch alerted; then the answer arrives, or not.
SubmitContact ==
    /\ letter.state = "sending"
    /\ \E heard \in BOOLEAN :
         letter' = [letter EXCEPT !.kept = @ + 1, !.state = IF heard THEN "sent" ELSE "idle"]
    /\ UNCHANGED <<order, log, forced, page, lookup>>

ContactFails ==
    /\ letter.state = "sending" /\ letter' = [letter EXCEPT !.state = "idle"]
    /\ UNCHANGED <<order, log, forced, page, lookup>>

-----------------------------------------------------------------------------
OrderMoves == \/ OfferOrders \/ AcceptOffer \/ Returns \/ Assign \/ UpdateOrderStatus \/ ConfirmDelivery
              \/ UpdateStop \/ ForceOrderStatus

Looks(k) == \/ \E c \in Codes : Navigate(k, c) \/ Submit(k, c)
            \/ TrackOrder(k) \/ Answered(k) \/ Fails(k)

Writes == SendContactMessage \/ SubmitContact \/ ContactFails

\* The form has no state in common with the rest: it is written before the order
\* is followed, or not at all.
Next == \/ letter.tries = 0 /\ (OrderMoves \/ \E k \in Lookups : Looks(k))
        \/ Writes

Spec == Init /\ [][Next]_vars

-----------------------------------------------------------------------------
(* What the page draws.                                                         *)

MILESTONES == <<"PENDING", "ASSIGNED", "PICKED_UP", "DELIVERED">>

\* The index of the milestone a status has reached; a cancelled order has a
\* note instead of them.
REACHED_BY(status) ==
    CASE status \in {"PENDING", "OFFERED"}                 -> 1
      [] status \in {"ASSIGNED", "AT_PICKUP"}              -> 2
      [] status \in {"PICKED_UP", "IN_TRANSIT", "ARRIVED"} -> 3
      [] OTHER                                             -> 4

Shown    == page.shipment[1]
Timeline == SubSeq(log, 1, Shown.timeline)
Entered(status) == status \in ToSet(Timeline)

DeliveredOnce == Len(SelectSeq(log, LAMBDA s : s = "DELIVERED")) = 1

(* trackOrder reads the row, the proof and the history one after the other, and *)
(* the order moves in between.  Still the history it answers with has the entry *)
(* that made the status it answers with (the queue and an offer need none), a   *)
(* proof is drawn for a delivery alone, and one delivered once and with proof   *)
(* is never drawn without it.                                                   *)
StatusHasItsEntry ==
    page.shipment # <<>> =>
        /\ Shown.row.status \in {"PENDING", "OFFERED"} \/ Entered(Shown.row.status)
        /\ Shown.proof => Shown.row.status = "DELIVERED" /\ order.proof
        /\ (Shown.row.status = "DELIVERED" /\ order.proof /\ DeliveredOnce) => Shown.proof

(* TrackPage.tsx says of OFFERED that telling a customer a driver is assigned   *)
(* before one has agreed is a promise the next screen may retract.  Violated:   *)
(* an offer writes assigned_to, and the page draws the name found there.        *)
NamedHasAgreed ==
    page.shipment # <<>> /\ Shown.row.driver # None => Entered("ASSIGNED")

(* A milestone drawn as passed has its time.  Violated: the driver's app never  *)
(* sends PICKED_UP, the only status the third milestone takes its time from.    *)
DoneHasItsTime ==
    page.shipment # <<>> /\ Shown.row.status # "CANCELLED" =>
        \A i \in 2..REACHED_BY(Shown.row.status) : Entered(MILESTONES[i])

(* What is drawn answers the code last asked for.  Violated: an earlier         *)
(* look-up's answer may come after a later one's.                               *)
OneAnswer == ~(page.shipment # <<>> /\ page.error)

(* A message is kept once.  Violated by an answer that is lost.                 *)
WrittenOnce == letter.state = "sent" => letter.kept = 1
=============================================================================
