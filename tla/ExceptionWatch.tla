--------------------------- MODULE ExceptionWatch ---------------------------
(* The board of what needs a human: one job through its life, the clocks and    *)
(* the money that its groups are read from, and the screen that asks for them   *)
(* every minute.  Groups about codes, papers and faults are left out.           *)
EXTENDS Naturals

CONSTANT Asks    \* bound on reports asked for and not yet shown

VARIABLES
    order,       \* the orders row
    since,       \* how long ago updated_at is: "now", over "half" an hour, over two: "long"
    phone,       \* the driver's phone, and its row of driver_locations
    prompt,      \* the payment prompt that is PENDING: "none", "new", or "old" after half an hour
    asked,       \* reports asked for: under way, refused, or read
    screen

vars == <<order, since, phone, prompt, asked, screen>>

Statuses == {"PENDING", "OFFERED", "ASSIGNED", "AT_PICKUP", "PICKED_UP", "IN_TRANSIT", "ARRIVED",
             "DELIVERED", "CANCELLED"}

OrderRows == [status : Statuses, named : BOOLEAN, placed : BOOLEAN, price : {"none", "estimate", "real"},
           payment : {"UNPAID", "PENDING", "PAID", "FAILED"}, holding : BOOLEAN, adjusted : BOOLEAN,
           expiry : {"none", "running", "past"}]

\* reported: never, before the order was last touched, or since; live: within a minute.
Phones == [on : BOOLEAN, reported : {"never", "before", "since"}, live : BOOLEAN]

\* What a report says: something is wrong, nothing is, or nothing although something is.
Says == {"busy", "clear", "wrong"}

TypeOK ==
    /\ order \in OrderRows /\ since \in {"now", "half", "long"} /\ phone \in Phones
    /\ prompt \in {"none", "new", "old"} /\ asked \in [Asks -> {"free", "sent", "failed"} \union Says]
    /\ screen \in [says : {"nothing yet"} \union Says, error : BOOLEAN, loading : BOOLEAN]

Init ==
    /\ order = [status |-> "PENDING", named |-> FALSE, placed |-> FALSE, price |-> "estimate",
                payment |-> "UNPAID", holding |-> FALSE, adjusted |-> FALSE, expiry |-> "none"]
    /\ since = "now" /\ prompt = "none"
    /\ phone \in {[on |-> FALSE, reported |-> "never", live |-> FALSE], [on |-> TRUE, reported |-> "before", live |-> TRUE]}
    /\ asked = [a \in Asks |-> "free"] /\ screen = [says |-> "nothing yet", error |-> FALSE, loading |-> FALSE]

-----------------------------------------------------------------------------
(* GROUPS: of the one job, which hold it.                                       *)

Given     == order.status = "ASSIGNED"
Delivered == order.status = "DELIVERED"
Unpriced  == order.price = "none"

unplaced_orders     == order.status = "PENDING" /\ ~order.placed
unanswered_offers   == order.status = "OFFERED" /\ order.expiry = "past"

\* Mutant: an inner join, which a phone that never reported is not in.
JoinedDark == Given /\ order.named /\ since # "now" /\ phone.reported = "before"

assigned_driver_dark == Given /\ order.named /\ since # "now" /\ phone.reported \in {"never", "before"}

assigned_to_nobody  == Given /\ ~order.named
payment_outstanding == Delivered /\ order.payment = "UNPAID" /\ ~Unpriced
delivered_unpriced  == Delivered /\ Unpriced
payment_stuck       == prompt = "old"
cash_not_handed_in  == order.holding

settlement_outstanding == order.adjusted

stalled_at_pickup   == order.status = "AT_PICKUP" /\ since = "long"

delivery_not_confirmed == order.status = "ARRIVED" /\ since = "long"

stale_signal        == order.status \in {"PICKED_UP", "IN_TRANSIT"} /\ ~phone.live

price_still_estimate == order.price = "estimate" /\ order.status \notin {"DELIVERED", "CANCELLED"}

\* What the screen ranks; BACKLOGS get one quiet line each.
Groups == <<unanswered_offers, assigned_driver_dark, assigned_to_nobody, payment_outstanding, payment_stuck,
            cash_not_handed_in, settlement_outstanding, stalled_at_pickup, delivery_not_confirmed,
            stale_signal, price_still_estimate>>
Backlogs == unplaced_orders \/ delivered_unpriced

Ranked(failing) == \E g \in DOMAIN Groups \ failing : Groups[g]

-----------------------------------------------------------------------------
(* The job *)

\* updated_at = NOW()
Touch == since' = "now" /\ phone' = [phone EXCEPT !.reported = IF @ = "never" THEN @ ELSE "before"]

\* By the dashboard; the driver's own doors need the phone to be on.
Becomes(row) == order' = row /\ Touch /\ UNCHANGED <<prompt, asked, screen>>

\* The pins are written, then the price, which a routing service may refuse.
Place(repriced) ==
    /\ order.payment \notin {"PAID", "PENDING"}
    /\ Becomes([order EXCEPT !.placed = TRUE, !.price = IF repriced THEN "real" ELSE @])

Offer ==
    /\ order.status = "PENDING" /\ order.placed
    /\ Becomes([order EXCEPT !.status = "OFFERED", !.named = TRUE, !.expiry = "running"])

AnswerOffer(accepted) ==
    /\ order.status = "OFFERED" /\ order.expiry # "past" /\ phone.on
    /\ Becomes([order EXCEPT !.status = IF accepted THEN "ASSIGNED" ELSE "PENDING", !.named = accepted, !.expiry = "none"])

OfferSwept ==
    /\ unanswered_offers
    /\ Becomes([order EXCEPT !.status = "PENDING", !.named = FALSE, !.expiry = "none"])

Assign ==
    /\ order.status = "PENDING" /\ order.placed
    /\ Becomes([order EXCEPT !.status = "ASSIGNED", !.named = TRUE])

Unassign ==
    /\ order.status \in {"ASSIGNED", "AT_PICKUP"} /\ order.named
    /\ Becomes([order EXCEPT !.status = "PENDING", !.named = FALSE])

Follows == {<<"ASSIGNED", "AT_PICKUP">>, <<"AT_PICKUP", "PICKED_UP">>, <<"PICKED_UP", "IN_TRANSIT">>,
            <<"IN_TRANSIT", "ARRIVED">>, <<"ARRIVED", "DELIVERED">>}

\* The driver, or a dispatcher for a driver whose phone is dead.
Advance(to) == <<order.status, to>> \in Follows /\ Becomes([order EXCEPT !.status = to])

\* forceOrderStatus writes the status and nothing else.
ForceStatus(to) == to # order.status /\ Becomes([order EXCEPT !.status = to])

\* setOrderPriority
Reprioritise == Becomes(order)

\* requestPaymentForOrder, reconcilePaymentRequest and recordCashPayment
Chargeable ==
    /\ order.status \in {"IN_TRANSIT", "ARRIVED", "DELIVERED"} /\ order.price = "real"
    /\ order.payment # "PAID" /\ prompt = "none"

RequestPayment ==
    /\ Chargeable /\ order' = [order EXCEPT !.payment = "PENDING"] /\ prompt' = "new"
    /\ Touch /\ UNCHANGED <<asked, screen>>

PromptSettled(verdict) ==
    /\ prompt # "none" /\ prompt' = "none" /\ order' = [order EXCEPT !.payment = verdict]
    /\ Touch /\ UNCHANGED <<asked, screen>>

\* The sweep's TIMED_OUT is written on the request alone.
PromptTimesOut ==
    /\ prompt # "none" /\ prompt' = "none"
    /\ UNCHANGED <<order, since, phone, asked, screen>>

TakeCash == Chargeable /\ Becomes([order EXCEPT !.payment = "PAID", !.holding = TRUE])
HandIn   == order.holding /\ Becomes([order EXCEPT !.holding = FALSE])

\* recordActuals, on a job that has been paid for
Adjust == order.payment = "PAID" /\ ~order.adjusted /\ Becomes([order EXCEPT !.adjusted = TRUE])

-----------------------------------------------------------------------------
(* Time and the phone *)

Older(t) == CASE t = "now" -> "half" [] OTHER -> "long"

\* Half an hour or more, in which a phone that is on has reported.
Tick ==
    /\ since' = Older(since)
    /\ prompt' = IF prompt = "none" THEN "none" ELSE "old"
    /\ order' = [order EXCEPT !.expiry = IF @ = "none" THEN @ ELSE "past"]
    /\ phone' = IF phone.on THEN [phone EXCEPT !.reported = "since", !.live = TRUE] ELSE [phone EXCEPT !.live = FALSE]
    /\ UNCHANGED <<asked, screen>>

Report ==
    /\ phone' = [on |-> TRUE, reported |-> "since", live |-> TRUE]
    /\ UNCHANGED <<order, since, prompt, asked, screen>>

PhoneDies ==
    /\ phone.on /\ phone' = [phone EXCEPT !.on = FALSE]
    /\ UNCHANGED <<order, since, prompt, asked, screen>>

-----------------------------------------------------------------------------
(* The screen *)

Ask(a) ==
    /\ asked[a] = "free" /\ asked' = [asked EXCEPT ![a] = "sent"]
    /\ screen' = [screen EXCEPT !.loading = TRUE]
    /\ UNCHANGED <<order, since, phone, prompt>>

Reading(failing) == IF Ranked(failing) THEN "busy" ELSE IF Ranked({}) THEN "wrong" ELSE "clear"

\* Mutant: a group whose query fails counts as empty.
GroupByGroup(failing) == Reading(failing)

\* getExceptions: one query fails, and all of them do.
AllOrNothing(failing) == IF failing = {} THEN Reading({}) ELSE "failed"

GetExceptions(a, failing) ==
    /\ asked[a] = "sent" /\ asked' = [asked EXCEPT ![a] = AllOrNothing(failing)]
    /\ UNCHANGED <<order, since, phone, prompt, screen>>

\* Another request may still be under way: its spinner ends with this one.
Shown(a) ==
    /\ asked[a] \in {"failed"} \union Says /\ asked' = [asked EXCEPT ![a] = "free"]
    /\ screen' = IF asked[a] = "failed" THEN [screen EXCEPT !.error = TRUE, !.loading = FALSE]
                 ELSE [says |-> asked[a], error |-> FALSE, loading |-> FALSE]
    /\ UNCHANGED <<order, since, phone, prompt>>

Next ==
    \/ \E b \in BOOLEAN : Place(b) \/ AnswerOffer(b)
    \/ Offer \/ OfferSwept \/ Assign \/ Unassign \/ Reprioritise
    \/ \E to \in Statuses : Advance(to) \/ ForceStatus(to)
    \/ RequestPayment \/ PromptTimesOut \/ TakeCash \/ HandIn \/ Adjust
    \/ \E verdict \in {"PAID", "FAILED"} : PromptSettled(verdict)
    \/ Tick \/ Report \/ PhoneDies
    \/ \E a \in Asks : Ask(a) \/ Shown(a) \/ GetExceptions(a, {}) \/ \E g \in DOMAIN Groups : GetExceptions(a, {g})

Spec == Init /\ [][Next]_vars

-----------------------------------------------------------------------------
(* Properties *)

\* exceptionController.js:115-125: a job that is with somebody, that nobody has
\* touched for two hours and whose driver has not been heard of since is in a
\* group, also if that phone has never reported at all.
SilentIsSeen ==
    /\ order.status \in {"ASSIGNED", "AT_PICKUP", "PICKED_UP", "IN_TRANSIT", "ARRIVED"}
    /\ since = "long" /\ phone.reported # "since"
    => assigned_driver_dark \/ assigned_to_nobody \/ stalled_at_pickup \/ stale_signal \/ delivery_not_confirmed

\* ExceptionsHome.tsx:146, "Nothing is going wrong that the system can see".
Clear == ~screen.loading /\ ~screen.error /\ screen.says \notin {"busy"}

\* exceptionController.js:392-429: the screen says so only after a report whose
\* every group was read and empty, however many queries fail and in whatever
\* order the answers come.
ClearWasTrue == Clear => screen.says # "wrong"

\* What they rest on: a phone that is live long after the job was touched has
\* reported since, and no report says that nothing is wrong when something is.
SignalInv  == since # "now" /\ phone.live => phone.reported = "since"
ReportsInv == screen.says # "wrong" /\ \A a \in Asks : asked[a] # "wrong"

\* exceptionController.js:148-152: delivered, priced and the money not in.
UnpaidIsSeen == Delivered /\ order.price = "real" /\ order.payment # "PAID" /\ prompt = "none" => payment_outstanding

\* exceptionController.js:106-119: the driver of a job not yet started is dark.
DarkIsSeen == Given /\ order.named /\ since = "long" /\ ~phone.live => assigned_driver_dark

\* expire-job-offers.js:4-7: an offer parked on a phone does not stay unseen.
OfferEnds == order.status = "OFFERED" /\ since = "long" => unanswered_offers
=============================================================================
