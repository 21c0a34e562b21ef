----------------------------- MODULE TripScreen -----------------------------
(* One job on its driver's phone: the copy of it the trip screen shows, the     *)
(* requests for a newer copy that are under way, the steps the driver taps, the *)
(* ones saved for later, and the card that collects the fare.                   *)
EXTENDS Naturals, Sequences, SequencesExt, FiniteSets

CONSTANTS
    Prices,      \* whether the job may be waiting for its price, or have it
    MaxTaps,     \* bound on what the driver taps
    MaxLoads     \* bound on copies under way at once

VARIABLES
    trip,         \* the router's order: its status, whether it has its final price, its fare
    arrival,     \* whether the driver's wait at the pickup is on record
    shown,       \* the open screen's copy of it, or Closed, or Loading
    loads,       \* copies under way to that screen
    saved,       \* steps saved for later, offlineQueue.ts
    refused,     \* saved steps the router refused, shown as not sent
    phase,       \* CollectPaymentCard
    taps

vars == <<trip, arrival, shown, loads, saved, refused, phase, taps>>

\* STATUS_ORDER
Journey == <<"ASSIGNED", "AT_PICKUP", "PICKED_UP", "IN_TRANSIT", "ARRIVED", "DELIVERED">>
Steps   == Range(Journey)
Rank(s) == CHOOSE i \in DOMAIN Journey : Journey[i] = s

\* Called off, or given back to the queue: no longer this driver's.
Over == {"CANCELLED", "GONE"}

Copies  == [status : Steps \union {"OFFERED", "CANCELLED"}, priced : BOOLEAN, fare : {"unpaid", "prompted", "paid"}]
Closed  == [status |-> "closed", priced |-> FALSE, fare |-> "unpaid"]
Loading == [status |-> "loading", priced |-> FALSE, fare |-> "unpaid"]

\* A delivery is proved by a photo, or by the recipient's code.
Proofs == {"PHOTO", "CODE"}
Taken  == {"AT_PICKUP", "IN_TRANSIT", "ARRIVED"} \union Proofs
Outcome(step) == IF step \in Proofs THEN "DELIVERED" ELSE step

TypeOK ==
    /\ trip \in [status : Steps \union {"OFFERED"} \union Over, priced : BOOLEAN, fare : {"unpaid", "prompted", "paid"}]
    /\ shown \in Copies \union {Closed, Loading} /\ loads \subseteq Copies
    /\ saved \in Seq(Taken) /\ refused \subseteq Taken
    /\ arrival \in BOOLEAN /\ phase \in {"idle", "waiting"} /\ taps \in 0..MaxTaps

Init ==
    /\ \E status \in {"OFFERED", "ASSIGNED"}, priced \in Prices :
          trip = [status |-> status, priced |-> priced, fare |-> "unpaid"]
    /\ arrival = FALSE /\ shown = Closed /\ loads = {} /\ saved = <<>> /\ refused = {}
    /\ phase = "idle" /\ taps = 0

-----------------------------------------------------------------------------
(* The router, for its other callers *)

\* utils/orderTransitions.js; DELIVERED is earned by a proof only.
CanTransition(from, to) ==
    \/ from = "ASSIGNED"               /\ to \in {"AT_PICKUP", "PICKED_UP", "IN_TRANSIT"}
    \/ from = "AT_PICKUP"              /\ to \in {"PICKED_UP", "IN_TRANSIT"}
    \/ from = "PICKED_UP"              /\ to = "IN_TRANSIT"
    \/ from = "IN_TRANSIT"             /\ to = "ARRIVED"
    \/ from \notin {"DELIVERED"} \union Over /\ to = "CANCELLED"

Takes(step) == IF step \in Proofs THEN trip.status = "ARRIVED" ELSE CanTransition(trip.status, step)

\* Dispatch moves it on, calls it off unless it is paid for, or has it back;
\* arrivals are the driver's.  (An admin's forced status is in OrderLifecycle.)
Dispatch(to) ==
    /\ \/ CanTransition(trip.status, to) /\ to \notin {"AT_PICKUP", "ARRIVED"} /\ ~(to = "CANCELLED" /\ trip.fare = "paid")
       \/ trip.status \in {"OFFERED", "ASSIGNED"} /\ to = "GONE"
    /\ trip' = [trip EXCEPT !.status = to]
    /\ UNCHANGED <<arrival, shown, loads, saved, refused, phase, taps>>

PlaceOrder ==
    /\ ~trip.priced /\ TRUE \in Prices /\ trip' = [trip EXCEPT !.priced = TRUE]
    /\ UNCHANGED <<arrival, shown, loads, saved, refused, phase, taps>>

\* The customer enters the PIN, or does not.
AnswerPrompt(paid) ==
    /\ trip.fare = "prompted"
    /\ trip' = [trip EXCEPT !.fare = IF paid THEN "paid" ELSE "unpaid"]
    /\ UNCHANGED <<arrival, shown, loads, saved, refused, phase, taps>>

-----------------------------------------------------------------------------
(* The screen and its copies *)

Open == shown # Closed

\* loadOrder: the router's answer is under way, or there is none to come.
LoadOrder(row) ==
    \/ UNCHANGED loads
    \/ row.status # "GONE" /\ Cardinality(loads) < MaxLoads /\ loads' = loads \union {row}

\* From the list of jobs, which has every job that is the driver's.
OpenTrip ==
    /\ ~Open /\ shown' = Loading /\ LoadOrder(trip)
    /\ UNCHANGED <<trip, arrival, saved, refused, phase, taps>>

GoToJobs == shown' = Closed /\ loads' = {} /\ phase' = "idle"

Leave == Open /\ GoToJobs /\ UNCHANGED <<trip, arrival, saved, refused, taps>>

\* Answers come in any order, and each replaces the copy on the screen.
Arrive(copy) ==
    /\ copy \in loads /\ shown' = copy /\ loads' = loads \ {copy}
    /\ UNCHANGED <<trip, arrival, saved, refused, phase, taps>>

LoseAnswer(copy) ==
    /\ copy \in loads /\ loads' = loads \ {copy}
    /\ UNCHANGED <<trip, arrival, shown, saved, refused, phase, taps>>

IsJobInProgress(status) == status \in {"PICKED_UP", "IN_TRANSIT", "ARRIVED"}

Poll ==
    /\ IsJobInProgress(shown.status) /\ LoadOrder(trip)
    /\ UNCHANGED <<trip, arrival, shown, saved, refused, phase, taps>>

-----------------------------------------------------------------------------
(* What the driver taps.  The router takes a request or does not, and the       *)
(* phone hears its answer or does not: no signal, a timeout, a 5xx.             *)

Answered(step, taken, heard) == (taken => Takes(step)) /\ (heard /\ ~taken => ~Takes(step))

\* No ladder on a job that is only offered, or is called off.
HasProgress(status) == status \in Steps

\* nextActionForStatus: the first step ahead; the app never sends PICKED_UP.
Ahead(status) == {s \in Steps \ {"PICKED_UP"} : HasProgress(status) /\ Rank(s) > Rank(status)}

NextIs(step) == LET ahead == Ahead(shown.status)
                IN Outcome(step) \in ahead /\ \A s \in ahead : Rank(Outcome(step)) <= Rank(s)

\* A driver's step is also an arrival on record.
Record(step, taken) ==
    /\ trip' = IF taken THEN [trip EXCEPT !.status = Outcome(step)] ELSE trip
    /\ arrival' = (arrival \/ (taken /\ step = "AT_PICKUP"))

Tap == taps < MaxTaps /\ taps' = taps + 1

\* Saved for later, and the screen moved on.  A photo is first copied to where
\* it will last, which may fail, and then nothing is saved.
Keep(step, copied) ==
    IF copied THEN saved' = Append(saved, step) /\ shown' = [shown EXCEPT !.status = Outcome(step)]
    ELSE UNCHANGED <<saved, shown>>

\* Mutant: the screen moves on though the photo could not be copied.
KeepOrNot(step, copied) ==
    /\ saved' = IF copied THEN Append(saved, step) ELSE saved
    /\ shown' = [shown EXCEPT !.status = Outcome(step)]

Save(step, copied) == Keep(step, copied)

\* onAction, submitDeliveryPhoto and submitDeliveryCode.
TakeStep(step, taken, heard, copied) ==
    /\ NextIs(step) /\ Tap
    /\ Answered(step, taken, heard) /\ (step # "PHOTO" => copied)
    /\ Record(step, taken)
    /\ CASE heard /\ taken           -> LoadOrder(trip') /\ UNCHANGED <<saved, shown>>
         [] ~heard /\ step # "CODE"  -> Save(step, copied) /\ UNCHANGED loads
         [] OTHER                    -> UNCHANGED <<saved, shown, loads>>
    /\ UNCHANGED <<refused, phase>>

\* Asked before anything else of the job is.
IsOffer(copy) == copy.status = "OFFERED"

\* answerOffer; declining gives the job back.
AnswerOffer(accept, taken, heard) ==
    /\ IsOffer(shown) /\ Tap
    /\ (taken => trip.status = "OFFERED") /\ (heard /\ ~taken => trip.status # "OFFERED")
    /\ trip' = IF taken THEN [trip EXCEPT !.status = IF accept THEN "ASSIGNED" ELSE "GONE"] ELSE trip
    /\ IF heard /\ taken THEN GoToJobs ELSE UNCHANGED <<shown, loads, phase>>
    /\ UNCHANGED <<arrival, saved, refused>>

-----------------------------------------------------------------------------
(* The saved steps *)

\* Mutant: a step that failed goes to the back, and the next one is tried.
ToTheBack == Append(Tail(saved), Head(saved))

\* The flush ends there, and the queue stays as it is.
Stopped == saved

\* One step of flushOfflineQueue: sent, refused and dropped, or tried later.
Flush(taken, heard) ==
    /\ saved # <<>> /\ Answered(Head(saved), taken, heard)
    /\ Record(Head(saved), taken)
    /\ saved' = IF heard THEN Tail(saved) ELSE Stopped
    /\ refused' = IF heard /\ ~taken THEN refused \union {Head(saved)} ELSE refused
    /\ UNCHANGED <<shown, loads, phase, taps>>

\* "Try again" on one that was not sent.
RetryRejected(step) ==
    /\ step \in refused /\ Tap
    /\ refused' = refused \ {step} /\ saved' = Append(saved, step)
    /\ UNCHANGED <<trip, arrival, shown, loads, phase>>

-----------------------------------------------------------------------------
(* CollectPaymentCard *)

\* paymentPolicy, and the same gates at the router.
Collectable(copy) == copy.priced /\ copy.fare # "paid" /\ copy.status \in {"IN_TRANSIT", "ARRIVED", "DELIVERED"}

MayCollect(taken, heard) ==
    /\ Collectable(shown) /\ phase = "idle"
    /\ (taken => Collectable(trip)) /\ (heard /\ ~taken => ~Collectable(trip))

AskForMomo(taken, heard) ==
    /\ MayCollect(taken, heard)
    /\ trip' = IF taken THEN [trip EXCEPT !.fare = "prompted"] ELSE trip
    /\ phase' = IF taken /\ heard THEN "waiting" ELSE phase
    /\ UNCHANGED <<arrival, shown, loads, saved, refused, taps>>

TakeCash(taken, heard) ==
    /\ MayCollect(taken, heard)
    /\ trip' = IF taken THEN [trip EXCEPT !.fare = "paid"] ELSE trip
    /\ IF taken /\ heard THEN LoadOrder(trip') ELSE UNCHANGED loads
    /\ UNCHANGED <<arrival, shown, saved, refused, phase, taps>>

\* Paid, refused, or three minutes gone.
StopWaiting ==
    /\ phase = "waiting" /\ phase' = "idle"
    /\ IF trip.fare = "paid" THEN LoadOrder(trip) ELSE UNCHANGED loads
    /\ UNCHANGED <<trip, arrival, shown, saved, refused, taps>>

Next ==
    \/ \E to \in Steps \union Over : Dispatch(to)
    \/ PlaceOrder
    \/ OpenTrip \/ Leave \/ Poll \/ StopWaiting
    \/ \E copy \in loads : Arrive(copy) \/ LoseAnswer(copy)
    \/ \E taken, heard \in BOOLEAN :
         \/ \E step \in Taken, copied \in BOOLEAN : TakeStep(step, taken, heard, copied)
         \/ AnswerOffer(TRUE, taken, heard) \/ AnswerOffer(FALSE, taken, heard)
         \/ Flush(taken, heard) \/ AskForMomo(taken, heard) \/ TakeCash(taken, heard)
    \/ \E paid \in BOOLEAN : AnswerPrompt(paid)
    \/ \E step \in refused : RetryRejected(step)

Spec == Init /\ [][Next]_vars

-----------------------------------------------------------------------------
(* Properties *)

\* offlineQueue.ts:310-314: the router refuses a saved step only because the
\* job is there already, or further, or over, however taps, polls, the list and
\* dispatch mingle; so dropping it loses no step of the journey.
RefusedIsRedundant == \A step \in refused : trip.status \in Over \/ Rank(trip.status) >= Rank(Outcome(step))

\* trip/[id].tsx:231-234, 693: the screen says that a delivery is confirmed only
\* when the router has its proof, or the phone still has the photo to send, or
\* has told the driver that it was refused.
DeliveredIsBacked ==
    shown.status = "DELIVERED" => trip.status = "DELIVERED" \/ "PHOTO" \in Range(saved) \union refused

\* offlineQueue.ts:310-314: dropping what the router refused is no loss, so the
\* wait at the pickup that the driver reported is on record.
DroppedIsNoLoss == "AT_PICKUP" \in refused /\ trip.status \notin Over => arrival

\* trip/[id].tsx:133-143: a step that was saved is not offered, and saved, again.
SavedOnce == \A i, j \in DOMAIN saved : saved[i] = saved[j] => i = j
=============================================================================
