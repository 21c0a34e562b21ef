---------------------------- MODULE BookingForm -----------------------------
(* A customer booking on the public site: OrderFlow's draft, its address       *)
(* fields and its price, the page's URL and session storage, and the router's  *)
(* quote and order endpoints.  Requests answer late or not at all, and the     *)
(* page may be left or reloaded at any time.                                   *)
EXTENDS Integers, FiniteSets

CONSTANTS
    Texts,       \* what an address field may say; picking a place says its label
    Weights,     \* weights typed; 0 is an empty or meaningless field
    TooHeavy,    \* MAX_SELF_SERVICE_KG is below this one
    MaxFetches   \* bound: quote requests under way

Ends  == {"pickup", "delivery"}
NoPin == 0
Blank == [text |-> 0, pin |-> NoPin]      \* 0: nothing typed
Unpinned  == <<>>
NoQuote   == [weight |-> 0]
EmptyForm == [address |-> [e \in Ends |-> Blank], weight |-> 0, contact |-> FALSE]

VARIABLES
    form,        \* draft and weightInput
    requested,   \* requestedStep: the ?step= of the URL
    kept,        \* the draft in session storage
    timer,       \* the 400 ms before a quote is asked
    fetches,     \* quote requests under way: <<weight, route, cancelled>>
    quote,       \* the quote shown: weight and route it was asked for
    quoting,
    sending,     \* "no", the order on its way, or the answer on its way back; one
                 \* order at a time, so that a page left waits for its order to land
    token,       \* the tracking code is on the screen
    told         \* ghost: the draft kept is one whose code was shown

vars == <<form, requested, kept, timer, fetches, quote, quoting, sending, token, told>>
page == <<timer, fetches, quote, quoting>>

\* Both ends or neither.
Route(f) == IF \A e \in Ends : f.address[e].pin # NoPin
            THEN <<f.address["pickup"].pin, f.address["delivery"].pin>> ELSE Unpinned

TypeOK ==
    /\ form.weight \in Weights \union {0} /\ form.contact \in BOOLEAN
    /\ form.address \in [Ends -> [text : Texts \union {0}, pin : Texts \union {NoPin}]]
    /\ requested \in 0..2
    /\ kept = EmptyForm \/ kept.address \in [Ends -> [text : Texts \union {0}, pin : Texts \union {NoPin}]]
    /\ timer \in BOOLEAN /\ quoting \in BOOLEAN /\ token \in BOOLEAN /\ told \in BOOLEAN
    /\ Cardinality(fetches) <= MaxFetches

Init ==
    /\ form = EmptyForm /\ requested = 0 /\ kept = EmptyForm
    /\ timer = FALSE /\ fetches = {} /\ quote = NoQuote /\ quoting = FALSE
    /\ sending = [at |-> "no"] /\ token = FALSE /\ told = FALSE

CargoValid   == (\A e \in Ends : form.address[e].text # 0) /\ form.weight > 0

ContactValid == form.contact

\* A step is only reachable once the ones before it are filled in.
Step == LET reach == IF ~CargoValid THEN 0 ELSE IF ~ContactValid THEN 1 ELSE 2
        IN IF requested < reach THEN requested ELSE reach

-----------------------------------------------------------------------------
(* Typing *)

\* Mutant: an answer counts whenever it comes.
StillAwaited == fetches

\* The effect's cleanup cancels the request under way.
Cancelled == {[f EXCEPT !.cancelled = TRUE] : f \in fetches}

\* The effect: a new weight or a new route asks again in 400 ms.
Requote(f) ==
    IF f.weight = form.weight /\ Route(f) = Route(form) THEN UNCHANGED page
    ELSE /\ fetches' = Cancelled
         /\ timer' = (f.weight > 0) /\ quoting' = (f.weight > 0)
         /\ quote' = IF f.weight > 0 THEN quote ELSE NoQuote

Edit(f) ==
    /\ ~token /\ f # form
    /\ form' = f /\ kept' = f /\ told' = FALSE
    /\ Requote(f)
    /\ UNCHANGED <<requested, sending, token>>

TypeAddress(e, text) ==
    Step = 0 /\ Edit([form EXCEPT !.address[e] = [text |-> text, pin |-> NoPin]])

\* Of the places that match what stands in the field; coming back to it, one
\* already pinned is searched for again.
PickPlace(e, place) ==
    /\ Step = 0 /\ form.address[e].text # 0
    /\ Edit([form EXCEPT !.address[e] = [text |-> place, pin |-> place]])

TypeWeight(w)  == Step = 0 /\ Edit([form EXCEPT !.weight = w])
TypeContact(b) == Step = 1 /\ Edit([form EXCEPT !.contact = b])

-----------------------------------------------------------------------------
(* The price as it is typed *)

AskQuote ==
    /\ timer /\ Cardinality(fetches) < MaxFetches
    /\ timer' = FALSE
    /\ fetches' = fetches \union {[weight |-> form.weight, route |-> Route(form), cancelled |-> FALSE]}
    /\ UNCHANGED <<form, requested, kept, quote, quoting, sending, token, told>>

\* getQuote prices it, refuses a load that needs a person, or cannot be reached.
QuoteAnswered(f, ok) ==
    /\ f \in fetches
    /\ ok => f.weight < TooHeavy
    /\ fetches' = fetches \ {f}
    /\ IF f.cancelled THEN UNCHANGED <<quote, quoting>>
       ELSE /\ quote' = IF ok THEN [weight |-> f.weight, route |-> f.route] ELSE NoQuote
            /\ quoting' = FALSE
    /\ UNCHANGED <<form, requested, kept, timer, sending, token, told>>

-----------------------------------------------------------------------------
(* The pages *)

\* Continue, where the step is complete; Back hands over to the browser.
Advance ==
    /\ ~token
    /\ (Step = 0 /\ CargoValid) \/ (Step = 1 /\ ContactValid)
    /\ requested' = Step + 1
    /\ UNCHANGED <<form, kept, page, sending, token, told>>

Back(to) ==
    /\ to \in 0..2 /\ to # requested
    /\ requested' = to
    /\ UNCHANGED <<form, kept, page, sending, token, told>>

\* A reload, or leaving and coming back: what session storage kept.
Reload ==
    /\ form' = kept /\ token' = FALSE
    /\ sending' = IF sending.at = "order" THEN [sending EXCEPT !.heard = FALSE] ELSE [at |-> "no"]
    /\ fetches' = {} /\ quote' = NoQuote
    /\ timer' = (kept.weight > 0) /\ quoting' = (kept.weight > 0)
    /\ UNCHANGED <<requested, kept, told>>

-----------------------------------------------------------------------------
(* Booking *)

\* The pins go both or neither, as the endpoint wants them.
Pinned == Route(form)

Confirm ==
    /\ Step = 2 /\ ~token /\ sending.at = "no"
    /\ sending' = [at |-> "order", weight |-> form.weight, place |-> Pinned, heard |-> TRUE]
    /\ UNCHANGED <<form, requested, kept, page, token, told>>

HalfPinned(place) == place # Unpinned /\ \E i \in DOMAIN place : place[i] = NoPin

\* createOrder refuses half a pair, one outside the market, a heavy load, and
\* otherwise prices the job and inserts it.
CreateOrder ==
    /\ sending.at = "order"
    /\ LET answer == IF HalfPinned(sending.place) THEN "half"
                     ELSE IF sending.weight >= TooHeavy THEN "heavy" ELSE "code"
       IN sending' = IF sending.heard THEN [at |-> "answer", says |-> answer] ELSE [at |-> "no"]
    /\ UNCHANGED <<form, requested, kept, page, token, told>>

\* Or the order never gets there, or its pricing fails.
OrderFails ==
    /\ sending.at = "order"
    /\ sending' = IF sending.heard THEN [at |-> "answer", says |-> "failed"] ELSE [at |-> "no"]
    /\ UNCHANGED <<form, requested, kept, page, token, told>>

\* Mutant: the draft stays.
KeepDraft == kept

\* sessionStorage.removeItem(DRAFT_KEY)
AfterBooking == EmptyForm

\* The answer, heard by the page that asked: the code and no more draft, or an
\* error and the button again.  An answer lost on its way reads as an error.
HearAnswer(lost) ==
    /\ sending.at = "answer"
    /\ sending' = [at |-> "no"]
    /\ IF sending.says = "code" /\ ~lost
       THEN token' = TRUE /\ kept' = AfterBooking /\ told' = (AfterBooking # EmptyForm)
       ELSE UNCHANGED <<token, kept, told>>
    /\ UNCHANGED <<form, requested, page>>

Next ==
    \/ \E e \in Ends, text \in Texts \union {0} : TypeAddress(e, text)
    \/ \E e \in Ends, place \in Texts : PickPlace(e, place)
    \/ \E w \in Weights \union {0} : TypeWeight(w)
    \/ \E b \in BOOLEAN : TypeContact(b)
    \/ AskQuote
    \/ \E f \in fetches, ok \in BOOLEAN : QuoteAnswered(f, ok)
    \/ Advance \/ Reload \/ \E to \in 0..2 : Back(to)
    \/ Confirm \/ CreateOrder \/ OrderFails \/ \E lost \in BOOLEAN : HearAnswer(lost)

Spec == Init /\ [][Next]_vars

-----------------------------------------------------------------------------
(* Properties *)

\* OrderFlow.tsx:111: a price on the screen, with no other on its way, is the
\* price of what the form says, however the answers came back.
QuoteFitsForm ==
    quote # NoQuote /\ ~quoting => quote.weight = form.weight /\ quote.route = Route(form)

\* OrderFlow.tsx:204: a booking whose code was shown is not sent again, by a
\* reload or the back button.
ToldIsDone == sending.at # "no" => ~told
=============================================================================
