------------------------------ MODULE MCEarnings ------------------------------
(***************************************************************************)
(* From a fare to a driver's money, both halves of it on small instances:  *)
(* sending payouts (PayoutWorker, whose variables are this module's own)   *)
(* and collecting one fare (Payments, on x1 to x9).  A behaviour runs one  *)
(* of the two; they meet only in the payout's row, which Payments writes   *)
(* and PayoutWorker starts from.                                           *)
(***************************************************************************)
EXTENDS PayoutWorker

CONSTANTS
    d1, d2, w1,
    \* Payments: the calls beside the sweep, what a fare may cost, what may go wrong.
    FareCalls, Prices, FareFaults

TwoPayouts == {d1, d2}
OnePayout  == {d1}
OneTimer  == {w1}

AllFaults == {"crash", "lost"}
LostFault == {"lost"}

VARIABLES half, x1, x2, x3, x4, x5, x6, x7, x8, x9

fare == <<x1, x2, x3, x4, x5, x6, x7, x8, x9>>
all  == <<half, vars, fare>>

\* A payout's row names the payment request that earned it.
Fare == INSTANCE Payments WITH
    payment_status <- x1, price <- x2, cash <- x3, request <- x4, amount <- x5, aged <- x6,
    mtn <- x7, payouts <- x8, calls <- x9,
    Prompts <- Payouts, Calls <- FareCalls, Sweep <- "sweep", NoPrompt <- NoPayout,
    Faults <- FareFaults

ASSUME FareAssumption == "sweep" \notin FareCalls /\ FareFaults \subseteq {"crash", "lost"}

AllInit == half \in {"fare", "payout"} /\ Init /\ Fare!Init

Collecting(A) == half = "fare" /\ A /\ UNCHANGED <<half, vars>>
Sending(A)    == half = "payout" /\ A /\ UNCHANGED <<half, fare>>

AllNext ==
    \/ half = "fare" /\ Fare!Next /\ UNCHANGED <<half, vars>>
    \/ half = "payout" /\ Next /\ UNCHANGED <<half, fare>>

AllSpec == AllInit /\ [][AllNext]_all

\* The fairness each half's own module states.  Only one half ever runs, so asking
\* it of "this action of one or that action of the other" asks it of both.
AllFairness ==
    /\ \A w \in Timers :
        /\ WF_all(Sending(Claim(w)) \/ Collecting(Fare!Proceed("sweep")))
        /\ \A c \in FareCalls : WF_all(Sending(Step(w)) \/ Collecting(Fare!Proceed(c)))
        /\ SF_all(Sending(MarkConfirmed(w)))
        /\ \A p \in Payouts :
            /\ SF_all(Sending(ListSent(w)) \/ Collecting(Fare!HearVerdict("sweep", p)))
            /\ SF_all(Sending(Hear(w, p)) \/ Collecting(Fare!HearWaiting(p)))
    /\ \A p \in Payouts : WF_all(Collecting(Fare!GrowOld(p)))
    /\ WF_all(Collecting(Fare!TimeOut))

AllFairSpec == AllSpec /\ AllFairness

-----------------------------------------------------------------------------
\* A fare that settled has its payout once the calls about it are over
\* (reconcilePaymentRequest: "the driver's earning is queued for release").
EarningQueued == Fare!EarningQueued

\* Liveness: the sweep "ages out the ones nobody answered so the driver's screen
\* stops waiting".
PromptResolved == Fare!PromptResolved
=============================================================================
