------------------------------ MODULE Payments ------------------------------
(***************************************************************************)
(* Collecting one order's fare: services/paymentService.js statement by    *)
(* statement, with the mobile-money provider it talks to.  No transaction  *)
(* spans these statements, so between any two of them another request, the *)
(* webhook, the driver's poll, the sweep or a crash may run.  Orders meet  *)
(* only in the payout and the cash debt, so one is enough here; it stays   *)
(* in a payable status and its price is settled.                           *)
(***************************************************************************)
EXTENDS Naturals, FiniteSets

CONSTANTS
    Prompts,    \* references, each of one requesttopay at MTN
    Calls,      \* HTTP requests being served: prompts, cash, placing, webhook, poll
    Sweep,      \* the timer's sweepPendingPayments, one at a time
    Prices,     \* what placing an order can price it at
    NoPrompt,   \* a call that is not about a prompt
    Faults      \* of "crash" (the process dies) and "lost" (MTN's 202 never arrives)

ASSUME CallsAssumption == Sweep \notin Calls
ASSUME PromptsAssumption == NoPrompt \notin Prompts
ASSUME FaultsAssumption == Faults \subseteq {"crash", "lost"}

VARIABLES
    payment_status,   \* orders.payment_status
    price,            \* orders.price_total
    cash,             \* orders.payment_method is CASH
    request,          \* payment_requests.status, "none" before the INSERT
    amount,           \* payment_requests.amount
    aged,             \* requests older than REQUEST_EXPIRY_MINUTES
    mtn,              \* what MTN knows of each reference
    payouts,          \* driver_payouts, by payment_request_id
    calls             \* where each call is between two statements

rows == <<request, amount, aged>>
vars == <<payment_status, price, cash, rows, mtn, payouts, calls>>

Workers  == Calls \union {Sweep}
Verdicts == {"SUCCESSFUL", "MISMATCH", "FAILED"}
Places   == {"idle", "looking", "inserting", "sending", "refused", "accepted",
             "settling", "crediting", "paying", "aging", "taking", "placing"}
Idle     == [at |-> "idle", prompt |-> NoPrompt, verdict |-> "none", cost |-> 0]

Live == {p \in Prompts : request[p] = "PENDING"}

TypeOK ==
    /\ payment_status \in {"UNPAID", "PENDING", "PAID", "FAILED"}
    /\ price \in Prices
    /\ cash \in BOOLEAN
    /\ request \in [Prompts -> {"none", "PENDING", "SUCCESSFUL", "FAILED", "TIMED_OUT"}]
    /\ amount \in [Prompts -> Prices \union {0}]
    /\ aged \in SUBSET Prompts
    /\ mtn \in [Prompts -> {"unknown", "waiting"} \union Verdicts]
    /\ payouts \in SUBSET Prompts
    /\ calls \in [Workers -> [at : Places, prompt : Prompts \union {NoPrompt},
                              verdict : Verdicts \union {"none"},
                              cost : Prices \union {0}]]

Init ==
    /\ payment_status = "UNPAID"
    /\ price \in Prices
    /\ cash = FALSE
    /\ request = [p \in Prompts |-> "none"]
    /\ amount = [p \in Prompts |-> 0]
    /\ aged = {}
    /\ mtn = [p \in Prompts |-> "unknown"]
    /\ payouts = {}
    /\ calls = [c \in Workers |-> Idle]

At(c, place) == calls[c].at = place

Goto(c, place) == calls' = [calls EXCEPT ![c].at = place]

Return(c) == calls' = [calls EXCEPT ![c] = Idle]

-----------------------------------------------------------------------------
(* requestPaymentForOrder *)

ReadOrder(c) ==
    /\ At(c, "idle")
    /\ payment_status # "PAID"
    /\ calls' = [calls EXCEPT ![c] = [Idle EXCEPT !.at = "looking", !.cost = price]]
    /\ UNCHANGED <<payment_status, price, cash, rows, mtn, payouts>>

\* A prompt in flight is reused.
FindPrompt(c) ==
    /\ At(c, "looking")
    /\ IF Live = {} THEN Goto(c, "inserting") ELSE Return(c)
    /\ UNCHANGED <<payment_status, price, cash, rows, mtn, payouts>>

\* Mutant: the table without its unique index.
NoIndex == TRUE

\* idx_payment_requests_one_live_per_order.
OneLiveIndex == Live = {}

InsertRequest(c, p) ==
    /\ At(c, "inserting")
    /\ request[p] = "none"
    /\ OneLiveIndex
    /\ request' = [request EXCEPT ![p] = "PENDING"]
    /\ amount' = [amount EXCEPT ![p] = calls[c].cost]
    /\ calls' = [calls EXCEPT ![c].at = "sending", ![c].prompt = p]
    /\ UNCHANGED <<payment_status, price, cash, aged, mtn, payouts>>

\* The index refuses the row and the request answers 500; so does the bound on
\* references.
InsertRefused(c) ==
    /\ At(c, "inserting")
    /\ ~OneLiveIndex \/ \A p \in Prompts : request[p] # "none"
    /\ Return(c)
    /\ UNCHANGED <<payment_status, price, cash, rows, mtn, payouts>>

\* requestToPay: 202, and a PIN prompt is on the handset.
SendPrompt(c) ==
    /\ At(c, "sending")
    /\ mtn' = [mtn EXCEPT ![calls[c].prompt] = "waiting"]
    /\ Goto(c, "accepted")
    /\ UNCHANGED <<payment_status, price, cash, rows, payouts>>

\* MTN refuses, or cannot be reached.
SendRefused(c) ==
    /\ At(c, "sending")
    /\ Goto(c, "refused")
    /\ UNCHANGED <<payment_status, price, cash, rows, mtn, payouts>>

\* MTN takes the request and fetchWithTimeout gives up on the answer.
AnswerLost(c) ==
    /\ "lost" \in Faults
    /\ At(c, "sending")
    /\ mtn' = [mtn EXCEPT ![calls[c].prompt] = "waiting"]
    /\ Goto(c, "refused")
    /\ UNCHANGED <<payment_status, price, cash, rows, payouts>>

\* The catch: whatever went wrong, and whatever the row says by now.
MarkRefused(c) ==
    /\ At(c, "refused")
    /\ request' = [request EXCEPT ![calls[c].prompt] = "FAILED"]
    /\ Return(c)
    /\ UNCHANGED <<payment_status, price, cash, amount, aged, mtn, payouts>>

\* The last UPDATE has no condition on what the order says by now.
MarkPending(c) ==
    /\ At(c, "accepted")
    /\ payment_status' = "PENDING"
    /\ Return(c)
    /\ UNCHANGED <<price, cash, rows, mtn, payouts>>

-----------------------------------------------------------------------------
(* The customer, MTN and the clock *)

Answer(p, verdict) ==
    /\ mtn[p] = "waiting"
    /\ mtn' = [mtn EXCEPT ![p] = verdict]
    /\ UNCHANGED <<payment_status, price, cash, rows, payouts, calls>>

GrowOld(p) ==
    /\ request[p] = "PENDING"
    /\ aged' = aged \union {p}
    /\ UNCHANGED <<payment_status, price, cash, request, amount, mtn, payouts, calls>>

-----------------------------------------------------------------------------
(* reconcilePaymentRequest, for the webhook, the driver's poll and the sweep. *)
(* An unreachable MTN, or a reference it does not know, changes nothing.  The *)
(* row is read before MTN is asked; MTN's verdicts are final, so hearing one  *)
(* while the row is still PENDING loses no outcome of the later UPDATE.       *)

\* The driver's screen, MTN's callback and the sweep all come by a reference,
\* and only one that is still outstanding is asked about.
Outstanding(p) == request[p] = "PENDING"

HearVerdict(c, p) ==
    /\ At(c, "idle")
    /\ Outstanding(p)
    /\ mtn[p] \in Verdicts
    /\ calls' = [calls EXCEPT ![c] = [Idle EXCEPT !.at = "settling", !.prompt = p,
                                                  !.verdict = mtn[p]]]
    /\ UNCHANGED <<payment_status, price, cash, rows, mtn, payouts>>

\* Mutant: the UPDATE without AND status = 'PENDING'.
SettlesAnyway(p) == TRUE

\* The UPDATE matches a row still PENDING.
StillPending(p) == request[p] = "PENDING"

\* Mutant: MTN's status alone is trusted, whatever was settled.
StatusAlone(verdict) == IF verdict = "FAILED" THEN "FAILED" ELSE "SUCCESSFUL"

\* What the row becomes; a wrong amount or currency is FAILED.
Outcome(verdict) == IF verdict = "SUCCESSFUL" THEN "SUCCESSFUL" ELSE "FAILED"

\* Somebody else's settlement stands, but a mismatch goes on to the order.
SettleRequest(c) ==
    LET p == calls[c].prompt IN
    /\ At(c, "settling")
    /\ IF StillPending(p)
       THEN request' = [request EXCEPT ![p] = Outcome(calls[c].verdict)]
       ELSE UNCHANGED request
    /\ IF StillPending(p) \/ calls[c].verdict = "MISMATCH"
       THEN Goto(c, "crediting")
       ELSE Return(c)
    /\ UNCHANGED <<payment_status, price, cash, amount, aged, mtn, payouts>>

\* Mutant: the order is credited and the payout forgotten.
CreditOnly(c) ==
    /\ At(c, "crediting")
    /\ Outcome(calls[c].verdict) = "SUCCESSFUL"
    /\ payment_status' = "PAID"
    /\ Return(c)
    /\ UNCHANGED <<price, cash, rows, mtn, payouts>>

CreditOrder(c) ==
    /\ At(c, "crediting")
    /\ Outcome(calls[c].verdict) = "SUCCESSFUL"
    /\ payment_status' = "PAID"
    /\ Goto(c, "paying")
    /\ UNCHANGED <<price, cash, rows, mtn, payouts>>

\* FAILED, whatever the order says by now.
FailOrder(c) ==
    /\ At(c, "crediting")
    /\ Outcome(calls[c].verdict) = "FAILED"
    /\ payment_status' = "FAILED"
    /\ Return(c)
    /\ UNCHANGED <<price, cash, rows, mtn, payouts>>

\* queueDriverPayout, for an order whose driver can be paid.
QueuePayout(c) ==
    /\ At(c, "paying")
    /\ payouts' = payouts \union {calls[c].prompt}
    /\ Return(c)
    /\ UNCHANGED <<payment_status, price, cash, rows, mtn>>

\* Mutant: nobody ages out a prompt nobody answers.
NeverOld(p) == FALSE

Old(p) == p \in aged

\* The sweep has just heard that MTN is still waiting.
HearWaiting(p) ==
    /\ At(Sweep, "idle")
    /\ request[p] = "PENDING"
    /\ mtn[p] = "waiting"
    /\ Old(p)
    /\ calls' = [calls EXCEPT ![Sweep] = [Idle EXCEPT !.at = "aging", !.prompt = p]]
    /\ UNCHANGED <<payment_status, price, cash, rows, mtn, payouts>>

TimeOut ==
    LET p == calls[Sweep].prompt IN
    /\ At(Sweep, "aging")
    /\ request' = IF request[p] = "PENDING"
                  THEN [request EXCEPT ![p] = "TIMED_OUT"] ELSE request
    /\ Return(Sweep)
    /\ UNCHANGED <<payment_status, price, cash, amount, aged, mtn, payouts>>

-----------------------------------------------------------------------------
(* recordCashPayment and placeOneOrder *)

CheckCash(c) ==
    /\ At(c, "idle")
    /\ payment_status # "PAID"
    /\ Live = {}
    /\ calls' = [calls EXCEPT ![c] = [Idle EXCEPT !.at = "taking"]]
    /\ UNCHANGED <<payment_status, price, cash, rows, mtn, payouts>>

TakeCash(c) ==
    /\ At(c, "taking")
    /\ IF payment_status # "PAID"
       THEN payment_status' = "PAID" /\ cash' = TRUE
       ELSE UNCHANGED <<payment_status, cash>>
    /\ Return(c)
    /\ UNCHANGED <<price, rows, mtn, payouts>>

CheckCommitted(c) ==
    /\ At(c, "idle")
    /\ payment_status \notin {"PAID", "PENDING"}
    /\ calls' = [calls EXCEPT ![c] = [Idle EXCEPT !.at = "placing"]]
    /\ UNCHANGED <<payment_status, price, cash, rows, mtn, payouts>>

\* The reprice comes after a route lookup over the network.
Reprice(c, total) ==
    /\ At(c, "placing")
    /\ price' = total
    /\ Return(c)
    /\ UNCHANGED <<payment_status, cash, rows, mtn, payouts>>

\* The process dies: every call ends between two statements.
Crash ==
    /\ "crash" \in Faults
    /\ calls' = [c \in Workers |-> Idle]
    /\ UNCHANGED <<payment_status, price, cash, rows, mtn, payouts>>

-----------------------------------------------------------------------------
\* What a call does once it is being served.
Proceed(c) ==
    \/ FindPrompt(c) \/ InsertRefused(c)
    \/ \E p \in Prompts : InsertRequest(c, p)
    \/ SendPrompt(c) \/ SendRefused(c) \/ AnswerLost(c)
    \/ MarkRefused(c) \/ MarkPending(c)
    \/ SettleRequest(c) \/ CreditOrder(c) \/ FailOrder(c) \/ QueuePayout(c)
    \/ TakeCash(c)
    \/ \E total \in Prices : Reprice(c, total)

Begin(c) == ReadOrder(c) \/ CheckCash(c) \/ CheckCommitted(c)

Next ==
    \/ \E c \in Calls : Begin(c)
    \/ \E c \in Workers : Proceed(c)
    \/ \E c \in Workers, p \in Prompts : HearVerdict(c, p)
    \/ \E p \in Prompts : HearWaiting(p) \/ GrowOld(p)
    \/ \E p \in Prompts, verdict \in Verdicts : Answer(p, verdict)
    \/ TimeOut
    \/ Crash

Spec == Init /\ [][Next]_vars

\* A served request runs to its end, time passes, and the sweep's timer keeps
\* asking about each outstanding prompt and is answered.  The customer may not.
Fairness ==
    /\ \A c \in Workers : WF_vars(Proceed(c))
    /\ \A p \in Prompts : /\ WF_vars(GrowOld(p))
                          /\ SF_vars(HearVerdict(Sweep, p))
                          /\ SF_vars(HearWaiting(p))
    /\ WF_vars(TimeOut)

FairSpec == Spec /\ Fairness

-----------------------------------------------------------------------------
(* Safety *)

\* Nobody is marked paid, and no driver's earning is queued, unless money moved:
\* MTN settled a prompt for the sum asked, or the driver took cash
\* (reconcilePaymentRequest's authoritative read and amount check).
NothingWithoutMoney ==
    /\ payment_status = "PAID" => cash \/ \E p \in Prompts : mtn[p] = "SUCCESSFUL"
    /\ \A p \in payouts : mtn[p] = "SUCCESSFUL"

\* Past the guarded UPDATE, one call alone credits a prompt, and none once its
\* payout is queued ("Idempotent by construction": a webhook and a poll together).
CreditsFor(p) == {c \in Workers : /\ calls[c].at \in {"crediting", "paying"}
                                  /\ calls[c].prompt = p
                                  /\ calls[c].verdict # "MISMATCH"}
CreditedByOne ==
    \A p \in Prompts :
        /\ \A c, d \in CreditsFor(p) : c = d
        /\ p \in payouts => CreditsFor(p) = {}

\* Two taps together do not leave two outstanding prompts, whichever check each
\* of them passed (add_one_pending_payment_per_order.sql).
OneOutstanding == \A p, q \in Live : p = q

Quiet == \A c \in Workers : At(c, "idle")

\* "on SUCCESSFUL: order.payment_status = PAID ... and the driver's earning is
\* queued for release": a collection that settled has its payout once the calls
\* about it are over.  Refuted when the process can die between the statements.
EarningQueued ==
    Quiet => \A p \in Prompts : request[p] = "SUCCESSFUL" => p \in payouts

\* Liveness: an outstanding prompt does not stay so, because the sweep asks MTN
\* and "ages out the ones nobody answered so the driver's screen stops waiting".
\* Refuted when the process can die between the INSERT and the call to MTN.
PromptResolved ==
    \A p \in Prompts : request[p] = "PENDING" ~> request[p] # "PENDING"

-----------------------------------------------------------------------------
(* What the repository says and the code does not do. *)

\* "Two prompts on one handset for one delivery is how a customer pays twice."
CustomerPaysOnce ==
    Cardinality({p \in Prompts : mtn[p] = "SUCCESSFUL"}) + (IF cash THEN 1 ELSE 0) <= 1

\* sweepPendingPayments used to leave "money collected, order unpaid, and the
\* evidence overwritten by our own clock".
PaidPromptIsOpenOrSettled ==
    \A p \in Prompts : mtn[p] = "SUCCESSFUL" => request[p] # "TIMED_OUT"

\* requestPaymentForOrder: "a request that never returns is still a row somebody
\* can reconcile rather than money in an unknown state".
FailedMeansNoMoney ==
    \A p \in Prompts : request[p] = "FAILED" => mtn[p] \notin {"waiting", "SUCCESSFUL"}

\* recordCashPayment: "No payout is queued, deliberately: doing so would pay a
\* driver a second time for money already in their pocket".
NoPayoutForCash == cash => payouts = {}

\* placeOneOrder: "Money already committed is not repriced".
ChargedThePrice ==
    \A p \in Prompts : request[p] = "SUCCESSFUL" => amount[p] = price

\* requestPaymentForOrder and recordCashPayment: "This delivery has already been
\* paid for".
PaidStaysPaid == [][payment_status = "PAID" => payment_status' = "PAID"]_vars
=============================================================================
