--------------------------- MODULE CashCommission ---------------------------
(* The platform's share of the fares one driver took in cash: the jobs that     *)
(* carry it, the driver's own mobile money prompts for it, what payouts keep    *)
(* back, what dispatch takes by hand, and the screen the driver pays from.      *)
EXTENDS Integers, FiniteSets, FiniteSetsExt

CONSTANTS
    Jobs,        \* cash jobs, in the order they are collected: 1..n
    Fee,         \* [Jobs -> amount], platform_fee
    Refs,        \* references of prompts, drawn in order: 1..n
    Calls,       \* handlers of the router running at once
    Gross,       \* earnings of the driver's other jobs, one payout each
    MaxOwed      \* MAX_DRIVER_CASH_OWED

VARIABLES
    job,         \* [Jobs -> "none", "carried", "owed" or "cleared"]
    prompt,      \* cash_settlements, and what MTN knows of each
    handlers,       \* requestCashSettlement and reconcileCashSettlement under way
    payouts,     \* earnings still to be queued
    screen,      \* cash.tsx: the debt it shows, the reference it polls
    received     \* ghost: commission the platform has got, by any way

vars == <<job, prompt, handlers, payouts, screen, received>>

Nobody == [at |-> "idle"]
NoRef  == 0
NoPrompt == [status |-> "none", amount |-> 0, mtn |-> "unknown"]

Owed     == {j \in Jobs : job[j] = "owed"}
Total(s) == MapThenSumSet(LAMBDA j : Fee[j], s)
MaxTotal == Total(Jobs)

\* cashOwedBy
Debt == Total(Owed)

TypeOK ==
    /\ job \in [Jobs -> {"none", "carried", "owed", "cleared"}]
    /\ \A r \in Refs : prompt[r].status \in {"none", "PENDING", "SUCCESSFUL", "FAILED"}
                       /\ prompt[r].amount \in 0..MaxTotal
    /\ \A c \in Calls : handlers[c].at \in {"idle", "inserting", "sending", "refused", "told", "clearing"}
    /\ payouts \subseteq Gross /\ received \in Nat

Init ==
    /\ job = [j \in Jobs |-> "none"]
    /\ prompt = [r \in Refs |-> NoPrompt]
    /\ handlers = [c \in Calls |-> Nobody]
    /\ payouts = Gross
    /\ screen = [shown |-> 0, watching |-> NoRef]
    /\ received = 0

-----------------------------------------------------------------------------
(* Jobs: given, collected in cash, and their commission handed in or kept back *)

\* cashHoldFor: no more work for a driver who holds too much.
Assign(j) ==
    /\ job[j] = "none" /\ \A i \in Jobs : i < j => job[i] \notin {"none", "carried"}
    /\ Debt <= MaxOwed
    /\ job' = [job EXCEPT ![j] = "carried"]
    /\ UNCHANGED <<prompt, handlers, payouts, screen, received>>

TakeCash(j) ==
    /\ job[j] = "carried"
    /\ job' = [job EXCEPT ![j] = "owed"]
    /\ UNCHANGED <<prompt, handlers, payouts, screen, received>>

Clear(js) == [j \in Jobs |-> IF j \in js THEN "cleared" ELSE job[j]]

SettleCashForOrder(j) ==
    /\ j \in Owed
    /\ job' = Clear({j})
    /\ received' = received + Fee[j]
    /\ UNCHANGED <<prompt, handlers, payouts, screen>>

\* Whole jobs, oldest first, up to the first that does not fit.
Covered(owed, money) == {j \in owed : Total({i \in owed : i <= j}) <= money}

\* recoverCashOwed: never more than half of a payout.
Kept(gross) == Covered(Owed, gross \div 2)

\* The jobs are locked, so a settlement being written is waited for.
QueuePayout(gross) ==
    /\ gross \in payouts /\ payouts' = payouts \ {gross}
    /\ job' = Clear(Kept(gross)) /\ received' = received + Total(Kept(gross))
    /\ UNCHANGED <<prompt, handlers, screen>>

-----------------------------------------------------------------------------
(* requestCashSettlement *)

Move(c, to) == handlers' = [handlers EXCEPT ![c] = to]

Pending == {r \in Refs : prompt[r].status = "PENDING"}
Asking  == {c \in Calls : handlers[c].at \in {"inserting", "sending", "refused"}}

\* What the screen offers: the whole debt, or a part of what it last showed.
PayButton      == screen.watching = NoRef /\ Asking = {}
MayPay(amount) == amount \in 1..screen.shown

\* The whole debt, as it is by now, unless the driver named a part of it.
AskedFor(amount) == IF amount = screen.shown THEN Debt ELSE amount

\* The debt is read again, and a prompt already on the phone is reused.
Pay(c, amount) ==
    /\ handlers[c].at = "idle" /\ PayButton /\ MayPay(amount)
    /\ LET asked == AskedFor(amount)
       IN /\ Debt > 0 /\ asked <= Debt
          /\ IF Pending # {}
             THEN screen' = [screen EXCEPT !.watching = CHOOSE r \in Pending : TRUE] /\ UNCHANGED handlers
             ELSE Move(c, [at |-> "inserting", amount |-> asked]) /\ UNCHANGED screen
    /\ UNCHANGED <<job, prompt, payouts, received>>

\* idx_cash_settlements_one_live refuses a second.
InsertSettlement(c, r) ==
    /\ handlers[c].at = "inserting" /\ prompt[r].status = "none" /\ \A q \in Refs : q < r => prompt[q].status # "none"
    /\ IF Pending # {} THEN Move(c, Nobody) /\ UNCHANGED prompt
       ELSE /\ prompt' = [prompt EXCEPT ![r] = [status |-> "PENDING", amount |-> handlers[c].amount, mtn |-> "unknown"]]
            /\ Move(c, [at |-> "sending", ref |-> r])
    /\ UNCHANGED <<job, payouts, screen, received>>

\* requestToPay: accepted and answered, accepted and the answer lost, or refused.
SendPrompt(c, accepted, heard) ==
    /\ handlers[c].at = "sending" /\ (heard => accepted)
    /\ prompt' = [prompt EXCEPT ![handlers[c].ref].mtn = IF accepted THEN "waiting" ELSE @]
    /\ IF heard THEN Move(c, Nobody) /\ screen' = [screen EXCEPT !.watching = handlers[c].ref]
       ELSE Move(c, [handlers[c] EXCEPT !.at = "refused"]) /\ UNCHANGED screen
    /\ UNCHANGED <<job, payouts, received>>

MarkFailed(c) ==
    /\ handlers[c].at = "refused"
    /\ prompt' = [prompt EXCEPT ![handlers[c].ref].status = "FAILED"]
    /\ Move(c, Nobody)
    /\ UNCHANGED <<job, payouts, screen, received>>

\* The driver's PIN: the amount asked, less than it, or none of it.
EnterPin(r, paid) ==
    /\ prompt[r].mtn = "waiting" /\ paid \in {0, 1, prompt[r].amount}
    /\ prompt' = [prompt EXCEPT ![r].mtn = IF paid = prompt[r].amount THEN "paid"
                                           ELSE "refused"]
    /\ received' = received + paid
    /\ UNCHANGED <<job, handlers, payouts, screen>>

-----------------------------------------------------------------------------
(* reconcileCashSettlement, of the callback and of the screen's poll *)

\* A callback says only that MTN has an answer; an unknown reference is a 404
\* and tells as little as no answer at all.
HasAnswer(r) == prompt[r].mtn \in {"paid", "refused"}

Ask(c, r) ==
    /\ handlers[c].at = "idle" /\ prompt[r].status = "PENDING" /\ HasAnswer(r)
    /\ Move(c, [at |-> "told", ref |-> r])
    /\ UNCHANGED <<job, prompt, payouts, screen, received>>

\* Mutant: whoever comes settles.
Anyhow(r) == prompt[r].status \in {"PENDING", "SUCCESSFUL"}

\* ... WHERE id = $1 AND status = 'PENDING'
Claimable(r) == prompt[r].status = "PENDING"

\* The claim holds the row to the end of the transaction, and the jobs owed are
\* read under it, unlocked.  The amount must be what was asked.
Claim(c) ==
    /\ handlers[c].at = "told"
    /\ LET r == handlers[c].ref IN
       /\ \A d \in Calls : ~(handlers[d].at = "clearing" /\ handlers[d].ref = r)
       /\ IF Claimable(r)
          THEN Move(c, [at |-> "clearing", ref |-> r, success |-> prompt[r].mtn = "paid",
                        jobs |-> IF prompt[r].mtn = "paid" THEN Covered(Owed, prompt[r].amount) ELSE {}])
          ELSE Move(c, Nobody)
    /\ UNCHANGED <<job, prompt, payouts, screen, received>>

\* The jobs are marked and all of it committed, or rolled back.
Commit(c, ok) ==
    /\ handlers[c].at = "clearing"
    /\ IF ok THEN /\ job' = Clear(handlers[c].jobs)
                  /\ prompt' = [prompt EXCEPT ![handlers[c].ref].status =
                                    IF handlers[c].success THEN "SUCCESSFUL" ELSE "FAILED"]
       ELSE UNCHANGED <<job, prompt>>
    /\ Move(c, Nobody)
    /\ UNCHANGED <<payouts, screen, received>>

-----------------------------------------------------------------------------
(* The screen *)

LoadSummary ==
    /\ screen' = [screen EXCEPT !.shown = Debt]
    /\ UNCHANGED <<job, prompt, handlers, payouts, received>>

Settled(r) == prompt[r].status # "PENDING"

\* A poll that finds it settled, or three minutes gone: "check your wallet
\* before paying again".
StopWatching ==
    /\ screen.watching # NoRef
    /\ screen' = [shown |-> IF Settled(screen.watching) THEN Debt ELSE screen.shown, watching |-> NoRef]
    /\ UNCHANGED <<job, prompt, handlers, payouts, received>>

\* A process that dies leaves what it had written.
Die(c) ==
    /\ handlers[c].at \notin {"idle", "clearing"}
    /\ Move(c, Nobody)
    /\ UNCHANGED <<job, prompt, payouts, screen, received>>

Next ==
    \/ \E j \in Jobs : Assign(j) \/ TakeCash(j) \/ SettleCashForOrder(j)
    \/ \E gross \in Gross : QueuePayout(gross)
    \/ \E c \in Calls :
         \/ \E amount \in 1..MaxTotal : Pay(c, amount)
         \/ \E r \in Refs : InsertSettlement(c, r) \/ Ask(c, r)
         \/ \E accepted, heard \in BOOLEAN : SendPrompt(c, accepted, heard)
         \/ MarkFailed(c) \/ Claim(c) \/ \E ok \in BOOLEAN : Commit(c, ok)
         \/ Die(c)
    \/ \E r \in Refs : \E paid \in 0..MaxTotal : EnterPin(r, paid)
    \/ LoadSummary \/ StopWatching

Spec == Init /\ [][Next]_vars

-----------------------------------------------------------------------------
(* Properties *)

\* paymentService.js:400, 791: however prompts, payouts and dispatch settle the
\* same debt, and however often one answer is reported, no commission is
\* written off that nobody paid.
NothingWrittenOff == Total({j \in Jobs : job[j] = "cleared"}) <= received

\* add_cash_settlements.sql:33: a driver does not pay one commission twice.
OwedIsPaidOnce == received <= Total({j \in Jobs : job[j] \in {"owed", "cleared"}})
=============================================================================
