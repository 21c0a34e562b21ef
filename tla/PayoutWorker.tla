---------------------------- MODULE PayoutWorker ----------------------------
(***************************************************************************)
(* Sending drivers their money: services/payoutWorker.js, statement by     *)
(* statement, with MTN's disbursement service.  Each worker is the timer   *)
(* of one server process, which runs one tick at a time.  Every attempt    *)
(* gets a fresh reference, named here by the number of the attempt; 0 is   *)
(* the one queueDriverPayout gave the row, which was never sent.           *)
(***************************************************************************)
EXTENDS Naturals, FiniteSets

CONSTANTS
    Payouts,
    Timers,
    MaxAttempts,   \* MAX_ATTEMPTS, and so the bound on references
    NoPayout,      \* a worker between two payouts
    Faults         \* of "crash" (a process dies) and "lost" (a 202 never arrives)

ASSUME PayoutsAssumption == NoPayout \notin Payouts
ASSUME AttemptsAssumption == MaxAttempts \in Nat \ {0}

VARIABLES
    status,      \* driver_payouts.status
    attempts,    \* driver_payouts.attempts
    reference,   \* driver_payouts.reference
    sent,        \* payouts whose sent_at is not null
    due,         \* payouts whose release_at is past
    mtn,         \* what MTN knows of each attempt's transfer
    unheard,     \* transfers MTN accepted whose answer was lost
    worker       \* where each tick is, with the rows it read

row  == <<status, attempts, reference, sent>>
vars == <<row, due, mtn, unheard, worker>>

Refs     == 0 .. MaxAttempts
Verdicts == {"SUCCESSFUL", "FAILED"}
Places   == {"idle", "sending", "landed", "writing", "calling", "stamping",
             "failed", "confirming", "marking"}

Idle == [at |-> "idle", todo |-> {}, payout |-> NoPayout,
         row |-> [p \in Payouts |-> [attempts |-> 0, reference |-> 0]],
         verdict |-> "none"]

TypeOK ==
    /\ status \in [Payouts -> {"QUEUED", "SENDING", "SUCCESSFUL", "FAILED"}]
    /\ attempts \in [Payouts -> Refs]
    /\ reference \in [Payouts -> Refs]
    /\ sent \in SUBSET Payouts
    /\ due \in SUBSET Payouts
    /\ mtn \in [Payouts -> [Refs -> {"unknown", "PENDING"} \union Verdicts]]
    /\ unheard \in SUBSET (Payouts \X Refs)
    /\ worker \in [Timers -> [at : Places, todo : SUBSET Payouts,
                               payout : Payouts \union {NoPayout},
                               row : [Payouts -> [attempts : Refs, reference : Refs]],
                               verdict : Verdicts \union {"none"}]]

Init ==
    /\ status = [p \in Payouts |-> "QUEUED"]
    /\ attempts = [p \in Payouts |-> 0]
    /\ reference = [p \in Payouts |-> 0]
    /\ sent = {}
    /\ due = {}
    /\ mtn = [p \in Payouts |-> [a \in Refs |-> "unknown"]]
    /\ unheard = {}
    /\ worker = [w \in Timers |-> Idle]

At(w, place)    == worker[w].at = place
Goto(w, place)  == worker' = [worker EXCEPT ![w].at = place]
Back(w, place)  == worker' = [worker EXCEPT ![w].at = place, ![w].payout = NoPayout,
                                            ![w].verdict = "none"]
Attempt(w)      == worker[w].row[worker[w].payout].attempts

\* A worker takes up payouts as it read them, the rows as they are now.
TakeUp(w, place, ps, tried) ==
    worker' = [worker EXCEPT ![w] =
        [Idle EXCEPT !.at = place, !.todo = ps,
                     !.row = [p \in Payouts |->
                         IF p \in ps
                         THEN [attempts |-> tried[p], reference |-> reference[p]]
                         ELSE [attempts |-> 0, reference |-> 0]]]]

-----------------------------------------------------------------------------
(* The loop over claimed payouts *)

Release(p) ==
    /\ due' = due \union {p}
    /\ UNCHANGED <<row, mtn, unheard, worker>>

Claimable(p) == p \in due /\ status[p] = "QUEUED" /\ attempts[p] < MaxAttempts

\* One UPDATE claims everything due; LIMIT 20 is out of the bounds.
Claim(w) ==
    LET ps == {p \in Payouts : Claimable(p)} IN
    /\ At(w, "idle")
    /\ status' = [p \in Payouts |-> IF p \in ps THEN "SENDING" ELSE status[p]]
    /\ attempts' = [p \in Payouts |-> IF p \in ps THEN attempts[p] + 1 ELSE attempts[p]]
    /\ TakeUp(w, "sending", ps, attempts')
    /\ UNCHANGED <<reference, sent, due, mtn, unheard>>

\* alreadyLanded: only SUCCESSFUL counts; PENDING and 404 are sent again.
Landed(verdict) == verdict = "SUCCESSFUL"

TakeNext(w, p, place) ==
    /\ At(w, "sending")
    /\ p \in worker[w].todo
    /\ worker' = [worker EXCEPT ![w].at = place, ![w].payout = p, ![w].todo = @ \ {p}]
    /\ UNCHANGED <<row, due, mtn, unheard>>

AskPrior(w, p) ==
    LET was == worker[w].row[p] IN
    TakeNext(w, p, IF was.attempts > 1 /\ Landed(mtn[p][was.reference])
                   THEN "landed" ELSE "writing")

\* MTN cannot be reached, so alreadyLanded throws.
AskPriorFails(w, p) ==
    /\ worker[w].row[p].attempts > 1
    /\ TakeNext(w, p, "failed")

MarkLanded(w) ==
    /\ At(w, "landed")
    /\ status' = [status EXCEPT ![worker[w].payout] = "SUCCESSFUL"]
    /\ Back(w, "sending")
    /\ UNCHANGED <<attempts, reference, sent, due, mtn, unheard>>

WriteReference(w) ==
    /\ At(w, "writing")
    /\ reference' = [reference EXCEPT ![worker[w].payout] = Attempt(w)]
    /\ Goto(w, "calling")
    /\ UNCHANGED <<status, attempts, sent, due, mtn, unheard>>

TransferAccepted(w) ==
    /\ At(w, "calling")
    /\ mtn' = [mtn EXCEPT ![worker[w].payout][Attempt(w)] = "PENDING"]
    /\ Goto(w, "stamping")
    /\ UNCHANGED <<row, due, unheard>>

TransferRefused(w) ==
    /\ At(w, "calling")
    /\ Goto(w, "failed")
    /\ UNCHANGED <<row, due, mtn, unheard>>

\* MTN accepts the transfer and fetchWithTimeout gives up on its answer.
AnswerLost(w) ==
    /\ "lost" \in Faults
    /\ At(w, "calling")
    /\ mtn' = [mtn EXCEPT ![worker[w].payout][Attempt(w)] = "PENDING"]
    /\ unheard' = unheard \union {<<worker[w].payout, Attempt(w)>>}
    /\ Goto(w, "failed")
    /\ UNCHANGED <<row, due>>

StampSent(w) ==
    /\ At(w, "stamping")
    /\ sent' = sent \union {worker[w].payout}
    /\ Back(w, "sending")
    /\ UNCHANGED <<status, attempts, reference, due, mtn, unheard>>

\* The catch, whatever went wrong.
Requeue(w) ==
    /\ At(w, "failed")
    /\ status' = [status EXCEPT ![worker[w].payout] =
                      IF Attempt(w) >= MaxAttempts THEN "FAILED" ELSE "QUEUED"]
    /\ Back(w, "sending")
    /\ UNCHANGED <<attempts, reference, sent, due, mtn, unheard>>

-----------------------------------------------------------------------------
(* confirmSentPayouts *)

\* Mutant: only payouts that could still be tried again are asked about.
ConfirmableBefore(p) == p \in sent /\ status[p] = "SENDING" /\ attempts[p] < MaxAttempts

Confirmable(p) == p \in sent /\ status[p] = "SENDING"

ListSent(w) ==
    /\ At(w, "sending")
    /\ worker[w].todo = {}
    /\ TakeUp(w, "confirming", {p \in Payouts : Confirmable(p)}, attempts)
    /\ UNCHANGED <<row, due, mtn, unheard>>

\* Mutant: a transfer still in flight is taken for one that failed.
DecidedIfKnown(verdict) == verdict # "unknown"

Decided(verdict) == verdict \in Verdicts

Hear(w, p) ==
    LET verdict == mtn[p][worker[w].row[p].reference] IN
    /\ At(w, "confirming")
    /\ p \in worker[w].todo
    /\ Decided(verdict)
    /\ worker' = [worker EXCEPT ![w].at = "marking", ![w].payout = p, ![w].todo = @ \ {p},
                      ![w].verdict = IF verdict = "SUCCESSFUL" THEN verdict ELSE "FAILED"]
    /\ UNCHANGED <<row, due, mtn, unheard>>

\* Still in flight, unknown or unreachable: ask again on the next tick.
Skip(w, p) ==
    /\ At(w, "confirming")
    /\ p \in worker[w].todo
    /\ ~Decided(mtn[p][worker[w].row[p].reference])
    /\ worker' = [worker EXCEPT ![w].todo = @ \ {p}]
    /\ UNCHANGED <<row, due, mtn, unheard>>

MarkConfirmed(w) ==
    LET p == worker[w].payout IN
    /\ At(w, "marking")
    /\ status' = [status EXCEPT ![p] =
                      IF @ # "SENDING" THEN @
                      ELSE IF worker[w].verdict = "SUCCESSFUL" THEN "SUCCESSFUL" ELSE "QUEUED"]
    /\ Back(w, "confirming")
    /\ UNCHANGED <<attempts, reference, sent, due, mtn, unheard>>

Finish(w) ==
    /\ At(w, "confirming")
    /\ worker[w].todo = {}
    /\ worker' = [worker EXCEPT ![w] = Idle]
    /\ UNCHANGED <<row, due, mtn, unheard>>

-----------------------------------------------------------------------------
SettleTransfer(p, a, verdict) ==
    /\ mtn[p][a] = "PENDING"
    /\ mtn' = [mtn EXCEPT ![p][a] = verdict]
    /\ UNCHANGED <<row, due, unheard, worker>>

\* The process dies between two statements and the timer starts afresh.
Crash(w) ==
    /\ "crash" \in Faults
    /\ worker' = [worker EXCEPT ![w] = Idle]
    /\ UNCHANGED <<row, due, mtn, unheard>>

Step(w) ==
    \/ \E p \in Payouts : AskPrior(w, p) \/ AskPriorFails(w, p)
    \/ MarkLanded(w) \/ WriteReference(w)
    \/ TransferAccepted(w) \/ TransferRefused(w) \/ AnswerLost(w)
    \/ StampSent(w) \/ Requeue(w) \/ ListSent(w)
    \/ \E p \in Payouts : Hear(w, p) \/ Skip(w, p)
    \/ MarkConfirmed(w) \/ Finish(w)

Next ==
    \/ \E p \in Payouts : Release(p)
    \/ \E w \in Timers : Claim(w) \/ Step(w) \/ Crash(w)
    \/ \E p \in Payouts, a \in Refs, verdict \in Verdicts : SettleTransfer(p, a, verdict)

Spec == Init /\ [][Next]_vars

\* The interval fires and a tick that is not killed goes on.  A process may die
\* any number of times, but not for ever before the same statement of confirming.
Fairness ==
    \A w \in Timers :
        /\ WF_vars(Claim(w))
        /\ WF_vars(Step(w))
        /\ SF_vars(ListSent(w))
        /\ SF_vars(MarkConfirmed(w))
        /\ \A p \in Payouts : SF_vars(Hear(w, p))

FairSpec == Spec /\ Fairness

-----------------------------------------------------------------------------
PaidBy(p) == {a \in Refs : mtn[p][a] = "SUCCESSFUL"}

\* A driver is paid at most once for a payout by the transfers whose answers
\* arrived, however the process dies: "asking about the old reference" and
\* claiming by UPDATE are there because "getting it wrong pays a driver twice".
OncePerAnswer ==
    \A p \in Payouts : Cardinality({a \in PaidBy(p) : <<p, a>> \notin unheard}) <= 1

\* Liveness: a transfer stamped as sent, answered, and completed by MTN is marked
\* SUCCESSFUL: "The status is confirmed on a later tick".
SentIsConfirmed ==
    \A p \in Payouts :
        (/\ status[p] = "SENDING"
         /\ p \in sent
         /\ reference[p] \in PaidBy(p)
         /\ <<p, reference[p]>> \notin unheard) ~> status[p] = "SUCCESSFUL"

\* alreadyLanded: "not knowing is a reason to wait rather than to send money", for
\* "getting it wrong pays a driver twice".  The code sends again while MTN says
\* PENDING.
PaidOnce == \A p \in Payouts : Cardinality(PaidBy(p)) <= 1
=============================================================================
