---------------------------- MODULE EarningsProofs ----------------------------
(* From a fare to a driver's money: what holds of PayoutWorker for any number  *)
(* of payouts and attempts, whatever MTN answers, loses and decides, and       *)
(* however often the process dies, and what PaymentsProofs says of a fare,     *)
(* where both halves run.  That nobody is paid twice is proved for one timer,  *)
(* the deployment of docker-compose.prod.yml; with two it does not hold, see   *)
(* confirmSentPayouts.                                                         *)
EXTENDS MCEarnings, FiniteSetTheorems, TLAPS

USE DEF vars, row

\* One server process runs the worker.
OneProcess == \A u, v \in Timers : u = v

-----------------------------------------------------------------------------
(* The invariant *)

SendPlaces == {"sending", "landed", "writing", "calling", "stamping", "failed"}
Unanswered  == {"landed", "writing", "calling", "failed"}
OnOne       == Unanswered \union {"stamping", "marking"}

\* A tick that is busy with one payout knows which.
TypeInv ==
    /\ TypeOK
    /\ \A w \in Timers : worker[w].at \in OnOne => worker[w].payout \in Payouts

\* Transfers MTN said it accepted that have moved or may still move money.
Live(p) == {a \in Refs : mtn[p][a] \in {"PENDING", "SUCCESSFUL"} /\ <<p, a>> \notin unheard}

\* A live transfer is the one the row refers to, and the row is not up for sending.
LiveInv ==
    \A p \in Payouts, a \in Refs :
        a \in Live(p) => a = reference[p] /\ status[p] \in {"SENDING", "SUCCESSFUL"}

\* What a tick has claimed and not sent yet has no live transfer and is its own.
ClaimInv ==
    \A w \in Timers, p \in Payouts :
        /\ worker[w].at \in SendPlaces /\ p \in worker[w].todo =>
               status[p] = "SENDING" /\ Live(p) = {} /\ p # worker[w].payout
        /\ worker[w].at \in Unanswered /\ p = worker[w].payout =>
               status[p] = "SENDING" /\ Live(p) = {}
        /\ worker[w].at = "calling" /\ p = worker[w].payout => reference[p] = Attempt(w)

\* confirmSentPayouts asks about the transfer the row refers to, and a verdict
\* against it is MTN's last word.
HearInv ==
    \A w \in Timers, p \in Payouts :
        /\ worker[w].at \in {"confirming", "marking"} /\ p \in worker[w].todo =>
               worker[w].row[p].reference = reference[p]
        /\ worker[w].at = "marking" /\ p = worker[w].payout =>
               worker[w].verdict = "SUCCESSFUL" \/ mtn[p][reference[p]] = "FAILED"

IInv == TypeInv /\ LiveInv /\ ClaimInv /\ HearInv
-----------------------------------------------------------------------------
(* Types *)

Ticks == [at : Places, todo : SUBSET Payouts, payout : Payouts \union {NoPayout},
          row : [Payouts -> [attempts : Refs, reference : Refs]],
          verdict : Verdicts \union {"none"}]

\* A tick that has just read the rows of ps.
Taken(place, ps, tried, at) ==
    [Idle EXCEPT !.at = place, !.todo = ps,
                 !.row = [p \in Payouts |->
                     IF p \in ps THEN [attempts |-> tried[p], reference |-> at[p]]
                     ELSE [attempts |-> 0, reference |-> 0]]]

\* A tick between two runs, and one that takes up rows, are ticks.
LEMMA TickTypes ==
    ASSUME NEW place \in Places, NEW ps \in SUBSET Payouts,
           NEW tried \in [Payouts -> Refs], NEW at \in [Payouts -> Refs]
    PROVE  /\ Idle \in Ticks /\ Idle.at = "idle"
           /\ Taken(place, ps, tried, at) \in Ticks /\ Taken(place, ps, tried, at).at = place
<1>1. 0 \in Refs
  BY AttemptsAssumption DEF Refs
<1>2. Idle \in Ticks /\ Idle.at = "idle" /\ Idle.at \in Places
  BY <1>1 DEF Idle, Ticks, Places
<1>3. [p \in Payouts |-> IF p \in ps THEN [attempts |-> tried[p], reference |-> at[p]]
                         ELSE [attempts |-> 0, reference |-> 0]]
        \in [Payouts -> [attempts : Refs, reference : Refs]]
  BY <1>1
<1> QED BY <1>2, <1>3 DEF Taken, Ticks

\* One tick moves on to a new record; the others stay where they are.
LEMMA OneMoves ==
    ASSUME TypeInv, NEW w \in Timers, NEW tick \in Ticks,
           tick.at \in OnOne => tick.payout \in Payouts,
           worker' = [worker EXCEPT ![w] = tick]
    PROVE  /\ worker' \in [Timers -> Ticks]
           /\ \A v \in Timers : worker'[v].at \in OnOne => worker'[v].payout \in Payouts
<1>1. worker \in [Timers -> Ticks]
  BY DEF TypeInv, TypeOK, Ticks
<1>2. \A v \in Timers : worker[v].at \in OnOne => worker[v].payout \in Payouts
  BY DEF TypeInv
<1> QED BY <1>1, <1>2

\* The attempt a tick is on is one of the bounded numbers.
LEMMA AttemptType ==
    ASSUME TypeInv, NEW w \in Timers, worker[w].at \in OnOne
    PROVE  worker[w].payout \in Payouts /\ Attempt(w) \in Refs
BY DEF TypeInv, TypeOK, Attempt

\* The queue's first state.
LEMMA InitTypes == Init => TypeInv
<1> SUFFICES ASSUME Init PROVE TypeInv
  OBVIOUS
<1>1. 0 \in Refs
  BY AttemptsAssumption DEF Refs
<1>2. Idle \in Ticks /\ Idle.at = "idle"
  BY <1>1 DEF Idle, Ticks, Places
<1>3. worker \in [Timers -> Ticks] /\ \A w \in Timers : worker[w].at = "idle"
  BY <1>2 DEF Init
<1>4. \A w \in Timers : worker[w].at \in OnOne => worker[w].payout \in Payouts
  BY <1>3 DEF OnOne, Unanswered
<1> QED BY <1>1, <1>3, <1>4 DEF Init, TypeInv, TypeOK, Ticks

\* Every step keeps the columns, what MTN knows and the ticks within their types.
LEMMA StepTypes == TypeInv /\ [Next]_vars => TypeInv'
<1> SUFFICES ASSUME TypeInv, [Next]_vars PROVE TypeInv'
  OBVIOUS
<1> DEFINE Payout == status' \in [Payouts -> {"QUEUED", "SENDING", "SUCCESSFUL", "FAILED"}]
                     /\ attempts' \in [Payouts -> Refs] /\ reference' \in [Payouts -> Refs]
                     /\ sent' \in SUBSET Payouts /\ due' \in SUBSET Payouts
           Mtn == mtn' \in [Payouts -> [Refs -> {"unknown", "PENDING"} \union Verdicts]]
                  /\ unheard' \in SUBSET (Payouts \X Refs)
           Worker == /\ worker' \in [Timers -> Ticks]
                     /\ \A w \in Timers : worker'[w].at \in OnOne => worker'[w].payout \in Payouts
<1>0. Payout /\ Mtn /\ Worker => TypeInv'
  BY DEF TypeInv, TypeOK, Ticks
<1>1. ASSUME UNCHANGED <<status, attempts, reference, sent, due>> PROVE Payout
  BY <1>1 DEF TypeInv, TypeOK
<1>2. ASSUME UNCHANGED <<mtn, unheard>> PROVE Mtn
  BY <1>2 DEF TypeInv, TypeOK
<1>3. ASSUME UNCHANGED worker PROVE Worker
  BY <1>3 DEF TypeInv, TypeOK, Ticks
<1> HIDE DEF Payout, Mtn, Worker
<1>4. ASSUME NEW w \in Timers, Claim(w) PROVE TypeInv'
  <2> DEFINE ps == {p \in Payouts : Claimable(p)}
  <2>1. Payout
    <3>1. \A p \in ps : attempts[p] + 1 \in Refs
      BY AttemptsAssumption DEF Claimable, Refs, TypeInv, TypeOK
    <3> QED BY <1>4, <3>1 DEF Claim, Payout, TypeInv, TypeOK
  <2>2. Worker
    <3>1. attempts' \in [Payouts -> Refs] /\ reference \in [Payouts -> Refs]
      BY <2>1 DEF Payout, TypeInv, TypeOK
    <3>2. PICK tried : tried = attempts'
      OBVIOUS
    <3> DEFINE tick == Taken("sending", ps, tried, reference)
    <3>3. tick \in Ticks /\ tick.at = "sending"
      <4>1. ps \in SUBSET Payouts /\ "sending" \in Places
        BY DEF Places
      <4> HIDE DEF ps
      <4> QED BY <3>1, <3>2, <4>1, TickTypes
    <3>4. worker' = [worker EXCEPT ![w] = tick]
      BY <1>4, <3>2 DEF Claim, TakeUp, Taken
    <3> HIDE DEF tick
    <3> QED BY <3>3, <3>4, OneMoves DEF Worker, OnOne, Unanswered
  <2> QED BY <1>0, <1>2, <1>4, <2>1, <2>2 DEF Claim
<1>5. ASSUME NEW w \in Timers, ListSent(w) PROVE TypeInv'
  <2> DEFINE ps == {p \in Payouts : Confirmable(p)}
             tick == Taken("confirming", ps, attempts, reference)
  <2>1. tick \in Ticks /\ tick.at = "confirming"
    <3>1. ps \in SUBSET Payouts /\ "confirming" \in Places
      BY DEF Places
    <3>2. attempts \in [Payouts -> Refs] /\ reference \in [Payouts -> Refs]
      BY DEF TypeInv, TypeOK
    <3> HIDE DEF ps
    <3> QED BY <3>1, <3>2, TickTypes
  <2>2. worker' = [worker EXCEPT ![w] = tick]
    BY <1>5 DEF ListSent, TakeUp, Taken
  <2> HIDE DEF tick
  <2>3. Worker
    BY <2>1, <2>2, OneMoves DEF Worker, OnOne, Unanswered
  <2> QED BY <1>0, <1>1, <1>2, <1>5, <2>3 DEF ListSent
<1>6. ASSUME NEW w \in Timers, NEW place \in Places, Goto(w, place), worker[w].at \in OnOne
      PROVE  Worker
  BY <1>6 DEF Goto, Worker, TypeInv, TypeOK, Ticks
<1>7. ASSUME NEW w \in Timers, NEW place \in {"sending", "confirming"}, Back(w, place)
      PROVE  Worker
  <2> DEFINE tick == [worker[w] EXCEPT !.at = place, !.payout = NoPayout, !.verdict = "none"]
  <2>1. tick \in Ticks /\ tick.at = place
    BY DEF TypeInv, TypeOK, Ticks, Places
  <2>2. worker' = [worker EXCEPT ![w] = tick]
    BY <1>7 DEF Back
  <2> HIDE DEF tick
  <2> QED BY <2>1, <2>2, OneMoves DEF Worker, OnOne, Unanswered
<1>8. ASSUME NEW w \in Timers, NEW p \in Payouts, NEW place \in Places, TakeNext(w, p, place)
      PROVE  TypeInv'
  <2>1. Worker
    BY <1>8 DEF TakeNext, Worker, TypeInv, TypeOK, Ticks
  <2> QED BY <1>0, <1>1, <1>2, <1>8, <2>1 DEF TakeNext
<1>9. ASSUME NEW w \in Timers, worker' = [worker EXCEPT ![w] = Idle] PROVE Worker
  <2>1. Idle \in Ticks /\ Idle.at = "idle"
    BY TickTypes DEF Places, TypeInv, TypeOK
  <2> QED BY <1>9, <2>1, OneMoves DEF Worker, OnOne, Unanswered
<1>10. ASSUME NEW p \in Payouts, NEW a \in Refs, NEW verdict \in Verdicts \union {"PENDING"},
              mtn' = [mtn EXCEPT ![p][a] = verdict], unheard' \in SUBSET (Payouts \X Refs)
       PROVE  Mtn
  BY <1>10 DEF Mtn, TypeInv, TypeOK
<1>11. ASSUME NEW p \in Payouts, Release(p) PROVE TypeInv'
  <2>1. Payout
    BY <1>11 DEF Release, Payout, TypeInv, TypeOK
  <2> QED BY <1>0, <1>2, <1>3, <1>11, <2>1 DEF Release
<1>12. ASSUME NEW w \in Timers, Step(w) PROVE TypeInv'
  <2>1. ASSUME NEW p \in Payouts, AskPrior(w, p) \/ AskPriorFails(w, p) PROVE TypeInv'
    BY <1>8, <2>1 DEF AskPrior, AskPriorFails, Places
  <2>2. CASE MarkLanded(w)
    <3>1. Payout
      BY <2>2 DEF MarkLanded, Payout, TypeInv, TypeOK
    <3> QED BY <1>0, <1>2, <1>7, <2>2, <3>1 DEF MarkLanded
  <2>3. CASE WriteReference(w)
    <3>1. Attempt(w) \in Refs /\ worker[w].at \in OnOne
      BY <2>3, AttemptType DEF WriteReference, At, OnOne, Unanswered
    <3>2. Payout
      BY <2>3, <3>1 DEF WriteReference, Payout, TypeInv, TypeOK
    <3> QED BY <1>0, <1>2, <1>6, <2>3, <3>1, <3>2 DEF WriteReference, Places
  <2>4. CASE TransferAccepted(w)
    <3>1. worker[w].at \in OnOne /\ Attempt(w) \in Refs /\ worker[w].payout \in Payouts
      BY <2>4, AttemptType DEF TransferAccepted, At, OnOne, Unanswered
    <3>2. Mtn
      BY <1>10, <2>4, <3>1 DEF TransferAccepted, TypeInv, TypeOK
    <3> QED BY <1>0, <1>1, <1>6, <2>4, <3>1, <3>2 DEF TransferAccepted, Places
  <2>5. CASE TransferRefused(w)
    BY <1>0, <1>1, <1>2, <1>6, <2>5 DEF TransferRefused, At, OnOne, Unanswered, Places
  <2>6. CASE AnswerLost(w)
    <3>1. worker[w].at \in OnOne /\ Attempt(w) \in Refs /\ worker[w].payout \in Payouts
      BY <2>6, AttemptType DEF AnswerLost, At, OnOne, Unanswered
    <3>2. Mtn
      <4>1. unheard' \in SUBSET (Payouts \X Refs)
        BY <2>6, <3>1 DEF AnswerLost, TypeInv, TypeOK
      <4>2. mtn' = [mtn EXCEPT ![worker[w].payout][Attempt(w)] = "PENDING"]
        BY <2>6 DEF AnswerLost
      <4> QED BY <1>10, <3>1, <4>1, <4>2
    <3> QED BY <1>0, <1>1, <1>6, <2>6, <3>1, <3>2 DEF AnswerLost, Places
  <2>7. CASE StampSent(w)
    <3>1. worker[w].payout \in Payouts
      BY <2>7 DEF StampSent, At, OnOne, TypeInv
    <3>2. Payout
      BY <2>7, <3>1 DEF StampSent, Payout, TypeInv, TypeOK
    <3> QED BY <1>0, <1>2, <1>7, <2>7, <3>2 DEF StampSent
  <2>8. CASE Requeue(w)
    <3>1. Payout
      BY <2>8 DEF Requeue, Payout, TypeInv, TypeOK
    <3> QED BY <1>0, <1>2, <1>7, <2>8, <3>1 DEF Requeue
  <2>9. ASSUME NEW p \in Payouts, Hear(w, p) PROVE TypeInv'
    <3>1. Worker
      <4> DEFINE verdict == IF mtn[p][worker[w].row[p].reference] = "SUCCESSFUL"
                            THEN "SUCCESSFUL" ELSE "FAILED"
                 tick == [worker[w] EXCEPT !.at = "marking", !.payout = p, !.todo = @ \ {p},
                                           !.verdict = verdict]
      <4>1. tick \in Ticks /\ tick.at = "marking" /\ tick.payout = p
        BY DEF TypeInv, TypeOK, Ticks, Places, Verdicts
      <4>2. worker' = [worker EXCEPT ![w] = tick]
        BY <2>9 DEF Hear
      <4> HIDE DEF tick
      <4> QED BY <4>1, <4>2, OneMoves DEF Worker
    <3> QED BY <1>0, <1>1, <1>2, <2>9, <3>1 DEF Hear
  <2>10. ASSUME NEW p \in Payouts, Skip(w, p) PROVE TypeInv'
    <3>1. Worker
      BY <2>10 DEF Skip, Worker, TypeInv, TypeOK, Ticks
    <3> QED BY <1>0, <1>1, <1>2, <2>10, <3>1 DEF Skip
  <2>11. CASE MarkConfirmed(w)
    <3>1. Payout
      BY <2>11 DEF MarkConfirmed, Payout, TypeInv, TypeOK
    <3> QED BY <1>0, <1>2, <1>7, <2>11, <3>1 DEF MarkConfirmed
  <2>12. CASE Finish(w)
    BY <1>0, <1>1, <1>2, <1>9, <2>12 DEF Finish
  <2> QED BY <1>5, <1>12, <2>1, <2>2, <2>3, <2>4, <2>5, <2>6, <2>7, <2>8, <2>9, <2>10, <2>11,
             <2>12 DEF Step
<1>13. ASSUME NEW w \in Timers, Crash(w) PROVE TypeInv'
  BY <1>0, <1>1, <1>2, <1>9, <1>13 DEF Crash
<1>14. ASSUME NEW p \in Payouts, NEW a \in Refs, NEW verdict \in Verdicts,
              SettleTransfer(p, a, verdict)
       PROVE  TypeInv'
  <2>1. Mtn
    BY <1>10, <1>14 DEF SettleTransfer, TypeInv, TypeOK
  <2> QED BY <1>0, <1>1, <1>3, <1>14, <2>1 DEF SettleTransfer
<1>15. CASE UNCHANGED vars
  BY <1>0, <1>1, <1>2, <1>3, <1>15
<1> QED BY <1>4, <1>11, <1>12, <1>13, <1>14, <1>15 DEF Next

\* The columns, what MTN knows and where each tick is keep their types, with any
\* number of payouts, attempts and server processes.
THEOREM PayoutsTyped == Spec => []TypeOK
<1>1. TypeInv => TypeOK
  BY DEF TypeInv
<1> QED BY InitTypes, StepTypes, <1>1, PTL DEF Spec

-----------------------------------------------------------------------------
(* Nobody is paid twice *)

\* Where nothing is heard of MTN, what is live is what was.
LEMMA LiveSame ==
    ASSUME UNCHANGED <<mtn, unheard>>
    PROVE  \A p \in Payouts : Live(p)' = Live(p)
BY DEF Live

\* Nothing was sent yet.
LEMMA InitSafe == Init => LiveInv /\ ClaimInv /\ HearInv
<1> SUFFICES ASSUME Init PROVE LiveInv /\ ClaimInv /\ HearInv
  OBVIOUS
<1>1. \A p \in Payouts : Live(p) = {}
  BY DEF Init, Live
<1>2. \A w \in Timers : worker[w].at = "idle"
  BY DEF Init, Idle
<1> QED BY <1>1, <1>2 DEF LiveInv, ClaimInv, HearInv, SendPlaces, Unanswered

\* A step of the tick that writes neither the row nor anything at MTN.
LEMMA MoveSafe ==
    ASSUME OneProcess, IInv, NEW w \in Timers, UNCHANGED <<status, reference, mtn, unheard>>,
           \/ \E p \in Payouts : AskPrior(w, p) \/ AskPriorFails(w, p) \/ Hear(w, p) \/ Skip(w, p)
           \/ TransferRefused(w) \/ StampSent(w) \/ ListSent(w) \/ Finish(w) \/ Crash(w)
    PROVE  LiveInv' /\ ClaimInv' /\ HearInv'
<1>1. \A p \in Payouts : Live(p)' = Live(p)
  BY LiveSame
<1>2. LiveInv'
  BY <1>1 DEF IInv, LiveInv
<1>3. \A v \in Timers : v = w
  BY DEF OneProcess
<1>4. worker \in [Timers -> Ticks]
  BY DEF IInv, TypeInv, TypeOK, Ticks
<1>5. ASSUME worker'[w].at \notin SendPlaces \union {"confirming", "marking"}
      PROVE  ClaimInv' /\ HearInv'
  BY <1>3, <1>5 DEF ClaimInv, HearInv, SendPlaces, Unanswered
<1>6. Idle.at = "idle"
  BY DEF Idle
<1>7. ASSUME NEW p \in Payouts, NEW place \in {"landed", "writing", "failed"}, TakeNext(w, p, place)
      PROVE  ClaimInv' /\ HearInv'
  <2>1. /\ worker'[w].at = place /\ worker'[w].payout = p
        /\ worker'[w].todo = worker[w].todo \ {p} /\ p \in worker[w].todo
        /\ worker[w].at = "sending"
    BY <1>4, <1>7 DEF TakeNext, At
  <2>2. ClaimInv'
    BY <1>1, <1>3, <2>1 DEF IInv, ClaimInv, SendPlaces, Unanswered
  <2>3. HearInv'
    BY <1>3, <2>1 DEF HearInv
  <2> QED BY <2>2, <2>3
<1>8. ASSUME NEW p \in Payouts, Hear(w, p) PROVE ClaimInv' /\ HearInv'
  <2>1. /\ worker'[w].at = "marking" /\ worker'[w].payout = p
        /\ worker'[w].todo = worker[w].todo \ {p} /\ worker'[w].row = worker[w].row
        /\ p \in worker[w].todo /\ worker[w].at = "confirming"
    BY <1>4, <1>8 DEF Hear, At, Ticks
  <2>2. worker[w].row[p].reference = reference[p]
    BY <2>1 DEF IInv, HearInv
  <2>3. worker'[w].verdict = "SUCCESSFUL" \/ mtn[p][reference[p]] = "FAILED"
    BY <1>4, <1>8, <2>2 DEF Hear, Decided, Verdicts, Ticks
  <2>4. ClaimInv'
    BY <1>3, <2>1 DEF ClaimInv, SendPlaces, Unanswered
  <2>5. HearInv'
    BY <1>3, <2>1, <2>3 DEF IInv, HearInv
  <2> QED BY <2>4, <2>5
<1>9. ASSUME NEW p \in Payouts, Skip(w, p) PROVE ClaimInv' /\ HearInv'
  <2>1. /\ worker'[w].at = "confirming" /\ worker'[w].todo = worker[w].todo \ {p}
        /\ worker'[w].row = worker[w].row /\ worker[w].at = "confirming"
    BY <1>4, <1>9 DEF Skip, At, Ticks
  <2>2. ClaimInv'
    BY <1>3, <2>1 DEF ClaimInv, SendPlaces, Unanswered
  <2>3. HearInv'
    BY <1>3, <2>1 DEF IInv, HearInv
  <2> QED BY <2>2, <2>3
<1>10. ASSUME TransferRefused(w) PROVE ClaimInv' /\ HearInv'
  <2>1. /\ worker'[w].at = "failed" /\ worker'[w].todo = worker[w].todo
        /\ worker'[w].payout = worker[w].payout /\ worker[w].at = "calling"
    BY <1>4, <1>10 DEF TransferRefused, At, Goto, Ticks
  <2>2. ClaimInv'
    BY <1>1, <1>3, <2>1 DEF IInv, ClaimInv, SendPlaces, Unanswered
  <2>3. HearInv'
    BY <1>3, <2>1 DEF HearInv
  <2> QED BY <2>2, <2>3
<1>11. ASSUME StampSent(w) PROVE ClaimInv' /\ HearInv'
  <2>1. /\ worker'[w].at = "sending" /\ worker'[w].todo = worker[w].todo
        /\ worker'[w].payout = NoPayout /\ worker[w].at = "stamping"
    BY <1>4, <1>11 DEF StampSent, At, Back, Ticks
  <2>2. ClaimInv'
    BY <1>1, <1>3, <2>1, PayoutsAssumption DEF IInv, ClaimInv, SendPlaces, Unanswered
  <2>3. HearInv'
    BY <1>3, <2>1 DEF HearInv
  <2> QED BY <2>2, <2>3
<1>12. ASSUME ListSent(w) PROVE ClaimInv' /\ HearInv'
  <2> DEFINE ps == {p \in Payouts : Confirmable(p)}
             tick == Taken("confirming", ps, attempts, reference)
  <2>1. worker' = [worker EXCEPT ![w] = tick]
    BY <1>12 DEF ListSent, TakeUp, Taken
  <2>2. tick.at = "confirming" /\ \A p \in Payouts : p \in tick.todo => tick.row[p].reference = reference[p]
    BY DEF Taken, Idle
  <2> HIDE DEF tick
  <2>3. worker'[w] = tick
    BY <1>4, <2>1
  <2>4. ClaimInv'
    BY <1>3, <2>2, <2>3 DEF ClaimInv, SendPlaces, Unanswered
  <2>5. HearInv'
    BY <1>3, <2>2, <2>3 DEF HearInv
  <2> QED BY <2>4, <2>5
<1>13. ASSUME Finish(w) \/ Crash(w) PROVE ClaimInv' /\ HearInv'
  <2>1. worker'[w].at = "idle"
    BY <1>4, <1>6, <1>13 DEF Finish, Crash
  <2> QED BY <1>5, <2>1 DEF SendPlaces
<1> QED BY <1>2, <1>7, <1>8, <1>9, <1>10, <1>11, <1>12, <1>13 DEF AskPrior, AskPriorFails

\* A step that writes the row.
LEMMA WriteSafe ==
    ASSUME OneProcess, IInv, NEW w \in Timers, UNCHANGED <<mtn, unheard>>,
           Claim(w) \/ MarkLanded(w) \/ WriteReference(w) \/ Requeue(w) \/ MarkConfirmed(w)
    PROVE  LiveInv' /\ ClaimInv' /\ HearInv'
<1>1. \A p \in Payouts : Live(p)' = Live(p)
  BY LiveSame
<1>2. \A v \in Timers : v = w
  BY DEF OneProcess
<1>3. /\ worker \in [Timers -> Ticks] /\ status \in [Payouts -> {"QUEUED", "SENDING", "SUCCESSFUL", "FAILED"}]
      /\ reference \in [Payouts -> Refs] /\ mtn \in [Payouts -> [Refs -> {"unknown", "PENDING"} \union Verdicts]]
  BY DEF IInv, TypeInv, TypeOK, Ticks
<1>4. \A p \in Payouts : Live(p) \subseteq Refs
  BY DEF Live
<1>5. CASE Claim(w)
  <2> DEFINE ps == {p \in Payouts : Claimable(p)}
  <2>1. PICK tried : tried = attempts'
    OBVIOUS
  <2> DEFINE tick == Taken("sending", ps, tried, reference)
  <2>2. worker' = [worker EXCEPT ![w] = tick]
    BY <1>5, <2>1 DEF Claim, TakeUp, Taken
  <2>3. tick.at = "sending" /\ tick.todo = ps /\ tick.payout = NoPayout
    BY DEF Taken, Idle
  <2> HIDE DEF tick
  <2>4. worker'[w] = tick
    BY <1>3, <2>2
  <2>5. \A p \in Payouts : status'[p] = IF p \in ps THEN "SENDING" ELSE status[p]
    BY <1>5 DEF Claim
  <2>6. \A p \in ps : Live(p) = {}
    BY <1>4 DEF Claimable, IInv, LiveInv
  <2>7. LiveInv'
    BY <1>1, <1>5, <2>5 DEF Claim, IInv, LiveInv
  <2>8. ClaimInv'
    BY <1>1, <1>2, <2>3, <2>4, <2>5, <2>6, PayoutsAssumption DEF ClaimInv, Unanswered
  <2>9. HearInv'
    BY <1>2, <2>3, <2>4 DEF HearInv
  <2> QED BY <2>7, <2>8, <2>9
<1>6. CASE MarkLanded(w) \/ Requeue(w)
  <2>1. worker[w].at \in {"landed", "failed"} /\ worker[w].payout \in Payouts
    BY <1>6 DEF MarkLanded, Requeue, At, IInv, TypeInv, OnOne, Unanswered
  <2>2. /\ worker'[w].at = "sending" /\ worker'[w].todo = worker[w].todo /\ worker'[w].payout = NoPayout
    BY <1>3, <1>6 DEF MarkLanded, Requeue, Back, Ticks
  <2>3. /\ UNCHANGED reference
        /\ \A p \in Payouts : p # worker[w].payout => status'[p] = status[p]
    BY <1>3, <1>6 DEF MarkLanded, Requeue
  <2>4. Live(worker[w].payout) = {}
    BY <2>1 DEF IInv, ClaimInv, Unanswered
  <2>5. LiveInv'
    BY <1>1, <2>3, <2>4 DEF IInv, LiveInv
  <2>6. ClaimInv'
    BY <1>1, <1>2, <2>1, <2>2, <2>3, PayoutsAssumption DEF IInv, ClaimInv, SendPlaces, Unanswered
  <2>7. HearInv'
    BY <1>2, <2>2 DEF HearInv
  <2> QED BY <2>5, <2>6, <2>7
<1>7. CASE WriteReference(w)
  <2>1. worker[w].at = "writing" /\ worker[w].payout \in Payouts
    BY <1>7 DEF WriteReference, At, IInv, TypeInv, OnOne, Unanswered
  <2>2. /\ worker'[w].at = "calling" /\ worker'[w].todo = worker[w].todo
        /\ worker'[w].payout = worker[w].payout /\ worker'[w].row = worker[w].row
    BY <1>3, <1>7 DEF WriteReference, Goto, Ticks
  <2>3. /\ UNCHANGED status
        /\ reference'[worker[w].payout] = Attempt(w)
        /\ \A p \in Payouts : p # worker[w].payout => reference'[p] = reference[p]
    BY <1>3, <1>7, <2>1 DEF WriteReference
  <2>4. Live(worker[w].payout) = {}
    BY <2>1 DEF IInv, ClaimInv, Unanswered
  <2>5. LiveInv'
    BY <1>1, <2>3, <2>4 DEF IInv, LiveInv
  <2>6. Attempt(w)' = Attempt(w)
    BY <2>2 DEF Attempt
  <2>7. ClaimInv'
    BY <1>1, <1>2, <2>1, <2>2, <2>3, <2>6 DEF IInv, ClaimInv, SendPlaces, Unanswered
  <2>8. HearInv'
    BY <1>2, <2>2 DEF HearInv
  <2> QED BY <2>5, <2>7, <2>8
<1>8. CASE MarkConfirmed(w)
  <2> DEFINE p == worker[w].payout
  <2>1. worker[w].at = "marking" /\ p \in Payouts
    BY <1>8 DEF MarkConfirmed, At, IInv, TypeInv, OnOne
  <2>2. /\ worker'[w].at = "confirming" /\ worker'[w].todo = worker[w].todo
        /\ worker'[w].row = worker[w].row
    BY <1>3, <1>8 DEF MarkConfirmed, Back, Ticks
  <2>3. /\ UNCHANGED reference
        /\ \A q \in Payouts : q # p => status'[q] = status[q]
        /\ status'[p] \in {status[p], "SUCCESSFUL"} \/ worker[w].verdict # "SUCCESSFUL"
    BY <1>3, <1>8 DEF MarkConfirmed
  <2>4. worker[w].verdict # "SUCCESSFUL" => Live(p) = {}
    <3>1. ASSUME worker[w].verdict # "SUCCESSFUL", NEW a \in Live(p) PROVE FALSE
      <4>1. mtn[p][reference[p]] = "FAILED"
        BY <2>1, <3>1 DEF IInv, HearInv
      <4>2. a = reference[p]
        BY <1>4, <2>1, <3>1 DEF IInv, LiveInv
      <4> QED BY <3>1, <4>1, <4>2 DEF Live
    <3> QED BY <3>1
  <2>5. LiveInv'
    <3> SUFFICES ASSUME NEW q \in Payouts, NEW a \in Refs, a \in Live(q)
                 PROVE  a = reference'[q] /\ status'[q] \in {"SENDING", "SUCCESSFUL"}
      BY <1>1 DEF LiveInv
    <3>1. a = reference[q] /\ status[q] \in {"SENDING", "SUCCESSFUL"}
      BY DEF IInv, LiveInv
    <3> QED BY <2>3, <2>4, <3>1
  <2>6. ClaimInv'
    BY <1>2, <2>2 DEF ClaimInv, SendPlaces, Unanswered
  <2>7. HearInv'
    BY <1>2, <2>1, <2>2, <2>3 DEF IInv, HearInv
  <2> QED BY <2>5, <2>6, <2>7
<1> QED BY <1>5, <1>6, <1>7, <1>8

\* A transfer MTN accepts, whether or not the answer arrives.
LEMMA SendSafe ==
    ASSUME OneProcess, IInv, NEW w \in Timers, TransferAccepted(w) \/ AnswerLost(w)
    PROVE  LiveInv' /\ ClaimInv' /\ HearInv'
<1> DEFINE p == worker[w].payout
<1>1. worker[w].at = "calling" /\ p \in Payouts /\ Attempt(w) \in Refs
  BY AttemptType DEF TransferAccepted, AnswerLost, At, OnOne, Unanswered, IInv
<1>2. \A v \in Timers : v = w
  BY DEF OneProcess
<1>3. worker \in [Timers -> Ticks]
  BY DEF IInv, TypeInv, TypeOK, Ticks
<1>4. /\ status[p] = "SENDING" /\ Live(p) = {} /\ reference[p] = Attempt(w)
      /\ p \notin worker[w].todo
  BY <1>1 DEF IInv, ClaimInv, SendPlaces, Unanswered
<1>5. mtn' = [mtn EXCEPT ![p][Attempt(w)] = "PENDING"] /\ UNCHANGED <<status, reference>>
  BY DEF TransferAccepted, AnswerLost
<1>6. \A q \in Payouts, a \in Refs :
          mtn'[q][a] = IF q = p /\ a = Attempt(w) THEN "PENDING" ELSE mtn[q][a]
  BY <1>1, <1>5 DEF IInv, TypeInv, TypeOK
<1>7. unheard \subseteq unheard'
  BY DEF TransferAccepted, AnswerLost
<1>8. \A q \in Payouts, a \in Refs : a \in Live(q)' => a \in Live(q) \/ (q = p /\ a = Attempt(w))
  BY <1>6, <1>7 DEF Live
<1>9. LiveInv'
  BY <1>4, <1>5, <1>8 DEF IInv, LiveInv
<1>10. \A q \in Payouts : q # p /\ Live(q) = {} => Live(q)' = {}
  BY <1>8 DEF Live
<1>11. /\ worker'[w].todo = worker[w].todo /\ worker'[w].payout = p
       /\ TransferAccepted(w) => worker'[w].at = "stamping"
       /\ AnswerLost(w) => worker'[w].at = "failed" /\ <<p, Attempt(w)>> \in unheard'
  BY <1>3 DEF TransferAccepted, AnswerLost, Goto, Ticks
<1>12. AnswerLost(w) => Live(p)' = {}
  BY <1>1, <1>4, <1>8, <1>11 DEF Live
<1>13. ClaimInv'
  BY <1>1, <1>2, <1>4, <1>5, <1>10, <1>11, <1>12 DEF IInv, ClaimInv, SendPlaces, Unanswered
<1>14. HearInv'
  BY <1>2, <1>11 DEF HearInv
<1> QED BY <1>9, <1>13, <1>14

\* MTN decides a transfer it was holding: what is live can only become less, and
\* what it refused stays refused.
LEMMA SettleSafe ==
    ASSUME IInv, NEW p \in Payouts, NEW a \in Refs, NEW verdict \in Verdicts,
           SettleTransfer(p, a, verdict)
    PROVE  LiveInv' /\ ClaimInv' /\ HearInv'
<1>1. \A q \in Payouts, b \in Refs :
          mtn'[q][b] = IF q = p /\ b = a THEN verdict ELSE mtn[q][b]
  BY DEF SettleTransfer, IInv, TypeInv, TypeOK
<1>2. \A q \in Payouts : Live(q)' \subseteq Live(q) /\ Live(q) \subseteq Refs
  BY <1>1 DEF SettleTransfer, Live
<1>3. \A q \in Payouts : mtn[q][reference[q]] = "FAILED" => mtn'[q][reference[q]] = "FAILED"
  BY <1>1 DEF SettleTransfer, IInv, TypeInv, TypeOK
<1>4. UNCHANGED <<status, reference, worker>>
  BY DEF SettleTransfer
<1>5. LiveInv'
  BY <1>2, <1>4 DEF IInv, LiveInv
<1>6. ClaimInv'
  BY <1>2, <1>4 DEF IInv, ClaimInv, Attempt
<1>7. HearInv'
  BY <1>3, <1>4 DEF IInv, HearInv
<1> QED BY <1>5, <1>6, <1>7

\* Every step keeps the invariant.
LEMMA Inductive ==
    ASSUME OneProcess
    PROVE  IInv /\ [Next]_vars => IInv'
<1> SUFFICES ASSUME IInv, [Next]_vars PROVE LiveInv' /\ ClaimInv' /\ HearInv'
  BY StepTypes DEF IInv
<1>1. ASSUME NEW w \in Timers, Step(w) PROVE LiveInv' /\ ClaimInv' /\ HearInv'
  <2>1. CASE TransferAccepted(w) \/ AnswerLost(w)
    BY <2>1, SendSafe
  <2>2. CASE MarkLanded(w) \/ WriteReference(w) \/ Requeue(w) \/ MarkConfirmed(w)
    <3>1. UNCHANGED <<mtn, unheard>>
      BY <2>2 DEF MarkLanded, WriteReference, Requeue, MarkConfirmed
    <3> QED BY <2>2, <3>1, WriteSafe
  <2>3. CASE \/ \E p \in Payouts : AskPrior(w, p) \/ AskPriorFails(w, p) \/ Hear(w, p) \/ Skip(w, p)
             \/ TransferRefused(w) \/ StampSent(w) \/ ListSent(w) \/ Finish(w)
    <3>1. UNCHANGED <<status, reference, mtn, unheard>>
      BY <2>3 DEF AskPrior, AskPriorFails, TakeNext, Hear, Skip, TransferRefused, StampSent,
                  ListSent, Finish
    <3> QED BY <2>3, <3>1, MoveSafe
  <2> QED BY <1>1, <2>1, <2>2, <2>3 DEF Step
<1>2. ASSUME NEW w \in Timers, Claim(w) PROVE LiveInv' /\ ClaimInv' /\ HearInv'
  BY <1>2, WriteSafe DEF Claim
<1>3. ASSUME NEW w \in Timers, Crash(w) PROVE LiveInv' /\ ClaimInv' /\ HearInv'
  BY <1>3, MoveSafe DEF Crash
<1>4. ASSUME UNCHANGED <<row, mtn, unheard, worker>> PROVE LiveInv' /\ ClaimInv' /\ HearInv'
  BY <1>4 DEF IInv, LiveInv, ClaimInv, HearInv, Live, Attempt
<1>5. ASSUME NEW p \in Payouts, Release(p) PROVE LiveInv' /\ ClaimInv' /\ HearInv'
  BY <1>4, <1>5 DEF Release
<1>6. CASE UNCHANGED vars
  BY <1>4, <1>6
<1> QED BY <1>1, <1>2, <1>3, <1>5, <1>6, SettleSafe DEF Next

\* A payout's live transfers are at most the one its row refers to.
LEMMA LiveIsOne == IInv => OncePerAnswer
<1> SUFFICES ASSUME IInv, NEW p \in Payouts
             PROVE  Cardinality({a \in PaidBy(p) : <<p, a>> \notin unheard}) <= 1
  BY DEF OncePerAnswer
<1> DEFINE heard == {a \in PaidBy(p) : <<p, a>> \notin unheard}
<1>1. heard \subseteq {reference[p]}
  BY DEF PaidBy, Live, IInv, LiveInv
<1>2. IsFiniteSet({reference[p]}) /\ Cardinality({reference[p]}) = 1
  BY FS_Singleton
<1> QED BY <1>1, <1>2, FS_Subset

\* One server process, dying wherever it may, never pays a driver twice for a
\* payout by transfers whose answers arrived: a claim, the old reference asked
\* about, and a verdict heard before a payout is queued again see to it.
THEOREM PaidOncePerAnswer ==
    ASSUME OneProcess
    PROVE  Spec => []OncePerAnswer
<1>1. Init => IInv
  BY InitTypes, InitSafe DEF IInv
<1>2. IInv /\ [Next]_vars => IInv'
  BY Inductive
<1> QED BY <1>1, <1>2, LiveIsOne, PTL DEF Spec

-----------------------------------------------------------------------------
(* The fare *)

\* What is proved of Payments, of the fare collected here.
P == INSTANCE PaymentsProofs WITH
    payment_status <- x1, price <- x2, cash <- x3, request <- x4, amount <- x5, aged <- x6,
    mtn <- x7, payouts <- x8, calls <- x9,
    Prompts <- Payouts, Calls <- FareCalls, Sweep <- "sweep", NoPrompt <- NoPayout,
    Faults <- FareFaults

\* Both instances of Payments start alike, step alike and promise the same.
LEMMA SameStart == Fare!Init => P!Init
BY Zenon
DEF Fare!Init, P!Init, Fare!Idle, P!Idle, Fare!Workers, P!Workers

LEMMA SameStep == Fare!Next => P!Next
BY Zenon
DEF Fare!Next, P!Next, Fare!Begin, P!Begin, Fare!CheckCommitted, P!CheckCommitted, Fare!At, P!At, Fare!Idle,
    P!Idle, Fare!rows, P!rows, Fare!CheckCash, P!CheckCash, Fare!Live, P!Live, Fare!ReadOrder, P!ReadOrder,
    Fare!Proceed, P!Proceed, Fare!Reprice, P!Reprice, Fare!Return, P!Return, Fare!TakeCash, P!TakeCash,
    Fare!QueuePayout, P!QueuePayout, Fare!FailOrder, P!FailOrder, Fare!Outcome, P!Outcome, Fare!CreditOrder,
    P!CreditOrder, Fare!Goto, P!Goto, Fare!SettleRequest, P!SettleRequest, Fare!StillPending, P!StillPending,
    Fare!MarkPending, P!MarkPending, Fare!MarkRefused, P!MarkRefused, Fare!AnswerLost, P!AnswerLost,
    Fare!SendRefused, P!SendRefused, Fare!SendPrompt, P!SendPrompt, Fare!InsertRefused, P!InsertRefused,
    Fare!OneLiveIndex, P!OneLiveIndex, Fare!InsertRequest, P!InsertRequest, Fare!FindPrompt, P!FindPrompt,
    Fare!Crash, P!Crash, Fare!Workers, P!Workers, Fare!TimeOut, P!TimeOut, Fare!HearWaiting, P!HearWaiting,
    Fare!Old, P!Old, Fare!HearVerdict, P!HearVerdict, Fare!Outstanding, P!Outstanding, Fare!Verdicts,
    P!Verdicts, Fare!GrowOld, P!GrowOld, Fare!Answer, P!Answer

LEMMA SamePromise == P!EarningQueued => Fare!EarningQueued
BY Zenon
DEF Fare!EarningQueued, P!EarningQueued, Fare!Quiet, P!Quiet, Fare!At, P!At, Fare!Workers, P!Workers

\* paymentService.js:301: a fare that settled has its payout once the calls about
\* it are over, however they interleave and whatever answers are lost, as long as
\* the process does not die between two statements.
THEOREM FareIsQueued ==
    ASSUME "crash" \notin FareFaults
    PROVE  AllSpec => []EarningQueued
<1>1. AllInit => P!Init
  BY SameStart, Zenon DEF AllInit
<1>2. [AllNext]_all => [P!Next]_P!vars
  BY SameStep, Zenon DEF AllNext, all, fare, P!vars, P!rows
<1>3. P!Spec => []P!EarningQueued
  BY P!SettledIsQueued, PayoutsAssumption, FareAssumption
<1>4. P!EarningQueued => EarningQueued
  BY SamePromise DEF EarningQueued
<1> QED BY <1>1, <1>2, <1>3, <1>4, PTL DEF AllSpec, P!Spec
=============================================================================
