--------------------------- MODULE PaymentsProofs ---------------------------
(* What holds of Payments for every number of prompts and of calls at once, *)
(* with crashes and with lost answers.                                      *)
EXTENDS Payments, TLAPS

-----------------------------------------------------------------------------
(* The inductive invariant.  The properties speak of the order and its rows; *)
(* what keeps them is what a call may rely on between two statements.        *)

Row(c) == request[calls[c].prompt]

\* A call about a prompt has one, and its row was written first.
HoldsPrompt ==
    \A c \in Workers :
        calls[c].at \in {"sending", "refused", "accepted", "settling", "crediting",
                         "paying", "aging"} =>
            calls[c].prompt \in Prompts /\ Row(c) # "none"

\* MTN knows nothing of a reference before its one sender has sent it.
SentOnce ==
    /\ \A p \in Prompts : request[p] = "none" => mtn[p] = "unknown"
    /\ \A c \in Workers : At(c, "sending") => mtn[calls[c].prompt] = "unknown"
    /\ \A c, d \in Workers :
          At(c, "sending") /\ At(d, "sending") /\ calls[c].prompt = calls[d].prompt => c = d

\* MTN's verdict on a reference does not change once given.
HeardIsTrue ==
    \A c \in Workers :
        /\ calls[c].at \in {"settling", "crediting", "paying"} =>
              calls[c].verdict \in Verdicts /\ mtn[calls[c].prompt] = calls[c].verdict
        /\ At(c, "paying") => calls[c].verdict = "SUCCESSFUL"

\* Whoever credits a prompt, and whoever was paid for one, left its row resolved.
CreditsResolved ==
    /\ \A c \in Workers : calls[c].at \in {"crediting", "paying"} => Row(c) # "PENDING"
    /\ \A p \in payouts : request[p] \notin {"none", "PENDING"}

PaymentsInv ==
    /\ TypeOK /\ HoldsPrompt /\ SentOnce /\ HeardIsTrue /\ CreditsResolved
    /\ OneOutstanding /\ NothingWithoutMoney /\ CreditedByOne

USE DEF At, Goto, Return, rows, vars, PaymentsInv

\* An order nobody has been asked to pay for.
LEMMA PaymentsInit == Init => PaymentsInv
<1> SUFFICES ASSUME Init PROVE PaymentsInv
  OBVIOUS
<1>1. TypeOK
  BY DEF Init, TypeOK, Idle, Places
<1>2. \A c \in Workers : calls[c].at = "idle"
  BY DEF Init, Idle
<1>3. HoldsPrompt /\ SentOnce /\ HeardIsTrue /\ CreditsResolved
  BY <1>2 DEF Init, HoldsPrompt, SentOnce, HeardIsTrue, CreditsResolved
<1>4. OneOutstanding /\ NothingWithoutMoney
  BY DEF Init, OneOutstanding, Live, NothingWithoutMoney
<1>5. CreditedByOne
  BY <1>2 DEF Init, CreditedByOne, CreditsFor
<1> QED BY <1>1, <1>3, <1>4, <1>5

\* The places where a call has done nothing yet that another could rely on.
Quiescent == {"idle", "looking", "inserting", "taking", "placing"}

Quiets == [at : Quiescent, prompt : Prompts \union {NoPrompt},
           verdict : Verdicts \union {"none"}, cost : Prices \union {0}]

\* Moving a call to such a place, with the rows as they are, disturbs nothing.
LEMMA QuietStep ==
    ASSUME PaymentsInv, UNCHANGED <<payment_status, cash, rows, mtn, payouts>>,
           price' \in Prices, NEW c \in Workers,
           NEW new \in Quiets,
           calls' = [calls EXCEPT ![c] = new]
    PROVE  PaymentsInv'
<1> USE DEF Quiets, Quiescent
<1>1. TypeOK'
  BY SMTT(30) DEF TypeOK, Places
<1>2. HoldsPrompt'
  BY SMTT(30) DEF HoldsPrompt, Row, TypeOK
<1>3. SentOnce'
  BY SMTT(30) DEF SentOnce, TypeOK
<1>4. HeardIsTrue'
  BY SMTT(30) DEF HeardIsTrue, TypeOK
<1>5. CreditsResolved'
  BY SMTT(30) DEF CreditsResolved, Row, TypeOK
<1>6. OneOutstanding' /\ NothingWithoutMoney'
  BY DEF OneOutstanding, Live, NothingWithoutMoney
<1>7. CreditedByOne'
  BY SMTT(30) DEF CreditedByOne, CreditsFor, TypeOK
<1> QED BY <1>1, <1>2, <1>3, <1>4, <1>5, <1>6, <1>7

\* What a call remembers between two statements.
CallRecords == [at : Places, prompt : Prompts \union {NoPrompt},
                verdict : Verdicts \union {"none"}, cost : Prices \union {0}]

\* A call that is overwritten by a well-formed one leaves the calls well formed.
LEMMA PutType ==
    ASSUME TypeOK, NEW c \in Workers, NEW moved \in CallRecords,
           calls' = [calls EXCEPT ![c] = moved]
    PROVE  calls' \in [Workers -> CallRecords]
<1>1. calls \in [Workers -> CallRecords]
  BY DEF TypeOK, CallRecords
<1> QED BY <1>1

\* So does one that goes on to another statement,
LEMMA GotoType ==
    ASSUME TypeOK, NEW c \in Workers, NEW place \in Places, Goto(c, place)
    PROVE  calls' \in [Workers -> CallRecords]
<1>1. calls \in [Workers -> CallRecords]
  BY DEF TypeOK, CallRecords
<1>2. calls[c] \in CallRecords
  BY <1>1
<1>3. [calls[c] EXCEPT !.at = place] \in CallRecords
  BY <1>2 DEF CallRecords
<1>4. calls' = [calls EXCEPT ![c] = [calls[c] EXCEPT !.at = place]]
  BY <1>1 DEF Goto
<1> QED BY <1>3, <1>4, PutType

\* and one that returns.
LEMMA ReturnType ==
    ASSUME TypeOK, NEW c \in Workers, Return(c)
    PROVE  calls' \in [Workers -> CallRecords]
<1>1. Idle \in CallRecords
  BY DEF Idle, CallRecords, Places
<1> QED BY <1>1, PutType DEF Return

\* The prompt a call is about is a reference or none.
LEMMA PromptType ==
    ASSUME TypeOK, NEW c \in Workers
    PROVE  calls[c].prompt \in Prompts \union {NoPrompt}
BY DEF TypeOK

\* The unique index keeps the new row the only outstanding one.
LEMMA InsertStep ==
    ASSUME PaymentsInv, NEW c \in Workers, NEW p \in Prompts, InsertRequest(c, p)
    PROVE  PaymentsInv'
<1>1. TypeOK'
  <2> DEFINE moved == [calls[c] EXCEPT !.at = "sending", !.prompt = p]
  <2>1. calls \in [Workers -> CallRecords]
    BY DEF TypeOK, CallRecords
  <2>2. moved \in CallRecords
    BY <2>1 DEF CallRecords, Places
  <2>3. calls' = [calls EXCEPT ![c] = moved]
    BY <2>1 DEF InsertRequest
  <2>4. calls' \in [Workers -> CallRecords]
    BY <2>1, <2>2, <2>3
  <2>5. request' \in [Prompts -> {"none", "PENDING", "SUCCESSFUL", "FAILED", "TIMED_OUT"}]
    BY DEF InsertRequest, TypeOK
  <2>6. calls[c].cost \in Prices \union {0}
    BY <2>1 DEF CallRecords
  <2>7. amount' \in [Prompts -> Prices \union {0}]
    BY <2>6 DEF InsertRequest, TypeOK
  <2>8. UNCHANGED <<payment_status, price, cash, aged, mtn, payouts>>
    BY DEF InsertRequest
  <2> QED BY <2>4, <2>5, <2>7, <2>8 DEF TypeOK, CallRecords
<1>2. HoldsPrompt'
  BY SMTT(30) DEF InsertRequest, HoldsPrompt, Row, TypeOK, Idle
<1>3. SentOnce'
  BY SMTT(30) DEF InsertRequest, SentOnce, HoldsPrompt, Row, TypeOK, Idle
<1>4. HeardIsTrue'
  BY SMTT(30) DEF InsertRequest, HeardIsTrue, HoldsPrompt, SentOnce, Row, TypeOK, Idle
<1>5. CreditsResolved'
  BY SMTT(30) DEF InsertRequest, CreditsResolved, HoldsPrompt, Row, TypeOK, Idle
<1>6. OneOutstanding'
  BY DEF InsertRequest, OneLiveIndex, OneOutstanding, Live, TypeOK
<1>7. NothingWithoutMoney'
  BY SMTT(30) DEF InsertRequest, NothingWithoutMoney, TypeOK
<1>8. CreditedByOne'
  BY SMTT(30) DEF InsertRequest, CreditedByOne, CreditsFor, CreditsResolved, HoldsPrompt, Row,
         TypeOK, Idle
<1> QED BY <1>1, <1>2, <1>3, <1>4, <1>5, <1>6, <1>7, <1>8

\* MTN is told of a reference it did not know, by its only sender.
LEMMA SendStep ==
    ASSUME PaymentsInv, NEW c \in Workers, SendPrompt(c) \/ AnswerLost(c)
    PROVE  PaymentsInv'
<1>1. TypeOK'
  <2>1. calls' \in [Workers -> CallRecords]
    BY GotoType DEF SendPrompt, AnswerLost, Places
  <2>2. mtn' \in [Prompts -> {"unknown", "waiting"} \union Verdicts]
    BY DEF SendPrompt, AnswerLost, TypeOK
  <2>3. UNCHANGED <<payment_status, price, cash, request, amount, aged, payouts>>
    BY DEF SendPrompt, AnswerLost, rows
  <2> QED BY <2>1, <2>2, <2>3 DEF TypeOK, CallRecords
<1>2. HoldsPrompt'
  BY SMTT(30) DEF SendPrompt, AnswerLost, HoldsPrompt, Row, TypeOK, Idle
<1>3. SentOnce'
  BY SMTT(30) DEF SendPrompt, AnswerLost, SentOnce, HoldsPrompt, Row, TypeOK, Idle
<1>4. HeardIsTrue'
  BY SMTT(30) DEF SendPrompt, AnswerLost, Verdicts, HeardIsTrue, HoldsPrompt, SentOnce, Row,
         TypeOK, Idle
<1>5. CreditsResolved'
  BY SMTT(30) DEF SendPrompt, AnswerLost, CreditsResolved, HoldsPrompt, Row, TypeOK, Idle
<1>6. OneOutstanding'
  BY DEF SendPrompt, AnswerLost, OneOutstanding, Live, TypeOK
<1>7. NothingWithoutMoney'
  BY SMTT(30) DEF SendPrompt, AnswerLost, SentOnce, HoldsPrompt, NothingWithoutMoney, TypeOK
<1>8. CreditedByOne'
  BY SMTT(30) DEF SendPrompt, AnswerLost, CreditedByOne, CreditsFor, CreditsResolved,
         HoldsPrompt, Row, TypeOK, Idle
<1> QED BY <1>1, <1>2, <1>3, <1>4, <1>5, <1>6, <1>7, <1>8

\* A refusal, a failed row or a pending order credits nobody.
LEMMA MarkStep ==
    ASSUME PaymentsInv, NEW c \in Workers,
           SendRefused(c) \/ MarkRefused(c) \/ MarkPending(c)
    PROVE  PaymentsInv'
<1>1. TypeOK'
  <2>1. calls' \in [Workers -> CallRecords]
    BY GotoType, ReturnType DEF SendRefused, MarkRefused, MarkPending, Places
  <2>2. request' \in [Prompts -> {"none", "PENDING", "SUCCESSFUL", "FAILED", "TIMED_OUT"}]
    BY DEF SendRefused, MarkRefused, MarkPending, TypeOK, rows
  <2>3. payment_status' \in {"UNPAID", "PENDING", "PAID", "FAILED"}
    BY DEF SendRefused, MarkRefused, MarkPending, TypeOK
  <2>4. UNCHANGED <<price, cash, amount, aged, mtn, payouts>>
    BY DEF SendRefused, MarkRefused, MarkPending, rows
  <2> QED BY <2>1, <2>2, <2>3, <2>4 DEF TypeOK, CallRecords
<1>2. HoldsPrompt'
  BY SMTT(30) DEF SendRefused, MarkRefused, MarkPending, HoldsPrompt, Row, TypeOK, Idle
<1>3. SentOnce'
  BY SMTT(30) DEF SendRefused, MarkRefused, MarkPending, SentOnce, HoldsPrompt, Row, TypeOK, Idle
<1>4. HeardIsTrue'
  BY SMTT(30) DEF SendRefused, MarkRefused, MarkPending, HeardIsTrue, HoldsPrompt, SentOnce, Row,
         TypeOK, Idle
<1>5. CreditsResolved'
  BY SMTT(30) DEF SendRefused, MarkRefused, MarkPending, CreditsResolved, HoldsPrompt, Row,
         TypeOK, Idle
<1>6. OneOutstanding'
  BY DEF SendRefused, MarkRefused, MarkPending, OneOutstanding, Live, TypeOK
<1>7. NothingWithoutMoney'
  BY SMTT(30) DEF SendRefused, MarkRefused, MarkPending, NothingWithoutMoney, TypeOK
<1>8. CreditedByOne'
  BY SMTT(30) DEF SendRefused, MarkRefused, MarkPending, CreditedByOne, CreditsFor,
         CreditsResolved, HoldsPrompt, Row, TypeOK, Idle
<1> QED BY <1>1, <1>2, <1>3, <1>4, <1>5, <1>6, <1>7, <1>8

\* A verdict heard is MTN's own.
LEMMA HearStep ==
    ASSUME PaymentsInv, NEW c \in Workers, NEW p \in Prompts, HearVerdict(c, p)
    PROVE  PaymentsInv'
<1>1. TypeOK'
  <2> DEFINE heard == [Idle EXCEPT !.at = "settling", !.prompt = p, !.verdict = mtn[p]]
  <2>1. heard \in CallRecords
    BY DEF HearVerdict, Idle, CallRecords, Places
  <2>2. calls' \in [Workers -> CallRecords]
    BY <2>1, PutType DEF HearVerdict
  <2>3. UNCHANGED <<payment_status, price, cash, request, amount, aged, mtn, payouts>>
    BY DEF HearVerdict, rows
  <2> QED BY <2>2, <2>3 DEF TypeOK, CallRecords
<1>2. HoldsPrompt'
  BY SMTT(30) DEF HearVerdict, Outstanding, HoldsPrompt, Row, TypeOK, Idle
<1>3. SentOnce'
  BY SMTT(30) DEF HearVerdict, Outstanding, SentOnce, HoldsPrompt, Row, TypeOK, Idle
<1>4. HeardIsTrue'
  BY SMTT(30) DEF HearVerdict, Outstanding, HeardIsTrue, HoldsPrompt, SentOnce, Row, TypeOK, Idle
<1>5. CreditsResolved'
  BY SMTT(30) DEF HearVerdict, Outstanding, CreditsResolved, HoldsPrompt, Row, TypeOK, Idle
<1>6. OneOutstanding'
  BY DEF HearVerdict, OneOutstanding, Live, TypeOK
<1>7. NothingWithoutMoney'
  BY SMTT(30) DEF HearVerdict, Outstanding, NothingWithoutMoney, TypeOK
<1>8. CreditedByOne'
  BY SMTT(30) DEF HearVerdict, Outstanding, CreditedByOne, CreditsFor, CreditsResolved, HoldsPrompt, Row,
         TypeOK, Idle
<1> QED BY <1>1, <1>2, <1>3, <1>4, <1>5, <1>6, <1>7, <1>8

\* The guarded UPDATE lets one call past.
LEMMA SettleStep ==
    ASSUME PaymentsInv, NEW c \in Workers, SettleRequest(c)
    PROVE  PaymentsInv'
<1>1. TypeOK'
  <2>1. calls' \in [Workers -> CallRecords]
    BY GotoType, ReturnType DEF SettleRequest, Places
  <2>2. request' \in [Prompts -> {"none", "PENDING", "SUCCESSFUL", "FAILED", "TIMED_OUT"}]
    BY DEF SettleRequest, Outcome, TypeOK
  <2>3. UNCHANGED <<payment_status, price, cash, amount, aged, mtn, payouts>>
    BY DEF SettleRequest
  <2> QED BY <2>1, <2>2, <2>3 DEF TypeOK, CallRecords
<1>2. HoldsPrompt'
  BY SMTT(30) DEF SettleRequest, StillPending, Outcome, HoldsPrompt, Row, TypeOK, Idle
<1>3. SentOnce'
  BY SMTT(30) DEF SettleRequest, StillPending, Outcome, SentOnce, HoldsPrompt, Row, TypeOK, Idle
<1>4. HeardIsTrue'
  BY SMTT(30) DEF SettleRequest, StillPending, Outcome, HeardIsTrue, HoldsPrompt, SentOnce, Row,
         TypeOK, Idle
<1>5. CreditsResolved'
  BY SMTT(30) DEF SettleRequest, StillPending, Outcome, CreditsResolved, HoldsPrompt, Row,
         TypeOK, Idle
<1>6. OneOutstanding'
  BY DEF SettleRequest, StillPending, Outcome, OneOutstanding, Live, TypeOK
<1>7. NothingWithoutMoney'
  BY SMTT(30) DEF SettleRequest, StillPending, Outcome, NothingWithoutMoney, TypeOK
<1>8. CreditedByOne'
  BY SMTT(30) DEF SettleRequest, StillPending, Outcome, CreditedByOne, CreditsFor,
         CreditsResolved, HoldsPrompt, Row, TypeOK, Idle
<1> QED BY <1>1, <1>2, <1>3, <1>4, <1>5, <1>6, <1>7, <1>8

\* Only a SUCCESSFUL verdict credits the order or queues a payout.
LEMMA CreditStep ==
    ASSUME PaymentsInv, NEW c \in Workers, CreditOrder(c) \/ FailOrder(c) \/ QueuePayout(c)
    PROVE  PaymentsInv'
<1>1. TypeOK'
  <2>1. calls' \in [Workers -> CallRecords]
    BY GotoType, ReturnType DEF CreditOrder, FailOrder, QueuePayout, Places
  <2>2. payment_status' \in {"UNPAID", "PENDING", "PAID", "FAILED"}
    BY DEF CreditOrder, FailOrder, QueuePayout, TypeOK
  <2>3. payouts' \in SUBSET Prompts
    <3>1. CASE QueuePayout(c)
      <4>1. calls[c].prompt \in Prompts
        BY <3>1 DEF QueuePayout, At, HoldsPrompt
      <4> QED BY <3>1, <4>1 DEF QueuePayout, TypeOK
    <3>2. CASE ~QueuePayout(c)
      BY <3>2 DEF CreditOrder, FailOrder, TypeOK
    <3> QED BY <3>1, <3>2
  <2>4. UNCHANGED <<price, cash, request, amount, aged, mtn>>
    BY DEF CreditOrder, FailOrder, QueuePayout, rows
  <2> QED BY <2>1, <2>2, <2>3, <2>4 DEF TypeOK, CallRecords
<1>2. HoldsPrompt'
  BY SMTT(30) DEF CreditOrder, FailOrder, QueuePayout, Outcome, Verdicts, HeardIsTrue,
         HoldsPrompt, HoldsPrompt, Row, TypeOK, Idle
<1>3. SentOnce'
  BY SMTT(30) DEF CreditOrder, FailOrder, QueuePayout, Outcome, Verdicts, HeardIsTrue,
         HoldsPrompt, SentOnce, HoldsPrompt, Row, TypeOK, Idle
<1>4. HeardIsTrue'
  BY SMTT(30) DEF CreditOrder, FailOrder, QueuePayout, Outcome, Verdicts, HeardIsTrue,
         HoldsPrompt, HeardIsTrue, HoldsPrompt, SentOnce, Row, TypeOK, Idle
<1>5. CreditsResolved'
  BY SMTT(30) DEF CreditOrder, FailOrder, QueuePayout, Outcome, Verdicts, HeardIsTrue,
         HoldsPrompt, CreditsResolved, HoldsPrompt, Row, TypeOK, Idle
<1>6. OneOutstanding'
  BY DEF CreditOrder, FailOrder, QueuePayout, Outcome, Verdicts, HeardIsTrue,
         HoldsPrompt, OneOutstanding, Live, TypeOK
<1>7. NothingWithoutMoney'
  BY SMTT(30) DEF CreditOrder, FailOrder, QueuePayout, Outcome, Verdicts, HeardIsTrue,
         HoldsPrompt, NothingWithoutMoney, TypeOK
<1>8. CreditedByOne'
  BY SMTT(30) DEF CreditOrder, FailOrder, QueuePayout, Outcome, Verdicts, HeardIsTrue,
         HoldsPrompt, CreditedByOne, CreditsFor, CreditsResolved, HoldsPrompt, Row,
         TypeOK, Idle
<1> QED BY <1>1, <1>2, <1>3, <1>4, <1>5, <1>6, <1>7, <1>8

\* The sweep is one of the workers.
LEMMA SweepWorks == Sweep \in Workers
BY DEF Workers

\* Hearing that MTN still waits is no verdict.
LEMMA HearWaitingStep ==
    ASSUME PaymentsInv, NEW p \in Prompts, HearWaiting(p)
    PROVE  PaymentsInv'
<1>1. TypeOK'
  <2> DEFINE heard == [Idle EXCEPT !.at = "aging", !.prompt = p]
  <2>1. heard \in CallRecords
    BY DEF Idle, CallRecords, Places
  <2>2. calls' \in [Workers -> CallRecords]
    BY <2>1, PutType, SweepWorks DEF HearWaiting
  <2>3. UNCHANGED <<payment_status, price, cash, request, amount, aged, mtn, payouts>>
    BY DEF HearWaiting, rows
  <2> QED BY <2>2, <2>3 DEF TypeOK, CallRecords
<1>2. HoldsPrompt'
  BY SMTT(30), SweepWorks DEF HearWaiting, HoldsPrompt, Row, TypeOK, Idle
<1>3. SentOnce'
  BY SMTT(30), SweepWorks DEF HearWaiting, SentOnce, HoldsPrompt, Row, TypeOK, Idle
<1>4. HeardIsTrue'
  BY SMTT(30), SweepWorks DEF HearWaiting, HeardIsTrue, HoldsPrompt, SentOnce, Row, TypeOK, Idle
<1>5. CreditsResolved'
  BY SMTT(30), SweepWorks DEF HearWaiting, CreditsResolved, HoldsPrompt, Row, TypeOK, Idle
<1>6. OneOutstanding'
  BY SweepWorks DEF HearWaiting, OneOutstanding, Live, TypeOK
<1>7. NothingWithoutMoney'
  BY SMTT(30), SweepWorks DEF HearWaiting, NothingWithoutMoney, TypeOK
<1>8. CreditedByOne'
  BY SMTT(30), SweepWorks DEF HearWaiting, CreditedByOne, CreditsFor, CreditsResolved,
                    HoldsPrompt, Row, TypeOK, Idle
<1> QED BY <1>1, <1>2, <1>3, <1>4, <1>5, <1>6, <1>7, <1>8

\* Age alone resolves nothing.
LEMMA GrowOldStep ==
    ASSUME PaymentsInv, NEW p \in Prompts, GrowOld(p)
    PROVE  PaymentsInv'
<1>1. TypeOK'
  <2>1. UNCHANGED <<payment_status, price, cash, request, amount, mtn, payouts, calls>>
    BY DEF GrowOld
  <2>2. aged' \in SUBSET Prompts
    BY DEF GrowOld, TypeOK
  <2> QED BY <2>1, <2>2 DEF TypeOK
<1>2. HoldsPrompt'
  BY SMTT(30) DEF GrowOld, HoldsPrompt, Row, TypeOK, Idle
<1>3. SentOnce'
  BY SMTT(30) DEF GrowOld, SentOnce, HoldsPrompt, Row, TypeOK, Idle
<1>4. HeardIsTrue'
  BY SMTT(30) DEF GrowOld, HeardIsTrue, HoldsPrompt, SentOnce, Row, TypeOK, Idle
<1>5. CreditsResolved'
  BY SMTT(30) DEF GrowOld, CreditsResolved, HoldsPrompt, Row, TypeOK, Idle
<1>6. OneOutstanding'
  BY DEF GrowOld, OneOutstanding, Live, TypeOK
<1>7. NothingWithoutMoney'
  BY SMTT(30) DEF GrowOld, NothingWithoutMoney, TypeOK
<1>8. CreditedByOne'
  BY SMTT(30) DEF GrowOld, CreditedByOne, CreditsFor, CreditsResolved, HoldsPrompt, Row, TypeOK,
         Idle
<1> QED BY <1>1, <1>2, <1>3, <1>4, <1>5, <1>6, <1>7, <1>8

\* The sweep resolves a row that is still outstanding.
LEMMA TimeOutStep ==
    ASSUME PaymentsInv, TimeOut
    PROVE  PaymentsInv'
<1>1. TypeOK'
  <2>1. calls' \in [Workers -> CallRecords]
    BY ReturnType, SweepWorks DEF TimeOut
  <2>2. request' \in [Prompts -> {"none", "PENDING", "SUCCESSFUL", "FAILED", "TIMED_OUT"}]
    BY DEF TimeOut, TypeOK
  <2>3. UNCHANGED <<payment_status, price, cash, amount, aged, mtn, payouts>>
    BY DEF TimeOut
  <2> QED BY <2>1, <2>2, <2>3 DEF TypeOK, CallRecords
<1>2. HoldsPrompt'
  BY SMTT(30), SweepWorks DEF TimeOut, HoldsPrompt, Row, TypeOK, Idle
<1>3. SentOnce'
  BY SMTT(30), SweepWorks DEF TimeOut, SentOnce, HoldsPrompt, Row, TypeOK, Idle
<1>4. HeardIsTrue'
  BY SMTT(30), SweepWorks DEF TimeOut, HeardIsTrue, HoldsPrompt, SentOnce, Row, TypeOK, Idle
<1>5. CreditsResolved'
  BY SMTT(30), SweepWorks DEF TimeOut, CreditsResolved, HoldsPrompt, Row, TypeOK, Idle
<1>6. OneOutstanding'
  BY SweepWorks DEF TimeOut, OneOutstanding, Live, TypeOK
<1>7. NothingWithoutMoney'
  BY SMTT(30), SweepWorks DEF TimeOut, NothingWithoutMoney, TypeOK
<1>8. CreditedByOne'
  BY SMTT(30), SweepWorks DEF TimeOut, CreditedByOne, CreditsFor, CreditsResolved, HoldsPrompt,
                    Row, TypeOK, Idle
<1> QED BY <1>1, <1>2, <1>3, <1>4, <1>5, <1>6, <1>7, <1>8

\* The customer answers a prompt once, and no earlier verdict is touched.
LEMMA AnswerStep ==
    ASSUME PaymentsInv, NEW p \in Prompts, NEW verdict \in Verdicts, Answer(p, verdict)
    PROVE  PaymentsInv'
<1>1. TypeOK'
  <2>1. mtn' \in [Prompts -> {"unknown", "waiting"} \union Verdicts]
    BY DEF Answer, TypeOK
  <2>2. UNCHANGED <<payment_status, price, cash, request, amount, aged, payouts, calls>>
    BY DEF Answer, rows
  <2> QED BY <2>1, <2>2 DEF TypeOK
<1>2. HoldsPrompt'
  BY SMTT(30) DEF Answer, Verdicts, HoldsPrompt, Row, TypeOK, Idle
<1>3. SentOnce'
  BY SMTT(30) DEF Answer, Verdicts, SentOnce, HoldsPrompt, Row, TypeOK, Idle
<1>4. HeardIsTrue'
  BY SMTT(30) DEF Answer, Verdicts, HeardIsTrue, HoldsPrompt, SentOnce, Row, TypeOK, Idle
<1>5. CreditsResolved'
  BY SMTT(30) DEF Answer, Verdicts, CreditsResolved, HoldsPrompt, Row, TypeOK, Idle
<1>6. OneOutstanding'
  BY DEF Answer, Verdicts, OneOutstanding, Live, TypeOK
<1>7. NothingWithoutMoney'
  BY SMTT(30) DEF Answer, Verdicts, NothingWithoutMoney, TypeOK
<1>8. CreditedByOne'
  BY SMTT(30) DEF Answer, Verdicts, CreditedByOne, CreditsFor, CreditsResolved, HoldsPrompt, Row,
         TypeOK, Idle
<1> QED BY <1>1, <1>2, <1>3, <1>4, <1>5, <1>6, <1>7, <1>8

\* Cash is money too.
LEMMA CashStep ==
    ASSUME PaymentsInv, NEW c \in Workers, TakeCash(c)
    PROVE  PaymentsInv'
<1>1. TypeOK'
  <2>1. calls' \in [Workers -> CallRecords]
    BY ReturnType DEF TakeCash
  <2>2. /\ payment_status' \in {"UNPAID", "PENDING", "PAID", "FAILED"}
        /\ cash' \in BOOLEAN
    BY DEF TakeCash, TypeOK
  <2>3. UNCHANGED <<price, request, amount, aged, mtn, payouts>>
    BY DEF TakeCash, rows
  <2> QED BY <2>1, <2>2, <2>3 DEF TypeOK, CallRecords
<1>2. HoldsPrompt'
  BY SMTT(30) DEF TakeCash, HoldsPrompt, Row, TypeOK, Idle
<1>3. SentOnce'
  BY SMTT(30) DEF TakeCash, SentOnce, HoldsPrompt, Row, TypeOK, Idle
<1>4. HeardIsTrue'
  BY SMTT(30) DEF TakeCash, HeardIsTrue, HoldsPrompt, SentOnce, Row, TypeOK, Idle
<1>5. CreditsResolved'
  BY SMTT(30) DEF TakeCash, CreditsResolved, HoldsPrompt, Row, TypeOK, Idle
<1>6. OneOutstanding'
  BY DEF TakeCash, OneOutstanding, Live, TypeOK
<1>7. NothingWithoutMoney'
  BY SMTT(30) DEF TakeCash, NothingWithoutMoney, TypeOK
<1>8. CreditedByOne'
  BY SMTT(30) DEF TakeCash, CreditedByOne, CreditsFor, CreditsResolved, HoldsPrompt, Row, TypeOK,
         Idle
<1> QED BY <1>1, <1>2, <1>3, <1>4, <1>5, <1>6, <1>7, <1>8

\* A crash leaves the rows, and no call to act on them.
LEMMA CrashStep ==
    ASSUME PaymentsInv, Crash
    PROVE  PaymentsInv'
<1>1. TypeOK'
  <2>1. Idle \in CallRecords
    BY DEF Idle, CallRecords, Places
  <2>2. calls' \in [Workers -> CallRecords]
    BY <2>1 DEF Crash
  <2>3. UNCHANGED <<payment_status, price, cash, request, amount, aged, mtn, payouts>>
    BY DEF Crash, rows
  <2> QED BY <2>2, <2>3 DEF TypeOK, CallRecords
<1>2. HoldsPrompt'
  BY SMTT(30) DEF Crash, HoldsPrompt, Row, TypeOK, Idle
<1>3. SentOnce'
  BY SMTT(30) DEF Crash, SentOnce, HoldsPrompt, Row, TypeOK, Idle
<1>4. HeardIsTrue'
  BY SMTT(30) DEF Crash, HeardIsTrue, HoldsPrompt, SentOnce, Row, TypeOK, Idle
<1>5. CreditsResolved'
  BY SMTT(30) DEF Crash, CreditsResolved, HoldsPrompt, Row, TypeOK, Idle
<1>6. OneOutstanding'
  BY DEF Crash, OneOutstanding, Live, TypeOK
<1>7. NothingWithoutMoney'
  BY SMTT(30) DEF Crash, NothingWithoutMoney, TypeOK
<1>8. CreditedByOne'
  BY SMTT(30) DEF Crash, CreditedByOne, CreditsFor, CreditsResolved, HoldsPrompt, Row, TypeOK,
         Idle
<1> QED BY <1>1, <1>2, <1>3, <1>4, <1>5, <1>6, <1>7, <1>8

\* Every step keeps the invariant.
LEMMA PaymentsStep ==
    ASSUME PaymentsInv, [Next]_vars
    PROVE  PaymentsInv'
<1>1. ASSUME NEW c \in Calls, Begin(c)
      PROVE  PaymentsInv'
  <2>1. c \in Workers
    BY DEF Workers
  <2>2. UNCHANGED <<payment_status, price, cash, rows, mtn, payouts>>
    BY <1>1 DEF Begin, ReadOrder, CheckCash, CheckCommitted
  <2>3. price' \in Prices
    BY <2>2 DEF TypeOK
  <2>4. CASE ReadOrder(c)
    <3>1. [Idle EXCEPT !.at = "looking", !.cost = price] \in Quiets
      BY DEF Idle, Quiets, Quiescent, TypeOK
    <3> QED BY <2>1, <2>2, <2>3, <2>4, <3>1, QuietStep DEF ReadOrder
  <2>5. CASE CheckCash(c)
    <3>1. [Idle EXCEPT !.at = "taking"] \in Quiets
      BY DEF Idle, Quiets, Quiescent
    <3> QED BY <2>1, <2>2, <2>3, <2>5, <3>1, QuietStep DEF CheckCash
  <2>6. CASE CheckCommitted(c)
    <3>1. [Idle EXCEPT !.at = "placing"] \in Quiets
      BY DEF Idle, Quiets, Quiescent
    <3> QED BY <2>1, <2>2, <2>3, <2>6, <3>1, QuietStep DEF CheckCommitted
  <2> QED BY <1>1, <2>4, <2>5, <2>6 DEF Begin
<1>2. ASSUME NEW c \in Workers, Proceed(c)
      PROVE  PaymentsInv'
  <2>1. ASSUME UNCHANGED <<payment_status, cash, rows, mtn, payouts>>,
               price' \in Prices, NEW place \in Quiescent, Goto(c, place)
        PROVE  PaymentsInv'
    <3>1. calls' = [calls EXCEPT ![c] = [calls[c] EXCEPT !.at = place]]
      BY <2>1 DEF TypeOK
    <3>2. [calls[c] EXCEPT !.at = place] \in Quiets
      BY DEF TypeOK, Quiets
    <3> QED BY <2>1, <3>1, <3>2, QuietStep
  <2>2. ASSUME UNCHANGED <<payment_status, cash, rows, mtn, payouts>>,
               price' \in Prices, Return(c)
        PROVE  PaymentsInv'
    <3>1. Idle \in Quiets
      BY DEF Idle, Quiets, Quiescent
    <3> QED BY <2>2, <3>1, QuietStep
  <2>3. CASE FindPrompt(c)
    BY <2>1, <2>2, <2>3 DEF FindPrompt, TypeOK, Quiescent
  <2>4. CASE InsertRefused(c)
    BY <2>2, <2>4 DEF InsertRefused, TypeOK
  <2>5. ASSUME NEW total \in Prices, Reprice(c, total)
        PROVE  PaymentsInv'
    BY <2>2, <2>5 DEF Reprice
  <2> QED BY <1>2, <2>3, <2>4, <2>5, InsertStep, SendStep, MarkStep, SettleStep,
             CreditStep, CashStep DEF Proceed
<1>3. CASE UNCHANGED vars
  BY <1>3 DEF TypeOK, HoldsPrompt, Row, SentOnce, HeardIsTrue, CreditsResolved,
              OneOutstanding, Live, NothingWithoutMoney, CreditedByOne, CreditsFor
<1> QED
  BY <1>1, <1>2, <1>3, HearStep, HearWaitingStep, GrowOldStep, AnswerStep, TimeOutStep,
     CrashStep DEF Next

\* The invariant holds of every behaviour.
THEOREM PaymentsInvariant == Spec => []PaymentsInv
<1>1. PaymentsInv /\ [Next]_vars => PaymentsInv'
  BY PaymentsStep
<1> QED BY <1>1, PaymentsInit, PTL DEF Spec

\* However many calls, crashes and lost answers: no order is PAID and no earning
\* queued without money, no collection is credited by two calls, and no two
\* prompts are outstanding at once.
THEOREM MoneyIsSafe == Spec => [](NothingWithoutMoney /\ CreditedByOne /\ OneOutstanding)
<1>1. PaymentsInv => NothingWithoutMoney /\ CreditedByOne /\ OneOutstanding
  OBVIOUS
<1> QED BY <1>1, PaymentsInvariant, PTL

-----------------------------------------------------------------------------
(* The driver's earning *)

\* Past the guarded UPDATE, on its way to the payout: what a crash would lose.
Credits(c, p) ==
    /\ calls[c].at \in {"crediting", "paying"}
    /\ calls[c].prompt = p
    /\ calls[c].verdict = "SUCCESSFUL"

\* A collection that settled has its payout, or a call that is about to queue it.
EarningInHand ==
    \A p \in Prompts :
        request[p] = "SUCCESSFUL" => p \in payouts \/ \E c \in Workers : Credits(c, p)

\* A step of anybody else, that settles nothing, leaves it there.
LEMMA EarningStays ==
    ASSUME PaymentsInv, EarningInHand, NEW c \in Workers, NEW new,
           calls[c].at \notin {"crediting", "paying"},
           calls' = [calls EXCEPT ![c] = new],
           payouts' = payouts,
           \A p \in Prompts : request'[p] = "SUCCESSFUL" => request[p] = "SUCCESSFUL"
    PROVE  EarningInHand'
<1>1. \A d \in Workers, p \in Prompts : Credits(d, p) => Credits(d, p)'
  BY DEF Credits, TypeOK
<1> QED BY <1>1 DEF EarningInHand

\* The same for a step that moves no call.
LEMMA EarningUntouched ==
    ASSUME EarningInHand, UNCHANGED <<request, payouts, calls>>
    PROVE  EarningInHand'
BY DEF EarningInHand, Credits

\* The guarded UPDATE settles a row and goes on to credit it.
LEMMA EarningSettled ==
    ASSUME PaymentsInv, EarningInHand, NEW c \in Workers, SettleRequest(c)
    PROVE  EarningInHand'
<1> PICK p, verdict : p = calls[c].prompt /\ verdict = calls[c].verdict
  OBVIOUS
<1>1. /\ p \in Prompts /\ verdict \in Verdicts /\ payouts' = payouts
      /\ calls \in [Workers -> CallRecords] /\ request \in [Prompts ->
             {"none", "PENDING", "SUCCESSFUL", "FAILED", "TIMED_OUT"}]
  BY DEF SettleRequest, HoldsPrompt, HeardIsTrue, TypeOK, CallRecords
<1>2. CASE StillPending(p) /\ verdict = "SUCCESSFUL"
  <2>1. /\ request' = [request EXCEPT ![p] = "SUCCESSFUL"]
        /\ calls' = [calls EXCEPT ![c].at = "crediting"]
    BY <1>2 DEF SettleRequest, Outcome
  <2>2. Credits(c, p)'
    BY <1>1, <1>2, <2>1 DEF Credits, CallRecords
  <2>3. \A d \in Workers, q \in Prompts : q # p /\ Credits(d, q) => Credits(d, q)'
    BY <1>1, <2>1 DEF Credits, SettleRequest
  <2>4. \A q \in Prompts : q # p => request'[q] = request[q]
    BY <1>1, <2>1
  <2> QED
    <3> SUFFICES ASSUME NEW q \in Prompts, request'[q] = "SUCCESSFUL"
                 PROVE  q \in payouts' \/ \E d \in Workers : Credits(d, q)'
      BY DEF EarningInHand
    <3>1. CASE q = p
      BY <2>2, <3>1
    <3>2. CASE q # p
      BY <1>1, <2>3, <2>4, <3>2 DEF EarningInHand
    <3> QED BY <3>1, <3>2
<1>3. CASE ~(StillPending(p) /\ verdict = "SUCCESSFUL")
  <2>1. \A q \in Prompts : request'[q] = "SUCCESSFUL" => request[q] = "SUCCESSFUL"
    BY <1>1, <1>3 DEF SettleRequest, Outcome
  <2>2. \E new : calls' = [calls EXCEPT ![c] = new]
    <3>1. [calls EXCEPT ![c].at = "crediting"]
             = [calls EXCEPT ![c] = [calls[c] EXCEPT !.at = "crediting"]]
      BY <1>1
    <3> QED BY <3>1 DEF SettleRequest
  <2>3. calls[c].at \notin {"crediting", "paying"}
    BY DEF SettleRequest
  <2> QED BY <1>1, <2>1, <2>2, <2>3, EarningStays
<1> QED BY <1>2, <1>3

\* The order is credited before the payout is queued, and only a verdict that
\* settled nothing fails it.
LEMMA EarningCredited ==
    ASSUME PaymentsInv, EarningInHand, NEW c \in Workers,
           CreditOrder(c) \/ FailOrder(c) \/ QueuePayout(c)
    PROVE  EarningInHand'
<1>1. request' = request /\ calls \in [Workers -> CallRecords]
  BY DEF CreditOrder, FailOrder, QueuePayout, TypeOK, CallRecords
<1>2. CASE CreditOrder(c)
  <2>1. calls' = [calls EXCEPT ![c].at = "paying"] /\ payouts' = payouts
    BY <1>2 DEF CreditOrder
  <2>2. \A d \in Workers, q \in Prompts : Credits(d, q) => Credits(d, q)'
    BY <1>1, <2>1 DEF Credits, CallRecords
  <2> QED BY <1>1, <2>1, <2>2 DEF EarningInHand
<1>3. CASE FailOrder(c)
  <2>1. calls' = [calls EXCEPT ![c] = Idle] /\ payouts' = payouts
    BY <1>3 DEF FailOrder
  <2>2. calls[c].verdict # "SUCCESSFUL"
    BY <1>3 DEF FailOrder, Outcome
  <2>3. \A d \in Workers, q \in Prompts : Credits(d, q) => Credits(d, q)'
    BY <1>1, <2>1, <2>2 DEF Credits
  <2> QED BY <1>1, <2>1, <2>3 DEF EarningInHand
<1>4. CASE QueuePayout(c)
  <2>1. /\ calls' = [calls EXCEPT ![c] = Idle]
        /\ payouts' = payouts \union {calls[c].prompt}
    BY <1>4 DEF QueuePayout
  <2>2. \A d \in Workers, q \in Prompts : Credits(d, q) => Credits(d, q)' \/ q \in payouts'
    BY <1>1, <2>1 DEF Credits
  <2> QED BY <1>1, <2>1, <2>2 DEF EarningInHand
<1> QED BY <1>2, <1>3, <1>4

\* A call that has not settled anything yet settles nothing here.
LEMMA EarningWaits ==
    ASSUME PaymentsInv, EarningInHand, NEW c \in Workers,
           \/ Begin(c) \/ FindPrompt(c) \/ InsertRefused(c)
           \/ \E p \in Prompts : InsertRequest(c, p) \/ HearVerdict(c, p)
           \/ SendPrompt(c) \/ SendRefused(c) \/ AnswerLost(c)
           \/ MarkRefused(c) \/ MarkPending(c) \/ TakeCash(c)
           \/ \E total \in Prices : Reprice(c, total)
    PROVE  EarningInHand'
<1>1. /\ calls[c].at \notin {"crediting", "paying"} /\ payouts' = payouts
  BY DEF Begin, ReadOrder, CheckCash, CheckCommitted, FindPrompt, InsertRefused, InsertRequest,
         HearVerdict, SendPrompt, SendRefused, AnswerLost, MarkRefused, MarkPending, TakeCash,
         Reprice
<1>2. \A p \in Prompts : request'[p] = "SUCCESSFUL" => request[p] = "SUCCESSFUL"
  BY DEF Begin, ReadOrder, CheckCash, CheckCommitted, FindPrompt, InsertRefused, InsertRequest,
         HearVerdict, SendPrompt, SendRefused, AnswerLost, MarkRefused, MarkPending, TakeCash,
         Reprice, TypeOK
<1>3. \E new : calls' = [calls EXCEPT ![c] = new]
  <2>1. calls \in [Workers -> CallRecords]
    BY DEF TypeOK, CallRecords
  <2>2. \A place \in Places :
           [calls EXCEPT ![c].at = place] = [calls EXCEPT ![c] = [calls[c] EXCEPT !.at = place]]
    BY <2>1
  <2>3. \A p \in Prompts : [calls EXCEPT ![c].at = "sending", ![c].prompt = p]
           = [calls EXCEPT ![c] = [calls[c] EXCEPT !.at = "sending", !.prompt = p]]
    BY <2>1
  <2> QED BY <2>2, <2>3 DEF Places, Begin, ReadOrder, CheckCash, CheckCommitted, FindPrompt,
                InsertRefused, InsertRequest, HearVerdict, SendPrompt, SendRefused, AnswerLost,
                MarkRefused, MarkPending, TakeCash, Reprice
<1> QED BY <1>1, <1>2, <1>3, EarningStays

\* Unless the process dies, every step keeps it in hand.
LEMMA EarningStep ==
    ASSUME PaymentsInv, EarningInHand, "crash" \notin Faults, [Next]_vars
    PROVE  EarningInHand'
<1>1. ASSUME NEW c \in Calls, Begin(c)
      PROVE  EarningInHand'
  BY <1>1, EarningWaits DEF Workers
<1>2. ASSUME NEW c \in Workers, Proceed(c)
      PROVE  EarningInHand'
  BY <1>2, EarningWaits, EarningSettled, EarningCredited DEF Proceed
<1>3. ASSUME NEW c \in Workers, NEW p \in Prompts, HearVerdict(c, p)
      PROVE  EarningInHand'
  BY <1>3, EarningWaits
<1>4. ASSUME NEW p \in Prompts, HearWaiting(p)
      PROVE  EarningInHand'
  <2>1. /\ calls[Sweep].at \notin {"crediting", "paying"} /\ payouts' = payouts
        /\ request' = request
    BY <1>4 DEF HearWaiting
  <2>2. \E new : calls' = [calls EXCEPT ![Sweep] = new]
    BY <1>4 DEF HearWaiting
  <2> QED BY <2>1, <2>2, SweepWorks, EarningStays
<1>5. ASSUME NEW p \in Prompts, GrowOld(p) \/ \E verdict \in Verdicts : Answer(p, verdict)
      PROVE  EarningInHand'
  BY <1>5, EarningUntouched DEF GrowOld, Answer
<1>6. CASE TimeOut
  <2>1. /\ calls[Sweep].at \notin {"crediting", "paying"} /\ payouts' = payouts
        /\ calls' = [calls EXCEPT ![Sweep] = Idle]
    BY <1>6 DEF TimeOut
  <2>2. \A p \in Prompts : request'[p] = "SUCCESSFUL" => request[p] = "SUCCESSFUL"
    BY <1>6 DEF TimeOut, TypeOK
  <2> QED BY <2>1, <2>2, SweepWorks, EarningStays
<1>7. ~Crash
  BY DEF Crash
<1>8. CASE UNCHANGED vars
  BY <1>8, EarningUntouched
<1> QED BY <1>1, <1>2, <1>3, <1>4, <1>5, <1>6, <1>7, <1>8 DEF Next

\* As long as the process does not die between two statements, a collection that
\* settled has its payout once the calls about it are over, however the webhook,
\* the polls and the sweep interleave and whatever answers of MTN are lost.
THEOREM SettledIsQueued ==
    ASSUME "crash" \notin Faults
    PROVE  Spec => []EarningQueued
<1>1. Init => EarningInHand
  BY DEF Init, EarningInHand
<1>2. PaymentsInv /\ EarningInHand /\ [Next]_vars => EarningInHand'
  BY EarningStep
<1>3. EarningInHand => EarningQueued
  BY DEF EarningInHand, EarningQueued, Quiet, Credits
<1> QED BY <1>1, <1>2, <1>3, PaymentsInvariant, PTL DEF Spec
=============================================================================
